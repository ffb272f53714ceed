---------------------------- MODULE PaymentSteps ----------------------------
(***************************************************************************)
(* The inductive invariant of PaymentExecution, and the proof that every   *)
(* step but the claim preserves it: the steps a worker takes on its own    *)
(* view, those that write an attempt row or settle a work item, those that *)
(* end a payment, create a replacement or reach the network, and those of  *)
(* operators.  The last section shows what each step is for WorkQueue.     *)
(*                                                                         *)
(* IInv says what a worker may rely on although its view is stale          *)
(* (WorkerInv), what the durable rows say about the network (RowsInv), and *)
(* how evidence and terminal states relate to it (OutcomeInv).  WorkerInv  *)
(* takes the shared state it mentions as arguments: a step of another      *)
(* worker only makes that state grow (Grows), and WorkerInv survives growth *)
(* (GrowthKeepsWorkerInv), so each action has to be examined for its own   *)
(* worker alone.                                                           *)
(***************************************************************************)
EXTENDS PaymentExecution, TLAPS

\* A leaf is left to Zenon, unless it names SMT: those need arithmetic, or terms of
\* records and functions that Zenon does not simplify.
USE ZenonT(60)

-----------------------------------------------------------------------------
(* Rows of the work queue (the lemmas WorkQueueProofs has for the queue by  *)
(* itself, in the context of the payment).                                  *)

\* Unleased (the part that completeWorkItem, markWorkItemExhausted,
\* retryWorkItem and deferWorkItem share) only changes the status and the lease.
LEMMA UnleasedFields ==
    ASSUME NEW it \in WorkItem, NEW st \in WorkStatuses
    PROVE  /\ Unleased(it, st) \in WorkItem
           /\ Unleased(it, st).status = st
           /\ Unleased(it, st).attempts = it.attempts
           /\ Unleased(it, st).recoveries = it.recoveries
<1>1. 0 \in 0..LeaseTicks
  BY SMTT(30), WorkItemsAssumption
<1> QED
  BY <1>1 DEF Unleased, WorkItem

\* claimWorkItem increments attempt_count, or lease_recovery_count once the
\* attempts are spent.
LEMMA ClaimedFields ==
    ASSUME NEW it \in WorkItem, NEW w \in Workers
    PROVE  LET spent == it.attempts >= MaxAttempts IN
           /\ Claimed(it, w) \in WorkItem
           /\ Claimed(it, w).status = "CLAIMED"
           /\ Claimed(it, w).attempts = IF spent THEN it.attempts ELSE it.attempts + 1
           /\ Claimed(it, w).recoveries = IF spent THEN it.recoveries + 1
                                          ELSE it.recoveries
<1> DEFINE a == IF it.attempts >= MaxAttempts THEN it.attempts ELSE it.attempts + 1
           b == IF it.attempts >= MaxAttempts THEN it.recoveries + 1 ELSE it.recoveries
<1>1. a \in Int /\ b \in Int /\ LeaseTicks \in 0..LeaseTicks
  BY SMTT(30), WorkItemsAssumption DEF WorkItem
<1>2. Claimed(it, w) = [it EXCEPT !.status = "CLAIMED", !.owner = w,
                                  !.lease = LeaseTicks, !.attempts = a,
                                  !.recoveries = b]
  BY DEF Claimed
<1> HIDE DEF a, b
<1>3. Claimed(it, w) \in WorkItem
  BY <1>1, <1>2 DEF WorkItem, WorkStatuses
<1>4. /\ Claimed(it, w).status = "CLAIMED"
      /\ Claimed(it, w).attempts = a
      /\ Claimed(it, w).recoveries = b
  BY <1>2 DEF WorkItem
<1> QED
  BY <1>3, <1>4 DEF a, b

\* Every operation returns a well-formed row.
LEMMA RowsTyped ==
    ASSUME NEW it \in WorkItem
    PROVE  /\ Completed(it) \in WorkItem
           /\ Exhausted(it) \in WorkItem
           /\ \A kind \in WorkKinds : Retried(it, kind) \in WorkItem
           /\ Deferred(it) \in WorkItem
<1>1. Completed(it) \in WorkItem /\ Exhausted(it) \in WorkItem
  BY UnleasedFields DEF Completed, Exhausted, WorkStatuses
<1> DEFINE u == Unleased(it, "RETRY_WAIT")
           a == IF RecoveringExpiredLease(it) THEN u.attempts ELSE u.attempts - 1
           b == IF RecoveringExpiredLease(it) THEN u.recoveries - 1 ELSE u.recoveries
<1>2. u \in WorkItem
  BY UnleasedFields DEF WorkStatuses
<1>3. Deferred(it) = [u EXCEPT !.attempts = a, !.recoveries = b]
  BY DEF Deferred
<1>4. \A kind \in WorkKinds : Retried(it, kind) = [u EXCEPT !.kind = kind]
  BY DEF Retried
<1> HIDE DEF u
<1>5. a \in Int /\ b \in Int
  BY SMTT(30), <1>2 DEF WorkItem
<1> HIDE DEF a, b
<1>6. Deferred(it) \in WorkItem
  BY <1>2, <1>3, <1>5 DEF WorkItem
<1>7. \A kind \in WorkKinds : Retried(it, kind) \in WorkItem
  BY SMTT(30), <1>2, <1>4 DEF WorkItem
<1> QED
  BY <1>1, <1>6, <1>7

-----------------------------------------------------------------------------
(* The inductive invariant. *)

\* Steps between the durable prepared effect and the end of the claim.
Holding == {"signingRequest", "guardSign", "sign", "persistSigned",
            "completeRequest", "recheck", "guardSubmit", "observe", "send",
            "update", "reconcile", "height"}

AfterSigning == {"completeRequest", "recheck", "guardSubmit", "observe", "send"}

\* What holds of a worker's local state s, given the number na of attempts, the
\* attempt rows at and the network state ch.
WorkerInv(s, na, at, ch) ==
    /\ s.pc # "idle" => s.item # 0
    /\ s.n <= na
    /\ s.pc \notin {"idle", "load", "view", "viewClosed"} => s.n # 0
    /\ s.signed => s.n # 0 /\ at[s.n].signed
    /\ s.pc \in Holding \/ s.replace =>
           s.n # 0 /\ s.effect # NoEffect /\ at[s.n].effect = s.effect
    /\ s.pc \in AfterSigning => at[s.n].signed
    /\ s.pc \in {"guardPrepare", "prepare"} =>
           s.effect = NoEffect \/ at[s.n].effect = s.effect
    /\ \/ s.pc = "persistPrepared"
       \/ s.pc \in {"guardPrepare", "prepare"} /\ s.effect = NoEffect
       => s.av <= at[s.n].rv /\ (at[s.n].rv = s.av => at[s.n].effect = NoEffect)
    /\ s.pc = "persistPrepared" => s.effect # NoEffect
    /\ s.replace => /\ s.pc \in {"finalizeCheck", "finalizeWrite", "complete"}
                    /\ s.n < NRoutes
                    /\ RpcSnapshot => ch[s.effect] \in Dead
    /\ s.pc \in {"finalizeCheck", "finalizeWrite"} =>
           /\ s.goal \in {"CONFIRMED", "FAILED", "PROVED_NO_EFFECT"}
           /\ s.goal = "CONFIRMED" => s.effect # NoEffect /\ ch[s.effect] = "landed"
    /\ s.pc \in {"update", "project"} => s.goal \in {"SUBMITTED", "UNKNOWN"}
    /\ RpcSnapshot /\ s.pc = "height" => ch[s.effect] \in {"none", "inflight", "expired"}

WorkersInv == \A w \in Workers : WorkerInv(workers[w], nAttempts, attempts, chain)

\* What the durable attempt rows say about the network.
RowsInv ==
    /\ \A n \in AttemptNumbers :
           attempts[n].signed \/ attempts[n].outcome \in {"SUBMITTED", "UNKNOWN"} =>
               attempts[n].effect # NoEffect
    /\ \A n \in 1..(nAttempts - 1) :
           /\ attempts[n].effect # NoEffect
           /\ RpcSnapshot => chain[attempts[n].effect] \in Dead
    /\ SentOnlyIfDurable

OutcomeInv ==
    /\ ConfirmedHasEffect
    /\ \A n \in AttemptNumbers : <<n, "CONFIRMED">> \in evidence =>
           \E e \in Effects : chain[e] = "landed"
    /\ TerminalNotHeld

IInv == TypeOK /\ WorkersInv /\ RowsInv /\ OutcomeInv

-----------------------------------------------------------------------------
\* The shared state a step may leave behind: attempts are only added, prepared
\* effects and signatures stay, every change of an effect bumps row_version, and
\* a transaction that is dead or has landed stays so.
Grows(na, at, ch, na2, at2, ch2) ==
    /\ na <= na2
    /\ \A n \in AttemptNumbers :
           /\ at[n].effect # NoEffect => at2[n].effect = at[n].effect
           /\ at[n].signed => at2[n].signed
           /\ at[n].rv <= at2[n].rv
           /\ at2[n].rv = at[n].rv => at2[n].effect = at[n].effect
    /\ \A e \in Effects : ch[e] \in Dead \cup {"landed"} => ch2[e] = ch[e]

\* Nothing is executed: what was unknown to the network is still unknown.
NothingExecuted(ch, ch2) ==
    \A e \in Effects : ch[e] \in {"none", "inflight", "expired"} =>
                           ch2[e] \in {"none", "inflight", "expired"}

\* A worker's invariant survives what other processes do to the shared state.
LEMMA GrowthKeepsWorkerInv ==
    ASSUME NEW s \in WorkerState,
           NEW na \in AttemptNumbers, NEW na2 \in AttemptNumbers,
           NEW at \in [AttemptNumbers -> Attempt], NEW at2 \in [AttemptNumbers -> Attempt],
           NEW ch, NEW ch2,
           Grows(na, at, ch, na2, at2, ch2),
           RpcSnapshot /\ s.pc = "height" => NothingExecuted(ch, ch2),
           WorkerInv(s, na, at, ch)
    PROVE  WorkerInv(s, na2, at2, ch2)
<1>1. s.n \in 0..NRoutes /\ s.effect \in Effects \cup {NoEffect} /\ s.av \in Nat
  BY DEF WorkerState
<1>2. s.n <= na2
  BY SMTT(30), <1>1 DEF Grows, WorkerInv, AttemptNumbers
<1>3. s.n # 0 => s.n \in AttemptNumbers
  BY SMTT(30), <1>1, PaymentExecutionAssumption DEF AttemptNumbers
<1>4. s.n # 0 => at[s.n].rv \in Nat /\ at2[s.n].rv \in Nat
  BY <1>3 DEF Attempt
<1>5. ASSUME s.n # 0, at[s.n].signed PROVE at2[s.n].signed
  BY <1>3, <1>5 DEF Grows
<1>6. ASSUME s.n # 0, s.effect # NoEffect, at[s.n].effect = s.effect
      PROVE  at2[s.n].effect = s.effect
  BY <1>3, <1>6 DEF Grows
<1>7. ASSUME s.n # 0, s.av <= at[s.n].rv,
             at[s.n].rv = s.av => at[s.n].effect = NoEffect
      PROVE  s.av <= at2[s.n].rv /\ (at2[s.n].rv = s.av => at2[s.n].effect = NoEffect)
  BY SMTT(30), <1>1, <1>3, <1>4, <1>7 DEF Grows
<1>8. ASSUME s.effect # NoEffect, ch[s.effect] \in Dead \cup {"landed"}
      PROVE  ch2[s.effect] = ch[s.effect]
  BY <1>1, <1>8 DEF Grows
<1>9. ASSUME RpcSnapshot, s.pc = "height" PROVE ch2[s.effect] \in {"none", "inflight", "expired"}
  BY <1>1, <1>9 DEF NothingExecuted, WorkerInv, Holding
<1> QED
  BY <1>2, <1>5, <1>6, <1>7, <1>8, <1>9 DEF WorkerInv, Holding, AfterSigning

\* A worker that is idle holds nothing.
LEMMA IdleOK ==
    /\ Idle \in WorkerState
    /\ \A na \in AttemptNumbers : \A at, ch : WorkerInv(Idle, na, at, ch)
<1>1. 0 \in 0..NRoutes /\ 0 \in Nat
  BY SMTT(30), PaymentExecutionAssumption
<1>2. \A na \in AttemptNumbers : 0 <= na
  BY SMTT(30) DEF AttemptNumbers
<1>3. Idle \in WorkerState
  BY <1>1 DEF Idle, WorkerState, Steps, Outcomes, KeepKind
<1> QED
  BY SMTT(30), <1>2, <1>3 DEF WorkerInv, Idle, Holding, AfterSigning

\* A worker in which processClaimWithLease has thrown relies on nothing but its
\* claim.
LEMMA RaisedOK ==
    ASSUME NEW s \in WorkerState, NEW na \in AttemptNumbers, NEW at, NEW ch,
           NEW err \in {"RETRY", "NO_RETRY"},
           WorkerInv(s, na, at, ch), s.pc \notin {"idle", "load", "view", "viewClosed"}
    PROVE  Raised(s, err) \in WorkerState /\ WorkerInv(Raised(s, err), na, at, ch)
<1> DEFINE pc == IF s.rejects # 0 THEN "rejectRequest" ELSE "failure"
           t == [s EXCEPT !.pc = pc, !.err = err, !.replace = FALSE]
<1>0. pc \in {"rejectRequest", "failure"}
  OBVIOUS
<1> HIDE DEF pc
<1>1. t \in WorkerState
  BY <1>0 DEF WorkerState, Steps
<1>2. /\ t.pc \in {"rejectRequest", "failure"} /\ ~t.replace
      /\ t.item = s.item /\ t.n = s.n /\ t.signed = s.signed
  BY <1>0 DEF WorkerState
<1> HIDE DEF t
<1>3. WorkerInv(t, na, at, ch)
  BY <1>2 DEF WorkerInv, Holding, AfterSigning
<1>4. Raised(s, err) = IF s.failing THEN Idle ELSE t
  BY DEF Raised, t, pc
<1> QED
  BY <1>1, <1>3, <1>4, IdleOK

-----------------------------------------------------------------------------
\* TypeOK without the workers.
SharedTypeOK ==
    /\ payment \in Payment
    /\ attempts \in [AttemptNumbers -> Attempt]
    /\ nAttempts \in AttemptNumbers
    /\ reservation \in {"HELD", "CONSUMED", "RELEASED"}
    /\ evidence \subseteq AttemptNumbers \X {"CONFIRMED", "PROVED_NO_EFFECT"}
    /\ exception \in {"NONE", "OPEN", "ACKNOWLEDGED", "RESOLVED", "CLOSED_UNRESOLVED"}
    /\ items \in [AttemptNumbers -> WorkItem]
    /\ deferrals \in [AttemptNumbers -> Nat]
    /\ account \in [active: BOOLEAN, changes: Nat]
    /\ chain \in [Effects -> ChainStates]

\* The shared state of this step and of the next.
SharedGrows == Grows(nAttempts, attempts, chain, nAttempts', attempts', chain')

\* A step of worker w preserves the invariant if the shared state stays
\* well-formed and only grows, and w's own new state satisfies WorkerInv.
LEMMA WorkerMoves ==
    ASSUME IInv, NEW w \in Workers, NEW t \in WorkerState, Become(w, t),
           WorkerInv(t, nAttempts', attempts', chain'),
           SharedTypeOK', SharedGrows, NothingExecuted(chain, chain'),
           RowsInv', OutcomeInv'
    PROVE  IInv'
<1>1. workers \in [Workers -> WorkerState]
  BY DEF IInv, TypeOK
<1>2. workers' \in [Workers -> WorkerState]
  BY <1>1 DEF Become
<1>3. TypeOK'
  BY <1>2 DEF TypeOK, SharedTypeOK
<1>4. ASSUME NEW v \in Workers
      PROVE  WorkerInv(workers'[v], nAttempts', attempts', chain')
  <2>1. CASE v = w
    BY <1>1, <2>1 DEF Become
  <2>2. CASE v # w
    <3>1. workers'[v] = workers[v] /\ workers[v] \in WorkerState
      BY <1>1, <2>2 DEF Become
    <3>2. WorkerInv(workers[v], nAttempts, attempts, chain)
      BY DEF IInv, WorkersInv
    <3>3. /\ nAttempts \in AttemptNumbers /\ nAttempts' \in AttemptNumbers
          /\ attempts \in [AttemptNumbers -> Attempt]
          /\ attempts' \in [AttemptNumbers -> Attempt]
      BY DEF IInv, TypeOK, SharedTypeOK
    <3> QED
      BY <3>1, <3>2, <3>3, GrowthKeepsWorkerInv DEF SharedGrows
  <2> QED
    BY <2>1, <2>2
<1>5. WorkersInv'
  BY <1>4 DEF WorkersInv
<1> QED
  BY <1>3, <1>5 DEF IInv

\* A state that does not change grows.
LEMMA Stays ==
    ASSUME TypeOK
    PROVE  /\ Grows(nAttempts, attempts, chain, nAttempts, attempts, chain)
           /\ NothingExecuted(chain, chain)
<1>1. nAttempts <= nAttempts /\ \A n \in AttemptNumbers : attempts[n].rv <= attempts[n].rv
  BY SMTT(30) DEF TypeOK, AttemptNumbers, Attempt
<1> QED
  BY <1>1 DEF Grows, NothingExecuted

\* A step that only changes worker w.
LEMMA LocalStep ==
    ASSUME IInv, NEW w \in Workers, NEW t \in WorkerState, Become(w, t),
           WorkerInv(t, nAttempts, attempts, chain),
           UNCHANGED <<dbVars, items, deferrals, account, chain>>
    PROVE  IInv'
<1>1. SharedTypeOK'
  BY DEF IInv, TypeOK, SharedTypeOK, dbVars
<1>2. SharedGrows /\ NothingExecuted(chain, chain')
  BY Stays DEF IInv, SharedGrows, dbVars
<1>3. RowsInv'
  BY DEF IInv, RowsInv, SentOnlyIfDurable, dbVars
<1>4. OutcomeInv'
  BY DEF IInv, OutcomeInv, ConfirmedHasEffect, TerminalNotHeld, dbVars
<1>5. WorkerInv(t, nAttempts', attempts', chain')
  BY DEF dbVars
<1> QED
  BY <1>1, <1>2, <1>3, <1>4, <1>5, WorkerMoves

\* What a fresh view holds.
LEMMA ViewingOK ==
    ASSUME TypeOK, NEW s \in WorkerState
    PROVE  /\ Viewing(s) \in WorkerState
           /\ Viewing(s).n = nAttempts /\ Viewing(s).av = Current.rv
           /\ Viewing(s).effect = Current.effect /\ Viewing(s).signed = Current.signed
           /\ Viewing(s).outcome = Current.outcome
           /\ Viewing(s).pc = s.pc /\ Viewing(s).item = s.item
           /\ Viewing(s).goal = s.goal /\ Viewing(s).replace = s.replace
<1>1. /\ nAttempts \in 0..NRoutes /\ payment.rv \in Nat
      /\ Current \in Attempt
  BY SMTT(30), PaymentExecutionAssumption DEF TypeOK, AttemptNumbers, Payment, Current
<1>2. /\ Current.rv \in Nat /\ Current.outcome \in Outcomes
      /\ Current.effect \in Effects \cup {NoEffect} /\ Current.signed \in BOOLEAN
  BY <1>1 DEF Attempt
<1> QED
  BY <1>1, <1>2 DEF Viewing, WorkerState

\* A worker that throws, or stops, without having changed anything.
LEMMA RaiseLocal ==
    ASSUME IInv, NEW w \in Workers, NEW err \in {"RETRY", "NO_RETRY"}, Raise(w, err),
           workers[w].pc \notin {"idle", "load", "view", "viewClosed"},
           UNCHANGED <<dbVars, items, deferrals, account, chain>>
    PROVE  IInv'
<1>1. /\ workers[w] \in WorkerState /\ nAttempts \in AttemptNumbers
      /\ WorkerInv(workers[w], nAttempts, attempts, chain)
  BY DEF IInv, TypeOK, WorkersInv
<1>2. /\ Raised(workers[w], err) \in WorkerState
      /\ WorkerInv(Raised(workers[w], err), nAttempts, attempts, chain)
  BY <1>1, RaisedOK
<1> QED
  BY <1>2, LocalStep DEF Raise

\* The worker's view and claim are the same in s and t.
SameView(t, s) ==
    /\ t.item = s.item /\ t.n = s.n /\ t.av = s.av /\ t.outcome = s.outcome
    /\ t.effect = s.effect /\ t.signed = s.signed

\* Moving to another step, with a new goal or a new kind for a retry.
Moved(s, pc) == [s EXCEPT !.pc = pc]
MovedFor(s, pc, goal) == [s EXCEPT !.pc = pc, !.goal = goal]
MovedNext(s, pc, next) == [s EXCEPT !.pc = pc, !.next = next]

\* Setting the step changes nothing else.
LEMMA SetPc ==
    ASSUME NEW s \in WorkerState, NEW pc \in Steps
    PROVE  LET t == Moved(s, pc) IN
           /\ t \in WorkerState
           /\ t.pc = pc /\ t.replace = s.replace /\ t.goal = s.goal /\ SameView(t, s)
<1>1. Moved(s, pc) \in WorkerState
  BY DEF WorkerState, Moved
<1> QED
  BY <1>1 DEF WorkerState, SameView, Moved

\* Setting the step and the goal changes nothing else.
LEMMA SetPcGoal ==
    ASSUME NEW s \in WorkerState, NEW pc \in Steps, NEW goal \in Outcomes
    PROVE  LET t == MovedFor(s, pc, goal) IN
           /\ t \in WorkerState
           /\ t.pc = pc /\ t.replace = s.replace /\ t.goal = goal /\ SameView(t, s)
<1>1. MovedFor(s, pc, goal) \in WorkerState
  BY DEF WorkerState, MovedFor
<1> QED
  BY <1>1 DEF WorkerState, SameView, MovedFor

\* Setting the step and the kind for a retry changes nothing else.
LEMMA SetPcNext ==
    ASSUME NEW s \in WorkerState, NEW pc \in Steps, NEW next \in WorkKinds \cup {KeepKind}
    PROVE  LET t == MovedNext(s, pc, next) IN
           /\ t \in WorkerState
           /\ t.pc = pc /\ t.replace = s.replace /\ t.goal = s.goal /\ SameView(t, s)
<1>1. MovedNext(s, pc, next) \in WorkerState
  BY DEF WorkerState, MovedNext
<1> QED
  BY <1>1 DEF WorkerState, SameView, MovedNext

-----------------------------------------------------------------------------
\* The steps that change only their worker, one lemma each.

\* findPaymentView, the payment.
LEMMA LoadPaymentInv ==
    ASSUME IInv, NEW w \in Workers, LoadPayment(w)
    PROVE  IInv'
<1> DEFINE s == workers[w]
           pv == payment.rv
           pc == IF payment.status \in {"PROVED_NO_EFFECT", "CONFIRMED"}
                 THEN "viewClosed" ELSE "view"
           t == [s EXCEPT !.pv = pv, !.pc = pc]
<1>1. /\ s \in WorkerState /\ s.pc = "load"
      /\ WorkerInv(s, nAttempts, attempts, chain)
  BY DEF IInv, TypeOK, WorkersInv, LoadPayment, At
<1>2. pv \in Nat /\ pc \in {"view", "viewClosed"}
  BY DEF IInv, TypeOK, Payment
<1>3. Become(w, t)
  BY DEF LoadPayment
<1> HIDE DEF s, pv, pc
<1>4. t \in WorkerState
  BY <1>1, <1>2 DEF WorkerState, Steps
<1>5. /\ t.pc \in {"view", "viewClosed"} /\ t.replace = s.replace
      /\ t.item = s.item /\ t.n = s.n /\ t.signed = s.signed
  BY <1>1, <1>2 DEF WorkerState
<1> HIDE DEF t
<1>6. WorkerInv(t, nAttempts, attempts, chain)
  BY <1>1, <1>5 DEF WorkerInv, Holding, AfterSigning
<1> QED
  BY <1>3, <1>4, <1>6, LocalStep DEF LoadPayment

\* findPaymentView, the attempts.
LEMMA LoadViewInv ==
    ASSUME IInv, NEW w \in Workers, LoadView(w)
    PROVE  IInv'
<1> DEFINE u == Viewing(workers[w])
           pv == workers[w].pv
           v == [u EXCEPT !.pv = pv]
           pc == StepAfterLoad(w, v)
           next == IF pc = "retry" THEN "OUTGOING_PAYMENT_ATTEMPT" ELSE KeepKind
           t == MovedNext(v, pc, next)
<1>1. /\ workers[w] \in WorkerState /\ workers[w].pc \in {"view", "viewClosed"} /\ TypeOK
      /\ WorkerInv(workers[w], nAttempts, attempts, chain)
  BY DEF IInv, TypeOK, WorkersInv, LoadView
<1>2. /\ v \in WorkerState
      /\ v.n = nAttempts /\ v.av = attempts[nAttempts].rv
      /\ v.effect = attempts[nAttempts].effect /\ v.signed = attempts[nAttempts].signed
      /\ v.outcome = attempts[nAttempts].outcome
      /\ v.item = workers[w].item /\ v.replace = workers[w].replace
  <2>1. pv \in Nat
    BY <1>1 DEF WorkerState
  <2>2. /\ u \in WorkerState
        /\ u.n = nAttempts /\ u.av = attempts[nAttempts].rv
        /\ u.effect = attempts[nAttempts].effect /\ u.signed = attempts[nAttempts].signed
        /\ u.outcome = attempts[nAttempts].outcome
        /\ u.item = workers[w].item /\ u.replace = workers[w].replace
    BY <1>1, ViewingOK DEF Current
  <2> HIDE DEF u, pv
  <2> QED
    BY <2>1, <2>2 DEF WorkerState
<1>3. Become(w, t)
  BY DEF LoadView, MovedNext
<1> HIDE DEF v
<1>4. /\ pc \in {"complete", "reconcile", "retry", "guardPrepare"}
      /\ pc = "reconcile" => v.outcome \in {"SUBMITTED", "UNKNOWN"}
  BY DEF StepAfterLoad
<1>5. pc \in Steps /\ next \in WorkKinds \cup {KeepKind}
  BY <1>4 DEF WorkKinds, Steps
<1> HIDE DEF pc, next
<1>6. t \in WorkerState /\ t.pc = pc /\ t.replace = v.replace /\ SameView(t, v)
  BY <1>2, <1>5, SetPcNext
<1> HIDE DEF t
<1>7. /\ nAttempts \in AttemptNumbers /\ nAttempts # 0 /\ nAttempts <= nAttempts
      /\ attempts[nAttempts].rv <= attempts[nAttempts].rv
  BY SMTT(30), <1>1 DEF TypeOK, AttemptNumbers, Attempt
<1>8. pc = "reconcile" => t.effect # NoEffect
  BY <1>2, <1>4, <1>6, <1>7 DEF IInv, RowsInv, SameView
<1>9. WorkerInv(t, nAttempts, attempts, chain)
  <2>1. workers[w].item # 0 /\ ~workers[w].replace
    BY <1>1 DEF WorkerInv
  <2>2. /\ t.item # 0 /\ t.n = nAttempts /\ t.av = attempts[nAttempts].rv
        /\ t.effect = attempts[nAttempts].effect /\ t.signed = attempts[nAttempts].signed
        /\ ~t.replace
    BY <1>2, <1>6, <2>1 DEF SameView
  <2> QED
    BY <1>4, <1>6, <1>7, <1>8, <2>2 DEF WorkerInv, Holding, AfterSigning
<1> QED
  BY <1>3, <1>6, <1>9, LocalStep DEF LoadView

\* ensureActiveBeforeEffect.
LEMMA EnsureActiveInv ==
    ASSUME IInv, NEW w \in Workers, NEW here, NEW next,
           <<here, next>> \in {<<"guardPrepare", "prepare">>, <<"guardSign", "sign">>,
                               <<"guardSubmit", "observe">>},
           EnsureActive(w, here, next)
    PROVE  IInv'
<1> DEFINE s == workers[w]
           v == Viewing(s)
<1>0. UNCHANGED <<dbVars, items, deferrals, account, chain>>
  BY DEF EnsureActive
<1>1. /\ s \in WorkerState /\ s.pc = here /\ TypeOK
      /\ WorkerInv(s, nAttempts, attempts, chain)
  BY DEF IInv, TypeOK, WorkersInv, EnsureActive, At
<1>2. /\ here \in {"guardPrepare", "guardSign", "guardSubmit"} /\ next \in Steps
      /\ here = "guardPrepare" => next = "prepare"
      /\ here = "guardSign" => next = "sign"
      /\ here = "guardSubmit" => next = "observe"
  BY DEF Steps
<1>3. /\ v \in WorkerState
      /\ v.n = nAttempts /\ v.av = attempts[nAttempts].rv
      /\ v.effect = attempts[nAttempts].effect /\ v.signed = attempts[nAttempts].signed
      /\ v.item = s.item /\ v.replace = s.replace
  BY <1>1, ViewingOK DEF Current
<1>4. nAttempts \in AttemptNumbers /\ nAttempts # 0 /\ nAttempts <= nAttempts
  BY SMTT(30), <1>1 DEF TypeOK, AttemptNumbers
<1>5. CASE Goto(w, next)
  <2> DEFINE t == Moved(s, next)
  <2>1. Become(w, t)
    BY <1>5 DEF Goto, Moved
  <2> HIDE DEF s
  <2>2. t \in WorkerState /\ t.pc = next /\ t.replace = s.replace /\ SameView(t, s)
    BY <1>1, <1>2, SetPc
  <2> HIDE DEF t
  <2>3. WorkerInv(t, nAttempts, attempts, chain)
    BY <1>1, <1>2, <2>2 DEF WorkerInv, Holding, AfterSigning, SameView
  <2> QED
    BY <1>0, <2>1, <2>2, <2>3, LocalStep
<1>6. CASE Become(w, [v EXCEPT !.pc = "abortCheck"])
  <2> DEFINE t == Moved(v, "abortCheck")
  <2>1. Become(w, t)
    BY <1>6 DEF Moved
  <2> HIDE DEF v, s
  <2>2. /\ t \in WorkerState /\ t.pc = "abortCheck" /\ t.replace = v.replace
        /\ SameView(t, v)
    <3>1. "abortCheck" \in Steps
      BY DEF Steps
    <3> QED
      BY <1>3, <3>1, SetPc
  <2> HIDE DEF t
  <2>3. WorkerInv(t, nAttempts, attempts, chain)
    BY <1>1, <1>2, <1>3, <1>4, <2>2 DEF WorkerInv, Holding, AfterSigning, SameView
  <2> QED
    BY <1>0, <2>1, <2>2, <2>3, LocalStep
<1>7. CASE /\ attempts[nAttempts].signed
           /\ Become(w, [v EXCEPT !.pc = "update", !.goal = "UNKNOWN"])
  <2> DEFINE t == MovedFor(v, "update", "UNKNOWN")
  <2>1. Become(w, t)
    BY <1>7 DEF MovedFor
  <2> HIDE DEF v, s
  <2>2. /\ t \in WorkerState /\ t.pc = "update" /\ t.goal = "UNKNOWN"
        /\ t.replace = v.replace /\ SameView(t, v)
    <3>1. "update" \in Steps /\ "UNKNOWN" \in Outcomes
      BY DEF Steps, Outcomes
    <3> QED
      BY <1>3, <3>1, SetPcGoal
  <2> HIDE DEF t
  <2>3. t.effect # NoEffect
    BY <1>3, <1>4, <1>7, <2>2 DEF IInv, RowsInv, SameView
  <2>4. WorkerInv(t, nAttempts, attempts, chain)
    BY <1>1, <1>2, <1>3, <1>4, <2>2, <2>3 DEF WorkerInv, Holding, AfterSigning, SameView
  <2> QED
    BY <1>0, <2>1, <2>2, <2>4, LocalStep
<1>8. CASE Raise(w, "RETRY")
  BY <1>0, <1>1, <1>2, <1>8, RaiseLocal
<1> QED
  BY <1>5, <1>6, <1>7, <1>8 DEF EnsureActive, Current

\* The state a worker's step starts from.
LEMMA Own ==
    ASSUME IInv, NEW w \in Workers
    PROVE  /\ workers[w] \in WorkerState
           /\ WorkerInv(workers[w], nAttempts, attempts, chain)
           /\ TypeOK
           /\ nAttempts \in AttemptNumbers /\ nAttempts # 0 /\ nAttempts <= nAttempts
<1>1. nAttempts \in AttemptNumbers
  BY DEF IInv, TypeOK
<1>2. nAttempts # 0 /\ nAttempts <= nAttempts
  BY SMTT(30), <1>1 DEF AttemptNumbers
<1>3. workers[w] \in WorkerState
  BY DEF IInv, TypeOK
<1> QED
  BY <1>1, <1>2, <1>3 DEF IInv, WorkersInv

\* A worker that has claimed an item knows which, and one that has read its view
\* knows an existing attempt.
LEMMA WorkerNumbers ==
    ASSUME NEW s \in WorkerState, NEW na \in AttemptNumbers, NEW at, NEW ch,
           WorkerInv(s, na, at, ch)
    PROVE  /\ s.pc # "idle" => s.item \in AttemptNumbers
           /\ s.pc \notin {"idle", "load", "view", "viewClosed"} =>
                  s.n # 0 /\ s.n \in 1..na /\ s.n \in AttemptNumbers
<1>1. s.item \in 0..NRoutes /\ s.n \in 0..NRoutes
  BY DEF WorkerState
<1>2. /\ s.pc # "idle" => s.item # 0
      /\ s.pc \notin {"idle", "load", "view", "viewClosed"} => s.n # 0
      /\ s.n <= na
  BY DEF WorkerInv
<1> QED
  BY SMTT(30), <1>1, <1>2, PaymentExecutionAssumption DEF AttemptNumbers

\* Another attempt has taken over: the item is completed.
LEMMA GotoComplete ==
    ASSUME IInv, NEW w \in Workers, workers[w].pc \in {"sign", "recheck"},
           Goto(w, "complete"),
           UNCHANGED <<dbVars, items, deferrals, account, chain>>
    PROVE  IInv'
<1> DEFINE s == workers[w]
           t == Moved(s, "complete")
<1>1. s \in WorkerState /\ WorkerInv(s, nAttempts, attempts, chain)
  BY Own
<1>2. Become(w, t)
  BY DEF Goto, Moved
<1>3. s.pc \in {"sign", "recheck"}
  OBVIOUS
<1> HIDE DEF s
<1>4. t \in WorkerState /\ t.pc = "complete" /\ t.replace = s.replace /\ SameView(t, s)
  <2>1. "complete" \in Steps
    BY DEF Steps
  <2> QED
    BY <1>1, <2>1, SetPc
<1> HIDE DEF t
<1>5. WorkerInv(t, nAttempts, attempts, chain)
  BY <1>1, <1>3, <1>4 DEF WorkerInv, Holding, AfterSigning, SameView
<1> QED
  BY <1>2, <1>4, <1>5, LocalStep

\* restorePreparedEffect or executor.prepare.
LEMMA PrepareInv ==
    ASSUME IInv, NEW w \in Workers, Prepare(w)
    PROVE  IInv'
<1> DEFINE s == workers[w]
<1>0. UNCHANGED <<dbVars, items, deferrals, account, chain>>
  BY DEF Prepare
<1>1. s \in WorkerState /\ s.pc = "prepare" /\ WorkerInv(s, nAttempts, attempts, chain)
  BY Own DEF Prepare, At
<1>n. nAttempts \in AttemptNumbers
  BY Own
<1>2. CASE s.effect # NoEffect /\ Goto(w, "signingRequest")
  <2> DEFINE t == Moved(s, "signingRequest")
  <2>1. Become(w, t)
    BY <1>2 DEF Goto, Moved
  <2> HIDE DEF s
  <2>2. /\ t \in WorkerState /\ t.pc = "signingRequest" /\ t.replace = s.replace
        /\ SameView(t, s)
    <3>1. "signingRequest" \in Steps
      BY DEF Steps
    <3> QED
      BY <1>1, <3>1, SetPc
  <2> HIDE DEF t
  <2>3. WorkerInv(t, nAttempts, attempts, chain)
    BY <1>1, <1>2, <2>2 DEF WorkerInv, Holding, AfterSigning, SameView
  <2> QED
    BY <1>0, <2>1, <2>2, <2>3, LocalStep
<1>3. CASE /\ s.effect = NoEffect
           /\ Become(w, [s EXCEPT !.pc = "persistPrepared", !.effect = <<s.n, w>>])
  <2> DEFINE t == [s EXCEPT !.pc = "persistPrepared", !.effect = <<s.n, w>>]
  <2> HIDE DEF s
  <2>1. s.n \in AttemptNumbers /\ s.n # 0
    BY <1>1, <1>n, WorkerNumbers
  <2>2. <<s.n, w>> \in Effects /\ <<s.n, w>> # NoEffect
    BY <2>1 DEF Effects, NoEffect
  <2>3. /\ t \in WorkerState /\ t.pc = "persistPrepared" /\ t.effect # NoEffect
        /\ t.n = s.n /\ t.av = s.av /\ t.item = s.item /\ t.signed = s.signed
        /\ t.replace = s.replace
    <3> DEFINE e == <<s.n, w>>
               pc == "persistPrepared"
    <3>1. e \in Effects \cup {NoEffect} /\ pc \in Steps
      BY <2>2 DEF Steps
    <3>2. t = [s EXCEPT !.pc = pc, !.effect = e]
      OBVIOUS
    <3>3. e # NoEffect
      BY <2>2
    <3> HIDE DEF e, pc, t
    <3>4. t \in WorkerState
      BY <1>1, <3>1, <3>2 DEF WorkerState
    <3>5. /\ t.pc = pc /\ t.effect = e
          /\ t.n = s.n /\ t.av = s.av /\ t.item = s.item /\ t.signed = s.signed
          /\ t.replace = s.replace
      BY <1>1, <3>2 DEF WorkerState
    <3> QED
      BY <3>3, <3>4, <3>5 DEF pc
  <2>4. Become(w, t)
    BY <1>3
  <2> HIDE DEF t
  <2>5. WorkerInv(t, nAttempts, attempts, chain)
    BY <1>1, <1>3, <2>1, <2>3 DEF WorkerInv, Holding, AfterSigning
  <2> QED
    BY <1>0, <2>3, <2>4, <2>5, LocalStep
<1>4. CASE \E err \in {"RETRY", "NO_RETRY"} : Raise(w, err)
  BY <1>0, <1>1, <1>4, RaiseLocal
<1> QED
  BY <1>2, <1>3, <1>4 DEF Prepare

\* ensurePreparedAttemptIsCurrent and executor.sign.
LEMMA SignInv ==
    ASSUME IInv, NEW w \in Workers, Sign(w)
    PROVE  IInv'
<1> DEFINE s == workers[w]
<1>0. UNCHANGED <<dbVars, items, deferrals, account, chain>>
  BY DEF Sign
<1>1. s \in WorkerState /\ s.pc = "sign" /\ WorkerInv(s, nAttempts, attempts, chain)
  BY Own DEF Sign, At
<1>2. CASE Goto(w, "complete")
  BY <1>0, <1>1, <1>2, GotoComplete
<1>3. CASE Become(w, [s EXCEPT !.pc = "persistSigned", !.rejects = 0])
  <2> DEFINE pc == "persistSigned"
             t == [s EXCEPT !.pc = pc, !.rejects = 0]
  <2>1. Become(w, t)
    BY <1>3
  <2>2. pc \in Steps /\ 0 \in 0..NRoutes
    BY SMTT(30), PaymentExecutionAssumption DEF Steps
  <2> HIDE DEF s, pc
  <2>3. t \in WorkerState
    BY <1>1, <2>2 DEF WorkerState
  <2>4. t.pc = pc /\ t.replace = s.replace /\ SameView(t, s)
    BY <1>1 DEF WorkerState, SameView
  <2> HIDE DEF t
  <2>5. WorkerInv(t, nAttempts, attempts, chain)
    BY <1>1, <2>4 DEF WorkerInv, Holding, AfterSigning, SameView, pc
  <2> QED
    BY <1>0, <2>1, <2>3, <2>5, LocalStep
<1>4. CASE \E err \in {"RETRY", "NO_RETRY"} : Raise(w, err)
  BY <1>0, <1>1, <1>4, RaiseLocal
<1> QED
  BY <1>2, <1>3, <1>4 DEF Sign

\* The view read again after signing.
LEMMA RecheckInv ==
    ASSUME IInv, NEW w \in Workers, Recheck(w)
    PROVE  IInv'
<1> DEFINE s == workers[w]
           v == Viewing(s)
<1>0. UNCHANGED <<dbVars, items, deferrals, account, chain>>
  BY DEF Recheck
<1>1. /\ s \in WorkerState /\ s.pc = "recheck" /\ WorkerInv(s, nAttempts, attempts, chain)
      /\ TypeOK /\ nAttempts # 0 /\ nAttempts <= nAttempts
  BY Own DEF Recheck, At
<1>2. CASE Goto(w, "complete")
  BY <1>0, <1>1, <1>2, GotoComplete
<1>3. CASE EffectIsCurrent(s) /\ Become(w, [v EXCEPT !.pc = "guardSubmit"])
  <2> DEFINE t == Moved(v, "guardSubmit")
  <2>1. Become(w, t)
    BY <1>3 DEF Moved
  <2>2. nAttempts = s.n /\ attempts[nAttempts].effect = s.effect
    BY <1>3 DEF EffectIsCurrent, Current
  <2>3. /\ v \in WorkerState
        /\ v.n = nAttempts
        /\ v.effect = attempts[nAttempts].effect /\ v.signed = attempts[nAttempts].signed
        /\ v.item = s.item /\ v.replace = s.replace
    BY <1>1, ViewingOK DEF Current
  <2> HIDE DEF v, s
  <2>4. /\ t \in WorkerState /\ t.pc = "guardSubmit" /\ t.replace = v.replace
        /\ SameView(t, v)
    <3>1. "guardSubmit" \in Steps
      BY DEF Steps
    <3> QED
      BY <2>3, <3>1, SetPc
  <2> HIDE DEF t
  <2>5. WorkerInv(t, nAttempts, attempts, chain)
    <3>1. /\ s.item # 0 /\ s.n # 0 /\ s.n <= nAttempts /\ s.effect # NoEffect
          /\ attempts[s.n].signed /\ ~s.replace
      BY <1>1 DEF WorkerInv, Holding, AfterSigning
    <3>2. /\ t.item # 0 /\ t.n = s.n /\ t.effect = s.effect /\ ~t.replace
      BY <2>2, <2>3, <2>4, <3>1 DEF SameView
    <3> QED
      BY <2>2, <2>4, <3>1, <3>2 DEF WorkerInv, Holding, AfterSigning
  <2> QED
    BY <1>0, <2>1, <2>4, <2>5, LocalStep
<1> QED
  BY <1>2, <1>3 DEF Recheck

\* The signature lookup of submit().
LEMMA ObserveInv ==
    ASSUME IInv, NEW w \in Workers, Observe(w)
    PROVE  IInv'
<1> DEFINE s == workers[w]
           seen == ObserveSignature(s.effect)
<1>0. UNCHANGED <<dbVars, items, deferrals, account, chain>>
  BY DEF Observe
<1>1. s \in WorkerState /\ s.pc = "observe" /\ WorkerInv(s, nAttempts, attempts, chain)
  BY Own DEF Observe, At
<1>2. CASE /\ seen \in {"CONFIRMED", "FAILED"}
           /\ Become(w, [s EXCEPT !.pc = "finalizeCheck", !.goal = seen])
  <2>1. seen = "CONFIRMED" => chain[s.effect] = "landed"
    BY DEF ObserveSignature
  <2> DEFINE t == MovedFor(s, "finalizeCheck", seen)
  <2>2. Become(w, t)
    BY <1>2 DEF MovedFor
  <2> HIDE DEF s, seen
  <2>3. /\ t \in WorkerState /\ t.pc = "finalizeCheck" /\ t.replace = s.replace
        /\ t.goal = seen /\ SameView(t, s)
    <3>1. "finalizeCheck" \in Steps /\ seen \in Outcomes
      BY <1>2 DEF Steps, Outcomes
    <3> QED
      BY SMTT(30), <1>1, <1>2, <3>1, SetPcGoal
  <2> HIDE DEF t
  <2>4. WorkerInv(t, nAttempts, attempts, chain)
    BY <1>1, <1>2, <2>1, <2>3 DEF WorkerInv, Holding, AfterSigning, SameView
  <2> QED
    BY <1>0, <2>2, <2>3, <2>4, LocalStep
<1>3. CASE Become(w, [s EXCEPT !.pc = "update", !.goal = "SUBMITTED"])
  <2> DEFINE t == MovedFor(s, "update", "SUBMITTED")
  <2>1. Become(w, t)
    BY <1>3 DEF MovedFor
  <2> HIDE DEF s
  <2>2. /\ t \in WorkerState /\ t.pc = "update" /\ t.replace = s.replace
        /\ t.goal = "SUBMITTED" /\ SameView(t, s)
    <3>1. "update" \in Steps /\ "SUBMITTED" \in Outcomes
      BY DEF Steps, Outcomes
    <3> QED
      BY SMTT(30), <1>1, <3>1, SetPcGoal
  <2> HIDE DEF t
  <2>3. WorkerInv(t, nAttempts, attempts, chain)
    BY <1>1, <2>2 DEF WorkerInv, Holding, AfterSigning, SameView
  <2> QED
    BY <1>0, <2>1, <2>2, <2>3, LocalStep
<1>4. CASE Goto(w, "send")
  <2> DEFINE t == Moved(s, "send")
  <2>1. Become(w, t)
    BY <1>4 DEF Goto, Moved
  <2> HIDE DEF s
  <2>2. t \in WorkerState /\ t.pc = "send" /\ t.replace = s.replace /\ SameView(t, s)
    <3>1. "send" \in Steps
      BY DEF Steps
    <3> QED
      BY <1>1, <3>1, SetPc
  <2> HIDE DEF t
  <2>3. WorkerInv(t, nAttempts, attempts, chain)
    BY <1>1, <2>2 DEF WorkerInv, Holding, AfterSigning, SameView
  <2> QED
    BY <1>0, <2>1, <2>2, <2>3, LocalStep
<1>5. CASE Raise(w, "RETRY")
  BY <1>0, <1>1, <1>5, RaiseLocal
<1> QED
  BY <1>2, <1>3, <1>4, <1>5 DEF Observe

\* A no-effect proof, with or without a replacement route: under RpcSnapshot the
\* transaction is dead.
LEMMA NoEffectProvedInv ==
    ASSUME IInv, NEW w \in Workers, workers[w].pc \in {"reconcile", "height"},
           RpcSnapshot => chain[workers[w].effect] \in Dead,
           NoEffectProved(w), UNCHANGED <<dbVars, items, deferrals, account, chain>>
    PROVE  IInv'
<1> DEFINE s == workers[w]
           moved(replace) == [s EXCEPT !.pc = "finalizeCheck", !.goal = "PROVED_NO_EFFECT",
                                       !.replace = replace]
<1>1. /\ s \in WorkerState /\ s.pc \in {"reconcile", "height"}
      /\ WorkerInv(s, nAttempts, attempts, chain)
      /\ RpcSnapshot => chain[s.effect] \in Dead
  BY Own
<1>2. PICK r \in CanReplace(s) : Become(w, moved(r))
  BY DEF NoEffectProved
<1>3. r \in BOOLEAN /\ (r => s.n < NRoutes)
  BY <1>2 DEF CanReplace
<1> DEFINE pc == "finalizeCheck"
           goal == "PROVED_NO_EFFECT"
           t == [s EXCEPT !.pc = pc, !.goal = goal, !.replace = r]
<1>4. Become(w, t)
  BY <1>2
<1>5. pc \in Steps /\ goal \in Outcomes
  BY DEF Steps, Outcomes
<1> HIDE DEF s, pc, goal
<1>6. t \in WorkerState
  BY <1>1, <1>3, <1>5 DEF WorkerState
<1>7. t.pc = pc /\ t.goal = goal /\ t.replace = r /\ SameView(t, s)
  BY <1>1 DEF WorkerState, SameView
<1> HIDE DEF t
<1>8. WorkerInv(t, nAttempts, attempts, chain)
  BY <1>1, <1>3, <1>7 DEF WorkerInv, Holding, AfterSigning, SameView, pc, goal
<1> QED
  BY <1>4, <1>6, <1>8, LocalStep

\* The outcome is still open: the item goes back to the reconcilers.
LEMMA StillUnknownInv ==
    ASSUME IInv, NEW w \in Workers, workers[w].pc \in {"reconcile", "height"},
           StillUnknown(w), UNCHANGED <<dbVars, items, deferrals, account, chain>>
    PROVE  IInv'
<1> DEFINE s == workers[w]
           t == MovedNext(s, "retry", "RECONCILE_PAYMENT_ATTEMPT")
<1>1. /\ s \in WorkerState /\ s.pc \in {"reconcile", "height"}
      /\ WorkerInv(s, nAttempts, attempts, chain)
  BY Own
<1>2. Become(w, t)
  BY DEF StillUnknown, MovedNext
<1> HIDE DEF s
<1>3. t \in WorkerState /\ t.pc = "retry" /\ t.replace = s.replace /\ SameView(t, s)
  <2>1. "retry" \in Steps /\ "RECONCILE_PAYMENT_ATTEMPT" \in WorkKinds \cup {KeepKind}
    BY DEF Steps, WorkKinds
  <2> QED
    BY <1>1, <2>1, SetPcNext
<1> HIDE DEF t
<1>4. WorkerInv(t, nAttempts, attempts, chain)
  BY <1>1, <1>3 DEF WorkerInv, Holding, AfterSigning, SameView
<1> QED
  BY <1>2, <1>3, <1>4, LocalStep

\* The signature lookup of reconcile().
LEMMA ReconcileInv ==
    ASSUME IInv, NEW w \in Workers, Reconcile(w)
    PROVE  IInv'
<1> DEFINE s == workers[w]
           seen == ObserveSignature(s.effect)
<1>0. UNCHANGED <<dbVars, items, deferrals, account, chain>>
  BY DEF Reconcile
<1>1. s \in WorkerState /\ s.pc = "reconcile" /\ WorkerInv(s, nAttempts, attempts, chain)
  BY Own DEF Reconcile, At
<1>2. CASE /\ seen = "CONFIRMED"
           /\ Become(w, [s EXCEPT !.pc = "finalizeCheck", !.goal = "CONFIRMED"])
  <2>1. chain[s.effect] = "landed"
    BY <1>2 DEF ObserveSignature
  <2> DEFINE t == MovedFor(s, "finalizeCheck", "CONFIRMED")
  <2>2. Become(w, t)
    BY <1>2 DEF MovedFor
  <2> HIDE DEF s
  <2>3. /\ t \in WorkerState /\ t.pc = "finalizeCheck" /\ t.replace = s.replace
        /\ t.goal = "CONFIRMED" /\ SameView(t, s)
    <3>1. "finalizeCheck" \in Steps /\ "CONFIRMED" \in Outcomes
      BY DEF Steps, Outcomes
    <3> QED
      BY SMTT(30), <1>1, <3>1, SetPcGoal
  <2> HIDE DEF t
  <2>4. WorkerInv(t, nAttempts, attempts, chain)
    BY <1>1, <2>1, <2>3 DEF WorkerInv, Holding, AfterSigning, SameView
  <2> QED
    BY <1>0, <2>2, <2>3, <2>4, LocalStep
<1>3. CASE seen = "FAILED" /\ NoEffectProved(w)
  <2>1. chain[s.effect] \in Dead
    BY <1>3 DEF ObserveSignature, Dead
  <2> QED
    BY <1>0, <1>1, <1>3, <2>1, NoEffectProvedInv
<1>4. CASE StillUnknown(w)
  BY <1>0, <1>1, <1>4, StillUnknownInv
<1>5. CASE seen = "ABSENT" /\ Goto(w, "height")
  <2> DEFINE t == Moved(s, "height")
  <2>1. Become(w, t)
    BY <1>5 DEF Goto, Moved
  <2>2. s.effect # NoEffect /\ s.effect \in Effects \cup {NoEffect}
    BY <1>1 DEF WorkerInv, Holding, WorkerState
  <2>3. chain[s.effect] \in {"none", "inflight", "expired"}
    <3>1. chain[s.effect] \in ChainStates
      BY <2>2 DEF IInv, TypeOK
    <3> QED
      BY <1>5, <3>1 DEF ObserveSignature, ChainStates
  <2> HIDE DEF s
  <2>4. t \in WorkerState /\ t.pc = "height" /\ t.replace = s.replace /\ SameView(t, s)
    <3>1. "height" \in Steps
      BY DEF Steps
    <3> QED
      BY <1>1, <3>1, SetPc
  <2> HIDE DEF t
  <2>5. WorkerInv(t, nAttempts, attempts, chain)
    BY <1>1, <2>3, <2>4 DEF WorkerInv, Holding, AfterSigning, SameView
  <2> QED
    BY <1>0, <2>1, <2>4, <2>5, LocalStep
<1>6. CASE Raise(w, "RETRY")
  BY <1>0, <1>1, <1>6, RaiseLocal
<1> QED
  BY <1>2, <1>3, <1>4, <1>5, <1>6 DEF Reconcile

\* The block height read of reconcile().
LEMMA HeightInv ==
    ASSUME IInv, NEW w \in Workers, Height(w)
    PROVE  IInv'
<1>0. UNCHANGED <<dbVars, items, deferrals, account, chain>>
  BY DEF Height
<1>1. workers[w].pc = "height" /\ WorkerInv(workers[w], nAttempts, attempts, chain)
  BY Own DEF Height, At
<1>2. CASE MayBePastValidity(workers[w].effect) /\ NoEffectProved(w)
  <2>1. RpcSnapshot => chain[workers[w].effect] \in Dead
    BY <1>1, <1>2 DEF WorkerInv, MayBePastValidity, Dead
  <2> QED
    BY <1>0, <1>1, <1>2, <2>1, NoEffectProvedInv
<1>3. CASE StillUnknown(w)
  BY <1>0, <1>1, <1>3, StillUnknownInv
<1>4. CASE Raise(w, "RETRY")
  BY <1>0, <1>1, <1>4, RaiseLocal
<1> QED
  BY <1>2, <1>3, <1>4 DEF Height

\* The reads of finalizeV2Payment.
LEMMA FinalizeCheckInv ==
    ASSUME IInv, NEW w \in Workers, FinalizeCheck(w)
    PROVE  IInv'
<1> DEFINE s == workers[w]
           t == Moved(s, "finalizeWrite")
<1>0. UNCHANGED <<dbVars, items, deferrals, account, chain>>
  BY DEF FinalizeCheck
<1>1. s \in WorkerState /\ s.pc = "finalizeCheck" /\ WorkerInv(s, nAttempts, attempts, chain)
  BY Own DEF FinalizeCheck, At
<1>2. CASE Goto(w, "finalizeWrite")
  <2>1. Become(w, t)
    BY <1>2 DEF Goto, Moved
  <2> HIDE DEF s
  <2>2. /\ t \in WorkerState /\ t.pc = "finalizeWrite" /\ t.replace = s.replace
        /\ t.goal = s.goal /\ SameView(t, s)
    <3>1. "finalizeWrite" \in Steps
      BY DEF Steps
    <3> QED
      BY <1>1, <3>1, SetPc
  <2> HIDE DEF t
  <2>3. WorkerInv(t, nAttempts, attempts, chain)
    BY <1>1, <2>2 DEF WorkerInv, Holding, AfterSigning, SameView
  <2> QED
    BY <1>0, <2>1, <2>2, <2>3, LocalStep
<1>3. CASE Raise(w, "RETRY")
  BY <1>0, <1>1, <1>3, RaiseLocal
<1> QED
  BY <1>2, <1>3 DEF FinalizeCheck

\* A replacement that already exists rolls finalizeV2Payment back.
LEMMA FinalizeRolledBackInv ==
    ASSUME IInv, NEW w \in Workers, FinalizeRolledBack(w)
    PROVE  IInv'
BY RaiseLocal DEF FinalizeRolledBack, At

\* The reads of abortPreEffectPayment.
LEMMA AbortCheckInv ==
    ASSUME IInv, NEW w \in Workers, AbortCheck(w)
    PROVE  IInv'
<1> DEFINE s == workers[w]
           t == Moved(s, "abortWrite")
<1>0. UNCHANGED <<dbVars, items, deferrals, account, chain>>
  BY DEF AbortCheck
<1>1. s \in WorkerState /\ s.pc = "abortCheck" /\ WorkerInv(s, nAttempts, attempts, chain)
  BY Own DEF AbortCheck, At
<1>2. CASE Goto(w, "abortWrite")
  <2>1. Become(w, t)
    BY <1>2 DEF Goto, Moved
  <2> HIDE DEF s
  <2>2. /\ t \in WorkerState /\ t.pc = "abortWrite" /\ t.replace = s.replace
        /\ SameView(t, s)
    <3>1. "abortWrite" \in Steps
      BY DEF Steps
    <3> QED
      BY <1>1, <3>1, SetPc
  <2> HIDE DEF t
  <2>3. WorkerInv(t, nAttempts, attempts, chain)
    BY <1>1, <2>2 DEF WorkerInv, Holding, AfterSigning, SameView
  <2> QED
    BY <1>0, <2>1, <2>2, <2>3, LocalStep
<1>3. CASE Raise(w, "RETRY")
  BY <1>0, <1>1, <1>3, RaiseLocal
<1> QED
  BY <1>2, <1>3 DEF AbortCheck

\* handleFailure: a signed attempt becomes UNKNOWN, everything else is retried,
\* finalized as FAILED or given up.
LEMMA HandleFailureInv ==
    ASSUME IInv, NEW w \in Workers, HandleFailure(w)
    PROVE  IInv'
<1> DEFINE v == Viewing(workers[w])
           s == [v EXCEPT !.failing = TRUE]
<1>0. UNCHANGED <<dbVars, items, deferrals, account, chain>>
  BY DEF HandleFailure
<1>1. /\ workers[w] \in WorkerState /\ workers[w].pc = "failure"
      /\ WorkerInv(workers[w], nAttempts, attempts, chain)
      /\ TypeOK /\ nAttempts \in AttemptNumbers /\ nAttempts # 0 /\ nAttempts <= nAttempts
  BY Own DEF HandleFailure, At
<1>2. /\ v \in WorkerState
      /\ v.n = nAttempts
      /\ v.effect = attempts[nAttempts].effect /\ v.signed = attempts[nAttempts].signed
      /\ v.item = workers[w].item /\ v.replace = workers[w].replace
  BY <1>1, ViewingOK DEF Current
<1>3. Become(w, IF s.outcome = "NOT_STARTED" /\ s.signed
                THEN MovedFor(s, "update", "UNKNOWN")
                ELSE IF s.err = "RETRY" THEN MovedNext(s, "retry", KeepKind)
                ELSE IF s.outcome = "NOT_STARTED" THEN MovedFor(s, "finalizeCheck", "FAILED")
                ELSE Moved(s, "failItem"))
  BY DEF HandleFailure, MovedFor, MovedNext, Moved
<1> HIDE DEF v
<1>4. s \in WorkerState /\ s.replace = v.replace /\ SameView(s, v)
  BY <1>2 DEF WorkerState, SameView
<1>own. /\ s.item # 0 /\ s.n = nAttempts /\ s.effect = attempts[nAttempts].effect
        /\ s.signed = attempts[nAttempts].signed /\ ~s.replace
  <2>1. workers[w].item # 0 /\ ~workers[w].replace
    BY <1>1 DEF WorkerInv
  <2> QED
    BY <1>2, <1>4, <2>1 DEF SameView
<1> HIDE DEF s
<1>ok. ASSUME NEW t, SameView(t, s), t.replace = s.replace,
              t.pc \in {"retry", "failItem", "finalizeCheck"},
              t.pc = "finalizeCheck" => t.goal = "FAILED"
       PROVE  WorkerInv(t, nAttempts, attempts, chain)
  <2>1. /\ t.item # 0 /\ t.n = nAttempts /\ t.signed = attempts[nAttempts].signed
        /\ ~t.replace
    BY <1>own, <1>ok DEF SameView
  <2> QED
    BY <1>1, <1>ok, <2>1 DEF WorkerInv, Holding, AfterSigning
<1>5. CASE s.signed /\ Become(w, MovedFor(s, "update", "UNKNOWN"))
  <2> DEFINE t == MovedFor(s, "update", "UNKNOWN")
  <2>1. /\ t \in WorkerState /\ t.pc = "update" /\ t.replace = s.replace
        /\ t.goal = "UNKNOWN" /\ SameView(t, s)
    <3>1. "update" \in Steps /\ "UNKNOWN" \in Outcomes
      BY DEF Steps, Outcomes
    <3> QED
      BY SMTT(30), <1>4, <3>1, SetPcGoal
  <2> HIDE DEF t
  <2>2. t.effect # NoEffect
    BY <1>1, <1>own, <1>5, <2>1 DEF IInv, RowsInv, SameView
  <2>3. /\ t.item # 0 /\ t.n = nAttempts /\ t.effect = attempts[nAttempts].effect
        /\ t.signed = attempts[nAttempts].signed /\ ~t.replace
    BY <1>own, <2>1 DEF SameView
  <2>4. WorkerInv(t, nAttempts, attempts, chain)
    BY <1>1, <2>1, <2>2, <2>3 DEF WorkerInv, Holding, AfterSigning
  <2> QED
    BY <1>0, <1>5, <2>1, <2>4, LocalStep DEF t
<1>6. CASE Become(w, MovedNext(s, "retry", KeepKind))
  <2> DEFINE t == MovedNext(s, "retry", KeepKind)
  <2>1. /\ t \in WorkerState /\ t.pc = "retry" /\ t.replace = s.replace
        /\ SameView(t, s)
    <3>1. "retry" \in Steps /\ KeepKind \in WorkKinds \cup {KeepKind}
      BY DEF Steps, WorkKinds
    <3> QED
      BY <1>4, <3>1, SetPcNext
  <2> HIDE DEF t
  <2>2. WorkerInv(t, nAttempts, attempts, chain)
    BY <2>1, <1>ok
  <2> QED
    BY <1>0, <1>6, <2>1, <2>2, LocalStep DEF t
<1>7. CASE Become(w, MovedFor(s, "finalizeCheck", "FAILED"))
  <2> DEFINE t == MovedFor(s, "finalizeCheck", "FAILED")
  <2>1. /\ t \in WorkerState /\ t.pc = "finalizeCheck" /\ t.replace = s.replace
        /\ t.goal = "FAILED" /\ SameView(t, s)
    <3>1. "finalizeCheck" \in Steps /\ "FAILED" \in Outcomes
      BY DEF Steps, Outcomes
    <3> QED
      BY SMTT(30), <1>4, <3>1, SetPcGoal
  <2> HIDE DEF t
  <2>2. WorkerInv(t, nAttempts, attempts, chain)
    BY <2>1, <1>ok
  <2> QED
    BY <1>0, <1>7, <2>1, <2>2, LocalStep DEF t
<1>8. CASE Become(w, Moved(s, "failItem"))
  <2> DEFINE t == Moved(s, "failItem")
  <2>1. t \in WorkerState /\ t.pc = "failItem" /\ t.replace = s.replace /\ SameView(t, s)
    <3>1. "failItem" \in Steps
      BY DEF Steps
    <3> QED
      BY <1>4, <3>1, SetPc
  <2> HIDE DEF t
  <2>2. WorkerInv(t, nAttempts, attempts, chain)
    BY <2>1, <1>ok
  <2> QED
    BY <1>0, <1>8, <2>1, <2>2, LocalStep DEF t
<1> QED
  BY <1>3, <1>5, <1>6, <1>7, <1>8

\* A process that dies forgets everything it had read.
LEMMA CrashInv ==
    ASSUME IInv, NEW w \in Workers, Crash(w)
    PROVE  IInv'
<1>1. Idle \in WorkerState /\ WorkerInv(Idle, nAttempts, attempts, chain)
  BY Own, IdleOK
<1> QED
  BY <1>1, LocalStep DEF Crash, Stop

-----------------------------------------------------------------------------
\* The steps that write an attempt row.

\* What an update of an attempt row may do to it.
RowGrows(old, new) ==
    /\ old.effect # NoEffect => new.effect = old.effect
    /\ old.signed => new.signed
    /\ old.rv <= new.rv
    /\ new.rv = old.rv => new.effect = old.effect
    /\ new.signed \/ new.outcome \in {"SUBMITTED", "UNKNOWN"} => new.effect # NoEffect

\* The absence of an effect is not an effect.
LEMMA NoEffectIsNone == NoEffect \notin Effects
BY SMTT(30) DEF NoEffect, Effects, AttemptNumbers

\* One attempt row is updated, and the network does nothing.
LEMMA RowChange ==
    ASSUME IInv, NEW n \in AttemptNumbers, NEW row \in Attempt,
           RowGrows(attempts[n], row), attempts' = [attempts EXCEPT ![n] = row],
           chain' = chain
    PROVE  /\ attempts' \in [AttemptNumbers -> Attempt]
           /\ Grows(nAttempts, attempts, chain, nAttempts, attempts', chain')
           /\ NothingExecuted(chain, chain')
           /\ \A m \in AttemptNumbers :
                attempts'[m].signed \/ attempts'[m].outcome \in {"SUBMITTED", "UNKNOWN"} =>
                    attempts'[m].effect # NoEffect
           /\ \A m \in 1..(nAttempts - 1) :
                /\ attempts'[m].effect # NoEffect
                /\ RpcSnapshot => chain'[attempts'[m].effect] \in Dead
           /\ \A e \in Effects : chain'[e] \notin {"none", "expired"} =>
                \E m \in 1..nAttempts : attempts'[m].effect = e /\ attempts'[m].signed
<1>1. /\ attempts \in [AttemptNumbers -> Attempt] /\ nAttempts \in AttemptNumbers
      /\ TypeOK
  BY DEF IInv, TypeOK
<1>2. \A m \in AttemptNumbers : attempts'[m] = IF m = n THEN row ELSE attempts[m]
  BY <1>1
<1>3. attempts' \in [AttemptNumbers -> Attempt]
  BY <1>1
<1>4. nAttempts <= nAttempts /\ \A m \in AttemptNumbers : attempts[m].rv <= attempts[m].rv
  BY SMTT(30), <1>1 DEF AttemptNumbers, Attempt
<1>5. Grows(nAttempts, attempts, chain, nAttempts, attempts', chain')
  BY <1>2, <1>4 DEF Grows, RowGrows
<1>6. NothingExecuted(chain, chain')
  BY DEF NothingExecuted
<1>7. \A m \in AttemptNumbers :
        attempts'[m].signed \/ attempts'[m].outcome \in {"SUBMITTED", "UNKNOWN"} =>
            attempts'[m].effect # NoEffect
  BY <1>2 DEF RowGrows, IInv, RowsInv
<1>8. 1..nAttempts \subseteq AttemptNumbers /\ 1..(nAttempts - 1) \subseteq AttemptNumbers
  BY SMTT(30), <1>1, PaymentExecutionAssumption DEF AttemptNumbers
<1>9. ASSUME NEW m \in 1..(nAttempts - 1)
      PROVE  /\ attempts'[m].effect # NoEffect
             /\ RpcSnapshot => chain'[attempts'[m].effect] \in Dead
  <2>1. /\ attempts[m].effect # NoEffect
        /\ RpcSnapshot => chain[attempts[m].effect] \in Dead
    BY DEF IInv, RowsInv
  <2>2. attempts'[m].effect = attempts[m].effect
    BY <1>2, <1>8, <2>1 DEF RowGrows
  <2> QED
    BY <2>1, <2>2
<1>10. ASSUME NEW e \in Effects, chain[e] \notin {"none", "expired"}
       PROVE  \E m \in 1..nAttempts : attempts'[m].effect = e /\ attempts'[m].signed
  <2>1. PICK m \in 1..nAttempts : attempts[m].effect = e /\ attempts[m].signed
    BY <1>10 DEF IInv, RowsInv, SentOnlyIfDurable
  <2>2. e # NoEffect
    BY NoEffectIsNone
  <2>3. attempts'[m].effect = e /\ attempts'[m].signed
    BY <1>2, <1>8, <2>1, <2>2 DEF RowGrows
  <2> QED
    BY <2>3
<1> QED
  BY <1>3, <1>5, <1>6, <1>7, <1>9, <1>10

\* A step of worker w that updates one attempt row and nothing else.
LEMMA AttemptStep ==
    ASSUME IInv, NEW w \in Workers, NEW t \in WorkerState, Become(w, t),
           NEW n \in AttemptNumbers, NEW row \in Attempt,
           RowGrows(attempts[n], row), attempts' = [attempts EXCEPT ![n] = row],
           WorkerInv(t, nAttempts, attempts', chain),
           UNCHANGED <<payment, nAttempts, reservation, evidence, exception,
                       items, deferrals, account, chain>>
    PROVE  IInv'
<1>1. SharedTypeOK'
  BY RowChange DEF IInv, TypeOK, SharedTypeOK
<1>2. SharedGrows /\ NothingExecuted(chain, chain')
  BY RowChange DEF SharedGrows
<1>3. RowsInv'
  BY RowChange DEF RowsInv, SentOnlyIfDurable
<1>4. OutcomeInv'
  BY DEF IInv, OutcomeInv, ConfirmedHasEffect, TerminalNotHeld
<1>5. WorkerInv(t, nAttempts', attempts', chain')
  OBVIOUS
<1> QED
  BY <1>1, <1>2, <1>3, <1>4, <1>5, WorkerMoves

\* An update of the signing request alone.
LEMMA SetRequest ==
    ASSUME NEW row \in Attempt, NEW r \in {"NONE", "PENDING", "SIGNED", "REJECTED"},
           row.signed \/ row.outcome \in {"SUBMITTED", "UNKNOWN"} => row.effect # NoEffect
    PROVE  LET new == [row EXCEPT !.request = r] IN
           /\ new \in Attempt /\ RowGrows(row, new)
           /\ new.effect = row.effect /\ new.signed = row.signed /\ new.rv = row.rv
           /\ new.outcome = row.outcome
<1> DEFINE new == [row EXCEPT !.request = r]
<1>1. new \in Attempt
  BY DEF Attempt
<1>2. /\ new.effect = row.effect /\ new.signed = row.signed /\ new.rv = row.rv
      /\ new.outcome = row.outcome
  BY DEF Attempt
<1>3. row.rv <= row.rv
  BY SMTT(30) DEF Attempt
<1> HIDE DEF new
<1>4. RowGrows(row, new)
  BY <1>2, <1>3 DEF RowGrows
<1> QED
  BY <1>1, <1>2, <1>4 DEF new

\* The worker's own invariant, over the attempt rows it has just written.
LEMMA OwnAfter ==
    ASSUME IInv, NEW w \in Workers,
           NEW n \in AttemptNumbers, NEW row \in Attempt,
           RowGrows(attempts[n], row), attempts' = [attempts EXCEPT ![n] = row],
           chain' = chain
    PROVE  /\ WorkerInv(workers[w], nAttempts, attempts', chain)
           /\ attempts'[n] = row
<1>1. /\ workers[w] \in WorkerState /\ WorkerInv(workers[w], nAttempts, attempts, chain)
      /\ nAttempts \in AttemptNumbers /\ attempts \in [AttemptNumbers -> Attempt]
  BY Own DEF TypeOK
<1>2. /\ attempts' \in [AttemptNumbers -> Attempt]
      /\ Grows(nAttempts, attempts, chain, nAttempts, attempts', chain)
      /\ NothingExecuted(chain, chain)
  BY RowChange
<1> QED
  BY <1>1, <1>2, GrowthKeepsWorkerInv

\* The attempt a worker that has loaded its view works on.
LEMMA OwnAttempt ==
    ASSUME IInv, NEW w \in Workers, workers[w].pc \notin {"idle", "load", "view", "viewClosed"}
    PROVE  /\ workers[w].n \in AttemptNumbers
           /\ attempts[workers[w].n] \in Attempt
           /\ LET row == attempts[workers[w].n] IN
              row.signed \/ row.outcome \in {"SUBMITTED", "UNKNOWN"} => row.effect # NoEffect
<1>1. workers[w].n \in AttemptNumbers
  BY Own, WorkerNumbers
<1> QED
  BY <1>1 DEF IInv, TypeOK, RowsInv

\* The prepared effect is made durable if nobody has touched the row since.
LEMMA PersistPreparedInv ==
    ASSUME IInv, NEW w \in Workers, PersistPrepared(w)
    PROVE  IInv'
<1> DEFINE s == workers[w]
           n == s.n
           old == attempts[n]
<1>0. UNCHANGED <<payment, nAttempts, reservation, evidence, exception,
                  items, deferrals, account, chain>>
  BY DEF PersistPrepared
<1>1. /\ s \in WorkerState /\ s.pc = "persistPrepared"
      /\ WorkerInv(s, nAttempts, attempts, chain)
  BY Own DEF PersistPrepared, At
<1>2. /\ n \in AttemptNumbers /\ old \in Attempt
      /\ old.signed \/ old.outcome \in {"SUBMITTED", "UNKNOWN"} => old.effect # NoEffect
  BY <1>1, OwnAttempt
<1>3. CASE UNCHANGED attempts /\ Raise(w, "RETRY")
  BY <1>0, <1>1, <1>3, RaiseLocal DEF dbVars
<1>4. CASE /\ AttemptUnchanged(s)
           /\ attempts' = [attempts EXCEPT ![n].effect = s.effect, ![n].rv = @ + 1]
           /\ Become(w, [s EXCEPT !.pc = "signingRequest", !.av = @ + 1])
  <2> DEFINE row == [old EXCEPT !.effect = s.effect, !.rv = old.rv + 1]
             pc == "signingRequest"
             t == [s EXCEPT !.pc = pc, !.av = s.av + 1]
  <2>1. attempts' = [attempts EXCEPT ![n] = row]
    BY <1>2, <1>4 DEF IInv, TypeOK
  <2>2. old.effect = NoEffect /\ s.effect # NoEffect
    BY <1>1, <1>4 DEF WorkerInv, AttemptUnchanged
  <2>3. old.rv \in Nat /\ old.rv + 1 \in Nat /\ s.effect \in Effects \cup {NoEffect}
        /\ s.av + 1 \in Nat /\ pc \in Steps
    <3>1. old.rv \in Nat
      BY <1>2 DEF Attempt
    <3>2. s.av \in Nat /\ s.effect \in Effects \cup {NoEffect}
      BY <1>1 DEF WorkerState
    <3>3. pc \in Steps
      BY DEF Steps
    <3> HIDE DEF old, s, pc
    <3> QED
      BY SMTT(30), <3>1, <3>2, <3>3
  <2>4. Become(w, t)
    BY <1>4
  <2> DEFINE e == s.effect
             r == old.rv + 1
             a == s.av + 1
  <2>5. old.rv <= r /\ r # old.rv
    BY SMTT(30), <2>3
  <2> HIDE DEF s, n, old, e, r, a, pc
  <2>6. row = [old EXCEPT !.effect = e, !.rv = r] /\ t = [s EXCEPT !.pc = pc, !.av = a]
    BY DEF e, r, a
  <2>7. e \in Effects \cup {NoEffect} /\ r \in Nat /\ a \in Nat
    BY <2>3 DEF e, r, a
  <2> HIDE DEF row, t
  <2>8. row \in Attempt
    BY <1>2, <2>6, <2>7 DEF Attempt
  <2>9. row.effect = e /\ row.rv = r /\ row.signed = old.signed /\ row.outcome = old.outcome
    BY <1>2, <2>6 DEF Attempt
  <2>10. t \in WorkerState
    BY <1>1, <2>3, <2>6, <2>7 DEF WorkerState
  <2>11. /\ t.pc = pc /\ t.replace = s.replace /\ t.item = s.item /\ t.n = n
         /\ t.effect = e /\ t.signed = s.signed
    BY <1>1, <2>6 DEF WorkerState, n, e
  <2>12. RowGrows(old, row)
    BY <1>2, <2>2, <2>5, <2>9 DEF RowGrows, e
  <2>13. WorkerInv(s, nAttempts, attempts', chain) /\ attempts'[n] = row
    BY <1>0, <1>2, <2>1, <2>8, <2>12, OwnAfter DEF old, s
  <2>14. WorkerInv(t, nAttempts, attempts', chain)
    BY <1>1, <2>2, <2>9, <2>11, <2>13 DEF WorkerInv, Holding, AfterSigning, pc, n, e
  <2> QED
    BY <1>0, <1>2, <2>1, <2>4, <2>8, <2>10, <2>12, <2>14, AttemptStep DEF old
<1> QED
  BY <1>3, <1>4 DEF PersistPrepared

\* The signed payload is made durable if nobody has touched the row since.
LEMMA PersistSignedInv ==
    ASSUME IInv, NEW w \in Workers, PersistSigned(w)
    PROVE  IInv'
<1> DEFINE s == workers[w]
           n == s.n
           old == attempts[n]
<1>0. UNCHANGED <<payment, nAttempts, reservation, evidence, exception,
                  items, deferrals, account, chain>>
  BY DEF PersistSigned
<1>1. /\ s \in WorkerState /\ s.pc = "persistSigned"
      /\ WorkerInv(s, nAttempts, attempts, chain)
  BY Own DEF PersistSigned, At
<1>2. n \in AttemptNumbers /\ old \in Attempt
  BY <1>1, OwnAttempt
<1>3. CASE UNCHANGED attempts /\ Raise(w, "RETRY")
  BY <1>0, <1>1, <1>3, RaiseLocal DEF dbVars
<1>4. CASE /\ attempts' = [attempts EXCEPT ![n].signed = TRUE, ![n].rv = @ + 1]
           /\ Become(w, [s EXCEPT !.pc = AfterSigned(s)])
  <2> DEFINE row == [old EXCEPT !.signed = TRUE, !.rv = old.rv + 1]
             t == Moved(s, AfterSigned(s))
  <2>1. attempts' = [attempts EXCEPT ![n] = row]
    BY <1>2, <1>4 DEF IInv, TypeOK
  <2>2. old.effect # NoEffect
    BY <1>1 DEF WorkerInv, Holding
  <2>3. old.rv \in Nat /\ old.rv + 1 \in Nat
    <3>1. old.rv \in Nat
      BY <1>2 DEF Attempt
    <3> HIDE DEF old
    <3> QED
      BY SMTT(30), <3>1
  <2>4. Become(w, t)
    BY <1>4 DEF Moved
  <2>5. AfterSigned(s) \in {"completeRequest", "recheck"}
    BY DEF AfterSigned
  <2>6. AfterSigned(s) \in Steps
    BY <2>5 DEF Steps
  <2> DEFINE r == old.rv + 1
  <2>7. old.rv <= r /\ r # old.rv /\ r \in Nat
    BY SMTT(30), <2>3
  <2> HIDE DEF s, n, old, r
  <2>8. row = [old EXCEPT !.signed = TRUE, !.rv = r]
    BY DEF r
  <2> HIDE DEF row
  <2>9. row \in Attempt
    BY <1>2, <2>7, <2>8 DEF Attempt
  <2>10. row.effect = old.effect /\ row.rv = r /\ row.signed
    BY <1>2, <2>8 DEF Attempt
  <2>11. RowGrows(old, row)
    BY <2>2, <2>7, <2>10 DEF RowGrows
  <2>12. /\ t \in WorkerState /\ t.pc = AfterSigned(s) /\ t.replace = s.replace
         /\ SameView(t, s)
    BY <1>1, <2>6, SetPc
  <2> HIDE DEF t
  <2>13. WorkerInv(s, nAttempts, attempts', chain) /\ attempts'[n] = row
    BY <1>0, <1>2, <2>1, <2>9, <2>11, OwnAfter DEF old, s
  <2>14. WorkerInv(t, nAttempts, attempts', chain)
    BY <1>1, <2>5, <2>10, <2>12, <2>13
       DEF WorkerInv, Holding, AfterSigning, SameView, n
  <2> QED
    BY <1>0, <1>2, <2>1, <2>4, <2>9, <2>11, <2>12, <2>14, AttemptStep DEF old
<1> QED
  BY <1>3, <1>4 DEF PersistSigned

\* A worker moves on after it has updated the signing request of attempt n.
LEMMA RequestStep ==
    ASSUME IInv, NEW w \in Workers, NEW t \in WorkerState, Become(w, t),
           NEW n \in AttemptNumbers, NEW r \in {"NONE", "PENDING", "SIGNED", "REJECTED"},
           attempts' = [attempts EXCEPT ![n].request = r],
           WorkerInv(t, nAttempts, attempts, chain),
           UNCHANGED <<payment, nAttempts, reservation, evidence, exception,
                       items, deferrals, account, chain>>
    PROVE  IInv'
<1> DEFINE row == [attempts[n] EXCEPT !.request = r]
           after == attempts'
<1>1. /\ attempts[n] \in Attempt /\ attempts \in [AttemptNumbers -> Attempt]
      /\ nAttempts \in AttemptNumbers
      /\ attempts[n].signed \/ attempts[n].outcome \in {"SUBMITTED", "UNKNOWN"} =>
             attempts[n].effect # NoEffect
  BY DEF IInv, TypeOK, RowsInv
<1>2. attempts' = [attempts EXCEPT ![n] = row]
  BY <1>1
<1>3. row \in Attempt /\ RowGrows(attempts[n], row)
  BY <1>1, SetRequest
<1> HIDE DEF row
<1>4. /\ after \in [AttemptNumbers -> Attempt]
      /\ Grows(nAttempts, attempts, chain, nAttempts, after, chain)
      /\ NothingExecuted(chain, chain)
  BY <1>2, <1>3, RowChange
<1> HIDE DEF after
<1>5. WorkerInv(t, nAttempts, after, chain)
  BY <1>1, <1>4, GrowthKeepsWorkerInv
<1> QED
  BY <1>2, <1>3, <1>5, AttemptStep DEF after

\* findSigningRequest or createSigningRequest.
LEMMA UseSigningRequestInv ==
    ASSUME IInv, NEW w \in Workers, UseSigningRequest(w)
    PROVE  IInv'
<1> DEFINE s == workers[w]
           using(p) ==
               LET u == [s EXCEPT !.pending = p] IN
               [u EXCEPT !.pc = IF s.signed THEN AfterSigned(u) ELSE "guardSign",
                         !.rejects = IF p /\ ~s.signed THEN s.n ELSE 0]
<1>0. UNCHANGED <<payment, nAttempts, reservation, evidence, exception,
                  items, deferrals, account, chain>>
  BY DEF UseSigningRequest
<1>1. /\ s \in WorkerState /\ s.pc = "signingRequest"
      /\ WorkerInv(s, nAttempts, attempts, chain)
  BY Own DEF UseSigningRequest, At
<1>2. s.n \in AttemptNumbers /\ s.n \in 0..NRoutes /\ 0 \in 0..NRoutes
  BY SMTT(30), <1>1, OwnAttempt, PaymentExecutionAssumption DEF WorkerState
<1>3. ASSUME NEW p \in BOOLEAN
      PROVE  /\ using(p) \in WorkerState /\ WorkerInv(using(p), nAttempts, attempts, chain)
  <2> DEFINE u == [s EXCEPT !.pending = p]
             pc == IF s.signed THEN AfterSigned(u) ELSE "guardSign"
             rejects == IF p /\ ~s.signed THEN s.n ELSE 0
             t == [u EXCEPT !.pc = pc, !.rejects = rejects]
  <2>1. /\ pc \in {"completeRequest", "recheck", "guardSign"}
        /\ pc # "guardSign" => s.signed
    BY DEF AfterSigned
  <2>2. rejects \in 0..NRoutes /\ pc \in Steps
    BY <1>2, <2>1 DEF Steps
  <2>3. using(p) = t
    OBVIOUS
  <2> HIDE DEF s, pc, rejects, using
  <2>4. u \in WorkerState /\ u.replace = s.replace /\ SameView(u, s)
    BY <1>1 DEF WorkerState, SameView
  <2> HIDE DEF u
  <2>5. t \in WorkerState
    BY <2>2, <2>4 DEF WorkerState
  <2>6. t.pc = pc /\ t.replace = u.replace /\ SameView(t, u)
    BY <2>4 DEF WorkerState, SameView
  <2> HIDE DEF t
  <2>7. WorkerInv(t, nAttempts, attempts, chain)
    <3>1. t.replace = s.replace /\ SameView(t, s)
      BY <2>4, <2>6 DEF SameView
    <3> QED
      BY <1>1, <2>1, <2>6, <3>1 DEF WorkerInv, Holding, AfterSigning, SameView
  <2> QED
    BY <2>3, <2>5, <2>7
<1>4. CASE /\ attempts' = [attempts EXCEPT ![s.n].request = "PENDING"]
           /\ Become(w, using(TRUE))
  <2>1. /\ using(TRUE) \in WorkerState
        /\ WorkerInv(using(TRUE), nAttempts, attempts, chain)
    BY <1>3
  <2> DEFINE t == using(TRUE)
             n == s.n
  <2>2. n \in AttemptNumbers /\ attempts' = [attempts EXCEPT ![n].request = "PENDING"]
        /\ Become(w, t)
    BY <1>2, <1>4
  <2> HIDE DEF t, n
  <2> QED
    BY <1>0, <2>1, <2>2, RequestStep DEF t
<1>5. CASE UNCHANGED attempts /\ Become(w, using(FALSE))
  <2> DEFINE t == using(FALSE)
  <2>1. /\ t \in WorkerState /\ WorkerInv(t, nAttempts, attempts, chain)
        /\ Become(w, t)
    BY <1>3, <1>5
  <2> HIDE DEF t
  <2> QED
    BY <1>0, <1>5, <2>1, LocalStep DEF dbVars
<1>6. CASE UNCHANGED attempts /\ Raise(w, "RETRY")
  BY <1>0, <1>1, <1>6, RaiseLocal DEF dbVars
<1> QED
  BY <1>4, <1>5, <1>6 DEF UseSigningRequest

\* completeSigningRequest(REJECTED) in the catch block.
LEMMA RejectRequestInv ==
    ASSUME IInv, NEW w \in Workers, RejectRequest(w)
    PROVE  IInv'
<1> DEFINE s == workers[w]
           n == s.rejects
           u == [s EXCEPT !.pc = "failure", !.rejects = 0]
           t == [u EXCEPT !.err = "RETRY"]
<1>0. UNCHANGED <<payment, nAttempts, reservation, evidence, exception,
                  items, deferrals, account, chain>>
  BY DEF RejectRequest
<1>1. /\ s \in WorkerState /\ s.pc = "rejectRequest"
      /\ WorkerInv(s, nAttempts, attempts, chain)
      /\ attempts \in [AttemptNumbers -> Attempt]
  BY Own DEF RejectRequest, At, TypeOK
<1>2. \/ Become(w, u) /\ attempts' = [attempts EXCEPT ![n].request = "REJECTED"]
      \/ Become(w, t) /\ UNCHANGED attempts
  BY DEF RejectRequest
<1> HIDE DEF s
<1>3. u \in WorkerState /\ u.pc = "failure" /\ u.replace = s.replace /\ SameView(u, s)
  <2> DEFINE pc == "failure"
  <2>1. u = [s EXCEPT !.pc = pc, !.rejects = 0] /\ 0 \in 0..NRoutes /\ pc \in Steps
    BY SMTT(30), PaymentExecutionAssumption DEF Steps
  <2> HIDE DEF pc, u
  <2>2. u \in WorkerState
    BY <1>1, <2>1 DEF WorkerState
  <2>3. u.pc = pc /\ u.replace = s.replace /\ SameView(u, s)
    BY <1>1, <2>1 DEF WorkerState, SameView
  <2> QED
    BY <2>2, <2>3 DEF pc
<1> HIDE DEF u
<1>4. t \in WorkerState /\ t.pc = "failure" /\ t.replace = s.replace /\ SameView(t, s)
  BY <1>3 DEF WorkerState, SameView
<1> HIDE DEF t
<1>5. /\ WorkerInv(u, nAttempts, attempts, chain)
      /\ WorkerInv(t, nAttempts, attempts, chain)
  BY <1>1, <1>3, <1>4 DEF WorkerInv, Holding, AfterSigning, SameView
<1>6. CASE Become(w, t) /\ UNCHANGED attempts
  BY <1>0, <1>4, <1>5, <1>6, LocalStep DEF dbVars
<1>7. CASE Become(w, u) /\ attempts' = [attempts EXCEPT ![n].request = "REJECTED"]
  <2>1. CASE n \in AttemptNumbers
    BY <1>0, <1>3, <1>5, <1>7, <2>1, RequestStep
  <2>2. CASE n \notin AttemptNumbers
    <3>1. attempts' = attempts
      BY <1>1, <1>7, <2>2
    <3> QED
      BY <1>0, <1>3, <1>5, <1>7, <3>1, LocalStep DEF dbVars
  <2> QED
    BY <2>1, <2>2
<1> QED
  BY <1>2, <1>6, <1>7

\* completeSigningRequest(SIGNED).
LEMMA CompleteRequestInv ==
    ASSUME IInv, NEW w \in Workers, CompleteRequest(w)
    PROVE  IInv'
<1> DEFINE s == workers[w]
           n == s.n
           t == Moved(s, "recheck")
<1>0. UNCHANGED <<payment, nAttempts, reservation, evidence, exception,
                  items, deferrals, account, chain>>
  BY DEF CompleteRequest
<1>1. /\ s \in WorkerState /\ s.pc = "completeRequest"
      /\ WorkerInv(s, nAttempts, attempts, chain)
  BY Own DEF CompleteRequest, At
<1>2. n \in AttemptNumbers
  BY <1>1, OwnAttempt
<1>3. CASE Goto(w, "recheck") /\ attempts' = [attempts EXCEPT ![n].request = "SIGNED"]
  <2>1. Become(w, t)
    BY <1>3 DEF Goto, Moved
  <2> HIDE DEF s, n
  <2>2. t \in WorkerState /\ t.pc = "recheck" /\ t.replace = s.replace /\ SameView(t, s)
    <3>1. "recheck" \in Steps
      BY DEF Steps
    <3> QED
      BY <1>1, <3>1, SetPc
  <2> HIDE DEF t
  <2>3. WorkerInv(t, nAttempts, attempts, chain)
    BY <1>1, <2>2 DEF WorkerInv, Holding, AfterSigning, SameView
  <2> QED
    BY <1>0, <1>2, <1>3, <2>1, <2>2, <2>3, RequestStep
<1>4. CASE UNCHANGED attempts /\ Raise(w, "RETRY")
  BY <1>0, <1>1, <1>4, RaiseLocal DEF dbVars
<1> QED
  BY <1>3, <1>4 DEF CompleteRequest

\* updateAttemptOutcome to SUBMITTED or UNKNOWN.
LEMMA UpdateAttemptOutcomeInv ==
    ASSUME IInv, NEW w \in Workers, UpdateAttemptOutcome(w)
    PROVE  IInv'
<1> DEFINE s == workers[w]
           n == s.n
           old == attempts[n]
<1>0. UNCHANGED <<payment, nAttempts, reservation, evidence, exception,
                  items, deferrals, account, chain>>
  BY DEF UpdateAttemptOutcome
<1>1. /\ s \in WorkerState /\ s.pc = "update"
      /\ WorkerInv(s, nAttempts, attempts, chain)
  BY Own DEF UpdateAttemptOutcome, At
<1>2. n \in AttemptNumbers /\ old \in Attempt
  BY <1>1, OwnAttempt
<1>3. CASE UNCHANGED attempts /\ Raise(w, "RETRY")
  BY <1>0, <1>1, <1>3, RaiseLocal DEF dbVars
<1>4. CASE /\ attempts' = [attempts EXCEPT ![n].outcome = s.goal, ![n].rv = @ + 1]
           /\ Goto(w, "project")
  <2> DEFINE row == [old EXCEPT !.outcome = s.goal, !.rv = old.rv + 1]
             t == Moved(s, "project")
             r == old.rv + 1
             goal == s.goal
  <2>1. attempts' = [attempts EXCEPT ![n] = row]
    BY <1>2, <1>4 DEF IInv, TypeOK
  <2>2. old.effect # NoEffect
    BY <1>1 DEF WorkerInv, Holding
  <2>3. old.rv \in Nat /\ old.rv <= r /\ r # old.rv /\ r \in Nat
    <3>1. old.rv \in Nat
      BY <1>2 DEF Attempt
    <3> HIDE DEF old
    <3> QED
      BY SMTT(30), <3>1
  <2>4. Become(w, t)
    BY <1>4 DEF Goto, Moved
  <2>5. goal \in Outcomes
    BY <1>1 DEF WorkerState
  <2> HIDE DEF s, n, old, r, goal
  <2>6. row = [old EXCEPT !.outcome = goal, !.rv = r]
    BY DEF r, goal
  <2> HIDE DEF row
  <2>7. row \in Attempt
    BY <1>2, <2>3, <2>5, <2>6 DEF Attempt
  <2>8. row.effect = old.effect /\ row.rv = r /\ row.signed = old.signed
    BY <1>2, <2>6 DEF Attempt
  <2>9. RowGrows(old, row)
    BY <2>2, <2>3, <2>8 DEF RowGrows
  <2>10. /\ t \in WorkerState /\ t.pc = "project" /\ t.replace = s.replace
         /\ t.goal = s.goal /\ SameView(t, s)
    <3>1. "project" \in Steps
      BY DEF Steps
    <3> QED
      BY <1>1, <3>1, SetPc
  <2> HIDE DEF t
  <2>11. WorkerInv(s, nAttempts, attempts', chain)
    BY <1>0, <1>2, <2>1, <2>7, <2>9, OwnAfter DEF old, s
  <2>12. WorkerInv(t, nAttempts, attempts', chain)
    BY <1>1, <2>10, <2>11 DEF WorkerInv, Holding, AfterSigning, SameView
  <2> QED
    BY <1>0, <1>2, <2>1, <2>4, <2>7, <2>9, <2>10, <2>12, AttemptStep DEF old
<1> QED
  BY <1>3, <1>4 DEF UpdateAttemptOutcome

-----------------------------------------------------------------------------
\* The steps that leave the attempt rows and the network alone.

\* A step of worker w.
LEMMA RestStep ==
    ASSUME IInv, NEW w \in Workers, NEW t \in WorkerState, Become(w, t),
           WorkerInv(t, nAttempts, attempts, chain),
           UNCHANGED <<attempts, nAttempts, chain>>, SharedTypeOK', OutcomeInv'
    PROVE  IInv'
<1>1. SharedGrows /\ NothingExecuted(chain, chain')
  BY Stays DEF IInv, SharedGrows
<1>2. RowsInv'
  BY DEF IInv, RowsInv, SentOnlyIfDurable
<1>3. WorkerInv(t, nAttempts', attempts', chain')
  OBVIOUS
<1> QED
  BY <1>1, <1>2, <1>3, WorkerMoves

\* A step of nobody's worker.
LEMMA QuietStep ==
    ASSUME IInv, UNCHANGED <<workers, attempts, nAttempts, chain>>,
           SharedTypeOK', OutcomeInv'
    PROVE  IInv'
<1>1. TypeOK'
  BY DEF IInv, TypeOK, SharedTypeOK
<1>2. WorkersInv' /\ RowsInv'
  BY DEF IInv, WorkersInv, RowsInv, SentOnlyIfDurable
<1> QED
  BY <1>1, <1>2 DEF IInv

\* updatePaymentExecution.
LEMMA UpdatePaymentExecutionInv ==
    ASSUME IInv, NEW w \in Workers, UpdatePaymentExecution(w)
    PROVE  IInv'
<1> DEFINE s == workers[w]
           status == IF s.goal = "SUBMITTED" THEN "SUBMITTED" ELSE "RECONCILING"
           t == MovedNext(s, "retry", "RECONCILE_PAYMENT_ATTEMPT")
<1>0. UNCHANGED <<attempts, nAttempts, reservation, evidence, exception,
                  items, deferrals, account, chain>>
  BY DEF UpdatePaymentExecution
<1>1. /\ s \in WorkerState /\ s.pc = "project" /\ WorkerInv(s, nAttempts, attempts, chain)
      /\ TypeOK
  BY Own DEF UpdatePaymentExecution, At
<1>2. CASE UNCHANGED payment /\ Raise(w, "RETRY")
  BY <1>0, <1>1, <1>2, RaiseLocal DEF dbVars
<1>3. CASE /\ payment' = [status |-> status, exec |-> "RECONCILING", rv |-> payment.rv + 1]
           /\ Become(w, [s EXCEPT !.pc = "retry", !.next = "RECONCILE_PAYMENT_ATTEMPT"])
  <2>1. status \in {"SUBMITTED", "RECONCILING"}
    OBVIOUS
  <2>2. payment.rv + 1 \in Nat
    BY SMTT(30), <1>1 DEF TypeOK, Payment
  <2>3. Become(w, t)
    BY <1>3 DEF MovedNext
  <2>4. payment' \in Payment
    BY <1>3, <2>1, <2>2 DEF Payment, PaymentStatuses
  <2>5. SharedTypeOK'
    BY <1>0, <1>1, <2>4 DEF TypeOK, SharedTypeOK
  <2>6. payment'.status # "CONFIRMED" /\ payment'.exec # "TERMINAL"
    BY <1>3, <2>1
  <2>7. OutcomeInv'
    BY <1>0, <2>6 DEF IInv, OutcomeInv, ConfirmedHasEffect, TerminalNotHeld
  <2> HIDE DEF s
  <2>8. t \in WorkerState /\ t.pc = "retry" /\ t.replace = s.replace /\ SameView(t, s)
    <3>1. "retry" \in Steps /\ "RECONCILE_PAYMENT_ATTEMPT" \in WorkKinds \cup {KeepKind}
      BY DEF Steps, WorkKinds
    <3> QED
      BY <1>1, <3>1, SetPcNext
  <2> HIDE DEF t
  <2>9. WorkerInv(t, nAttempts, attempts, chain)
    BY <1>1, <2>8 DEF WorkerInv, Holding, AfterSigning, SameView
  <2> QED
    BY <1>0, <2>3, <2>5, <2>7, <2>8, <2>9, RestStep
<1> QED
  BY <1>2, <1>3 DEF UpdatePaymentExecution

\* markWorkItemExhausted keeps the payment and the outcome well-formed.
LEMMA ReviewOK ==
    ASSUME IInv, NEW rows \in Nat, ReviewAfterExhaustion(rows), UNCHANGED chain
    PROVE  /\ payment' \in Payment
           /\ exception' \in {"NONE", "OPEN", "ACKNOWLEDGED", "RESOLVED", "CLOSED_UNRESOLVED"}
           /\ OutcomeInv'
<1>1. /\ payment \in Payment
      /\ exception \in {"NONE", "OPEN", "ACKNOWLEDGED", "RESOLVED", "CLOSED_UNRESOLVED"}
  BY DEF IInv, TypeOK
<1>2. payment.rv + rows \in Nat
  BY SMTT(30), <1>1 DEF Payment
<1>3. \/ payment' = payment
      \/ payment' = [status |-> "REVIEW_REQUIRED", exec |-> "RECONCILING",
                     rv |-> payment.rv + rows]
  BY DEF ReviewAfterExhaustion
<1>4. payment' \in Payment
  BY SMTT(30), <1>1, <1>2, <1>3 DEF Payment, PaymentStatuses
<1>5. \/ payment' = payment
      \/ payment'.status = "REVIEW_REQUIRED" /\ payment'.exec = "RECONCILING"
  BY SMTT(30), <1>3
<1>6. OutcomeInv'
  BY <1>5 DEF ReviewAfterExhaustion, IInv, OutcomeInv, ConfirmedHasEffect, TerminalNotHeld
<1> QED
  BY <1>1, <1>4, <1>6 DEF ReviewAfterExhaustion

\* An item goes back to the queue and its worker becomes idle.
LEMMA SettleInv ==
    ASSUME IInv, NEW w \in Workers, ~At(w, "idle"), NEW it \in WorkItem, Settle(w, it),
           \/ UNCHANGED dbVars
           \/ ReviewAfterExhaustion(1),
           deferrals' \in [AttemptNumbers -> Nat], UNCHANGED <<account, chain>>
    PROVE  IInv'
<1>1. TypeOK /\ nAttempts \in AttemptNumbers
  BY DEF IInv, TypeOK
<1>2. items' \in [AttemptNumbers -> WorkItem]
  BY <1>1 DEF TypeOK, Settle
<1>3. /\ payment' \in Payment
      /\ exception' \in {"NONE", "OPEN", "ACKNOWLEDGED", "RESOLVED", "CLOSED_UNRESOLVED"}
      /\ OutcomeInv'
      /\ UNCHANGED <<attempts, nAttempts, reservation, evidence>>
  <2>1. CASE UNCHANGED dbVars
    BY <1>1, <2>1 DEF dbVars, IInv, TypeOK, OutcomeInv, ConfirmedHasEffect, TerminalNotHeld
  <2>2. CASE ReviewAfterExhaustion(1)
    BY <2>2, ReviewOK DEF ReviewAfterExhaustion
  <2> QED
    BY <2>1, <2>2
<1>4. SharedTypeOK'
  BY <1>1, <1>2, <1>3 DEF TypeOK, SharedTypeOK
<1>5. Idle \in WorkerState /\ WorkerInv(Idle, nAttempts, attempts, chain)
  BY <1>1, IdleOK
<1> QED
  BY <1>3, <1>4, <1>5, RestStep DEF Settle, Stop

\* A call by a worker that no longer owns its item.
LEMMA LoseLeaseInv ==
    ASSUME IInv, NEW w \in Workers, workers[w].pc \notin {"idle", "load", "view", "viewClosed"},
           LoseLease(w), UNCHANGED <<account, chain>>
    PROVE  IInv'
BY RaiseLocal DEF LoseLease

\* The row a worker that has claimed one works on.
LEMMA MineOK ==
    ASSUME IInv, NEW w \in Workers, workers[w].pc # "idle"
    PROVE  workers[w].item \in AttemptNumbers /\ Mine(w) \in WorkItem
<1>1. workers[w].item \in AttemptNumbers
  BY Own, WorkerNumbers
<1> QED
  BY <1>1 DEF IInv, TypeOK, Mine

\* completeWorkItem, retryWorkItem, failWorkItem and deferWorkItem.
LEMMA CompleteWorkItemInv ==
    ASSUME IInv, NEW w \in Workers, CompleteWorkItem(w)
    PROVE  IInv'
<1>1. /\ workers[w].pc = "complete" /\ UNCHANGED <<account, chain>>
      /\ deferrals \in [AttemptNumbers -> Nat]
  BY DEF CompleteWorkItem, At, IInv, TypeOK
<1>2. Completed(Mine(w)) \in WorkItem
  BY <1>1, MineOK, RowsTyped
<1> QED
  BY <1>1, <1>2, SettleInv, LoseLeaseInv DEF CompleteWorkItem, At

\* retryWorkItem, with the review that follows exhaustion.
LEMMA RetryWorkItemInv ==
    ASSUME IInv, NEW w \in Workers, RetryWorkItem(w)
    PROVE  IInv'
<1>1. /\ workers[w].pc = "retry" /\ UNCHANGED <<account, chain>>
      /\ deferrals \in [AttemptNumbers -> Nat]
  BY DEF RetryWorkItem, At, IInv, TypeOK
<1>2. workers[w].next \in WorkKinds \cup {KeepKind} /\ Mine(w) \in WorkItem
  BY <1>1, Own, MineOK DEF WorkerState
<1>3. NextKind(w) \in WorkKinds
  BY <1>2 DEF NextKind, WorkItem
<1>4. Exhausted(Mine(w)) \in WorkItem /\ Retried(Mine(w), NextKind(w)) \in WorkItem
  BY <1>2, <1>3, RowsTyped
<1> QED
  BY <1>1, <1>4, SettleInv, LoseLeaseInv DEF RetryWorkItem, At

\* failWorkItem.
LEMMA FailWorkItemInv ==
    ASSUME IInv, NEW w \in Workers, FailWorkItem(w)
    PROVE  IInv'
<1>1. /\ workers[w].pc = "failItem" /\ UNCHANGED <<account, chain>>
      /\ deferrals \in [AttemptNumbers -> Nat]
  BY DEF FailWorkItem, At, IInv, TypeOK
<1>2. Exhausted(Mine(w)) \in WorkItem
  BY <1>1, MineOK, RowsTyped
<1> QED
  BY <1>1, <1>2, SettleInv, LoseLeaseInv DEF FailWorkItem, At

\* deferWorkItem.
LEMMA DeferWorkItemInv ==
    ASSUME IInv, NEW w \in Workers, DeferWorkItem(w)
    PROVE  IInv'
<1>1. /\ workers[w].pc \notin {"idle", "load", "view", "viewClosed"} /\ UNCHANGED <<account, chain>>
      /\ deferrals \in [AttemptNumbers -> Nat]
  BY DEF DeferWorkItem, At, IInv, TypeOK
<1>2. workers[w].item \in AttemptNumbers /\ Deferred(Mine(w)) \in WorkItem
  BY <1>1, MineOK, RowsTyped
<1>3. [deferrals EXCEPT ![workers[w].item] = @ + 1] \in [AttemptNumbers -> Nat]
  BY SMTT(30), <1>1, <1>2
<1> QED
  BY <1>1, <1>2, <1>3, SettleInv, LoseLeaseInv DEF DeferWorkItem, At

-----------------------------------------------------------------------------
\* The steps that end a payment, create a replacement or reach the network.

\* sendTransaction.
LEMMA SendInv ==
    ASSUME IInv, NEW w \in Workers, Send(w)
    PROVE  IInv'
<1> DEFINE s == workers[w]
           e == s.effect
<1>0. UNCHANGED <<dbVars, items, deferrals, account>>
  BY DEF Send
<1>1. /\ s \in WorkerState /\ s.pc = "send" /\ WorkerInv(s, nAttempts, attempts, chain)
      /\ nAttempts \in AttemptNumbers /\ TypeOK
  BY Own DEF Send, At
<1>2. e \in Effects /\ attempts[s.n].effect = e /\ attempts[s.n].signed
  BY <1>1 DEF WorkerInv, WorkerState, Holding, AfterSigning
<1>3. s.n \in 1..nAttempts
  BY <1>1, WorkerNumbers
<1>4. ASSUME NEW goal \in {"SUBMITTED", "UNKNOWN", "FAILED"},
             NEW pc \in {"update", "finalizeCheck"},
             goal = "FAILED" <=> pc = "finalizeCheck"
      PROVE  /\ MovedFor(s, pc, goal) \in WorkerState
             /\ WorkerInv(MovedFor(s, pc, goal), nAttempts, attempts, chain)
  <2> DEFINE t == MovedFor(s, pc, goal)
  <2> HIDE DEF s
  <2>0. pc \in Steps /\ goal \in Outcomes
    BY DEF Steps, Outcomes
  <2>1. /\ t \in WorkerState /\ t.pc = pc /\ t.replace = s.replace /\ t.goal = goal
        /\ SameView(t, s)
    BY SMTT(30), <1>1, <2>0, SetPcGoal
  <2> HIDE DEF t
  <2>2. WorkerInv(t, nAttempts, attempts, chain)
    BY <1>1, <1>4, <2>1 DEF WorkerInv, Holding, AfterSigning, SameView
  <2> QED
    BY <2>1, <2>2 DEF t
<1>5. CASE UNCHANGED chain
  <2>1. \/ Become(w, MovedFor(s, "update", "SUBMITTED"))
        \/ Become(w, MovedFor(s, "update", "UNKNOWN"))
        \/ Become(w, MovedFor(s, "finalizeCheck", "FAILED"))
    BY DEF Send, MovedFor
  <2> QED
    BY <1>0, <1>4, <1>5, <2>1, LocalStep
<1>6. CASE /\ chain[e] \in {"none", "inflight"}
           /\ chain' = [chain EXCEPT ![e] = "inflight"]
           /\ \E goal \in {"SUBMITTED", "UNKNOWN"} :
                Become(w, [s EXCEPT !.pc = "update", !.goal = goal])
  <2>1. PICK goal \in {"SUBMITTED", "UNKNOWN"} : Become(w, MovedFor(s, "update", goal))
    BY <1>6 DEF MovedFor
  <2> DEFINE t == MovedFor(s, "update", goal)
             after == chain'
  <2>2. t \in WorkerState /\ WorkerInv(t, nAttempts, attempts, chain)
    BY <1>4
  <2>3. \A f \in Effects : after[f] = IF f = e THEN "inflight" ELSE chain[f]
    BY <1>1, <1>6 DEF TypeOK
  <2>4. after \in [Effects -> ChainStates]
    BY <1>1, <1>6 DEF TypeOK, ChainStates
  <2>5. SharedTypeOK'
    BY <1>0, <1>1, <2>4 DEF TypeOK, SharedTypeOK, dbVars
  <2>6. Grows(nAttempts, attempts, chain, nAttempts, attempts, after)
    BY <1>1, <1>6, <2>3, Stays DEF Grows, Dead
  <2>7. NothingExecuted(chain, after)
    BY <1>6, <2>3 DEF NothingExecuted
  <2>8. RowsInv'
    <3>1. \A m \in AttemptNumbers :
            attempts[m].signed \/ attempts[m].outcome \in {"SUBMITTED", "UNKNOWN"} =>
                attempts[m].effect # NoEffect
      BY DEF IInv, RowsInv
    <3>2. ASSUME NEW m \in 1..(nAttempts - 1)
          PROVE  /\ attempts[m].effect # NoEffect
                 /\ RpcSnapshot => after[attempts[m].effect] \in Dead
      <4>1. m \in AttemptNumbers
        BY SMTT(30), <1>1, PaymentExecutionAssumption DEF AttemptNumbers
      <4>2. /\ attempts[m].effect # NoEffect
            /\ RpcSnapshot => chain[attempts[m].effect] \in Dead
        BY DEF IInv, RowsInv
      <4>3. attempts[m].effect \in Effects
        BY <1>1, <4>1, <4>2 DEF TypeOK, Attempt
      <4> QED
        BY <1>6, <2>3, <4>2, <4>3 DEF Dead
    <3>3. ASSUME NEW f \in Effects, after[f] \notin {"none", "expired"}
          PROVE  \E m \in 1..nAttempts : attempts[m].effect = f /\ attempts[m].signed
      <4>1. CASE f = e
        BY <1>2, <1>3, <4>1
      <4>2. CASE f # e
        BY <2>3, <3>3, <4>2 DEF IInv, RowsInv, SentOnlyIfDurable
      <4> QED
        BY <4>1, <4>2
    <3> QED
      BY <1>0, <3>1, <3>2, <3>3 DEF RowsInv, SentOnlyIfDurable, dbVars
  <2>9. OutcomeInv'
    <3>1. (\E f \in Effects : chain[f] = "landed") => \E f \in Effects : after[f] = "landed"
      BY <1>6, <2>3
    <3> QED
      BY <1>0, <3>1 DEF IInv, OutcomeInv, ConfirmedHasEffect, TerminalNotHeld, dbVars
  <2>10. WorkerInv(t, nAttempts, attempts, after)
    <3>1. attempts \in [AttemptNumbers -> Attempt]
      BY <1>1 DEF TypeOK
    <3> HIDE DEF t, after
    <3> QED
      BY <1>1, <2>2, <2>6, <2>7, <3>1, GrowthKeepsWorkerInv
  <2>11. Become(w, t)
    BY <2>1
  <2>12. SharedGrows /\ WorkerInv(t, nAttempts', attempts', chain')
    BY <1>0, <2>6, <2>10 DEF SharedGrows, dbVars
  <2> HIDE DEF t
  <2> QED
    BY <2>2, <2>5, <2>7, <2>8, <2>9, <2>11, <2>12, WorkerMoves
<1> QED
  BY <1>5, <1>6 DEF Send

\* Recording a terminal outcome on an attempt row.
LEMMA SetOutcome ==
    ASSUME NEW old \in Attempt, NEW outcome \in Outcomes \ {"SUBMITTED", "UNKNOWN"},
           old.signed => old.effect # NoEffect
    PROVE  LET row == [old EXCEPT !.outcome = outcome, !.rv = old.rv + 1] IN
           /\ row \in Attempt /\ RowGrows(old, row)
           /\ row.effect = old.effect
<1> DEFINE r == old.rv + 1
           row == [old EXCEPT !.outcome = outcome, !.rv = r]
<1>1. old.rv <= r /\ r # old.rv /\ r \in Nat
  BY SMTT(30) DEF Attempt
<1>2. outcome \in Outcomes
  OBVIOUS
<1> HIDE DEF r
<1>3. row \in Attempt
  BY <1>1, <1>2 DEF Attempt
<1>4. /\ row.effect = old.effect /\ row.rv = r /\ row.signed = old.signed
      /\ row.outcome = outcome
  BY DEF Attempt
<1> HIDE DEF row
<1>5. RowGrows(old, row)
  BY <1>1, <1>4 DEF RowGrows
<1> QED
  BY <1>3, <1>4, <1>5 DEF row, r

\* A higher attempt number leaves the earlier ones where they are.
LEMMA EarlierNumbers ==
    ASSUME NEW a \in AttemptNumbers, NEW b \in AttemptNumbers, a <= b
    PROVE  \A m \in 1..a : m \in 1..b
BY SMTT(30), PaymentExecutionAssumption DEF AttemptNumbers

\* The updates of finalizeV2Payment.
LEMMA FinalizeWriteInv ==
    ASSUME IInv, NEW w \in Workers, FinalizeWrite(w)
    PROVE  IInv'
<1> DEFINE s == workers[w]
           n == s.n
           old == attempts[n]
           row == [old EXCEPT !.outcome = s.goal, !.rv = old.rv + 1]
           proved == IF s.goal = "CONFIRMED" THEN "CONFIRMED" ELSE "PROVED_NO_EFFECT"
           t == Moved(s, "complete")
           after == attempts'
           na == nAttempts'
<1>1. /\ s \in WorkerState /\ s.pc = "finalizeWrite"
      /\ WorkerInv(s, nAttempts, attempts, chain)
      /\ nAttempts \in AttemptNumbers /\ TypeOK
  BY Own DEF FinalizeWrite, At
<1>2. /\ n \in AttemptNumbers /\ old \in Attempt
      /\ old.signed => old.effect # NoEffect
  BY <1>1, OwnAttempt
<1>3. /\ s.goal \in {"CONFIRMED", "FAILED", "PROVED_NO_EFFECT"}
      /\ s.goal = "CONFIRMED" => \E e \in Effects : chain[e] = "landed"
  BY <1>1 DEF WorkerInv, WorkerState
<1>4. attempts' = [attempts EXCEPT ![n] = row] /\ UNCHANGED chain
  BY <1>1, <1>2 DEF FinalizeWrite, TypeOK
<1>5. row \in Attempt /\ RowGrows(old, row) /\ row.effect = old.effect
  <2>1. s.goal \in Outcomes \ {"SUBMITTED", "UNKNOWN"}
    BY <1>3 DEF Outcomes
  <2> QED
    BY <1>2, <2>1, SetOutcome
<1>6. /\ after \in [AttemptNumbers -> Attempt]
      /\ Grows(nAttempts, attempts, chain, nAttempts, after, chain)
      /\ NothingExecuted(chain, chain)
      /\ \A m \in AttemptNumbers :
            after[m].signed \/ after[m].outcome \in {"SUBMITTED", "UNKNOWN"} =>
                after[m].effect # NoEffect
      /\ \A m \in 1..(nAttempts - 1) :
            /\ after[m].effect # NoEffect
            /\ RpcSnapshot => chain[after[m].effect] \in Dead
      /\ \A e \in Effects : chain[e] \notin {"none", "expired"} =>
            \E m \in 1..nAttempts : after[m].effect = e /\ after[m].signed
  <2> HIDE DEF row, n
  <2> QED
    BY <1>2, <1>4, <1>5, RowChange DEF old
<1>7. after[n].effect = old.effect
  BY <1>1, <1>2, <1>4, <1>5 DEF TypeOK
<1>8. Become(w, t)
  BY DEF FinalizeWrite, Goto, Moved
<1>9. /\ t \in WorkerState /\ t.pc = "complete" /\ t.replace = s.replace
      /\ SameView(t, s)
  <2> HIDE DEF s
  <2>1. "complete" \in Steps
    BY DEF Steps
  <2> QED
    BY <1>1, <2>1, SetPc
<1>10. WorkerInv(t, nAttempts, attempts, chain)
  <2> HIDE DEF s, t
  <2> QED
    BY <1>1, <1>9 DEF WorkerInv, Holding, AfterSigning, SameView
<1>11. evidence' = evidence \cup {<<n, proved>>}
  BY DEF FinalizeWrite
<1>12. /\ evidence' \subseteq AttemptNumbers \X {"CONFIRMED", "PROVED_NO_EFFECT"}
       /\ \A m \in AttemptNumbers : <<m, "CONFIRMED">> \in evidence' =>
              \E e \in Effects : chain[e] = "landed"
  <2>1. /\ proved \in {"CONFIRMED", "PROVED_NO_EFFECT"}
        /\ proved = "CONFIRMED" => s.goal = "CONFIRMED"
    OBVIOUS
  <2> HIDE DEF proved, n, s
  <2> QED
    BY SMTT(30), <1>1, <1>2, <1>3, <1>11, <2>1 DEF TypeOK, IInv, OutcomeInv
<1>13. payment.rv + 1 \in Nat
  BY SMTT(30), <1>1 DEF TypeOK, Payment
<1>14. ASSUME na \in AttemptNumbers, nAttempts <= na, items' \in [AttemptNumbers -> WorkItem],
              payment' \in Payment, reservation' \in {"HELD", "CONSUMED", "RELEASED"},
              \A m \in 1..(na - 1) : /\ after[m].effect # NoEffect
                                     /\ RpcSnapshot => chain[after[m].effect] \in Dead,
              ConfirmedHasEffect', TerminalNotHeld'
       PROVE  IInv'
  <2>1. SharedTypeOK'
    BY <1>1, <1>6, <1>12, <1>14 DEF FinalizeWrite, TypeOK, SharedTypeOK
  <2>2. OutcomeInv'
    BY <1>4, <1>12, <1>14 DEF OutcomeInv
  <2>3. \A m \in 1..nAttempts : m \in 1..na
    BY <1>1, <1>14, EarlierNumbers
  <2>4. RowsInv'
    BY <1>4, <1>6, <1>14, <2>3 DEF RowsInv, SentOnlyIfDurable
  <2>5. Grows(nAttempts, attempts, chain, na, after, chain)
    BY <1>6, <1>14 DEF Grows
  <2>6. WorkerInv(t, na, after, chain)
    <3>1. attempts \in [AttemptNumbers -> Attempt]
      BY <1>1 DEF TypeOK
    <3> HIDE DEF t, na, after
    <3> QED
      BY <1>1, <1>6, <1>9, <1>10, <1>14, <2>5, <3>1, GrowthKeepsWorkerInv
  <2>7. /\ WorkerInv(t, nAttempts', attempts', chain') /\ SharedGrows
        /\ NothingExecuted(chain, chain')
    BY <1>4, <1>6, <2>5, <2>6 DEF SharedGrows
  <2> HIDE DEF t
  <2> QED
    BY <1>8, <1>9, <2>1, <2>2, <2>4, <2>7, WorkerMoves
<1>15. CASE /\ ~s.replace
            /\ payment' = [status |-> s.goal, exec |-> "TERMINAL", rv |-> payment.rv + 1]
            /\ reservation' = SettledReservation(IF s.goal = "CONFIRMED" THEN "CONSUMED"
                                                 ELSE "RELEASED")
            /\ UNCHANGED <<nAttempts, items>>
  <2>1. payment' \in Payment /\ payment'.status = s.goal
    BY <1>3, <1>13, <1>15 DEF Payment, PaymentStatuses
  <2>2. /\ reservation' \in {"CONSUMED", "RELEASED"}
        /\ reservation' = "CONSUMED" => reservation = "CONSUMED" \/ s.goal = "CONFIRMED"
    BY <1>1, <1>15 DEF SettledReservation, TypeOK
  <2>3. ConfirmedHasEffect'
    BY <1>3, <1>4, <2>1, <2>2 DEF IInv, OutcomeInv, ConfirmedHasEffect
  <2>4. TerminalNotHeld'
    BY <2>2 DEF TerminalNotHeld
  <2>5. na = nAttempts /\ nAttempts <= na /\ items' \in [AttemptNumbers -> WorkItem]
    <3>1. na = nAttempts /\ items' = items
      BY <1>15
    <3>2. nAttempts <= nAttempts
      BY SMTT(30), <1>1 DEF AttemptNumbers
    <3>3. items \in [AttemptNumbers -> WorkItem]
      BY <1>1 DEF TypeOK
    <3> QED
      BY <3>1, <3>2, <3>3
  <2> HIDE DEF after, na
  <2> QED
    BY <1>1, <1>6, <1>14, <2>1, <2>2, <2>3, <2>4, <2>5
<1>16. CASE /\ s.replace /\ nAttempts = n
            /\ payment' = [status |-> "ROUTING", exec |-> "QUEUED", rv |-> payment.rv + 1]
            /\ nAttempts' = n + 1
            /\ items' = [items EXCEPT ![n + 1] =
                                NewItem("AVAILABLE", "OUTGOING_PAYMENT_ATTEMPT")]
            /\ UNCHANGED reservation
  <2>1. /\ payment' \in Payment /\ payment'.status = "ROUTING" /\ payment'.exec = "QUEUED"
    BY <1>13, <1>16 DEF Payment, PaymentStatuses
  <2>2. NewItem("AVAILABLE", "OUTGOING_PAYMENT_ATTEMPT") \in WorkItem
    <3>1. 0 \in 0..LeaseTicks /\ 0 \in Int
      BY SMTT(30), WorkItemsAssumption
    <3> QED
      BY <3>1 DEF NewItem, WorkItem, WorkStatuses, WorkKinds
  <2>3. items' \in [AttemptNumbers -> WorkItem]
    BY <1>1, <1>16, <2>2 DEF TypeOK
  <2>4. /\ n < NRoutes /\ old.effect # NoEffect
        /\ RpcSnapshot => chain[old.effect] \in Dead
    BY <1>1, <1>16 DEF WorkerInv
  <2>5. na \in AttemptNumbers /\ nAttempts <= na
    <3>1. na = n + 1 /\ nAttempts = n
      BY <1>16
    <3> HIDE DEF n, na
    <3> QED
      BY SMTT(30), <1>2, <2>4, <3>1, PaymentExecutionAssumption DEF AttemptNumbers
  <2>6. \A m \in 1..(na - 1) : m = n \/ m \in 1..(nAttempts - 1)
    BY SMTT(30), <1>2, <1>16 DEF AttemptNumbers
  <2>7. \A m \in 1..(na - 1) : /\ after[m].effect # NoEffect
                               /\ RpcSnapshot => chain[after[m].effect] \in Dead
    BY <1>6, <1>7, <2>4, <2>6
  <2>8. ConfirmedHasEffect' /\ TerminalNotHeld'
    BY <1>4, <1>16, <2>1 DEF IInv, OutcomeInv, ConfirmedHasEffect, TerminalNotHeld
  <2>9. reservation' \in {"HELD", "CONSUMED", "RELEASED"}
    BY <1>1, <1>16 DEF TypeOK
  <2> HIDE DEF after, na
  <2> QED
    BY <1>14, <2>1, <2>3, <2>5, <2>7, <2>8, <2>9
<1> QED
  BY <1>15, <1>16 DEF FinalizeWrite

\* The updates of abortPreEffectPayment.
LEMMA AbortWriteInv ==
    ASSUME IInv, NEW w \in Workers, AbortWrite(w)
    PROVE  IInv'
<1> DEFINE s == workers[w]
           n == s.n
           old == attempts[n]
           row == [old EXCEPT !.outcome = "PRE_EFFECT_ABORTED", !.rv = old.rv + 1]
           t == Moved(s, "complete")
           after == attempts'
<1>0. UNCHANGED <<nAttempts, exception, items, deferrals, account, chain>>
  BY DEF AbortWrite
<1>1. /\ s \in WorkerState /\ s.pc = "abortWrite"
      /\ WorkerInv(s, nAttempts, attempts, chain)
      /\ nAttempts \in AttemptNumbers /\ TypeOK
  BY Own DEF AbortWrite, At
<1>2. /\ n \in AttemptNumbers /\ old \in Attempt
      /\ old.signed => old.effect # NoEffect
  BY <1>1, OwnAttempt
<1>3. attempts' = [attempts EXCEPT ![n] = row]
  BY <1>1, <1>2 DEF AbortWrite, TypeOK
<1>4. row \in Attempt /\ RowGrows(old, row)
  <2>1. "PRE_EFFECT_ABORTED" \in Outcomes \ {"SUBMITTED", "UNKNOWN"}
    BY DEF Outcomes
  <2> QED
    BY <1>2, <2>1, SetOutcome
<1>5. /\ after \in [AttemptNumbers -> Attempt]
      /\ Grows(nAttempts, attempts, chain, nAttempts, after, chain)
      /\ NothingExecuted(chain, chain)
      /\ RowsInv'
  <2> HIDE DEF row, n
  <2> QED
    BY <1>0, <1>2, <1>3, <1>4, RowChange DEF old, RowsInv, SentOnlyIfDurable
<1>6. Become(w, t)
  BY DEF AbortWrite, Goto, Moved
<1>7. /\ t \in WorkerState /\ t.pc = "complete" /\ t.replace = s.replace
      /\ SameView(t, s)
  <2> HIDE DEF s
  <2>1. "complete" \in Steps
    BY DEF Steps
  <2> QED
    BY <1>1, <2>1, SetPc
<1>8. WorkerInv(t, nAttempts, attempts, chain)
  <2> HIDE DEF s, t
  <2> QED
    BY <1>1, <1>7 DEF WorkerInv, Holding, AfterSigning, SameView
<1>9. WorkerInv(t, nAttempts, after, chain)
  <2>1. attempts \in [AttemptNumbers -> Attempt]
    BY <1>1 DEF TypeOK
  <2> HIDE DEF t, after
  <2> QED
    BY <1>1, <1>5, <1>7, <1>8, <2>1, GrowthKeepsWorkerInv
<1>10. /\ payment' = [status |-> "PROVED_NO_EFFECT", exec |-> "TERMINAL",
                      rv |-> payment.rv + 1]
       /\ reservation' = SettledReservation("RELEASED")
       /\ evidence' = evidence \cup {<<n, "PROVED_NO_EFFECT">>}
  BY DEF AbortWrite
<1>11. payment.rv + 1 \in Nat
  BY SMTT(30), <1>1 DEF TypeOK, Payment
<1>12. payment' \in Payment /\ payment'.status = "PROVED_NO_EFFECT"
  BY <1>10, <1>11 DEF Payment, PaymentStatuses
<1>13. /\ reservation' \in {"CONSUMED", "RELEASED"}
       /\ reservation' = "CONSUMED" => reservation = "CONSUMED"
  BY <1>1, <1>10 DEF SettledReservation, TypeOK
<1>14. evidence' \subseteq AttemptNumbers \X {"CONFIRMED", "PROVED_NO_EFFECT"}
  BY SMTT(30), <1>1, <1>2, <1>10 DEF TypeOK
<1>15. \A m \in AttemptNumbers :
           <<m, "CONFIRMED">> \in evidence' => <<m, "CONFIRMED">> \in evidence
  BY <1>10
<1>16. SharedTypeOK'
  BY <1>0, <1>1, <1>5, <1>12, <1>13, <1>14 DEF TypeOK, SharedTypeOK
<1>17. OutcomeInv'
  BY <1>0, <1>12, <1>13, <1>15 DEF IInv, OutcomeInv, ConfirmedHasEffect, TerminalNotHeld
<1>18. /\ WorkerInv(t, nAttempts', attempts', chain') /\ SharedGrows
       /\ NothingExecuted(chain, chain')
  BY <1>0, <1>5, <1>9 DEF SharedGrows
<1> HIDE DEF t
<1> QED
  BY <1>5, <1>6, <1>7, <1>16, <1>17, <1>18, WorkerMoves

-----------------------------------------------------------------------------
\* The steps of the environment.

\* Time passes over a lease.
LEMMA LeaseExpiresInv ==
    ASSUME IInv, NEW i \in AttemptNumbers, LeaseExpires(i)
    PROVE  IInv'
<1> DEFINE l == items[i].lease - 1
<1>1. TypeOK /\ items[i] \in WorkItem
  BY DEF IInv, TypeOK
<1>2. l \in 0..LeaseTicks
  BY SMTT(30), <1>1, WorkItemsAssumption DEF LeaseExpires, WorkItem
<1>3. items' = [items EXCEPT ![i] = [items[i] EXCEPT !.lease = l]]
  BY <1>1 DEF LeaseExpires, TypeOK
<1> HIDE DEF l
<1>4. [items[i] EXCEPT !.lease = l] \in WorkItem
  BY <1>1, <1>2 DEF WorkItem
<1>5. items' \in [AttemptNumbers -> WorkItem]
  BY <1>1, <1>3, <1>4 DEF TypeOK
<1>6. SharedTypeOK'
  BY <1>1, <1>5 DEF LeaseExpires, TypeOK, SharedTypeOK, dbVars
<1>7. OutcomeInv'
  BY DEF LeaseExpires, dbVars, IInv, OutcomeInv, ConfirmedHasEffect, TerminalNotHeld
<1> QED
  BY <1>6, <1>7, QuietStep DEF LeaseExpires, dbVars

\* transitionAccount.
LEMMA TransitionAccountInv ==
    ASSUME IInv, TransitionAccount
    PROVE  IInv'
<1>1. TypeOK
  BY DEF IInv
<1>2. account' \in [active: BOOLEAN, changes: Nat]
  BY SMTT(30), <1>1 DEF TransitionAccount, TypeOK
<1>3. SharedTypeOK'
  BY <1>1, <1>2 DEF TransitionAccount, TypeOK, SharedTypeOK, dbVars
<1>4. OutcomeInv'
  BY DEF TransitionAccount, dbVars, IInv, OutcomeInv, ConfirmedHasEffect, TerminalNotHeld
<1> QED
  BY <1>3, <1>4, QuietStep DEF TransitionAccount, dbVars

\* A step of nobody's worker that makes the shared state grow.
LEMMA WorkersStand ==
    ASSUME IInv, UNCHANGED workers, SharedTypeOK', SharedGrows,
           \A v \in Workers : RpcSnapshot /\ workers[v].pc = "height" =>
                                  NothingExecuted(chain, chain'),
           RowsInv', OutcomeInv'
    PROVE  IInv'
<1>1. workers \in [Workers -> WorkerState]
  BY DEF IInv, TypeOK
<1>2. TypeOK'
  BY <1>1 DEF TypeOK, SharedTypeOK
<1>3. ASSUME NEW v \in Workers
      PROVE  WorkerInv(workers[v], nAttempts', attempts', chain')
  <2>1. workers[v] \in WorkerState /\ WorkerInv(workers[v], nAttempts, attempts, chain)
    BY <1>1 DEF IInv, WorkersInv
  <2>2. /\ nAttempts \in AttemptNumbers /\ nAttempts' \in AttemptNumbers
        /\ attempts \in [AttemptNumbers -> Attempt]
        /\ attempts' \in [AttemptNumbers -> Attempt]
    BY DEF IInv, TypeOK, SharedTypeOK
  <2> QED
    BY <2>1, <2>2, GrowthKeepsWorkerInv DEF SharedGrows
<1>4. WorkersInv'
  BY <1>3 DEF WorkersInv
<1> QED
  BY <1>2, <1>4 DEF IInv

\* The network executes, confirms or drops a transaction.  What is dead or has
\* landed stays so, and with RpcSnapshot nobody is between two RPC reads.
LEMMA NetworkStepInv ==
    ASSUME IInv, NEW e \in Effects, NetworkStep(e)
    PROVE  IInv'
<1>0. UNCHANGED <<payment, attempts, nAttempts, reservation, evidence, exception,
                  items, deferrals, account, workers>>
  BY DEF NetworkStep, dbVars
<1>1. TypeOK /\ chain \in [Effects -> ChainStates]
  BY DEF IInv, TypeOK
<1>2. PICK after \in ChainStates :
        /\ \/ chain[e] = "inflight" /\ after \in {"processed", "failed"}
           \/ chain[e] = "processed" /\ after = "landed"
           \/ chain[e] \in {"none", "inflight"} /\ after = "expired"
        /\ chain' = [chain EXCEPT ![e] = after]
  BY DEF NetworkStep
<1>3. /\ chain[e] \notin Dead \cup {"landed"}
      /\ chain[e] \in {"none", "expired"} => after = "expired"
  BY <1>2 DEF Dead
<1>4. \A f \in Effects : chain'[f] = IF f = e THEN after ELSE chain[f]
  BY <1>1, <1>2
<1>5. chain' \in [Effects -> ChainStates]
  BY <1>1, <1>2
<1>6. \A f \in Effects : chain[f] \in Dead \cup {"landed"} => chain'[f] = chain[f]
  BY <1>3, <1>4
<1>7. SharedTypeOK'
  BY <1>0, <1>1, <1>5 DEF TypeOK, SharedTypeOK
<1>8. SharedGrows
  BY <1>0, <1>1, <1>6, Stays DEF SharedGrows, Grows
<1>9. \A v \in Workers : RpcSnapshot => workers[v].pc # "height"
  BY DEF NetworkStep, BlockMayLand
<1>10. RowsInv'
  <2>1. /\ nAttempts \in AttemptNumbers /\ attempts \in [AttemptNumbers -> Attempt]
        /\ 1..(nAttempts - 1) \subseteq AttemptNumbers
    BY SMTT(30), <1>1, PaymentExecutionAssumption DEF TypeOK, AttemptNumbers
  <2>2. ASSUME NEW n \in 1..(nAttempts - 1), RpcSnapshot
        PROVE  chain'[attempts[n].effect] \in Dead
    <3>1. attempts[n].effect # NoEffect /\ chain[attempts[n].effect] \in Dead
      BY <2>2 DEF IInv, RowsInv
    <3>2. attempts[n].effect \in Effects
      BY <2>1, <3>1 DEF Attempt
    <3> QED
      BY <1>6, <3>1, <3>2
  <2>3. ASSUME NEW f \in Effects, chain'[f] \notin {"none", "expired"}
        PROVE  \E n \in 1..nAttempts : attempts[n].effect = f /\ attempts[n].signed
    <3>1. chain[f] \notin {"none", "expired"}
      BY <1>3, <1>4, <2>3
    <3> QED
      BY <3>1 DEF IInv, RowsInv, SentOnlyIfDurable
  <2>4. /\ \A n \in AttemptNumbers :
            attempts[n].signed \/ attempts[n].outcome \in {"SUBMITTED", "UNKNOWN"} =>
                attempts[n].effect # NoEffect
        /\ \A n \in 1..(nAttempts - 1) : attempts[n].effect # NoEffect
    BY DEF IInv, RowsInv
  <2>5. \A n \in 1..(nAttempts - 1) :
            RpcSnapshot => chain'[attempts[n].effect] \in Dead
    BY <2>2
  <2>6. SentOnlyIfDurable'
    BY <1>0, <2>3 DEF SentOnlyIfDurable
  <2> QED
    BY <1>0, <2>4, <2>5, <2>6 DEF RowsInv
<1>11. OutcomeInv'
  <2>1. (\E f \in Effects : chain[f] = "landed") => \E f \in Effects : chain'[f] = "landed"
    BY <1>6
  <2> QED
    BY <1>0, <2>1 DEF IInv, OutcomeInv, ConfirmedHasEffect, TerminalNotHeld
<1> QED
  BY <1>0, <1>7, <1>8, <1>9, <1>10, <1>11, WorkersStand

-----------------------------------------------------------------------------
\* Operators.

\* acknowledgeException.
LEMMA AcknowledgeExceptionInv ==
    ASSUME IInv, AcknowledgeException
    PROVE  IInv'
<1>1. SharedTypeOK'
  BY DEF AcknowledgeException, IInv, TypeOK, SharedTypeOK
<1>2. OutcomeInv'
  BY DEF AcknowledgeException, IInv, OutcomeInv, ConfirmedHasEffect, TerminalNotHeld
<1> QED
  BY <1>1, <1>2, QuietStep DEF AcknowledgeException

\* closeUnresolvedException.
LEMMA CloseUnresolvedExceptionInv ==
    ASSUME IInv, CloseUnresolvedException
    PROVE  IInv'
<1>1. TypeOK /\ payment.rv + 1 \in Nat
  BY SMTT(30) DEF IInv, TypeOK, Payment
<1>2. payment' \in Payment /\ payment'.status = "CLOSED_UNRESOLVED"
  BY <1>1 DEF CloseUnresolvedException, Payment, PaymentStatuses
<1>3. SharedTypeOK'
  BY <1>1, <1>2 DEF CloseUnresolvedException, TypeOK, SharedTypeOK
<1>4. OutcomeInv'
  BY <1>2 DEF CloseUnresolvedException, IInv, OutcomeInv, ConfirmedHasEffect, TerminalNotHeld
<1> QED
  BY <1>3, <1>4, QuietStep DEF CloseUnresolvedException

\* What an operator's resolution does to the attempt rows.
LEMMA ResolveAttemptOK ==
    ASSUME IInv, NEW outcome \in Outcomes \ {"SUBMITTED", "UNKNOWN"},
           ResolveAttempt(outcome), UNCHANGED <<nAttempts, chain>>
    PROVE  /\ attempts' \in [AttemptNumbers -> Attempt]
           /\ SharedGrows /\ NothingExecuted(chain, chain')
           /\ RowsInv'
<1> DEFINE old == attempts[nAttempts]
           row == [old EXCEPT !.outcome = outcome, !.rv = old.rv + 1]
<1>1. /\ TypeOK /\ nAttempts \in AttemptNumbers /\ old \in Attempt
      /\ attempts \in [AttemptNumbers -> Attempt]
      /\ old.signed => old.effect # NoEffect
  BY DEF IInv, TypeOK, RowsInv
<1>2. CASE attempts' = attempts
  BY <1>1, <1>2, Stays DEF SharedGrows, IInv, RowsInv, SentOnlyIfDurable
<1>3. CASE attempts' = [attempts EXCEPT ![nAttempts] = row]
  <2>1. row \in Attempt /\ RowGrows(old, row)
    BY <1>1, SetOutcome
  <2> HIDE DEF row
  <2> QED
    BY <1>1, <1>3, <2>1, RowChange DEF SharedGrows, RowsInv, SentOnlyIfDurable
<1> QED
  BY <1>1, <1>2, <1>3 DEF ResolveAttempt, Current

\* resolveExceptionWithEvidence for CONFIRMED.
LEMMA ResolveConfirmedExceptionInv ==
    ASSUME IInv, ResolveConfirmedException
    PROVE  IInv'
<1>0. /\ UNCHANGED <<nAttempts, evidence, items, deferrals, account, chain, workers>>
      /\ ResolveAttempt("CONFIRMED")
      /\ payment' = [status |-> "CONFIRMED", exec |-> "TERMINAL", rv |-> payment.rv + 1]
      /\ reservation' = SettledReservation("CONSUMED")
      /\ exception' = "RESOLVED"
      /\ <<nAttempts, "CONFIRMED">> \in evidence
  BY DEF ResolveConfirmedException
<1>1. TypeOK /\ payment.rv + 1 \in Nat /\ nAttempts \in AttemptNumbers
  BY SMTT(30) DEF IInv, TypeOK, Payment
<1>2. /\ attempts' \in [AttemptNumbers -> Attempt]
      /\ SharedGrows /\ NothingExecuted(chain, chain') /\ RowsInv'
  BY <1>0, ResolveAttemptOK DEF Outcomes
<1>3. payment' \in Payment
  BY <1>0, <1>1 DEF Payment, PaymentStatuses
<1>4. reservation' \in {"CONSUMED", "RELEASED"}
  BY <1>0, <1>1 DEF SettledReservation, TypeOK
<1>5. SharedTypeOK'
  BY <1>0, <1>1, <1>2, <1>3, <1>4 DEF TypeOK, SharedTypeOK
<1>6. \E e \in Effects : chain[e] = "landed"
  BY <1>0, <1>1 DEF IInv, OutcomeInv
<1>7. OutcomeInv'
  BY <1>0, <1>4, <1>6 DEF OutcomeInv, ConfirmedHasEffect, TerminalNotHeld
<1> QED
  BY <1>0, <1>2, <1>5, <1>7, WorkersStand

\* resolveExceptionWithEvidence for PROVED_NO_EFFECT.
LEMMA ResolveProvedNoEffectExceptionInv ==
    ASSUME IInv, ResolveProvedNoEffectException
    PROVE  IInv'
<1> DEFINE none == \A n \in 1..(nAttempts - 1) : attempts[n].outcome \in NoEffectOutcomes
<1>0. /\ UNCHANGED <<nAttempts, evidence, items, deferrals, account, chain, workers>>
      /\ ResolveAttempt("PROVED_NO_EFFECT")
      /\ payment' = IF none
                    THEN [status |-> "PROVED_NO_EFFECT", exec |-> "TERMINAL",
                          rv |-> payment.rv + 1]
                    ELSE [status |-> "REVIEW_REQUIRED", exec |-> "RECONCILING",
                          rv |-> payment.rv + 1]
      /\ reservation' = IF none THEN SettledReservation("RELEASED") ELSE reservation
      /\ exception' = "RESOLVED"
  BY DEF ResolveProvedNoEffectException
<1> HIDE DEF none
<1>1. TypeOK /\ payment.rv + 1 \in Nat
  BY SMTT(30) DEF IInv, TypeOK, Payment
<1>2. /\ attempts' \in [AttemptNumbers -> Attempt]
      /\ SharedGrows /\ NothingExecuted(chain, chain') /\ RowsInv'
  BY <1>0, ResolveAttemptOK DEF Outcomes
<1>3. /\ payment' \in Payment /\ payment'.status # "CONFIRMED"
      /\ payment'.exec = "TERMINAL" => none
  BY <1>0, <1>1 DEF Payment, PaymentStatuses
<1>4. /\ reservation' \in {"HELD", "CONSUMED", "RELEASED"}
      /\ none => reservation' # "HELD"
      /\ reservation' = "CONSUMED" => reservation = "CONSUMED"
  BY <1>0, <1>1 DEF SettledReservation, TypeOK
<1>5. SharedTypeOK'
  BY <1>0, <1>1, <1>2, <1>3, <1>4 DEF TypeOK, SharedTypeOK
<1>6. OutcomeInv'
  BY <1>0, <1>3, <1>4 DEF IInv, OutcomeInv, ConfirmedHasEffect, TerminalNotHeld
<1> QED
  BY <1>0, <1>2, <1>5, <1>6, WorkersStand

-----------------------------------------------------------------------------
\* Together.

\* The initial state satisfies the invariant.
LEMMA IInvInit == Init => IInv
<1> SUFFICES ASSUME Init PROVE IInv
  OBVIOUS
<1>1. 1 \in AttemptNumbers /\ 0 \in Nat /\ 0 \in Int /\ 0 \in 0..LeaseTicks
  BY SMTT(30), PaymentExecutionAssumption, WorkItemsAssumption DEF AttemptNumbers
<1>2. \A status \in WorkStatuses, kind \in WorkKinds : NewItem(status, kind) \in WorkItem
  BY <1>1 DEF NewItem, WorkItem
<1>3. /\ NewItem("AVAILABLE", "OUTGOING_PAYMENT") \in WorkItem
      /\ NewItem("ABSENT", "OUTGOING_PAYMENT_ATTEMPT") \in WorkItem
  BY <1>2 DEF WorkStatuses, WorkKinds
<1>4. items \in [AttemptNumbers -> WorkItem]
  BY <1>3 DEF Init
<1>5. NewAttempt \in Attempt
  BY <1>1 DEF NewAttempt, Attempt, Outcomes
<1>6. attempts \in [AttemptNumbers -> Attempt] /\ payment \in Payment
  BY <1>1, <1>5 DEF Init, Payment, PaymentStatuses
<1>7. /\ workers \in [Workers -> WorkerState] /\ chain \in [Effects -> ChainStates]
      /\ account \in [active: BOOLEAN, changes: Nat]
      /\ deferrals \in [AttemptNumbers -> Nat]
  BY <1>1, IdleOK DEF Init, ChainStates
<1>8. TypeOK
  BY <1>1, <1>4, <1>6, <1>7 DEF Init, TypeOK
<1>9. WorkersInv
  BY <1>1, IdleOK DEF Init, WorkersInv
<1>10. RowsInv
  <2>1. \A n \in AttemptNumbers : ~attempts[n].signed /\ attempts[n].outcome = "NOT_STARTED"
    BY DEF Init, NewAttempt
  <2>2. 1..(nAttempts - 1) = {}
    BY SMTT(30) DEF Init
  <2>3. \A e \in Effects : chain[e] = "none"
    BY DEF Init
  <2> QED
    BY <2>1, <2>2, <2>3 DEF RowsInv, SentOnlyIfDurable
<1>11. OutcomeInv
  BY DEF Init, OutcomeInv, ConfirmedHasEffect, TerminalNotHeld
<1> QED
  BY <1>8, <1>9, <1>10, <1>11 DEF IInv

\* Every step of a worker preserves the invariant.
LEMMA WorkerStepInv ==
    ASSUME IInv, NEW w \in Workers, WorkerStep(w)
    PROVE  IInv'
<1>1. ASSUME NEW here, NEW next, EnsureActive(w, here, next),
             <<here, next>> \in {<<"guardPrepare", "prepare">>, <<"guardSign", "sign">>,
                                 <<"guardSubmit", "observe">>}
      PROVE  IInv'
  BY SMTT(30), <1>1, EnsureActiveInv
<1>2. CASE \/ EnsureActive(w, "guardPrepare", "prepare")
           \/ EnsureActive(w, "guardSign", "sign")
           \/ EnsureActive(w, "guardSubmit", "observe")
  BY <1>1, <1>2
<1>3. CASE \/ LoadPayment(w) \/ LoadView(w) \/ Prepare(w) \/ PersistPrepared(w) \/ UseSigningRequest(w)
           \/ Sign(w) \/ RejectRequest(w) \/ PersistSigned(w) \/ CompleteRequest(w)
           \/ Recheck(w) \/ Observe(w) \/ Send(w)
  BY <1>3, LoadPaymentInv, LoadViewInv, PrepareInv, PersistPreparedInv, UseSigningRequestInv, SignInv,
     RejectRequestInv, PersistSignedInv, CompleteRequestInv, RecheckInv, ObserveInv,
     SendInv
<1>4. CASE \/ UpdateAttemptOutcome(w) \/ UpdatePaymentExecution(w)
           \/ Reconcile(w) \/ Height(w)
           \/ FinalizeCheck(w) \/ FinalizeWrite(w) \/ FinalizeRolledBack(w)
           \/ AbortCheck(w) \/ AbortWrite(w)
  BY <1>4, UpdateAttemptOutcomeInv, UpdatePaymentExecutionInv, ReconcileInv, HeightInv,
     FinalizeCheckInv, FinalizeWriteInv, FinalizeRolledBackInv, AbortCheckInv,
     AbortWriteInv
<1>5. CASE \/ CompleteWorkItem(w) \/ RetryWorkItem(w) \/ FailWorkItem(w)
           \/ DeferWorkItem(w) \/ HandleFailure(w)
  BY <1>5, CompleteWorkItemInv, RetryWorkItemInv, FailWorkItemInv, DeferWorkItemInv,
     HandleFailureInv
<1> QED
  BY <1>2, <1>3, <1>4, <1>5 DEF WorkerStep

\* Stuttering preserves the invariant.
LEMMA StutterInv ==
    ASSUME IInv, UNCHANGED vars
    PROVE  IInv'
<1>1. SharedTypeOK' /\ OutcomeInv'
  BY DEF vars, dbVars, IInv, TypeOK, SharedTypeOK, OutcomeInv, ConfirmedHasEffect,
         TerminalNotHeld
<1> QED
  BY <1>1, QuietStep DEF vars, dbVars

-----------------------------------------------------------------------------
(* The durable queue.  The workers use their items as WorkQueue specifies:   *)
(* only six actions touch the rows, and each is an operation of the queue.   *)

\* Rows of attempts that do not exist yet are absent.
Queued ==
    \A n \in AttemptNumbers : n > nAttempts =>
        items[n] = NewItem("ABSENT", "OUTGOING_PAYMENT_ATTEMPT")

\* What the rows say of the number of claims.
Spent(it) == it.attempts + it.recoveries

\* The queue's operators are those of WorkItems.
LEMMA SameRows ==
    /\ \A it, w : WQ!Owns(it, w) <=> Owns(it, w)
    /\ \A it : WQ!Completed(it) = Completed(it) /\ WQ!Exhausted(it) = Exhausted(it)
    /\ \A it : WQ!Deferred(it) = Deferred(it) /\ (WQ!RetryExhausts(it) <=> RetryExhausts(it))
    /\ \A it, k : WQ!Retried(it, k) = Retried(it, k)
    /\ \A s, k : WQ!NewItem(s, k) = NewItem(s, k)
    /\ WQ!WorkKinds = WorkKinds
BY DEF WQ!Owns, Owns, WQ!Completed, Completed, WQ!Exhausted, Exhausted, WQ!Unleased, Unleased,
       WQ!Deferred, Deferred, WQ!RecoveringExpiredLease, RecoveringExpiredLease,
       WQ!RetryExhausts, RetryExhausts, WQ!Retried, Retried, WQ!NewItem, NewItem,
       WQ!WorkKinds, WorkKinds

LEMMA SameClaims ==
    /\ \A k : /\ WQ!ClaimCandidates(items, k) = ClaimCandidates(items, k)
              /\ WQ!DeadLeases(items, k) = DeadLeases(items, k)
              /\ WQ!AfterSweep(items, k) = AfterSweep(items, k)
    /\ \A k, i, w : WQ!AfterClaim(items, k, i, w) = AfterClaim(items, k, i, w)
BY DEF WQ!ClaimCandidates, ClaimCandidates, WQ!DeadLeases, DeadLeases, WQ!AfterSweep, AfterSweep,
       WQ!AfterClaim, AfterClaim, WQ!Claimed, Claimed, WQ!Claimable, Claimable,
       WQ!FinalLeaseExpired, FinalLeaseExpired, WQ!Exhausted, Exhausted, WQ!Unleased, Unleased

\* A row given back without a claim or a deferral has spent what it had.
LEMMA GivenBack ==
    ASSUME NEW it \in WorkItem, NEW status, NEW k
    PROVE  /\ Spent(Unleased(it, status)) = Spent(it)
           /\ Spent(Retried(it, k)) = Spent(it)
           /\ Spent(Deferred(it)) + 1 = Spent(it)
           /\ \A w : Spent(Claimed(it, w)) = Spent(it) + 1
           /\ \A n : Spent([it EXCEPT !.lease = n]) = Spent(it)
BY SMTT(30) DEF Spent, Unleased, Retried, Deferred, Claimed, WorkItem

\* One row changes: what the queue counts as claims changes there only.
LEMMA OneRowCounts ==
    ASSUME TypeOK, NEW i \in AttemptNumbers, NEW it \in WorkItem,
           items' = [items EXCEPT ![i] = it],
           \/ UNCHANGED deferrals /\ Spent(it) = Spent(items[i])
           \/ deferrals' = [deferrals EXCEPT ![i] = @ + 1] /\ Spent(it) + 1 = Spent(items[i])
    PROVE  [j \in AttemptNumbers |-> items'[j].attempts + items'[j].recoveries + deferrals'[j]]
            = [j \in AttemptNumbers |-> items[j].attempts + items[j].recoveries + deferrals[j]]
<1> SUFFICES ASSUME NEW j \in AttemptNumbers
             PROVE  items'[j].attempts + items'[j].recoveries + deferrals'[j]
                     = items[j].attempts + items[j].recoveries + deferrals[j]
  OBVIOUS
<1>1. items \in [AttemptNumbers -> WorkItem] /\ deferrals \in [AttemptNumbers -> Nat]
  BY DEF TypeOK
<1>2. CASE j # i
  BY <1>1, <1>2
<1>3. CASE j = i
  <2>1. items'[j] = it
    BY <1>1, <1>3
  <2>2. /\ it.attempts \in Int /\ it.recoveries \in Int
        /\ items[i].attempts \in Int /\ items[i].recoveries \in Int /\ deferrals[i] \in Nat
    BY <1>1 DEF WorkItem
  <2>3. \/ deferrals'[i] = deferrals[i] /\ Spent(it) = Spent(items[i])
        \/ deferrals'[i] = deferrals[i] + 1 /\ Spent(it) + 1 = Spent(items[i])
    BY <1>1
  <2> QED
    BY SMTT(30), <1>3, <2>1, <2>2, <2>3 DEF Spent
<1> QED
  BY <1>2, <1>3

\* The rows are swept and one of them may be claimed.
LEMMA ClaimQueues ==
    ASSUME TypeOK, NEW w \in Workers, NEW kind \in WorkKinds, ClaimWorkItem(w, kind)
    PROVE  WQ!ClaimWorkItem(w, kind)
<1> DEFINE Claims == [j \in AttemptNumbers |->
                        items[j].attempts + items[j].recoveries + deferrals[j]]
<1>1. /\ items \in [AttemptNumbers -> WorkItem] /\ deferrals \in [AttemptNumbers -> Nat]
      /\ UNCHANGED deferrals
  BY DEF TypeOK, ClaimWorkItem
<1>2. ASSUME NEW j \in AttemptNumbers
      PROVE  /\ AfterSweep(items, kind)[j] \in {items[j], Unleased(items[j], "EXHAUSTED")}
             /\ Spent(AfterSweep(items, kind)[j]) = Spent(items[j])
  <2>1. AfterSweep(items, kind)[j] \in {items[j], Unleased(items[j], "EXHAUSTED")}
    BY <1>1 DEF AfterSweep, Exhausted
  <2>2. items[j] \in WorkItem
    BY <1>1
  <2> QED
    BY SMTT(30), <2>1, <2>2, GivenBack
<1>3. AfterSweep(items, kind) = [j \in AttemptNumbers |-> AfterSweep(items, kind)[j]]
  BY <1>1 DEF AfterSweep
<1>4. \A j \in AttemptNumbers : /\ items[j].attempts \in Int /\ items[j].recoveries \in Int
                                /\ deferrals[j] \in Nat
  BY <1>1 DEF WorkItem
<1>5. ASSUME items' = AfterSweep(items, kind)
      PROVE  Claims' = Claims
  BY <1>1, <1>2, <1>5 DEF Spent
<1>6. ASSUME NEW i \in AttemptNumbers, items' = AfterClaim(items, kind, i, w)
      PROVE  Claims' = [Claims EXCEPT ![i] = @ + 1]
  <2>1. /\ items'[i] = Claimed(items[i], w)
        /\ \A j \in AttemptNumbers \ {i} : items'[j] = AfterSweep(items, kind)[j]
    BY <1>3, <1>6 DEF AfterClaim
  <2>2. Spent(items'[i]) = Spent(items[i]) + 1
    <3>1. items[i] \in WorkItem
      BY <1>1
    <3> QED
      BY SMTT(30), <2>1, <3>1, GivenBack
  <2>3. \A j \in AttemptNumbers \ {i} : Spent(items'[j]) = Spent(items[j])
    BY <1>2, <2>1
  <2>4. \A j \in AttemptNumbers : Spent(items[j]) \in Int
    BY SMTT(30), <1>4 DEF Spent
  <2>5. \A j \in AttemptNumbers : Spent(items'[j]) + deferrals'[j]
            = IF j = i THEN Spent(items[j]) + deferrals[j] + 1 ELSE Spent(items[j]) + deferrals[j]
    BY SMTT(30), <1>1, <1>4, <2>2, <2>3, <2>4
  <2> QED
    BY <2>5 DEF Spent
<1>7. \A i \in ClaimCandidates(items, kind) : i \in AttemptNumbers
  BY <1>1 DEF ClaimCandidates
<1>8. \/ \E i \in ClaimCandidates(items, kind) :
            items' = AfterClaim(items, kind, i, w) /\ Claims' = [Claims EXCEPT ![i] = @ + 1]
      \/ /\ ClaimCandidates(items, kind) = {} /\ DeadLeases(items, kind) # {}
         /\ items' = AfterSweep(items, kind) /\ Claims' = Claims
  <2> HIDE DEF Claims
  <2> QED
    BY <1>5, <1>6, <1>7 DEF ClaimWorkItem
<1>9. /\ WQ!ClaimCandidates(items, kind) = ClaimCandidates(items, kind)
      /\ WQ!DeadLeases(items, kind) = DeadLeases(items, kind)
      /\ WQ!AfterSweep(items, kind) = AfterSweep(items, kind)
      /\ \A i : WQ!AfterClaim(items, kind, i, w) = AfterClaim(items, kind, i, w)
  BY SameClaims
<1>10. \/ \E i \in WQ!ClaimCandidates(items, kind) :
            items' = WQ!AfterClaim(items, kind, i, w) /\ Claims' = [Claims EXCEPT ![i] = @ + 1]
       \/ /\ WQ!ClaimCandidates(items, kind) = {} /\ WQ!DeadLeases(items, kind) # {}
          /\ items' = WQ!AfterSweep(items, kind) /\ UNCHANGED Claims
  <2> HIDE DEF Claims
  <2> QED
    BY <1>8, <1>9
<1> QED
  BY ONLY <1>1, <1>10 DEF WQ!ClaimWorkItem

\* Rows keep their type when they are given back.
LEMMA GivenBackRow ==
    ASSUME NEW it \in WorkItem, NEW k \in WorkKinds, NEW n \in 0..LeaseTicks
    PROVE  /\ Completed(it) \in WorkItem /\ Exhausted(it) \in WorkItem
           /\ Retried(it, k) \in WorkItem /\ Deferred(it) \in WorkItem
           /\ [it EXCEPT !.lease = n] \in WorkItem
<1>1. ASSUME NEW status \in WorkStatuses PROVE Unleased(it, status) \in WorkItem
  <2>1. 0 \in 0..LeaseTicks /\ NoOwner \in Workers \cup {NoOwner}
    BY SMTT(30), WorkItemsAssumption
  <2> QED
    BY <2>1 DEF Unleased, WorkItem
<1>2. Unleased(it, "RETRY_WAIT") \in WorkItem
  BY <1>1 DEF WorkStatuses
<1>3. PICK row \in WorkItem : row = Unleased(it, "RETRY_WAIT")
  BY <1>2
<1>4. [row EXCEPT !.kind = k] \in WorkItem
  BY DEF WorkItem
<1>5. \A a, r \in Int : [row EXCEPT !.attempts = a, !.recoveries = r] \in WorkItem
  BY DEF WorkItem
<1>6. row.attempts \in Int /\ row.recoveries \in Int
  BY DEF WorkItem
<1>7. Deferred(it) \in WorkItem
  <2>1. PICK a \in Int : a = IF RecoveringExpiredLease(it) THEN row.attempts ELSE row.attempts - 1
    BY SMTT(30), <1>6
  <2>2. PICK r \in Int : r = IF RecoveringExpiredLease(it) THEN row.recoveries - 1
                             ELSE row.recoveries
    BY SMTT(30), <1>6
  <2>3. Deferred(it) = [row EXCEPT !.attempts = a, !.recoveries = r]
    BY <1>3, <2>1, <2>2 DEF Deferred
  <2> QED
    BY <1>5, <2>3
<1>8. [it EXCEPT !.lease = n] \in WorkItem
  BY DEF WorkItem
<1> QED
  BY <1>1, <1>3, <1>4, <1>7, <1>8 DEF Completed, Exhausted, Retried, WorkStatuses

\* The owner of a lease completes, retries, fails or defers its item.
LEMMA SettleQueues ==
    ASSUME IInv, NEW w \in Workers,
           CompleteWorkItem(w) \/ RetryWorkItem(w) \/ FailWorkItem(w) \/ DeferWorkItem(w)
    PROVE  WQ!Next \/ UNCHANGED WQ!vars
<1> DEFINE Claims == [j \in AttemptNumbers |->
                        items[j].attempts + items[j].recoveries + deferrals[j]]
<1>1. PICK i : i = workers[w].item
  OBVIOUS
<1>2. /\ i \in AttemptNumbers /\ items[i] \in WorkItem /\ items \in [AttemptNumbers -> WorkItem]
      /\ TypeOK /\ workers[w].next \in WorkKinds \cup {KeepKind}
  <2>1. TypeOK /\ workers[w] \in WorkerState /\ WorkerInv(workers[w], nAttempts, attempts, chain)
    BY DEF IInv, WorkersInv, TypeOK
  <2>2. workers[w].pc # "idle"
    BY DEF CompleteWorkItem, RetryWorkItem, FailWorkItem, DeferWorkItem, At
  <2>3. i \in 0..NRoutes /\ workers[w].next \in WorkKinds \cup {KeepKind}
    BY <1>1, <2>1 DEF WorkerState
  <2>4. i \in AttemptNumbers
    BY SMTT(30), <1>1, <2>1, <2>2, <2>3, PaymentExecutionAssumption DEF WorkerInv, AttemptNumbers
  <2> QED
    BY <2>1, <2>3, <2>4 DEF TypeOK
<1>3. Mine(w) = items[i]
  BY <1>1 DEF Mine
<1>4. NextKind(w) \in WorkKinds
  <2>1. items[i].kind \in WorkKinds
    BY <1>2 DEF WorkItem
  <2> QED
    BY <1>2, <1>3, <2>1 DEF NextKind
<1>5. PICK n \in 0..LeaseTicks : n = 0
  BY SMTT(30), WorkItemsAssumption
<1>6. \A k \in WorkKinds :
         /\ Completed(items[i]) \in WorkItem /\ Exhausted(items[i]) \in WorkItem
         /\ Retried(items[i], k) \in WorkItem /\ Deferred(items[i]) \in WorkItem
         /\ Spent(Completed(items[i])) = Spent(items[i])
         /\ Spent(Exhausted(items[i])) = Spent(items[i])
         /\ Spent(Retried(items[i], k)) = Spent(items[i])
         /\ Spent(Deferred(items[i])) + 1 = Spent(items[i])
  BY <1>2, <1>5, GivenBack, GivenBackRow DEF Completed, Exhausted
<1>7. CASE LoseLease(w)
  BY <1>7 DEF LoseLease, WQ!vars
<1>8. ASSUME Settle(w, Completed(items[i])), UNCHANGED deferrals PROVE WQ!Next
  <2>1. Owns(items[i], w) /\ items' = [items EXCEPT ![i] = Completed(items[i])]
    BY <1>1, <1>3, <1>8 DEF Settle, StillOwned
  <2>2. Claims' = Claims
    BY <1>2, <1>4, <1>8, <1>6, <2>1, OneRowCounts
  <2>3. WQ!CompleteWorkItem(w, i)
    BY <1>8, <2>1, <2>2, SameRows DEF WQ!CompleteWorkItem
  <2> QED
    BY <1>2, <2>3 DEF WQ!Next, WQ!Finish
<1>9. ASSUME Settle(w, Exhausted(items[i])), UNCHANGED deferrals PROVE WQ!Next
  <2>1. Owns(items[i], w) /\ items' = [items EXCEPT ![i] = Exhausted(items[i])]
    BY <1>1, <1>3, <1>9 DEF Settle, StillOwned
  <2>2. Claims' = Claims
    BY <1>2, <1>4, <1>9, <1>6, <2>1, OneRowCounts
  <2>3. WQ!FailWorkItem(w, i)
    BY <1>9, <2>1, <2>2, SameRows DEF WQ!FailWorkItem
  <2> QED
    BY <1>2, <2>3 DEF WQ!Next, WQ!Finish
<1>10. ASSUME ~RetryExhausts(items[i]), Settle(w, Retried(items[i], NextKind(w))),
             UNCHANGED deferrals
      PROVE  WQ!Next
  <2>1. PICK k \in WorkKinds : k = NextKind(w)
    BY <1>4
  <2>2. Owns(items[i], w) /\ items' = [items EXCEPT ![i] = Retried(items[i], k)]
    BY <1>1, <1>3, <1>10, <2>1 DEF Settle, StillOwned
  <2>3. Claims' = Claims
    BY <1>2, <1>10, <1>6, <2>2, OneRowCounts
  <2>4. WQ!RetryWorkItem(w, i, k)
    BY <1>10, <2>2, <2>3, SameRows DEF WQ!RetryWorkItem
  <2> QED
    BY <1>2, <2>4, SameRows DEF WQ!Next, WQ!Finish
<1>11. ASSUME Settle(w, Deferred(items[i])), deferrals[i] < MaxDeferrals,
             deferrals' = [deferrals EXCEPT ![i] = @ + 1]
      PROVE  WQ!Next
  <2>1. Owns(items[i], w) /\ items' = [items EXCEPT ![i] = Deferred(items[i])]
    BY <1>1, <1>3, <1>11 DEF Settle, StillOwned
  <2>2. Claims' = Claims
    BY <1>2, <1>4, <1>11, <1>6, <2>1, OneRowCounts
  <2>3. WQ!DeferWorkItem(w, i)
    BY <1>11, <2>1, <2>2, SameRows DEF WQ!DeferWorkItem
  <2> QED
    BY <1>2, <2>3 DEF WQ!Next
<1> QED
  BY <1>1, <1>3, <1>7, <1>8, <1>9, <1>10, <1>11
     DEF CompleteWorkItem, RetryWorkItem, FailWorkItem, DeferWorkItem

\* Time passes over a lease.
LEMMA ExpiryQueues ==
    ASSUME TypeOK, NEW i \in AttemptNumbers, LeaseExpires(i)
    PROVE  WQ!LeaseElapses(i)
<1> DEFINE Claims == [j \in AttemptNumbers |->
                        items[j].attempts + items[j].recoveries + deferrals[j]]
<1>1. items[i] \in WorkItem /\ items \in [AttemptNumbers -> WorkItem]
  BY DEF TypeOK
<1>2. PICK n \in 0..LeaseTicks : n = items[i].lease - 1
  <2>1. items[i].lease \in 0..LeaseTicks /\ items[i].lease > 0
    BY <1>1 DEF WorkItem, LeaseExpires
  <2> QED
    BY SMTT(30), <2>1, WorkItemsAssumption
<1>3. items' = [items EXCEPT ![i] = [items[i] EXCEPT !.lease = n]] /\ UNCHANGED deferrals
  BY <1>1, <1>2 DEF LeaseExpires
<1>4. Claims' = Claims
  BY SMTT(30), <1>1, <1>3, GivenBack, GivenBackRow, OneRowCounts
<1> QED
  BY <1>4 DEF LeaseExpires, WQ!LeaseElapses

\* A replacement attempt inserts its row.
LEMMA ReplacementQueues ==
    ASSUME IInv, Queued, NEW w \in Workers, FinalizeWrite(w)
    PROVE  /\ Queued'
           /\ WQ!Next \/ UNCHANGED WQ!vars
<1> DEFINE Claims == [j \in AttemptNumbers |->
                        items[j].attempts + items[j].recoveries + deferrals[j]]
<1>1. /\ items \in [AttemptNumbers -> WorkItem] /\ nAttempts \in AttemptNumbers /\ TypeOK
      /\ NRoutes \in Nat /\ UNCHANGED deferrals
  BY PaymentExecutionAssumption DEF IInv, TypeOK, FinalizeWrite
<1>2. CASE UNCHANGED <<nAttempts, items>>
  BY <1>1, <1>2 DEF Queued, WQ!vars
<1>3. CASE workers[w].replace /\ nAttempts = workers[w].n
  <2>1. PICK i : i = nAttempts + 1
    OBVIOUS
  <2>2. WorkerInv(workers[w], nAttempts, attempts, chain)
    BY DEF IInv, WorkersInv
  <2>3. nAttempts < NRoutes
    BY <1>3, <2>2 DEF WorkerInv
  <2>4. i \in AttemptNumbers /\ i > nAttempts /\ i \in Nat /\ nAttempts \in Nat
    BY SMTT(30), <1>1, <2>1, <2>3 DEF AttemptNumbers
  <2>5. PICK new : new = NewItem("AVAILABLE", "OUTGOING_PAYMENT_ATTEMPT")
    OBVIOUS
  <2>6. nAttempts' = i /\ items' = [items EXCEPT ![i] = new]
    BY <1>3, <2>1, <2>5 DEF FinalizeWrite
  <2>7. items[i] = NewItem("ABSENT", "OUTGOING_PAYMENT_ATTEMPT")
    BY <2>4 DEF Queued
  <2>8. Queued'
    <3> SUFFICES ASSUME NEW n \in AttemptNumbers, n > i
                 PROVE  items'[n] = NewItem("ABSENT", "OUTGOING_PAYMENT_ATTEMPT")
      BY <2>6 DEF Queued
    <3>1. n # i /\ n > nAttempts
      BY SMTT(30), <2>4 DEF AttemptNumbers
    <3> QED
      BY <1>1, <2>6, <3>1 DEF Queued
  <2>9. new \in WorkItem /\ Spent(new) = Spent(items[i])
    BY SMTT(30), <2>5, <2>7, WorkItemsAssumption
       DEF NewItem, WorkItem, WorkStatuses, WorkKinds, Spent
  <2>10. Claims' = Claims
    BY <1>1, <2>4, <2>6, <2>9, OneRowCounts
  <2>11. items[i].status = "ABSENT" /\ items[i].kind = "OUTGOING_PAYMENT_ATTEMPT"
    BY SMTT(30), <2>7 DEF NewItem
  <2>12. WQ!NewItem("AVAILABLE", items[i].kind) = new
    BY <2>5, <2>11, SameRows
  <2>13. items' = [items EXCEPT ![i] = WQ!NewItem("AVAILABLE", items[i].kind)]
    BY <2>6, <2>12
  <2>14. WQ!Enqueue(i)
    BY <1>1, <2>10, <2>11, <2>13 DEF WQ!Enqueue
  <2> QED
    BY <2>4, <2>8, <2>14 DEF WQ!Next
<1> QED
  BY <1>2, <1>3 DEF FinalizeWrite

\* Every other step on the rows changes rows that exist.
LEMMA QueuedKept ==
    ASSUME TypeOK, Queued, UNCHANGED nAttempts,
           \A n \in AttemptNumbers : items[n].status = "ABSENT" => items'[n] = items[n]
    PROVE  Queued'
<1>1. NewItem("ABSENT", "OUTGOING_PAYMENT_ATTEMPT").status = "ABSENT"
  BY DEF NewItem
<1> QED
  BY <1>1 DEF Queued

\* Only these steps of a worker write the queue.
LEMMA ItemWriters ==
    ASSUME NEW w \in Workers, WorkerStep(w)
    PROVE  \/ FinalizeWrite(w)
           \/ CompleteWorkItem(w) \/ RetryWorkItem(w) \/ FailWorkItem(w) \/ DeferWorkItem(w)
           \/ UNCHANGED <<nAttempts, items, deferrals>>
<1>1. CASE \/ LoadPayment(w) \/ LoadView(w)
           \/ EnsureActive(w, "guardPrepare", "prepare")
           \/ EnsureActive(w, "guardSign", "sign")
           \/ EnsureActive(w, "guardSubmit", "observe")
           \/ Prepare(w) \/ PersistPrepared(w) \/ UseSigningRequest(w)
  BY <1>1 DEF LoadPayment, LoadView, EnsureActive, Prepare, PersistPrepared,
              UseSigningRequest, dbVars
<1>2. CASE \/ Sign(w) \/ RejectRequest(w) \/ PersistSigned(w) \/ CompleteRequest(w)
           \/ Recheck(w) \/ Observe(w) \/ Send(w)
  BY <1>2
     DEF Sign, RejectRequest, PersistSigned, CompleteRequest, Recheck, Observe, Send, dbVars
<1>3. CASE \/ UpdateAttemptOutcome(w) \/ UpdatePaymentExecution(w)
           \/ Reconcile(w) \/ Height(w) \/ FinalizeCheck(w) \/ FinalizeRolledBack(w)
           \/ AbortCheck(w) \/ AbortWrite(w) \/ HandleFailure(w)
  BY <1>3 DEF UpdateAttemptOutcome, UpdatePaymentExecution, Reconcile, Height, FinalizeCheck,
              FinalizeRolledBack, AbortCheck, AbortWrite, HandleFailure, dbVars
<1> QED
  BY <1>1, <1>2, <1>3 DEF WorkerStep

\* What a worker does apart from claiming.
LEMMA WorkerQueues ==
    ASSUME IInv, Queued, NEW w \in Workers, WorkerStep(w)
    PROVE  /\ Queued'
           /\ WQ!Next \/ UNCHANGED WQ!vars
<1>1. CASE FinalizeWrite(w)
  BY <1>1, ReplacementQueues
<1>2. CASE CompleteWorkItem(w) \/ RetryWorkItem(w) \/ FailWorkItem(w) \/ DeferWorkItem(w)
  <2>1. UNCHANGED nAttempts
    BY <1>2 DEF CompleteWorkItem, RetryWorkItem, FailWorkItem, DeferWorkItem, LoseLease,
                ReviewAfterExhaustion, dbVars
  <2>2. \/ UNCHANGED items
        \/ Owns(items[workers[w].item], w) /\ \E it : items' = [items EXCEPT ![workers[w].item] = it]
    BY <1>2 DEF CompleteWorkItem, RetryWorkItem, FailWorkItem, DeferWorkItem, LoseLease,
                Settle, StillOwned, Mine
  <2>3. TypeOK /\ items \in [AttemptNumbers -> WorkItem]
    BY DEF IInv, TypeOK
  <2>4. ASSUME NEW n \in AttemptNumbers, items[n].status = "ABSENT" PROVE items'[n] = items[n]
    BY <2>2, <2>3, <2>4 DEF Owns
  <2> QED
    BY <1>2, <2>1, <2>3, <2>4, QueuedKept, SettleQueues
<1>3. CASE UNCHANGED <<nAttempts, items, deferrals>>
  BY <1>3 DEF Queued, WQ!vars
<1> QED
  BY <1>1, <1>2, <1>3, ItemWriters

LEMMA QueueStep ==
    ASSUME IInv, Queued, [Next]_vars
    PROVE  /\ Queued'
           /\ WQ!Next \/ UNCHANGED WQ!vars
<1>1. TypeOK /\ items \in [AttemptNumbers -> WorkItem]
  BY DEF IInv, TypeOK
<1>2. ASSUME NEW w \in Workers, NEW kind \in WorkKinds, ClaimWorkItem(w, kind)
      PROVE  Queued' /\ WQ!Next
  <2>1. UNCHANGED nAttempts
    BY <1>2 DEF ClaimWorkItem, ReviewAfterExhaustion, dbVars
  <2>2. ASSUME NEW n \in AttemptNumbers, items[n].status = "ABSENT" PROVE items'[n] = items[n]
    BY <1>1, <1>2, <2>2
       DEF ClaimWorkItem, AfterClaim, AfterSweep, ClaimCandidates, Claimable,
                            DeadLeases, FinalLeaseExpired
  <2>3. WQ!ClaimWorkItem(w, kind)
    BY <1>1, <1>2, ClaimQueues
  <2> QED
    BY <1>1, <2>1, <2>2, <2>3, SameRows, QueuedKept DEF WQ!Next, WQ!Claim
<1>3. ASSUME NEW i \in AttemptNumbers, LeaseExpires(i) PROVE Queued' /\ WQ!Next
  <2>1. UNCHANGED nAttempts
    BY <1>3 DEF LeaseExpires, dbVars
  <2>2. ASSUME NEW n \in AttemptNumbers, items[n].status = "ABSENT" PROVE items'[n] = items[n]
    BY <1>1, <1>3, <2>2 DEF LeaseExpires
  <2>3. WQ!LeaseElapses(i)
    BY <1>1, <1>3, ExpiryQueues
  <2> QED
    BY <1>1, <2>1, <2>2, <2>3, QueuedKept DEF WQ!Next
<1>4. CASE UNCHANGED <<nAttempts, items, deferrals>>
  BY <1>4 DEF Queued, WQ!vars
<1>5. CASE Operator
  BY <1>4, <1>5 DEF Operator, AcknowledgeException, ResolveConfirmedException,
                    ResolveProvedNoEffectException, CloseUnresolvedException
<1>6. CASE \/ \E w \in Workers : Crash(w)
           \/ \E e \in Effects : NetworkStep(e)
           \/ TransitionAccount \/ UNCHANGED vars
  BY <1>4, <1>6 DEF Crash, NetworkStep, TransitionAccount, vars, dbVars
<1> QED
  BY <1>2, <1>3, <1>5, <1>6, WorkerQueues DEF Next, Automatic, Claim
=============================================================================
