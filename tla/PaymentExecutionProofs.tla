----------------------- MODULE PaymentExecutionProofs -----------------------
(***************************************************************************)
(* Theorems about PaymentExecution for every number of workers, routes and *)
(* attempts, with or without stalled workers.  PaymentSteps has the        *)
(* inductive invariant IInv and the lemmas about single steps; this module *)
(* adds what holds of a payment with one attempt when no worker stalls,    *)
(* the claim, and the theorems.                                            *)
(***************************************************************************)
EXTENDS PaymentSteps

\* A leaf is left to Zenon, unless it names SMT: those need arithmetic, or terms of
\* records and functions that Zenon does not simplify.
USE ZenonT(60)

-----------------------------------------------------------------------------
\* Prepared effects.

EffectsKept ==
    \A n \in AttemptNumbers :
        attempts[n].effect # NoEffect => attempts'[n].effect = attempts[n].effect

\* Only PersistPrepared writes an effect, and its compare-and-swap succeeds only
\* on a row that has none.
LEMMA EffectsKeptStep ==
    ASSUME IInv, [Next]_vars
    PROVE  EffectsKept
<1>1. attempts \in [AttemptNumbers -> Attempt]
  BY DEF IInv, TypeOK
<1>2. CASE UNCHANGED attempts
  BY <1>2 DEF EffectsKept
<1>3. ASSUME NEW w \in Workers, PersistPrepared(w) PROVE EffectsKept
  <2> DEFINE s == workers[w]
  <2>1. s.pc = "persistPrepared" /\ WorkerInv(s, nAttempts, attempts, chain)
    BY <1>3, Own DEF PersistPrepared, At
  <2>2. CASE /\ AttemptUnchanged(s)
             /\ attempts' = [attempts EXCEPT ![s.n].effect = s.effect, ![s.n].rv = @ + 1]
    <3>1. attempts[s.n].effect = NoEffect
      BY <2>1, <2>2 DEF WorkerInv, AttemptUnchanged
    <3>2. \A n \in AttemptNumbers : n # s.n => attempts'[n] = attempts[n]
      BY <1>1, <2>2
    <3> HIDE DEF s
    <3> QED
      BY <3>1, <3>2 DEF EffectsKept
  <2> QED
    BY <1>2, <1>3, <2>2 DEF PersistPrepared
<1>4. ASSUME NEW w \in Workers, UseSigningRequest(w) PROVE EffectsKept
  BY SMTT(30), <1>1, <1>4 DEF UseSigningRequest, EffectsKept, Attempt
<1>5. ASSUME NEW w \in Workers, RejectRequest(w) PROVE EffectsKept
  BY SMTT(30), <1>1, <1>5 DEF RejectRequest, EffectsKept, Attempt
<1>6. ASSUME NEW w \in Workers, PersistSigned(w) PROVE EffectsKept
  BY SMTT(30), <1>1, <1>6 DEF PersistSigned, EffectsKept, Attempt
<1>7. ASSUME NEW w \in Workers, CompleteRequest(w) PROVE EffectsKept
  BY SMTT(30), <1>1, <1>7 DEF CompleteRequest, EffectsKept, Attempt
<1>8. ASSUME NEW w \in Workers, UpdateAttemptOutcome(w) PROVE EffectsKept
  BY SMTT(30), <1>1, <1>8 DEF UpdateAttemptOutcome, EffectsKept, Attempt
<1>9. ASSUME NEW w \in Workers, FinalizeWrite(w) PROVE EffectsKept
  <2> DEFINE s == workers[w]
  <2>1. attempts' = [attempts EXCEPT ![s.n].outcome = s.goal, ![s.n].rv = @ + 1]
    BY <1>9 DEF FinalizeWrite
  <2> HIDE DEF s
  <2> QED
    BY <1>1, <2>1 DEF EffectsKept, Attempt
<1>10. ASSUME NEW w \in Workers, AbortWrite(w) PROVE EffectsKept
  BY <1>1, <1>10 DEF AbortWrite, EffectsKept, Attempt
<1>11. ASSUME NEW outcome, ResolveAttempt(outcome) PROVE EffectsKept
  BY <1>1, <1>11 DEF ResolveAttempt, EffectsKept, Attempt
<1>12. ASSUME Operator PROVE EffectsKept
  BY <1>2, <1>11, <1>12 DEF Operator, AcknowledgeException, ResolveConfirmedException,
     ResolveProvedNoEffectException, CloseUnresolvedException
<1>13. ASSUME NEW w \in Workers, Claim(w) \/ Crash(w) PROVE EffectsKept
  BY <1>2, <1>13 DEF Claim, ClaimWorkItem, ReviewAfterExhaustion, Crash, dbVars
<1>14. ASSUME NEW w \in Workers, WorkerStep(w) PROVE EffectsKept
  <2>1. CASE \/ LoadPayment(w) \/ LoadView(w)
             \/ EnsureActive(w, "guardPrepare", "prepare")
             \/ EnsureActive(w, "guardSign", "sign")
             \/ EnsureActive(w, "guardSubmit", "observe")
             \/ Prepare(w) \/ Sign(w) \/ Recheck(w) \/ Observe(w) \/ Send(w)
    BY <1>2, <2>1 DEF LoadPayment, LoadView, EnsureActive, Prepare, Sign, Recheck,
       Observe, Send, dbVars
  <2>2. CASE \/ UpdatePaymentExecution(w) \/ Reconcile(w) \/ Height(w) \/ FinalizeCheck(w)
             \/ FinalizeRolledBack(w) \/ AbortCheck(w) \/ HandleFailure(w)
    BY <1>2, <2>2 DEF UpdatePaymentExecution, Reconcile, Height, FinalizeCheck,
       FinalizeRolledBack, AbortCheck, HandleFailure, dbVars
  <2>3. CASE \/ CompleteWorkItem(w) \/ RetryWorkItem(w) \/ FailWorkItem(w)
             \/ DeferWorkItem(w)
    BY <1>2, <2>3 DEF CompleteWorkItem, RetryWorkItem, FailWorkItem, DeferWorkItem,
       LoseLease, ReviewAfterExhaustion, dbVars
  <2> QED
    BY <1>3, <1>4, <1>5, <1>6, <1>7, <1>8, <1>9, <1>10, <1>14, <2>1, <2>2, <2>3
       DEF WorkerStep
<1>15. ASSUME \/ \E i \in AttemptNumbers : LeaseExpires(i)
              \/ \E e \in Effects : NetworkStep(e)
              \/ TransitionAccount \/ UNCHANGED vars
       PROVE  EffectsKept
  BY <1>2, <1>15 DEF LeaseExpires, NetworkStep, TransitionAccount, vars, dbVars
<1> QED
  BY <1>12, <1>13, <1>14, <1>15 DEF Next, Automatic

-----------------------------------------------------------------------------
(* One attempt at a time.  Without stalled workers the heartbeat keeps a     *)
(* lease alive while its owner works on the item, so as long as the payment  *)
(* has one attempt, and hence one work item, at most one worker is busy.     *)
(* With a second attempt this ends: item 1 follows whatever attempt is last, *)
(* so two leaseholders can work on one attempt.                              *)

\* The payment is terminal, or in front of an operator.
Resting == payment.status \in TerminalStatuses \cup {"REVIEW_REQUIRED"}

\* Who is busy owns the only item, and completes it only on a payment that rests.
Alone ==
    /\ \A n \in AttemptNumbers \ {1} : items[n].status = "ABSENT"
    /\ \A w \in Workers : workers[w].pc # "idle" =>
           workers[w].item = 1 /\ Owns(items[1], w)
    /\ \A w \in Workers : workers[w].pc \in {"viewClosed", "complete"} => Resting
    /\ Finished(items[1]) => Resting

SoleInv == nAttempts = 1 => Alone

\* Where a worker may be once its payment is closed as PROVED_NO_EFFECT.
Leaving == {"idle", "load", "viewClosed", "complete", "retry"}

\* The transaction whose absence worker state s is about to record is dead.
ProofIsSound(s) ==
    s.pc \in {"finalizeCheck", "finalizeWrite"} /\ s.goal = "PROVED_NO_EFFECT" =>
        s.effect # NoEffect /\ attempts[1].effect = s.effect /\ chain[s.effect] \in Dead

\* What makes it right to close the payment as PROVED_NO_EFFECT.
Harmless ==
    /\ payment.status = "PROVED_NO_EFFECT" =>
           /\ \A e \in Effects : chain[e] \in {"none"} \cup Dead
           /\ attempts[1].outcome \in NoEffectOutcomes
           /\ \A w \in Workers : workers[w].pc \in Leaving
    /\ \A w \in Workers : workers[w].pc \in {"abortCheck", "abortWrite"} =>
           ~attempts[1].signed
    /\ \A w \in Workers : ProofIsSound(workers[w])

HarmlessInv == nAttempts = 1 => Harmless

\* Where a step that leaves the payment row and the work items as they are takes
\* worker w.
Follows(w, t) ==
    LET s == workers[w] IN
    /\ s.pc \notin {"idle", "complete", "retry"}
    /\ t.pc # "idle" => t.item = s.item
    /\ t.pc = "viewClosed" => payment.status \in {"PROVED_NO_EFFECT", "CONFIRMED"}
    /\ t.pc = "complete" => s.pc = "viewClosed"
    /\ t.pc = "abortCheck" => ~attempts[1].signed /\ attempts' = attempts
    /\ t.pc = "abortWrite" => s.pc = "abortCheck" /\ attempts' = attempts
    /\ t.pc = "finalizeCheck" => attempts' = attempts
    /\ RpcSnapshot /\ t.pc = "finalizeCheck" => ProofIsSound(t)
    /\ t.pc = "finalizeWrite" => /\ s.pc = "finalizeCheck" /\ attempts' = attempts
                                 /\ t.goal = s.goal /\ t.effect = s.effect
    /\ s.pc \in {"load", "viewClosed"} => attempts' = attempts
    /\ s.pc = "load" /\ payment.status = "PROVED_NO_EFFECT" => t.pc = "viewClosed"
    /\ s.pc = "viewClosed" /\ attempts[1].outcome \in NoEffectOutcomes =>
           t.pc \in {"complete", "retry"}
    /\ chain' = chain \/ (s.pc = "send" /\ t.pc = "update")

\* While the payment has one attempt, only the owner of its item is busy.
LEMMA OthersIdle ==
    ASSUME Alone, NEW w \in Workers, workers[w].pc # "idle", NEW v \in Workers, v # w
    PROVE  workers[v].pc = "idle"
BY DEF Alone, Owns

\* A worker that stops, or moves on to a step of no special interest.
LEMMA PlainFollows ==
    ASSUME NEW w \in Workers, NEW t,
           workers[w].pc \notin {"idle", "load", "viewClosed", "complete", "retry"},
           t.pc \notin {"viewClosed", "complete", "abortCheck", "abortWrite",
                        "finalizeCheck", "finalizeWrite"},
           t.pc # "idle" => t.item = workers[w].item,
           chain' = chain \/ (workers[w].pc = "send" /\ t.pc = "update")
    PROVE  Follows(w, t)
BY DEF Follows

\* Such a step keeps the worker alone.
LEMMA FollowsAlone ==
    ASSUME IInv, Alone, NEW w \in Workers, NEW t, Follows(w, t), Become(w, t),
           UNCHANGED <<payment, items>>
    PROVE  Alone'
<1>1. workers' = [workers EXCEPT ![w] = t] /\ workers \in [Workers -> WorkerState]
  BY DEF IInv, TypeOK, Become
<1>2. workers[w].pc # "idle" /\ workers[w].item = 1 /\ Owns(items[1], w)
  BY DEF Follows, Alone
<1>3. ASSUME NEW v \in Workers, v # w PROVE workers'[v].pc = "idle"
  BY <1>1, <1>2, <1>3, OthersIdle
<1>4. workers'[w] = t
  BY <1>1
<1>5. t.pc # "idle" => t.item = 1 /\ Owns(items[1], w)
  BY <1>2 DEF Follows
<1>6. Resting' <=> Resting
  BY DEF Resting
<1>7. t.pc \in {"viewClosed", "complete"} => Resting
  <2>1. t.pc = "complete" => workers[w].pc = "viewClosed"
    BY DEF Follows
  <2>2. t.pc = "viewClosed" => payment.status \in {"PROVED_NO_EFFECT", "CONFIRMED"}
    BY DEF Follows
  <2> QED
    BY <2>1, <2>2 DEF Alone, Resting, TerminalStatuses
<1>8. \A v \in Workers : workers'[v].pc # "idle" =>
          workers'[v].item = 1 /\ Owns(items[1], v)
  BY <1>3, <1>4, <1>5
<1>9. \A v \in Workers : workers'[v].pc \in {"viewClosed", "complete"} => Resting
  BY <1>3, <1>4, <1>7
<1> QED
  BY <1>6, <1>8, <1>9 DEF Alone

\* With RpcSnapshot such a step also keeps the payment's no-effect proof sound.
LEMMA FollowsHarmless ==
    ASSUME IInv, Alone, Harmless, RpcSnapshot, NEW w \in Workers, NEW t,
           Follows(w, t), Become(w, t), UNCHANGED payment
    PROVE  Harmless'
<1>1. workers' = [workers EXCEPT ![w] = t] /\ workers \in [Workers -> WorkerState]
  BY DEF IInv, TypeOK, Become
<1>2. workers[w].pc # "idle"
  BY DEF Follows
<1>3. ASSUME NEW v \in Workers, v # w PROVE workers'[v].pc = "idle"
  BY <1>1, <1>2, <1>3, OthersIdle
<1>4. workers'[w] = t
  BY <1>1
<1>5. ASSUME payment.status = "PROVED_NO_EFFECT"
      PROVE  t.pc \in Leaving /\ attempts' = attempts /\ chain' = chain
  <2>1. workers[w].pc \in {"load", "viewClosed"} /\ attempts[1].outcome \in NoEffectOutcomes
    BY <1>5 DEF Follows, Harmless, Leaving
  <2>2. attempts' = attempts
    BY <2>1 DEF Follows
  <2>3. t.pc \in Leaving
    BY <1>5, <2>1 DEF Follows, Leaving
  <2>4. chain' = chain
    BY <2>1 DEF Follows
  <2> QED
    BY <2>2, <2>3, <2>4
<1>6. t.pc \in {"abortCheck", "abortWrite"} => ~attempts'[1].signed
  BY DEF Follows, Harmless
<1>7. ProofIsSound(t)'
  <2>1. CASE t.pc = "finalizeCheck"
    <3>1. ProofIsSound(t) /\ attempts' = attempts /\ chain' = chain
      BY <2>1 DEF Follows
    <3> QED
      BY <2>1, <3>1 DEF ProofIsSound
  <2>2. CASE t.pc = "finalizeWrite"
    <3>1. /\ workers[w].pc = "finalizeCheck" /\ attempts' = attempts /\ chain' = chain
          /\ t.goal = workers[w].goal /\ t.effect = workers[w].effect
      BY <2>2 DEF Follows
    <3>2. ProofIsSound(workers[w])
      BY DEF Harmless
    <3> QED
      BY <2>2, <3>1, <3>2 DEF ProofIsSound
  <2> QED
    BY <2>1, <2>2 DEF ProofIsSound
<1>8. \A v \in Workers : ProofIsSound(workers[v])'
  BY <1>3, <1>4, <1>7 DEF ProofIsSound
<1>9. \A v \in Workers : workers'[v].pc \in {"abortCheck", "abortWrite"} => ~attempts'[1].signed
  BY <1>3, <1>4, <1>6
<1>10. payment.status = "PROVED_NO_EFFECT" => \A v \in Workers : workers'[v].pc \in Leaving
  BY <1>3, <1>4, <1>5 DEF Leaving
<1> QED
  BY <1>5, <1>8, <1>9, <1>10 DEF Harmless

\* A step of worker w that leaves the payment row and the work items as they are.
FollowingStep(w) ==
    /\ \E t : Become(w, t) /\ Follows(w, t)
    /\ UNCHANGED <<payment, items>>

\* Steps between which nothing needs to be said.
PlainSteps == Steps \ {"idle", "load", "viewClosed", "complete", "retry", "abortCheck",
                       "abortWrite", "finalizeCheck", "finalizeWrite"}

\* A step from one of these to another, or to a retry.
LEMMA PlainStep ==
    ASSUME NEW w \in Workers, NEW t, Become(w, t), workers[w].pc \in PlainSteps,
           t.pc \in PlainSteps \cup {"retry"}, t.item = workers[w].item,
           UNCHANGED <<payment, items>>,
           chain' = chain \/ (workers[w].pc = "send" /\ t.pc = "update")
    PROVE  FollowingStep(w)
<1>1. Follows(w, t)
  BY DEF Follows, PlainSteps
<1> QED
  BY <1>1 DEF FollowingStep

\* The same for a step that sets nothing but the program counter.
LEMMA PlainGoto ==
    ASSUME TypeOK, NEW w \in Workers, workers[w].pc \in PlainSteps,
           NEW pc \in PlainSteps \cup {"retry"}, Goto(w, pc),
           UNCHANGED <<payment, items, chain>>
    PROVE  FollowingStep(w)
<1> DEFINE t == [workers[w] EXCEPT !.pc = pc]
<1>1. Become(w, t)
  BY DEF Goto
<1>2. t.pc = pc /\ t.item = workers[w].item
  BY SMTT(30) DEF TypeOK, WorkerState
<1> HIDE DEF t
<1> QED
  BY <1>1, <1>2, PlainStep

\* An exception in processClaimWithLease.
LEMMA RaiseFollows ==
    ASSUME TypeOK, NEW w \in Workers, NEW err, Raise(w, err),
           workers[w].pc \notin {"idle", "load", "viewClosed", "complete", "retry"},
           UNCHANGED <<payment, items, chain>>
    PROVE  FollowingStep(w)
<1>1. PICK s, t : s = workers[w] /\ t = Raised(s, err)
  OBVIOUS
<1>2. s \in WorkerState
  BY <1>1 DEF TypeOK
<1>3. t = Idle \/ (t.pc \in {"rejectRequest", "failure"} /\ t.item = s.item)
  BY <1>1, <1>2 DEF Raised, WorkerState
<1>4. /\ t.pc \notin {"viewClosed", "complete", "abortCheck", "abortWrite",
                      "finalizeCheck", "finalizeWrite"}
      /\ t.pc # "idle" => t.item = s.item
  BY SMTT(30), <1>3 DEF Idle
<1>5. Follows(w, t)
  BY <1>1, <1>4, PlainFollows
<1> QED
  BY <1>1, <1>5 DEF FollowingStep, Raise

\* findPaymentView, the payment: a closed payment is seen to be closed.
LEMMA LoadPaymentFollows ==
    ASSUME TypeOK, NEW w \in Workers, LoadPayment(w)
    PROVE  FollowingStep(w)
<1> DEFINE s == workers[w]
           pv == payment.rv
           pc == IF payment.status \in {"PROVED_NO_EFFECT", "CONFIRMED"}
                 THEN "viewClosed" ELSE "view"
           t == [s EXCEPT !.pv = pv, !.pc = pc]
<1>1. pc = IF payment.status \in {"PROVED_NO_EFFECT", "CONFIRMED"}
           THEN "viewClosed" ELSE "view"
  OBVIOUS
<1>2. s \in WorkerState /\ s.pc = "load" /\ Become(w, t)
  BY DEF TypeOK, LoadPayment, At
<1> HIDE DEF pv, pc
<1>3. t.pc = pc /\ t.item = s.item
  BY <1>2 DEF WorkerState
<1> HIDE DEF t
<1>4. UNCHANGED <<payment, items, attempts, chain>>
  BY DEF LoadPayment, dbVars
<1>5. Follows(w, t)
  BY <1>1, <1>2, <1>3, <1>4 DEF Follows
<1> QED
  BY <1>2, <1>4, <1>5 DEF FollowingStep

\* findPaymentView, the attempts.
LEMMA LoadViewFollows ==
    ASSUME IInv, Alone, nAttempts = 1, NEW w \in Workers, LoadView(w)
    PROVE  FollowingStep(w)
<1>1. /\ TypeOK /\ workers[w] \in WorkerState
      /\ workers[w].pc \in {"view", "viewClosed"} /\ workers[w].item = 1
  BY Own DEF LoadView, Alone
<1>2. PICK u, pv : u = Viewing(workers[w]) /\ pv = workers[w].pv
  OBVIOUS
<1>3. /\ u \in WorkerState /\ u.pc = workers[w].pc /\ u.item = 1
      /\ u.outcome = attempts[1].outcome
  BY <1>1, <1>2, ViewingOK DEF Current
<1> DEFINE v == [u EXCEPT !.pv = pv]
<1>5. pv \in Nat
  BY <1>1, <1>2 DEF WorkerState
<1>6. /\ v \in WorkerState /\ v.pc = workers[w].pc /\ v.item = 1
      /\ v.outcome = attempts[1].outcome
  BY <1>3, <1>5 DEF WorkerState
<1> DEFINE pc == StepAfterLoad(w, v)
           next == IF pc = "retry" THEN "OUTGOING_PAYMENT_ATTEMPT" ELSE KeepKind
           t == [v EXCEPT !.pc = pc, !.next = next]
<1>7. pc = StepAfterLoad(w, v)
  OBVIOUS
<1>8. Become(w, t)
  BY <1>2 DEF LoadView
<1> HIDE DEF v, pc, next
<1>9. t.pc = pc /\ t.item = 1
  BY <1>6 DEF WorkerState
<1> HIDE DEF t
<1>10. /\ pc \in {"complete", "reconcile", "retry", "guardPrepare"}
       /\ pc = "complete" => workers[w].pc = "viewClosed"
       /\ pc = "reconcile" => attempts[1].outcome \notin NoEffectOutcomes
       /\ pc = "guardPrepare" => workers[w].pc # "viewClosed"
  BY SMTT(30), <1>6, <1>7 DEF StepAfterLoad, NoEffectOutcomes
<1>11. UNCHANGED <<payment, items, attempts, chain>>
  BY DEF LoadView, dbVars
<1>12. Follows(w, t)
  BY <1>1, <1>9, <1>10, <1>11 DEF Follows
<1> QED
  BY <1>8, <1>11, <1>12 DEF FollowingStep

\* ensureActiveBeforeEffect: only an unsigned attempt is on its way to an abort.
LEMMA EnsureActiveFollows ==
    ASSUME IInv, nAttempts = 1, NEW w \in Workers, NEW here, NEW next,
           EnsureActive(w, here, next),
           here \in {"guardPrepare", "guardSign", "guardSubmit"},
           next \in {"prepare", "sign", "observe"}
    PROVE  FollowingStep(w)
<1>1. /\ TypeOK /\ workers[w] \in WorkerState /\ workers[w].pc = here
      /\ workers[w].pc \in PlainSteps /\ next \in PlainSteps
  BY Own DEF EnsureActive, At, PlainSteps, Steps
<1>2. UNCHANGED <<payment, items, attempts, chain>>
  BY DEF EnsureActive, dbVars
<1>3. CASE Goto(w, next)
  BY <1>1, <1>2, <1>3, PlainGoto
<1>4. PICK u : u = Viewing(workers[w])
  OBVIOUS
<1>5. u \in WorkerState /\ u.item = workers[w].item
  BY <1>1, <1>4, ViewingOK
<1>6. CASE ~Current.signed /\ Become(w, [Viewing(workers[w]) EXCEPT !.pc = "abortCheck"])
  <2> DEFINE t == [u EXCEPT !.pc = "abortCheck"]
  <2>1. Become(w, t)
    BY <1>4, <1>6
  <2>2. t.pc = "abortCheck" /\ t.item = workers[w].item
    BY <1>5 DEF WorkerState
  <2> HIDE DEF t
  <2>3. Follows(w, t)
    BY <1>1, <1>2, <1>6, <2>2 DEF Follows, PlainSteps, Current
  <2> QED
    BY <1>2, <2>1, <2>3 DEF FollowingStep
<1>7. CASE Become(w, [Viewing(workers[w]) EXCEPT !.pc = "update", !.goal = "UNKNOWN"])
  <2> DEFINE t == [u EXCEPT !.pc = "update", !.goal = "UNKNOWN"]
  <2>1. Become(w, t)
    BY <1>4, <1>7
  <2>2. t.pc = "update" /\ t.item = workers[w].item
    BY <1>5 DEF WorkerState
  <2> HIDE DEF t
  <2>3. t.pc \in PlainSteps
    BY <2>2 DEF PlainSteps, Steps
  <2> QED
    BY <1>1, <1>2, <2>1, <2>2, <2>3, PlainStep
<1>8. CASE Raise(w, "RETRY")
  BY <1>1, <1>2, <1>8, RaiseFollows DEF PlainSteps
<1> QED
  BY <1>3, <1>6, <1>7, <1>8 DEF EnsureActive

\* executor.prepare and the writes of the attempt row up to the signature.
LEMMA PrepareFollows ==
    ASSUME IInv, NEW w \in Workers, Prepare(w)
    PROVE  FollowingStep(w)
<1>1. TypeOK /\ workers[w] \in WorkerState /\ workers[w].pc \in PlainSteps
  BY Own DEF Prepare, At, PlainSteps, Steps
<1>2. UNCHANGED <<payment, items, chain>>
  BY DEF Prepare, dbVars
<1>3. CASE Goto(w, "signingRequest")
  <2>1. "signingRequest" \in PlainSteps
    BY DEF PlainSteps, Steps
  <2> QED
    BY <1>1, <1>2, <1>3, <2>1, PlainGoto
<1>4. CASE \E err \in {"RETRY", "NO_RETRY"} : Raise(w, err)
  BY <1>1, <1>2, <1>4, RaiseFollows DEF PlainSteps
<1> DEFINE e == <<workers[w].n, w>>
           t == [workers[w] EXCEPT !.pc = "persistPrepared", !.effect = e]
<1>5. CASE Become(w, t)
  <2> HIDE DEF e
  <2>1. t.pc = "persistPrepared" /\ t.item = workers[w].item
    BY <1>1 DEF WorkerState
  <2> HIDE DEF t
  <2>2. t.pc \in PlainSteps
    BY <2>1 DEF PlainSteps, Steps
  <2> QED
    BY <1>1, <1>2, <1>5, <2>1, <2>2, PlainStep
<1> QED
  BY <1>3, <1>4, <1>5 DEF Prepare

\* updateAttemptOutcome with the prepared effect.
LEMMA PersistPreparedFollows ==
    ASSUME IInv, NEW w \in Workers, PersistPrepared(w)
    PROVE  FollowingStep(w)
<1>1. TypeOK /\ workers[w] \in WorkerState /\ workers[w].pc \in PlainSteps
  BY Own DEF PersistPrepared, At, PlainSteps, Steps
<1>2. UNCHANGED <<payment, items, chain>>
  BY DEF PersistPrepared
<1>3. CASE Raise(w, "RETRY")
  BY <1>1, <1>2, <1>3, RaiseFollows DEF PlainSteps
<1> DEFINE av == workers[w].av + 1
           t == [workers[w] EXCEPT !.pc = "signingRequest", !.av = av]
<1>4. CASE Become(w, [workers[w] EXCEPT !.pc = "signingRequest", !.av = @ + 1])
  <2>1. Become(w, t)
    BY <1>1, <1>4 DEF WorkerState
  <2> HIDE DEF av
  <2>2. t.pc = "signingRequest" /\ t.item = workers[w].item
    BY <1>1 DEF WorkerState
  <2> HIDE DEF t
  <2>3. t.pc \in PlainSteps
    BY <2>2 DEF PlainSteps, Steps
  <2> QED
    BY <1>1, <1>2, <2>1, <2>2, <2>3, PlainStep
<1> QED
  BY <1>3, <1>4 DEF PersistPrepared

\* findOrCreateSigningRequest.
LEMMA UseSigningRequestFollows ==
    ASSUME IInv, NEW w \in Workers, UseSigningRequest(w)
    PROVE  FollowingStep(w)
<1>1. TypeOK /\ workers[w] \in WorkerState /\ workers[w].pc \in PlainSteps
  BY Own DEF UseSigningRequest, At, PlainSteps, Steps
<1>2. UNCHANGED <<payment, items, chain>>
  BY DEF UseSigningRequest
<1>3. CASE Raise(w, "RETRY")
  BY <1>1, <1>2, <1>3, RaiseFollows DEF PlainSteps
<1> DEFINE s == workers[w]
           a(p) == [s EXCEPT !.pending = p]
           pc(p) == IF s.signed THEN AfterSigned(a(p)) ELSE "guardSign"
           rejects(p) == IF p /\ ~s.signed THEN s.n ELSE 0
           t(p) == [a(p) EXCEPT !.pc = pc(p), !.rejects = rejects(p)]
<1>4. ASSUME NEW p \in BOOLEAN, Become(w, t(p)) PROVE FollowingStep(w)
  <2>1. pc(p) \in {"completeRequest", "recheck", "guardSign"}
    BY DEF AfterSigned
  <2>2. t(p).pc = pc(p) /\ t(p).item = s.item
    <3> HIDE DEF pc, rejects
    <3> QED
      BY <1>1 DEF WorkerState
  <2> HIDE DEF t, pc
  <2>3. t(p).pc \in PlainSteps
    BY <2>1, <2>2 DEF PlainSteps, Steps
  <2> QED
    BY <1>1, <1>2, <1>4, <2>2, <2>3, PlainStep
<1>5. \/ Become(w, t(TRUE)) \/ Become(w, t(FALSE)) \/ Raise(w, "RETRY")
  BY DEF UseSigningRequest
<1>6. CASE Become(w, t(TRUE))
  <2>1. TRUE \in BOOLEAN
    OBVIOUS
  <2> QED
    BY ONLY <1>4, <1>6, <2>1
<1>7. CASE Become(w, t(FALSE))
  <2>1. FALSE \in BOOLEAN
    OBVIOUS
  <2> QED
    BY ONLY <1>4, <1>7, <2>1
<1> QED
  BY ONLY <1>3, <1>5, <1>6, <1>7

\* completeSigningRequest(REJECTED).
LEMMA RejectRequestFollows ==
    ASSUME IInv, NEW w \in Workers, RejectRequest(w)
    PROVE  FollowingStep(w)
<1>1. TypeOK /\ workers[w] \in WorkerState /\ workers[w].pc \in PlainSteps
  BY Own DEF RejectRequest, At, PlainSteps, Steps
<1>2. UNCHANGED <<payment, items, chain>>
  BY DEF RejectRequest
<1> DEFINE s == [workers[w] EXCEPT !.pc = "failure", !.rejects = 0]
           t == [s EXCEPT !.err = "RETRY"]
<1>3. Become(w, s) \/ Become(w, t)
  BY DEF RejectRequest
<1>4. /\ s.pc = "failure" /\ s.item = workers[w].item
      /\ t.pc = "failure" /\ t.item = workers[w].item
  BY <1>1 DEF WorkerState
<1> HIDE DEF s, t
<1>5. s.pc \in PlainSteps /\ t.pc \in PlainSteps
  BY <1>4 DEF PlainSteps, Steps
<1> QED
  BY <1>1, <1>2, <1>3, <1>4, <1>5, PlainStep

\* updateAttemptOutcome with the signed payload.
LEMMA PersistSignedFollows ==
    ASSUME IInv, NEW w \in Workers, PersistSigned(w)
    PROVE  FollowingStep(w)
<1>1. TypeOK /\ workers[w] \in WorkerState /\ workers[w].pc \in PlainSteps
  BY Own DEF PersistSigned, At, PlainSteps, Steps
<1>2. UNCHANGED <<payment, items, chain>>
  BY DEF PersistSigned
<1>3. CASE Raise(w, "RETRY")
  BY <1>1, <1>2, <1>3, RaiseFollows DEF PlainSteps
<1>4. CASE Goto(w, AfterSigned(workers[w]))
  <2>1. AfterSigned(workers[w]) \in PlainSteps
    BY DEF AfterSigned, PlainSteps, Steps
  <2> QED
    BY <1>1, <1>2, <1>4, <2>1, PlainGoto
<1> QED
  BY <1>3, <1>4 DEF PersistSigned, Goto

\* completeSigningRequest(SIGNED).
LEMMA CompleteRequestFollows ==
    ASSUME IInv, NEW w \in Workers, CompleteRequest(w)
    PROVE  FollowingStep(w)
<1>1. TypeOK /\ workers[w] \in WorkerState /\ workers[w].pc \in PlainSteps
  BY Own DEF CompleteRequest, At, PlainSteps, Steps
<1>2. UNCHANGED <<payment, items, chain>> /\ "recheck" \in PlainSteps
  BY DEF CompleteRequest, PlainSteps, Steps
<1> QED
  BY <1>1, <1>2, RaiseFollows, PlainGoto DEF CompleteRequest, PlainSteps

\* While there is one attempt its durable effect is the one a worker prepared.
LEMMA StaysCurrent ==
    ASSUME IInv, nAttempts = 1, NEW w \in Workers, workers[w].pc \in Holding
    PROVE  EffectIsCurrent(workers[w])
<1>1. /\ WorkerInv(workers[w], nAttempts, attempts, chain) /\ workers[w] \in WorkerState
      /\ nAttempts \in AttemptNumbers
  BY Own
<1>2. workers[w].pc \notin {"idle", "load", "view", "viewClosed"}
  BY DEF Holding
<1>3. workers[w].n \in 1..1
  BY <1>1, <1>2, WorkerNumbers
<1>4. workers[w].n = 1
  BY SMTT(30), <1>3
<1>5. attempts[workers[w].n].effect = workers[w].effect
  BY <1>1 DEF WorkerInv
<1> QED
  BY <1>4, <1>5 DEF EffectIsCurrent, Current

\* ensurePreparedAttemptIsCurrent and executor.sign.
LEMMA SignFollows ==
    ASSUME IInv, nAttempts = 1, NEW w \in Workers, Sign(w)
    PROVE  FollowingStep(w)
<1>1. TypeOK /\ workers[w] \in WorkerState /\ workers[w].pc \in PlainSteps
  BY Own DEF Sign, At, PlainSteps, Steps
<1>2. UNCHANGED <<payment, items, chain>>
  BY DEF Sign, dbVars
<1>3. EffectIsCurrent(workers[w])
  BY StaysCurrent DEF Sign, At, Holding
<1> DEFINE t == [workers[w] EXCEPT !.pc = "persistSigned", !.rejects = 0]
<1>4. CASE Become(w, t)
  <2>1. t.pc = "persistSigned" /\ t.item = workers[w].item
    BY <1>1 DEF WorkerState
  <2> HIDE DEF t
  <2>2. t.pc \in PlainSteps
    BY <2>1 DEF PlainSteps, Steps
  <2> QED
    BY <1>1, <1>2, <1>4, <2>1, <2>2, PlainStep
<1>5. CASE \E err \in {"RETRY", "NO_RETRY"} : Raise(w, err)
  BY <1>1, <1>2, <1>5, RaiseFollows DEF PlainSteps
<1> QED
  BY <1>3, <1>4, <1>5 DEF Sign

\* The view is read again after signing.
LEMMA RecheckFollows ==
    ASSUME IInv, nAttempts = 1, NEW w \in Workers, Recheck(w)
    PROVE  FollowingStep(w)
<1>1. TypeOK /\ workers[w] \in WorkerState /\ workers[w].pc \in PlainSteps
  BY Own DEF Recheck, At, PlainSteps, Steps
<1>2. UNCHANGED <<payment, items, chain>>
  BY DEF Recheck, dbVars
<1>3. EffectIsCurrent(workers[w])
  BY StaysCurrent DEF Recheck, At, Holding
<1> DEFINE u == Viewing(workers[w])
           t == [u EXCEPT !.pc = "guardSubmit"]
<1>4. Become(w, t)
  BY <1>3 DEF Recheck
<1>5. u \in WorkerState /\ u.item = workers[w].item
  BY <1>1, ViewingOK
<1> HIDE DEF u
<1>6. t.pc = "guardSubmit" /\ t.item = workers[w].item
  BY <1>5 DEF WorkerState
<1> HIDE DEF t
<1>7. t.pc \in PlainSteps
  BY <1>6 DEF PlainSteps, Steps
<1> QED
  BY <1>1, <1>2, <1>4, <1>6, <1>7, PlainStep

\* A worker that is about to record the outcome goal, which is not a proof that
\* nothing happened, or has proved that its transaction is dead.
LEMMA GoalFollows ==
    ASSUME TypeOK, NEW w \in Workers, NEW t, Become(w, t), workers[w].pc \in PlainSteps,
           t.pc = "finalizeCheck", t.item = workers[w].item,
           RpcSnapshot => ProofIsSound(t),
           UNCHANGED <<payment, items, attempts, chain>>
    PROVE  FollowingStep(w)
<1>1. Follows(w, t)
  BY DEF Follows, PlainSteps
<1> QED
  BY <1>1 DEF FollowingStep

\* The same, with the worker's new state spelled out.
LEMMA GoalStep ==
    ASSUME TypeOK, NEW w \in Workers, workers[w].pc \in PlainSteps,
           NEW pc \in {"update", "finalizeCheck"}, NEW goal \in Outcomes \ {"PROVED_NO_EFFECT"},
           Become(w, MovedFor(workers[w], pc, goal)),
           UNCHANGED <<payment, items, attempts>>,
           chain' = chain \/ (workers[w].pc = "send" /\ pc = "update")
    PROVE  FollowingStep(w)
<1> DEFINE t == MovedFor(workers[w], pc, goal)
<1>1. t.pc = pc /\ t.goal = goal /\ t.item = workers[w].item
  BY SMTT(30) DEF TypeOK, WorkerState, MovedFor
<1>2. Become(w, t)
  OBVIOUS
<1> HIDE DEF t
<1>3. CASE pc = "update"
  <2>1. t.pc \in PlainSteps
    BY <1>1, <1>3 DEF PlainSteps, Steps
  <2> QED
    BY <1>1, <1>2, <1>3, <2>1, PlainStep
<1>4. CASE pc = "finalizeCheck"
  <2>1. ProofIsSound(t)
    BY <1>1 DEF ProofIsSound
  <2> QED
    BY <1>1, <1>2, <1>4, <2>1, GoalFollows
<1> QED
  BY <1>3, <1>4

\* submit(), its look at the signature.
LEMMA ObserveFollows ==
    ASSUME IInv, NEW w \in Workers, Observe(w)
    PROVE  FollowingStep(w)
<1>1. TypeOK /\ workers[w] \in WorkerState /\ workers[w].pc \in PlainSteps
  BY Own DEF Observe, At, PlainSteps, Steps
<1>2. UNCHANGED <<payment, items, attempts, chain>>
  BY DEF Observe, dbVars
<1>3. CASE Raise(w, "RETRY")
  BY <1>1, <1>2, <1>3, RaiseFollows DEF PlainSteps
<1>4. CASE Goto(w, "send")
  <2>1. "send" \in PlainSteps
    BY DEF PlainSteps, Steps
  <2> QED
    BY <1>1, <1>2, <1>4, <2>1, PlainGoto
<1>5. ASSUME NEW seen \in {"CONFIRMED", "FAILED"},
             Become(w, MovedFor(workers[w], "finalizeCheck", seen))
      PROVE  FollowingStep(w)
  <2>1. seen \in Outcomes \ {"PROVED_NO_EFFECT"}
    BY DEF Outcomes
  <2> QED
    BY <1>1, <1>2, <1>5, <2>1, GoalStep
<1>6. CASE Become(w, MovedFor(workers[w], "update", "SUBMITTED"))
  <2>1. "SUBMITTED" \in Outcomes \ {"PROVED_NO_EFFECT"}
    BY DEF Outcomes
  <2> QED
    BY <1>1, <1>2, <1>6, <2>1, GoalStep
<1> DEFINE seen == ObserveSignature(workers[w].effect)
<1>7. \/ /\ seen \in {"CONFIRMED", "FAILED"}
         /\ Become(w, MovedFor(workers[w], "finalizeCheck", seen))
      \/ Become(w, MovedFor(workers[w], "update", "SUBMITTED"))
      \/ Goto(w, "send") \/ Raise(w, "RETRY")
  BY DEF Observe, MovedFor
<1> HIDE DEF seen
<1> QED
  BY <1>3, <1>4, <1>5, <1>6, <1>7

\* sendTransaction.
LEMMA SendFollows ==
    ASSUME IInv, NEW w \in Workers, Send(w)
    PROVE  FollowingStep(w)
<1>1. /\ TypeOK /\ workers[w] \in WorkerState /\ workers[w].pc \in PlainSteps
      /\ workers[w].pc = "send"
  BY Own DEF Send, At, PlainSteps, Steps
<1>2. UNCHANGED <<payment, items, attempts>>
  BY DEF Send, dbVars
<1>3. {"SUBMITTED", "UNKNOWN", "FAILED"} \subseteq Outcomes \ {"PROVED_NO_EFFECT"}
  BY DEF Outcomes
<1>4. \/ \E goal \in {"SUBMITTED", "UNKNOWN"} :
             Become(w, MovedFor(workers[w], "update", goal))
      \/ /\ UNCHANGED chain
         /\ Become(w, MovedFor(workers[w], "finalizeCheck", "FAILED"))
  BY DEF Send, MovedFor
<1>5. ASSUME NEW goal \in {"SUBMITTED", "UNKNOWN"},
             Become(w, MovedFor(workers[w], "update", goal))
      PROVE  FollowingStep(w)
  BY <1>1, <1>2, <1>3, <1>5, GoalStep
<1>6. ASSUME UNCHANGED chain,
             Become(w, MovedFor(workers[w], "finalizeCheck", "FAILED"))
      PROVE  FollowingStep(w)
  BY <1>1, <1>2, <1>3, <1>6, GoalStep
<1> QED
  BY <1>4, <1>5, <1>6

\* updateAttemptOutcome.
LEMMA UpdateAttemptOutcomeFollows ==
    ASSUME IInv, NEW w \in Workers, UpdateAttemptOutcome(w)
    PROVE  FollowingStep(w)
<1>1. TypeOK /\ workers[w].pc \in PlainSteps /\ "project" \in PlainSteps
  BY Own DEF UpdateAttemptOutcome, At, PlainSteps, Steps
<1>2. UNCHANGED <<payment, items, chain>>
  BY DEF UpdateAttemptOutcome
<1>3. CASE Raise(w, "RETRY")
  BY <1>1, <1>2, <1>3, RaiseFollows DEF PlainSteps
<1>4. CASE Goto(w, "project")
  BY <1>1, <1>2, <1>4, PlainGoto
<1> QED
  BY <1>3, <1>4 DEF UpdateAttemptOutcome

\* reconcile() has proved that the transaction of the attempt is dead.
LEMMA NoEffectProvedFollows ==
    ASSUME IInv, nAttempts = 1, NEW w \in Workers,
           workers[w].pc \in {"reconcile", "height"}, NoEffectProved(w),
           RpcSnapshot => chain[workers[w].effect] \in Dead,
           UNCHANGED <<payment, items, attempts, chain>>
    PROVE  FollowingStep(w)
<1> DEFINE s == workers[w]
<1>2. TypeOK /\ s \in WorkerState /\ s.pc \in PlainSteps /\ s.pc \in Holding
  BY Own DEF PlainSteps, Steps, Holding
<1>3. s.n = 1 /\ s.effect = attempts[1].effect
  BY <1>2, StaysCurrent DEF EffectIsCurrent, Current
<1>4. s.effect # NoEffect
  BY <1>2, Own DEF WorkerInv
<1> DEFINE moved(replace) == [s EXCEPT !.pc = "finalizeCheck", !.goal = "PROVED_NO_EFFECT",
                                       !.replace = replace]
<1>5. PICK r \in CanReplace(s) : Become(w, moved(r))
  BY DEF NoEffectProved
<1> DEFINE t == moved(r)
<1>6. t.pc = "finalizeCheck" /\ t.item = s.item /\ t.effect = s.effect
  BY <1>2 DEF WorkerState
<1>7. Become(w, t)
  BY <1>5
<1> HIDE DEF t
<1>8. RpcSnapshot => ProofIsSound(t)
  BY <1>3, <1>4, <1>6 DEF ProofIsSound
<1> QED
  BY <1>2, <1>6, <1>7, <1>8, GoalFollows

\* reconcile() has learnt nothing.
LEMMA StillUnknownFollows ==
    ASSUME TypeOK, NEW w \in Workers, workers[w].pc \in PlainSteps, StillUnknown(w),
           UNCHANGED <<payment, items, chain>>
    PROVE  FollowingStep(w)
<1> DEFINE t == [workers[w] EXCEPT !.pc = "retry", !.next = "RECONCILE_PAYMENT_ATTEMPT"]
<1>1. t.pc = "retry" /\ t.item = workers[w].item
  BY SMTT(30) DEF TypeOK, WorkerState
<1>2. Become(w, t)
  BY DEF StillUnknown
<1> HIDE DEF t
<1> QED
  BY <1>1, <1>2, PlainStep

\* reconcile(), its look at the signature.
LEMMA ReconcileFollows ==
    ASSUME IInv, nAttempts = 1, NEW w \in Workers, Reconcile(w)
    PROVE  FollowingStep(w)
<1>1. /\ TypeOK /\ workers[w].pc \in PlainSteps /\ workers[w].pc = "reconcile"
      /\ "height" \in PlainSteps /\ "CONFIRMED" \in Outcomes \ {"PROVED_NO_EFFECT"}
  BY Own DEF Reconcile, At, PlainSteps, Steps, Outcomes
<1>2. UNCHANGED <<payment, items, attempts, chain>>
  BY DEF Reconcile, dbVars
<1>3. CASE Raise(w, "RETRY")
  BY <1>1, <1>2, <1>3, RaiseFollows DEF PlainSteps
<1>4. CASE Goto(w, "height")
  BY <1>1, <1>2, <1>4, PlainGoto
<1>5. CASE Become(w, MovedFor(workers[w], "finalizeCheck", "CONFIRMED"))
  BY <1>1, <1>2, <1>5, GoalStep
<1>6. CASE StillUnknown(w)
  BY <1>1, <1>2, <1>6, StillUnknownFollows
<1>7. CASE ObserveSignature(workers[w].effect) = "FAILED" /\ NoEffectProved(w)
  <2>1. chain[workers[w].effect] \in Dead
    BY <1>7 DEF ObserveSignature, Dead
  <2> QED
    BY <1>1, <1>2, <1>7, <2>1, NoEffectProvedFollows
<1> QED
  BY <1>3, <1>4, <1>5, <1>6, <1>7 DEF Reconcile, MovedFor

\* reconcile(), its look at the block height.
LEMMA HeightFollows ==
    ASSUME IInv, nAttempts = 1, NEW w \in Workers, Height(w)
    PROVE  FollowingStep(w)
<1>1. /\ TypeOK /\ workers[w].pc \in PlainSteps /\ workers[w].pc = "height"
      /\ WorkerInv(workers[w], nAttempts, attempts, chain)
  BY Own DEF Height, At, PlainSteps, Steps
<1>2. UNCHANGED <<payment, items, attempts, chain>>
  BY DEF Height, dbVars
<1>3. CASE Raise(w, "RETRY")
  BY <1>1, <1>2, <1>3, RaiseFollows DEF PlainSteps
<1>4. CASE StillUnknown(w)
  BY <1>1, <1>2, <1>4, StillUnknownFollows
<1>5. CASE MayBePastValidity(workers[w].effect) /\ NoEffectProved(w)
  <2>1. RpcSnapshot => chain[workers[w].effect] \in Dead
    BY <1>1, <1>5 DEF WorkerInv, MayBePastValidity, Dead
  <2> QED
    BY <1>1, <1>2, <1>5, <2>1, NoEffectProvedFollows
<1> QED
  BY <1>3, <1>4, <1>5 DEF Height

\* finalizeV2Payment, its reads and assertions.
LEMMA FinalizeCheckFollows ==
    ASSUME IInv, NEW w \in Workers, FinalizeCheck(w)
    PROVE  FollowingStep(w)
<1>1. TypeOK /\ workers[w] \in WorkerState /\ workers[w].pc = "finalizeCheck"
  BY Own DEF FinalizeCheck, At
<1>2. UNCHANGED <<payment, items, attempts, chain>>
  BY DEF FinalizeCheck, dbVars
<1>3. CASE Raise(w, "RETRY")
  BY <1>1, <1>2, <1>3, RaiseFollows
<1>4. CASE Goto(w, "finalizeWrite")
  <2> DEFINE t == [workers[w] EXCEPT !.pc = "finalizeWrite"]
  <2>1. /\ t.pc = "finalizeWrite" /\ t.item = workers[w].item
        /\ t.goal = workers[w].goal /\ t.effect = workers[w].effect
    BY <1>1 DEF WorkerState
  <2>2. Become(w, t)
    BY <1>4 DEF Goto
  <2> HIDE DEF t
  <2>3. Follows(w, t)
    BY <1>1, <1>2, <2>1 DEF Follows
  <2> QED
    BY <1>2, <2>2, <2>3 DEF FollowingStep
<1> QED
  BY <1>3, <1>4 DEF FinalizeCheck

\* abortPreEffectPayment, its reads.
LEMMA AbortCheckFollows ==
    ASSUME IInv, NEW w \in Workers, AbortCheck(w)
    PROVE  FollowingStep(w)
<1>1. TypeOK /\ workers[w] \in WorkerState /\ workers[w].pc = "abortCheck"
  BY Own DEF AbortCheck, At
<1>2. UNCHANGED <<payment, items, attempts, chain>>
  BY DEF AbortCheck, dbVars
<1>3. CASE Raise(w, "RETRY")
  BY <1>1, <1>2, <1>3, RaiseFollows
<1>4. CASE Goto(w, "abortWrite")
  <2> DEFINE t == [workers[w] EXCEPT !.pc = "abortWrite"]
  <2>1. t.pc = "abortWrite" /\ t.item = workers[w].item
    BY <1>1 DEF WorkerState
  <2>2. Become(w, t)
    BY <1>4 DEF Goto
  <2> HIDE DEF t
  <2>3. Follows(w, t)
    BY <1>1, <1>2, <2>1 DEF Follows
  <2> QED
    BY <1>2, <2>2, <2>3 DEF FollowingStep
<1> QED
  BY <1>3, <1>4 DEF AbortCheck

\* handleFailure: an attempt it gives up on is FAILED, never proved.
LEMMA HandleFailureFollows ==
    ASSUME IInv, NEW w \in Workers, HandleFailure(w)
    PROVE  FollowingStep(w)
<1>1. TypeOK /\ workers[w] \in WorkerState /\ workers[w].pc \in PlainSteps
  BY Own DEF HandleFailure, At, PlainSteps, Steps
<1>2. UNCHANGED <<payment, items, attempts, chain>>
  BY DEF HandleFailure, dbVars
<1> DEFINE u == Viewing(workers[w])
           s == [u EXCEPT !.failing = TRUE]
           t1 == [s EXCEPT !.pc = "update", !.goal = "UNKNOWN"]
           t2 == [s EXCEPT !.pc = "retry", !.next = KeepKind]
           t3 == [s EXCEPT !.pc = "finalizeCheck", !.goal = "FAILED"]
           t4 == [s EXCEPT !.pc = "failItem"]
<1>3. Become(w, t1) \/ Become(w, t2) \/ Become(w, t3) \/ Become(w, t4)
  BY DEF HandleFailure
<1>4. u \in WorkerState /\ u.item = workers[w].item
  BY <1>1, ViewingOK
<1> HIDE DEF u
<1>6. /\ t1.pc = "update" /\ t1.item = workers[w].item
      /\ t2.pc = "retry" /\ t2.item = workers[w].item
  BY <1>4 DEF WorkerState
<1>7. /\ t3.pc = "finalizeCheck" /\ t3.item = workers[w].item /\ t3.goal = "FAILED"
      /\ t4.pc = "failItem" /\ t4.item = workers[w].item
  BY <1>4 DEF WorkerState
<1> HIDE DEF t1, t2, t3, t4
<1>8. t1.pc \in PlainSteps /\ t4.pc \in PlainSteps
  BY <1>6, <1>7 DEF PlainSteps, Steps
<1>9. CASE Become(w, t1) \/ Become(w, t2) \/ Become(w, t4)
  BY <1>1, <1>2, <1>6, <1>7, <1>8, <1>9, PlainStep
<1>10. CASE Become(w, t3)
  <2>1. ProofIsSound(t3)
    BY <1>7 DEF ProofIsSound
  <2> QED
    BY <1>1, <1>2, <1>7, <1>10, <2>1, GoalFollows
<1> QED
  BY <1>3, <1>9, <1>10

\* All of a worker's steps that leave the payment and its item as they are.
LEMMA WorkerFollows ==
    ASSUME IInv, Alone, nAttempts = 1, NEW w \in Workers,
           \/ LoadPayment(w) \/ LoadView(w)
           \/ EnsureActive(w, "guardPrepare", "prepare")
           \/ EnsureActive(w, "guardSign", "sign")
           \/ EnsureActive(w, "guardSubmit", "observe")
           \/ Prepare(w) \/ PersistPrepared(w) \/ UseSigningRequest(w)
           \/ Sign(w) \/ RejectRequest(w) \/ PersistSigned(w) \/ CompleteRequest(w)
           \/ Recheck(w) \/ Observe(w) \/ Send(w)
           \/ UpdateAttemptOutcome(w) \/ Reconcile(w) \/ Height(w)
           \/ FinalizeCheck(w) \/ FinalizeRolledBack(w) \/ AbortCheck(w) \/ HandleFailure(w)
    PROVE  FollowingStep(w)
<1>1. TypeOK
  BY DEF IInv
<1>2. CASE \/ EnsureActive(w, "guardPrepare", "prepare")
           \/ EnsureActive(w, "guardSign", "sign")
           \/ EnsureActive(w, "guardSubmit", "observe")
  BY <1>2, EnsureActiveFollows
<1>3. CASE FinalizeRolledBack(w)
  <2>1. /\ Raise(w, "RETRY") /\ workers[w].pc = "finalizeWrite"
        /\ UNCHANGED <<payment, items, chain>>
    BY <1>3 DEF FinalizeRolledBack, At, dbVars
  <2> QED
    BY <1>1, <2>1, RaiseFollows
<1>4. CASE \/ LoadPayment(w) \/ LoadView(w)
           \/ Prepare(w) \/ PersistPrepared(w) \/ UseSigningRequest(w)
           \/ Sign(w) \/ RejectRequest(w) \/ PersistSigned(w) \/ CompleteRequest(w)
           \/ Recheck(w)
  BY <1>1, <1>4, LoadPaymentFollows, LoadViewFollows, PrepareFollows,
     PersistPreparedFollows, UseSigningRequestFollows, SignFollows, RejectRequestFollows,
     PersistSignedFollows, CompleteRequestFollows, RecheckFollows
<1>5. CASE \/ Observe(w) \/ Send(w) \/ UpdateAttemptOutcome(w) \/ Reconcile(w) \/ Height(w)
           \/ FinalizeCheck(w) \/ AbortCheck(w) \/ HandleFailure(w)
  BY <1>5, ObserveFollows, SendFollows, UpdateAttemptOutcomeFollows, ReconcileFollows,
     HeightFollows, FinalizeCheckFollows, AbortCheckFollows, HandleFailureFollows
<1> QED
  BY <1>2, <1>3, <1>4, <1>5

\* A worker that has written the payment row while it owns the only item.
LEMMA WriterAlone ==
    ASSUME IInv, Alone, NEW w \in Workers, workers[w].pc # "idle", NEW t, Become(w, t),
           t.item = workers[w].item, UNCHANGED items,
           t.pc \in {"viewClosed", "complete"} => Resting'
    PROVE  Alone'
<1>1. workers'[w] = t /\ \A v \in Workers \ {w} : workers'[v] = workers[v]
  BY DEF IInv, TypeOK, Become
<1>2. \A v \in Workers \ {w} : workers'[v].pc = "idle"
  BY <1>1, OthersIdle
<1>3. workers[w].item = 1 /\ Owns(items[1], w)
  BY DEF Alone
<1>4. ~Finished(items[1])
  BY <1>3 DEF Owns, Finished
<1>5. \A v \in Workers : workers'[v].pc # "idle" =>
          workers'[v].item = 1 /\ Owns(items[1], v)
  BY <1>1, <1>2, <1>3
<1>6. \A v \in Workers : workers'[v].pc \in {"viewClosed", "complete"} => Resting'
  BY <1>1, <1>2
<1> QED
  BY <1>4, <1>5, <1>6 DEF Alone

\* The same for the no-effect proof.
LEMMA WriterHarmless ==
    ASSUME IInv, Alone, NEW w \in Workers, workers[w].pc # "idle", NEW t, Become(w, t),
           t.pc \in {"complete", "retry"},
           payment'.status = "PROVED_NO_EFFECT" =>
               /\ \A e \in Effects : chain'[e] \in {"none"} \cup Dead
               /\ attempts'[1].outcome \in NoEffectOutcomes
    PROVE  Harmless'
<1>1. workers'[w] = t /\ \A v \in Workers \ {w} : workers'[v] = workers[v]
  BY DEF IInv, TypeOK, Become
<1>2. \A v \in Workers \ {w} : workers'[v].pc = "idle"
  BY <1>1, OthersIdle
<1>3. \A v \in Workers : workers'[v].pc \in {"idle", "complete", "retry"}
  BY <1>1, <1>2
<1> QED
  BY <1>3 DEF Harmless, Leaving, ProofIsSound

\* What the network has seen is the signed transaction of attempt 1.
LEMMA OnlySignedIsSent ==
    ASSUME IInv, nAttempts = 1, NEW e \in Effects, chain[e] \notin {"none", "expired"}
    PROVE  attempts[1].effect = e /\ attempts[1].signed
<1>1. PICK n \in 1..1 : attempts[n].effect = e /\ attempts[n].signed
  BY DEF IInv, RowsInv, SentOnlyIfDurable
<1>2. n = 1
  BY SMTT(30), <1>1
<1> QED
  BY <1>1, <1>2

\* updatePaymentExecution.
LEMMA UpdatePaymentExecutionSole ==
    ASSUME IInv, Alone, NEW w \in Workers, UpdatePaymentExecution(w)
    PROVE  Alone' /\ (Harmless /\ RpcSnapshot => Harmless')
<1>1. TypeOK /\ workers[w] \in WorkerState /\ workers[w].pc = "project"
  BY Own DEF UpdatePaymentExecution, At
<1>2. UNCHANGED <<items, attempts, chain>>
  BY DEF UpdatePaymentExecution
<1> DEFINE t == [workers[w] EXCEPT !.pc = "retry", !.next = "RECONCILE_PAYMENT_ATTEMPT"]
<1>3. CASE UNCHANGED payment /\ Raise(w, "RETRY")
  <2>1. FollowingStep(w)
    BY <1>1, <1>2, <1>3, RaiseFollows
  <2>2. PICK u : Become(w, u) /\ Follows(w, u)
    BY <2>1 DEF FollowingStep
  <2> QED
    BY <1>2, <1>3, <2>2, FollowsAlone, FollowsHarmless
<1>4. CASE payment'.status \in {"SUBMITTED", "RECONCILING"} /\ Become(w, t)
  <2>1. t.pc = "retry" /\ t.item = workers[w].item
    BY <1>1 DEF WorkerState
  <2> HIDE DEF t
  <2> QED
    BY <1>1, <1>2, <1>4, <2>1, WriterAlone, WriterHarmless
<1>5. \/ UNCHANGED payment /\ Raise(w, "RETRY")
      \/ payment'.status \in {"SUBMITTED", "RECONCILING"} /\ Become(w, t)
  BY SMTT(30) DEF UpdatePaymentExecution
<1> QED
  BY <1>3, <1>4, <1>5

\* finalizeV2Payment, its updates.
LEMMA FinalizeWriteSole ==
    ASSUME IInv, Alone, nAttempts = 1, nAttempts' = 1, NEW w \in Workers, FinalizeWrite(w)
    PROVE  Alone' /\ (Harmless /\ RpcSnapshot => Harmless')
<1> DEFINE s == workers[w]
           t == [s EXCEPT !.pc = "complete"]
<1>1. /\ s \in WorkerState /\ s.pc = "finalizeWrite"
      /\ WorkerInv(s, nAttempts, attempts, chain)
  BY Own DEF FinalizeWrite, At
<1>2. s.n = 1
  <2>1. s.n \in 1..1
    BY <1>1, Own, WorkerNumbers
  <2> QED
    BY SMTT(30), <2>1
<1>3. /\ payment' = [status |-> s.goal, exec |-> "TERMINAL", rv |-> payment.rv + 1]
      /\ UNCHANGED <<items, chain>> /\ Become(w, t)
      /\ attempts' = [attempts EXCEPT ![1].outcome = s.goal, ![1].rv = @ + 1]
  BY SMTT(30), <1>2 DEF FinalizeWrite, Goto
<1>4. s.goal \in {"CONFIRMED", "FAILED", "PROVED_NO_EFFECT"}
  BY <1>1 DEF WorkerInv
<1>5. t.pc = "complete" /\ t.item = s.item
  BY <1>1 DEF WorkerState
<1> HIDE DEF t
<1>6. payment'.status = s.goal
  BY <1>3
<1>7. Resting'
  BY <1>4, <1>6 DEF Resting, TerminalStatuses
<1>8. attempts'[1].outcome = s.goal
  <2>1. attempts \in [AttemptNumbers -> Attempt] /\ 1 \in AttemptNumbers
    BY PaymentExecutionAssumption DEF IInv, TypeOK, AttemptNumbers
  <2> HIDE DEF s
  <2> QED
    BY <1>3, <2>1 DEF Attempt
<1>9. Alone'
  BY <1>1, <1>3, <1>5, <1>7, WriterAlone
<1>10. ASSUME Harmless, payment'.status = "PROVED_NO_EFFECT"
       PROVE  /\ \A e \in Effects : chain'[e] \in {"none"} \cup Dead
              /\ attempts'[1].outcome \in NoEffectOutcomes
  <2>1. /\ s.goal = "PROVED_NO_EFFECT"
        /\ attempts[1].effect = s.effect /\ chain[s.effect] \in Dead
    BY <1>1, <1>6, <1>10 DEF Harmless, ProofIsSound
  <2>2. \A e \in Effects : chain[e] \in {"none"} \cup Dead
    BY <2>1, OnlySignedIsSent DEF Dead
  <2> QED
    BY <1>3, <1>8, <2>1, <2>2 DEF NoEffectOutcomes
<1>11. Harmless => Harmless'
  BY <1>1, <1>3, <1>5, <1>10, WriterHarmless
<1> QED
  BY <1>9, <1>11

\* abortPreEffectPayment, its updates.
LEMMA AbortWriteSole ==
    ASSUME IInv, Alone, nAttempts = 1, NEW w \in Workers, AbortWrite(w)
    PROVE  Alone' /\ (Harmless /\ RpcSnapshot => Harmless')
<1> DEFINE s == workers[w]
           t == [s EXCEPT !.pc = "complete"]
<1>1. /\ s \in WorkerState /\ s.pc = "abortWrite"
      /\ WorkerInv(s, nAttempts, attempts, chain)
  BY Own DEF AbortWrite, At
<1>2. s.n = 1
  <2>1. s.n \in 1..1
    BY <1>1, Own, WorkerNumbers
  <2> QED
    BY SMTT(30), <2>1
<1>3. /\ payment'.status = "PROVED_NO_EFFECT"
      /\ UNCHANGED <<items, chain>> /\ Become(w, t)
      /\ attempts' = [attempts EXCEPT ![1].outcome = "PRE_EFFECT_ABORTED", ![1].rv = @ + 1]
  BY <1>2 DEF AbortWrite, Goto
<1>4. t.pc = "complete" /\ t.item = s.item
  BY <1>1 DEF WorkerState
<1> HIDE DEF t
<1>5. Resting'
  BY <1>3 DEF Resting, TerminalStatuses
<1>6. attempts'[1].outcome \in NoEffectOutcomes
  <2>1. attempts \in [AttemptNumbers -> Attempt] /\ 1 \in AttemptNumbers
    BY PaymentExecutionAssumption DEF IInv, TypeOK, AttemptNumbers
  <2> QED
    BY SMTT(30), <1>3, <2>1 DEF Attempt, NoEffectOutcomes
<1>7. Harmless => \A e \in Effects : chain'[e] \in {"none"} \cup Dead
  BY <1>1, <1>3, OnlySignedIsSent DEF Harmless, Dead
<1> QED
  BY <1>1, <1>3, <1>4, <1>5, <1>6, <1>7, WriterAlone, WriterHarmless

\* Nobody is busy any more.
LEMMA AllIdle ==
    ASSUME IInv, Alone, \A v \in Workers : workers'[v].pc = "idle",
           \A n \in AttemptNumbers \ {1} : items'[n].status = "ABSENT",
           Finished(items'[1]) => Resting'
    PROVE  Alone'
BY DEF Alone

\* A payment that was closed for no effect stays so, with nobody busy.
LEMMA AllIdleHarmless ==
    ASSUME Harmless, \A v \in Workers : workers'[v].pc = "idle",
           payment'.status = "PROVED_NO_EFFECT" => payment.status = "PROVED_NO_EFFECT",
           UNCHANGED <<attempts, chain>>
    PROVE  Harmless'
BY DEF Harmless, Leaving, ProofIsSound

\* A worker gives the only item back.
LEMMA SettleSole ==
    ASSUME IInv, Alone, NEW w \in Workers, workers[w].pc # "idle", NEW it, Settle(w, it),
           Finished(it) => Resting',
           payment'.status = "PROVED_NO_EFFECT" => payment.status = "PROVED_NO_EFFECT",
           UNCHANGED <<attempts, chain>>
    PROVE  Alone' /\ (Harmless => Harmless')
<1>1. workers[w].item = 1 /\ items' = [items EXCEPT ![1] = it] /\ Become(w, Idle)
  BY DEF Alone, Settle, Stop
<1>2. workers'[w] = Idle /\ \A v \in Workers \ {w} : workers'[v] = workers[v]
  BY <1>1 DEF IInv, TypeOK, Become
<1>3. \A v \in Workers : workers'[v].pc = "idle"
  BY SMTT(30), <1>2, OthersIdle DEF Idle
<1>4. items \in [AttemptNumbers -> WorkItem] /\ 1 \in AttemptNumbers
  BY SMTT(30), PaymentExecutionAssumption DEF IInv, TypeOK, AttemptNumbers
<1>5. items'[1] = it /\ \A n \in AttemptNumbers \ {1} : items'[n].status = "ABSENT"
  BY <1>1, <1>4 DEF Alone
<1> QED
  BY <1>3, <1>5, AllIdle, AllIdleHarmless

\* The review that follows exhaustion leaves the payment at rest.
LEMMA ReviewRests ==
    ASSUME NEW rows, ReviewAfterExhaustion(rows)
    PROVE  /\ Resting' /\ UNCHANGED attempts
           /\ payment'.status = "PROVED_NO_EFFECT" => payment.status = "PROVED_NO_EFFECT"
BY DEF ReviewAfterExhaustion, Resting

\* completeWorkItem, retryWorkItem, failWorkItem, deferWorkItem: the lease is
\* still there.
LEMMA GiveBackSole ==
    ASSUME IInv, Alone, NEW w \in Workers,
           \/ CompleteWorkItem(w) \/ RetryWorkItem(w) \/ FailWorkItem(w) \/ DeferWorkItem(w)
    PROVE  Alone' /\ (Harmless => Harmless')
<1>1. workers[w].pc # "idle"
  BY DEF CompleteWorkItem, RetryWorkItem, FailWorkItem, DeferWorkItem, At
<1>2. StillOwned(w) /\ ~LoseLease(w)
  BY <1>1 DEF Alone, StillOwned, Mine, LoseLease
<1>3. Mine(w) \in WorkItem
  BY <1>1, MineOK
<1>4. UNCHANGED chain
  BY DEF CompleteWorkItem, RetryWorkItem, FailWorkItem, DeferWorkItem
<1>5. CASE CompleteWorkItem(w)
  <2>1. Resting /\ UNCHANGED <<payment, attempts>> /\ Settle(w, Completed(Mine(w)))
    BY <1>2, <1>5 DEF CompleteWorkItem, At, Alone, dbVars
  <2>2. Resting'
    BY <2>1 DEF Resting
  <2> QED
    BY <1>1, <1>4, <2>1, <2>2, SettleSole
<1>6. ASSUME Settle(w, Exhausted(Mine(w))), ReviewAfterExhaustion(1)
      PROVE  Alone' /\ (Harmless => Harmless')
  BY <1>1, <1>4, <1>6, ReviewRests, SettleSole
<1>7. ASSUME NEW kind, Settle(w, Retried(Mine(w), kind)), UNCHANGED dbVars
      PROVE  Alone' /\ (Harmless => Harmless')
  <2>1. ~Finished(Retried(Mine(w), kind))
    BY <1>3 DEF Finished, Retried, Unleased, WorkItem
  <2> QED
    BY <1>1, <1>4, <1>7, <2>1, SettleSole DEF dbVars
<1>8. ASSUME Settle(w, Deferred(Mine(w))), UNCHANGED dbVars
      PROVE  Alone' /\ (Harmless => Harmless')
  <2>1. ~Finished(Deferred(Mine(w)))
    <3> DEFINE u == Unleased(Mine(w), "RETRY_WAIT")
               a == IF RecoveringExpiredLease(Mine(w)) THEN u.attempts ELSE u.attempts - 1
               b == IF RecoveringExpiredLease(Mine(w)) THEN u.recoveries - 1 ELSE u.recoveries
    <3>1. Deferred(Mine(w)) = [u EXCEPT !.attempts = a, !.recoveries = b]
      BY DEF Deferred
    <3>2. u \in WorkItem /\ u.status = "RETRY_WAIT"
      BY <1>3, UnleasedFields DEF WorkStatuses
    <3> HIDE DEF u, a, b
    <3>3. Deferred(Mine(w)).status = "RETRY_WAIT"
      BY <3>1, <3>2 DEF WorkItem
    <3> QED
      BY <3>3 DEF Finished
  <2> QED
    BY <1>1, <1>4, <1>8, <2>1, SettleSole DEF dbVars
<1>9. CASE RetryWorkItem(w)
  BY <1>2, <1>6, <1>7, <1>9 DEF RetryWorkItem
<1>10. CASE FailWorkItem(w)
  BY <1>2, <1>6, <1>10 DEF FailWorkItem
<1>11. CASE DeferWorkItem(w)
  BY <1>2, <1>8, <1>11 DEF DeferWorkItem
<1> QED
  BY <1>5, <1>9, <1>10, <1>11

\* A crash leaves the item leased to nobody who is busy.
LEMMA CrashSole ==
    ASSUME IInv, Alone, NEW w \in Workers, Crash(w)
    PROVE  Alone' /\ (Harmless => Harmless')
<1>1. workers[w].pc # "idle" /\ Become(w, Idle) /\ UNCHANGED <<payment, attempts, items, chain>>
  BY DEF Crash, At, Stop, dbVars
<1>2. workers'[w] = Idle /\ \A v \in Workers \ {w} : workers'[v] = workers[v]
  BY <1>1 DEF IInv, TypeOK, Become
<1>3. \A v \in Workers : workers'[v].pc = "idle"
  BY SMTT(30), <1>1, <1>2, OthersIdle DEF Idle
<1>4. ~Finished(items[1])
  BY <1>1 DEF Alone, Owns, Finished
<1>5. Alone'
  BY <1>1, <1>3, <1>4, AllIdle DEF Alone
<1>6. Harmless => Harmless'
  BY <1>1, <1>3, AllIdleHarmless
<1> QED
  BY <1>5, <1>6

\* Without stalls a lease runs out only after its owner has left.
LEMMA LeaseExpiresSole ==
    ASSUME IInv, Alone, ~Stalls, NEW i \in AttemptNumbers, LeaseExpires(i)
    PROVE  Alone' /\ (Harmless => Harmless')
<1> DEFINE l == items[i].lease - 1
<1>1. /\ i = 1 /\ items[1].status = "CLAIMED" /\ items[1].lease > 0
      /\ workers[items[1].owner].item # 1
      /\ UNCHANGED <<payment, attempts, chain, workers>>
  BY DEF LeaseExpires, Alone, dbVars
<1>2. \A v \in Workers : workers[v].pc = "idle"
  BY <1>1 DEF Alone, Owns
<1>3. items[1] \in WorkItem /\ items \in [AttemptNumbers -> WorkItem]
  BY <1>1 DEF IInv, TypeOK
<1>4. items' = [items EXCEPT ![1] = [items[1] EXCEPT !.lease = l]]
  BY <1>1, <1>3 DEF LeaseExpires
<1> HIDE DEF l
<1>5. /\ items'[1].status = "CLAIMED"
      /\ \A n \in AttemptNumbers \ {1} : items'[n] = items[n]
  BY <1>1, <1>3, <1>4 DEF WorkItem
<1>6. Alone'
  BY <1>1, <1>2, <1>5, AllIdle DEF Alone, Finished
<1>7. Harmless => Harmless'
  BY <1>1, <1>2, AllIdleHarmless
<1> QED
  BY <1>6, <1>7

\* A claim gives a live lease to the claiming worker.
LEMMA ClaimedIsOwned ==
    ASSUME NEW it \in WorkItem, NEW w \in Workers
    PROVE  Owns(Claimed(it, w), w)
<1> DEFINE a == IF it.attempts >= MaxAttempts THEN it.attempts ELSE it.attempts + 1
           b == IF it.attempts >= MaxAttempts THEN it.recoveries + 1 ELSE it.recoveries
<1>1. Claimed(it, w) = [it EXCEPT !.status = "CLAIMED", !.owner = w,
                                  !.lease = LeaseTicks, !.attempts = a,
                                  !.recoveries = b]
  BY DEF Claimed
<1> HIDE DEF a, b
<1>2. /\ Claimed(it, w).status = "CLAIMED" /\ Claimed(it, w).owner = w
      /\ Claimed(it, w).lease = LeaseTicks
  BY <1>1 DEF WorkItem
<1>3. LeaseTicks > 0
  BY SMTT(30), WorkItemsAssumption
<1> QED
  BY <1>2, <1>3 DEF Owns

\* claimWorkItem: the only item is claimed, or swept, when nobody holds it.
LEMMA ClaimSole ==
    ASSUME IInv, Alone, NEW w \in Workers, NEW kind, ClaimWorkItem(w, kind)
    PROVE  Alone' /\ (Harmless => Harmless')
<1>1. /\ items \in [AttemptNumbers -> WorkItem] /\ 1 \in AttemptNumbers
      /\ workers \in [Workers -> WorkerState]
  BY SMTT(30), PaymentExecutionAssumption DEF IInv, TypeOK, AttemptNumbers
<1>2. UNCHANGED chain
  BY DEF ClaimWorkItem
<1>3. /\ UNCHANGED attempts
      /\ payment'.status = "PROVED_NO_EFFECT" => payment.status = "PROVED_NO_EFFECT"
      /\ DeadLeases(items, kind) # {} => Resting'
  BY ReviewRests DEF ClaimWorkItem, dbVars
<1>4. \A n \in AttemptNumbers : Claimable(items[n]) \/ FinalLeaseExpired(items[n]) =>
          n = 1 /\ \A v \in Workers : ~Owns(items[1], v)
  BY SMTT(30), <1>1 DEF Alone, Claimable, FinalLeaseExpired, Owns, WorkItem
<1>5. ASSUME \E n \in AttemptNumbers : Claimable(items[n]) \/ FinalLeaseExpired(items[n])
      PROVE  \A v \in Workers : workers[v].pc = "idle"
  BY <1>4, <1>5 DEF Alone
<1>6. PICK swept : swept = AfterSweep(items, kind)
  OBVIOUS
<1>7. /\ DOMAIN swept = AttemptNumbers
      /\ \A n \in AttemptNumbers \ {1} : swept[n].status = "ABSENT"
  <2>1. swept = [n \in AttemptNumbers |-> IF n \in DeadLeases(items, kind)
                                          THEN Exhausted(items[n]) ELSE items[n]]
    BY <1>1, <1>6 DEF AfterSweep
  <2>2. \A n \in AttemptNumbers \ {1} : n \notin DeadLeases(items, kind)
    BY <1>4 DEF DeadLeases
  <2> QED
    BY <2>1, <2>2 DEF Alone
<1>8. CASE \E i \in ClaimCandidates(items, kind) :
               /\ items' = AfterClaim(items, kind, i, w)
               /\ Become(w, [Idle EXCEPT !.pc = "load", !.item = i])
  <2>1. PICK i \in ClaimCandidates(items, kind) :
               /\ items' = AfterClaim(items, kind, i, w)
               /\ Become(w, [Idle EXCEPT !.pc = "load", !.item = i])
    BY <1>8
  <2>2. i \in AttemptNumbers /\ Claimable(items[i])
    BY <1>1, <2>1 DEF ClaimCandidates
  <2>3. i = 1 /\ \A v \in Workers : workers[v].pc = "idle"
    BY <1>4, <1>5, <2>2
  <2> DEFINE t == [Idle EXCEPT !.pc = "load", !.item = 1]
  <2>4. t.pc = "load" /\ t.item = 1 /\ Become(w, t)
    BY <2>1, <2>3 DEF Idle
  <2> HIDE DEF t
  <2>5. workers'[w] = t /\ \A v \in Workers \ {w} : workers'[v].pc = "idle"
    BY <1>1, <2>3, <2>4 DEF Become
  <2>6. items' = [swept EXCEPT ![1] = Claimed(items[1], w)]
    BY <1>6, <2>1, <2>3 DEF AfterClaim
  <2>7. Owns(items'[1], w)
    <3>1. items'[1] = Claimed(items[1], w)
      BY <1>1, <1>7, <2>6
    <3> QED
      BY <1>1, <3>1, ClaimedIsOwned
  <2>8. \A n \in AttemptNumbers \ {1} : items'[n].status = "ABSENT"
    BY <1>7, <2>6
  <2>9. ~Finished(items'[1])
    BY <2>7 DEF Owns, Finished
  <2>10. Alone'
    BY <2>4, <2>5, <2>7, <2>8, <2>9 DEF Alone
  <2>11. \A v \in Workers : workers'[v].pc \in {"idle", "load"}
    BY <2>4, <2>5
  <2>12. Harmless => Harmless'
    BY <1>2, <1>3, <2>11 DEF Harmless, Leaving, ProofIsSound
  <2> QED
    BY <2>10, <2>12
<1>9. CASE DeadLeases(items, kind) # {} /\ items' = swept /\ UNCHANGED workers
  <2>1. \A v \in Workers : workers'[v].pc = "idle"
    BY <1>1, <1>5, <1>9 DEF DeadLeases
  <2>2. Alone'
    BY <1>3, <1>7, <1>9, <2>1, AllIdle
  <2>3. Harmless => Harmless'
    BY <1>2, <1>3, <2>1, AllIdleHarmless
  <2> QED
    BY <2>2, <2>3
<1> QED
  BY <1>6, <1>8, <1>9 DEF ClaimWorkItem

\* The network: what was never sent only expires, what is dead stays dead.
LEMMA NetworkStepSole ==
    ASSUME IInv, Alone, NEW e \in Effects, NetworkStep(e)
    PROVE  Alone' /\ (Harmless => Harmless')
<1>1. UNCHANGED <<payment, attempts, items, workers>>
  BY DEF NetworkStep, dbVars
<1>2. Alone'
  BY <1>1 DEF Alone, Resting
<1>3. chain \in [Effects -> ChainStates]
  BY DEF IInv, TypeOK
<1>4. \A f \in Effects : /\ chain[f] \in {"none"} \cup Dead => chain'[f] \in {"none"} \cup Dead
                         /\ chain[f] \in Dead => chain'[f] \in Dead
  BY <1>3 DEF NetworkStep, Dead
<1>5. ASSUME Harmless, NEW v \in Workers PROVE ProofIsSound(workers[v])'
  <2>1. workers[v].effect \in Effects \cup {NoEffect}
    BY DEF IInv, TypeOK, WorkerState
  <2> QED
    BY <1>1, <1>4, <1>5, <2>1 DEF Harmless, ProofIsSound
<1>6. Harmless => Harmless'
  BY <1>1, <1>4, <1>5 DEF Harmless
<1> QED
  BY <1>2, <1>6

\* Operators only ever close the payment or put it back into review.
LEMMA OperatorSole ==
    ASSUME Alone, Operator
    PROVE  Alone'
<1>1. UNCHANGED <<items, workers>>
  BY DEF Operator, AcknowledgeException, ResolveConfirmedException,
     ResolveProvedNoEffectException, CloseUnresolvedException
<1>2. UNCHANGED payment \/ Resting'
  BY SMTT(30) DEF Operator, AcknowledgeException, ResolveConfirmedException,
     ResolveProvedNoEffectException, CloseUnresolvedException, Resting, TerminalStatuses
<1>3. Resting => Resting'
  BY <1>2 DEF Resting
<1> QED
  BY <1>1, <1>3 DEF Alone

\* A replacement attempt never goes away.
LEMMA FirstAttemptOnly ==
    ASSUME IInv, [Next]_vars, nAttempts' = 1
    PROVE  nAttempts = 1
<1>1. CASE UNCHANGED nAttempts
  BY <1>1
<1>2. ASSUME NEW w \in Workers, FinalizeWrite(w) PROVE nAttempts = 1
  <2>1. workers[w].n \in 1..nAttempts
    BY <1>2, Own, WorkerNumbers DEF FinalizeWrite, At
  <2>2. nAttempts' = nAttempts \/ nAttempts' = workers[w].n + 1
    BY <1>2 DEF FinalizeWrite
  <2> QED
    BY SMTT(30), <2>1, <2>2
<1>3. ASSUME NEW w \in Workers, Claim(w) \/ Crash(w) PROVE UNCHANGED nAttempts
  BY <1>3 DEF Claim, ClaimWorkItem, ReviewAfterExhaustion, Crash, dbVars
<1>4. ASSUME NEW w \in Workers, WorkerStep(w), ~FinalizeWrite(w) PROVE UNCHANGED nAttempts
  <2>1. CASE \/ LoadPayment(w) \/ LoadView(w)
             \/ EnsureActive(w, "guardPrepare", "prepare")
             \/ EnsureActive(w, "guardSign", "sign")
             \/ EnsureActive(w, "guardSubmit", "observe")
             \/ Prepare(w) \/ Sign(w) \/ Recheck(w) \/ Observe(w) \/ Send(w)
    BY <2>1 DEF LoadPayment, LoadView, EnsureActive, Prepare, Sign, Recheck,
       Observe, Send, dbVars
  <2>2. CASE \/ UpdatePaymentExecution(w) \/ Reconcile(w) \/ Height(w) \/ FinalizeCheck(w)
             \/ FinalizeRolledBack(w) \/ AbortCheck(w) \/ HandleFailure(w)
    BY <2>2 DEF UpdatePaymentExecution, Reconcile, Height, FinalizeCheck,
       FinalizeRolledBack, AbortCheck, HandleFailure, dbVars
  <2>3. CASE \/ CompleteWorkItem(w) \/ RetryWorkItem(w) \/ FailWorkItem(w)
             \/ DeferWorkItem(w)
    BY <2>3 DEF CompleteWorkItem, RetryWorkItem, FailWorkItem, DeferWorkItem,
       LoseLease, ReviewAfterExhaustion, dbVars
  <2>4. CASE \/ PersistPrepared(w) \/ UseSigningRequest(w) \/ RejectRequest(w)
             \/ PersistSigned(w) \/ CompleteRequest(w) \/ UpdateAttemptOutcome(w)
             \/ AbortWrite(w)
    BY <2>4 DEF PersistPrepared, UseSigningRequest, RejectRequest, PersistSigned,
       CompleteRequest, UpdateAttemptOutcome, AbortWrite
  <2> QED
    BY <1>4, <2>1, <2>2, <2>3, <2>4 DEF WorkerStep
<1>5. ASSUME \/ \E i \in AttemptNumbers : LeaseExpires(i)
             \/ \E e \in Effects : NetworkStep(e)
             \/ TransitionAccount \/ UNCHANGED vars \/ Operator
      PROVE  UNCHANGED nAttempts
  BY <1>5 DEF LeaseExpires, NetworkStep, TransitionAccount, vars, dbVars, Operator,
     AcknowledgeException, ResolveConfirmedException, ResolveProvedNoEffectException,
     CloseUnresolvedException
<1> QED
  BY <1>1, <1>2, <1>3, <1>4, <1>5 DEF Next, Automatic

\* Every step but an operator's, while the payment has one attempt.
LEMMA AutomaticSole ==
    ASSUME IInv, Alone, ~Stalls, nAttempts = 1, nAttempts' = 1, [Automatic]_vars
    PROVE  Alone' /\ (Harmless /\ RpcSnapshot => Harmless')
<1>1. ASSUME NEW w \in Workers, FollowingStep(w)
      PROVE  Alone' /\ (Harmless /\ RpcSnapshot => Harmless')
  <2>1. PICK t : Become(w, t) /\ Follows(w, t)
    BY <1>1 DEF FollowingStep
  <2>2. UNCHANGED <<payment, items>>
    BY <1>1 DEF FollowingStep
  <2> QED
    BY <2>1, <2>2, FollowsAlone, FollowsHarmless
<1>2. ASSUME NEW w \in Workers, WorkerStep(w)
      PROVE  Alone' /\ (Harmless /\ RpcSnapshot => Harmless')
  <2>1. CASE \/ UpdatePaymentExecution(w) \/ FinalizeWrite(w) \/ AbortWrite(w)
    BY <2>1, UpdatePaymentExecutionSole, FinalizeWriteSole, AbortWriteSole
  <2>2. CASE \/ CompleteWorkItem(w) \/ RetryWorkItem(w) \/ FailWorkItem(w)
             \/ DeferWorkItem(w)
    BY <2>2, GiveBackSole
  <2>3. CASE FollowingStep(w)
    BY <1>1, <2>3
  <2> QED
    BY <1>2, <2>1, <2>2, <2>3, WorkerFollows DEF WorkerStep
<1>3. ASSUME NEW w \in Workers, Claim(w) \/ Crash(w)
      PROVE  Alone' /\ (Harmless /\ RpcSnapshot => Harmless')
  BY <1>3, ClaimSole, CrashSole DEF Claim
<1>4. ASSUME TransitionAccount \/ UNCHANGED vars
      PROVE  Alone' /\ (Harmless => Harmless')
  <2>1. UNCHANGED <<payment, attempts, items, chain, workers>>
    BY <1>4 DEF TransitionAccount, vars, dbVars
  <2> QED
    BY <2>1 DEF Alone, Resting, Harmless, ProofIsSound
<1> QED
  BY <1>2, <1>3, <1>4, LeaseExpiresSole, NetworkStepSole DEF Automatic

\* Initially the item is there and nobody is busy.
LEMMA SoleInit == Init => SoleInv /\ HarmlessInv
<1> SUFFICES ASSUME Init PROVE Alone /\ Harmless
  BY DEF SoleInv, HarmlessInv
<1>1. \A v \in Workers : workers[v].pc = "idle"
  BY DEF Init, Idle
<1>2. 1 \in AttemptNumbers
  BY SMTT(30), PaymentExecutionAssumption DEF AttemptNumbers
<1>3. /\ items[1].status = "AVAILABLE"
      /\ \A n \in AttemptNumbers \ {1} : items[n].status = "ABSENT"
  BY <1>2 DEF Init, NewItem
<1>4. payment.status = "ROUTING"
  BY DEF Init
<1> QED
  BY <1>1, <1>3, <1>4 DEF Alone, Harmless, Finished, ProofIsSound

-----------------------------------------------------------------------------
(* The claim, whose sweep counts the items it exhausts, and the theorems. *)

\* What Cardinality computes.  The library's facts below are about an instance of
\* FiniteSets of their own, which computes the same.
CountOf(S) ==
    LET CS[T \in SUBSET S] == IF T = {} THEN 0 ELSE 1 + CS[T \ {CHOOSE x : x \in T}]
    IN  CS[S]

\* The number of items of a kind that a claim sweeps.
Swept(kind) == Cardinality(DeadLeases(items, kind))

LEMMA SweptIs == \A kind : Swept(kind) = CountOf(DeadLeases(items, kind))
BY DEF Swept, CountOf, Cardinality

LOCAL INSTANCE FiniteSetTheorems

\* The number of swept items is a number.
LEMMA SweptNat ==
    ASSUME TypeOK, NEW kind
    PROVE  Swept(kind) \in Nat
<1>1. DeadLeases(items, kind) \in SUBSET (1..NRoutes)
  BY DEF TypeOK, DeadLeases, AttemptNumbers
<1>2. IsFiniteSet(1..NRoutes)
  BY SMTT(30), FS_Interval, PaymentExecutionAssumption
<1>3. IsFiniteSet(DeadLeases(items, kind))
  BY <1>1, <1>2, FS_Subset
<1>4. Cardinality(DeadLeases(items, kind)) \in Nat
  BY <1>3, FS_CardinalityType
<1>5. Cardinality(DeadLeases(items, kind)) = CountOf(DeadLeases(items, kind))
  BY DEF CountOf, Cardinality
<1> QED
  BY <1>4, <1>5, SweptIs

\* claimWorkItem: the sweep of dead leases and the claim.
LEMMA ClaimWorkItemInv ==
    ASSUME IInv, NEW w \in Workers, NEW kind \in WorkKinds, ClaimWorkItem(w, kind)
    PROVE  IInv'
<1> DEFINE swept == AfterSweep(items, kind)
<1>0. UNCHANGED <<deferrals, account, chain>>
  BY DEF ClaimWorkItem
<1>1. TypeOK /\ nAttempts \in AttemptNumbers /\ items \in [AttemptNumbers -> WorkItem]
  BY DEF IInv, TypeOK
<1>2. /\ payment' \in Payment
      /\ exception' \in {"NONE", "OPEN", "ACKNOWLEDGED", "RESOLVED", "CLOSED_UNRESOLVED"}
      /\ OutcomeInv'
      /\ UNCHANGED <<attempts, nAttempts, reservation, evidence>>
  <2>1. CASE ReviewAfterExhaustion(Swept(kind))
    BY <1>0, <1>1, <2>1, ReviewOK, SweptNat DEF ReviewAfterExhaustion
  <2>2. CASE UNCHANGED dbVars
    BY <1>0, <1>1, <2>2
       DEF dbVars, IInv, TypeOK, OutcomeInv, ConfirmedHasEffect, TerminalNotHeld
  <2> QED
    BY <2>1, <2>2 DEF ClaimWorkItem, Swept
<1>3. swept \in [AttemptNumbers -> WorkItem]
  <2>1. \A i \in AttemptNumbers : Exhausted(items[i]) \in WorkItem
    BY <1>1, RowsTyped
  <2> QED
    BY <1>1, <2>1 DEF AfterSweep
<1>4. ASSUME items' \in [AttemptNumbers -> WorkItem] PROVE SharedTypeOK'
  BY <1>0, <1>1, <1>2, <1>4 DEF TypeOK, SharedTypeOK
<1>5. CASE \E i \in ClaimCandidates(items, kind) :
              /\ items' = AfterClaim(items, kind, i, w)
              /\ Become(w, [Idle EXCEPT !.pc = "load", !.item = i])
  <2>1. PICK i \in ClaimCandidates(items, kind) :
              /\ items' = AfterClaim(items, kind, i, w)
              /\ Become(w, [Idle EXCEPT !.pc = "load", !.item = i])
    BY <1>5
  <2>2. i \in AttemptNumbers /\ i # 0 /\ i \in 0..NRoutes
    BY SMTT(30), <1>1, <2>1, PaymentExecutionAssumption DEF ClaimCandidates, AttemptNumbers
  <2>3. Claimed(items[i], w) \in WorkItem
    BY <1>1, <2>2, ClaimedFields
  <2>4. items' \in [AttemptNumbers -> WorkItem]
    BY <1>3, <2>1, <2>3 DEF AfterClaim
  <2> DEFINE pc == "load"
             t == [Idle EXCEPT !.pc = pc, !.item = i]
  <2>5. t \in WorkerState /\ WorkerInv(t, nAttempts, attempts, chain)
    <3>1. pc \in Steps
      BY DEF Steps
    <3>2. Idle \in WorkerState /\ Idle.n = 0 /\ ~Idle.signed /\ ~Idle.replace
      BY IdleOK DEF Idle
    <3> HIDE DEF pc
    <3>3. t \in WorkerState
      BY <2>2, <3>1, <3>2 DEF WorkerState
    <3>4. t.pc = pc /\ t.item = i /\ t.n = 0 /\ ~t.signed /\ ~t.replace
      BY <3>2 DEF WorkerState
    <3>5. 0 <= nAttempts
      BY SMTT(30), <1>1 DEF AttemptNumbers
    <3> HIDE DEF t
    <3> QED
      BY <2>2, <3>3, <3>4, <3>5 DEF WorkerInv, Holding, AfterSigning, pc
  <2>6. Become(w, t)
    BY <2>1
  <2> HIDE DEF t
  <2> QED
    BY <1>0, <1>2, <1>4, <2>4, <2>5, <2>6, RestStep
<1>6. CASE items' = swept /\ UNCHANGED workers
  <2>1. items' \in [AttemptNumbers -> WorkItem]
    BY <1>3, <1>6
  <2> QED
    BY <1>0, <1>2, <1>4, <1>6, <2>1, QuietStep
<1> QED
  BY <1>5, <1>6 DEF ClaimWorkItem

\* The invariant is inductive.
LEMMA IInvStep == IInv /\ [Next]_vars => IInv'
<1> SUFFICES ASSUME IInv, [Next]_vars PROVE IInv'
  OBVIOUS
<1>1. ASSUME NEW w \in Workers, Claim(w) \/ WorkerStep(w) \/ Crash(w) PROVE IInv'
  BY <1>1, ClaimWorkItemInv, WorkerStepInv, CrashInv DEF Claim
<1>2. ASSUME NEW i \in AttemptNumbers, LeaseExpires(i) PROVE IInv'
  BY <1>2, LeaseExpiresInv
<1>3. ASSUME NEW e \in Effects, NetworkStep(e) PROVE IInv'
  BY <1>3, NetworkStepInv
<1>4. ASSUME TransitionAccount PROVE IInv'
  BY <1>4, TransitionAccountInv
<1>5. ASSUME Operator PROVE IInv'
  BY <1>5, AcknowledgeExceptionInv, ResolveConfirmedExceptionInv,
     ResolveProvedNoEffectExceptionInv, CloseUnresolvedExceptionInv DEF Operator
<1>6. ASSUME UNCHANGED vars PROVE IInv'
  BY <1>6, StutterInv
<1> QED
  BY <1>1, <1>2, <1>3, <1>4, <1>5, <1>6 DEF Next, Automatic

\* The inductive invariant holds in every reachable state.
THEOREM IInvAlways == Spec => []IInv
BY IInvInit, IInvStep, PTL DEF Spec

\* The rows, the chain and the workers keep their types.
THEOREM TypeCorrect == Spec => []TypeOK
<1>1. IInv => TypeOK
  BY DEF IInv
<1> QED
  BY <1>1, IInvAlways, PTL

\* Whatever the network has seen of a payment can be found again by a restarted
\* worker: submit() only ever sends a transaction whose prepared effect and
\* signed payload updateAttemptOutcome has made durable.
THEOREM SentIsDurable == Spec => []SentOnlyIfDurable
<1>1. IInv => SentOnlyIfDurable
  BY DEF IInv, RowsInv
<1> QED
  BY <1>1, IInvAlways, PTL

\* finalizeV2Payment and the operators' resolutions call a payment CONFIRMED and
\* consume its reservation only when a transaction has really landed.
THEOREM ConfirmationIsReal == Spec => []ConfirmedHasEffect
<1>1. IInv => ConfirmedHasEffect
  BY DEF IInv, OutcomeInv
<1> QED
  BY <1>1, IInvAlways, PTL

\* Only closeUnresolvedException leaves funds reserved for a terminal payment.
THEOREM TerminalReleasesFunds == Spec => []TerminalNotHeld
<1>1. IInv => TerminalNotHeld
  BY DEF IInv, OutcomeInv
<1> QED
  BY <1>1, IInvAlways, PTL

\* When the two RPC reads of a submit() or reconcile() call see one block, every
\* attempt that finalizeV2Payment has superseded is dead on the network.
THEOREM SupersededAlwaysDead ==
    ASSUME RpcSnapshot PROVE Spec => []SupersededAttemptsAreDead
<1>1. IInv => SupersededAttemptsAreDead
  BY DEF IInv, RowsInv, SupersededAttemptsAreDead
<1> QED
  BY <1>1, IInvAlways, PTL

\* Under the same assumption a payment is never made twice: an executed
\* transaction is the durable effect of an attempt that is not dead, hence of
\* the last attempt, and that attempt has one effect.
THEOREM PaidAtMostOnce ==
    ASSUME RpcSnapshot PROVE Spec => []AtMostOneEffect
<1>1. ASSUME IInv, NEW e \in Effects, Executed(e)
      PROVE  attempts[nAttempts].effect = e
  <2>1. PICK n \in 1..nAttempts : attempts[n].effect = e
    BY <1>1 DEF IInv, RowsInv, SentOnlyIfDurable, Executed
  <2>2. nAttempts \in Nat
    BY SMTT(30), <1>1 DEF IInv, TypeOK, AttemptNumbers
  <2>3. n \notin 1..(nAttempts - 1)
    BY <1>1, <2>1 DEF IInv, RowsInv, Executed, Dead
  <2>4. n = nAttempts
    BY SMTT(30), <2>2, <2>3
  <2> QED
    BY <2>1, <2>4
<1>2. IInv => AtMostOneEffect
  BY <1>1 DEF AtMostOneEffect
<1> QED
  BY <1>2, IInvAlways, PTL

\* Executors that race on one attempt, with stalled workers and expired leases,
\* never replace a prepared transaction that is already durable.
THEOREM EffectsImmutable == Spec => PreparedEffectImmutable
<1>1. IInv /\ [Next]_vars =>
        [\A n \in AttemptNumbers :
            attempts[n].effect # NoEffect => attempts'[n].effect = attempts[n].effect]_vars
  BY EffectsKeptStep DEF EffectsKept
<1> QED
  BY <1>1, IInvAlways, PTL DEF Spec, PreparedEffectImmutable

\* Without stalled workers a payment that has one attempt and whose work item is
\* finished is terminal or in front of an operator: completeWorkItem is reached
\* only after the payment was closed, and every other end of the item goes
\* through markWorkItemExhausted.
THEOREM NeverOrphaned ==
    ASSUME ~Stalls PROVE Spec => [](nAttempts = 1 => NoOrphanedPayment)
<1>1. IInv /\ SoleInv /\ [Next]_vars => SoleInv'
  <2> SUFFICES ASSUME IInv, SoleInv, [Next]_vars, nAttempts' = 1 PROVE Alone'
    BY DEF SoleInv
  <2>1. nAttempts = 1 /\ Alone
    BY FirstAttemptOnly DEF SoleInv
  <2>2. CASE [Automatic]_vars
    BY <2>1, <2>2, AutomaticSole
  <2>3. CASE Operator
    BY <2>1, <2>3, OperatorSole
  <2> QED
    BY <2>2, <2>3 DEF Next
<1>2. SoleInv => (nAttempts = 1 => NoOrphanedPayment)
  <2> SUFFICES ASSUME Alone, nAttempts = 1 PROVE NoOrphanedPayment
    BY DEF SoleInv
  <2>1. 1 \in 1..nAttempts
    BY SMTT(30)
  <2> QED
    BY <2>1 DEF Alone, NoOrphanedPayment, Resting
<1>3. Init => SoleInv
  BY SoleInit
<1> QED
  BY <1>1, <1>2, <1>3, IInvAlways, PTL DEF Spec

\* Without stalled workers and operators, and with RPC reads that see one block,
\* a payment of one attempt that finalizeV2Payment or abortPreEffectPayment has
\* closed as PROVED_NO_EFFECT has had no effect and will have none.
THEOREM NoEffectIsProved ==
    ASSUME ~Stalls, RpcSnapshot
    PROVE  AutomaticSpec => [](nAttempts = 1 => NoEffectProofIsTrue)
<1>1. [Automatic]_vars => [Next]_vars
  BY DEF Next
<1>2. AutomaticSpec => []IInv
  BY <1>1, IInvInit, IInvStep, PTL DEF AutomaticSpec
<1>3. IInv /\ SoleInv /\ HarmlessInv /\ [Automatic]_vars => SoleInv' /\ HarmlessInv'
  <2> SUFFICES ASSUME IInv, SoleInv, HarmlessInv, [Automatic]_vars, nAttempts' = 1
               PROVE  Alone' /\ Harmless'
    BY DEF SoleInv, HarmlessInv
  <2>1. nAttempts = 1 /\ Alone /\ Harmless
    BY <1>1, FirstAttemptOnly DEF SoleInv, HarmlessInv
  <2> QED
    BY <2>1, AutomaticSole
<1>4. HarmlessInv => (nAttempts = 1 => NoEffectProofIsTrue)
  BY DEF HarmlessInv, Harmless, NoEffectProofIsTrue, Executed, Dead
<1> QED
  BY <1>2, <1>3, <1>4, SoleInit, PTL DEF AutomaticSpec

\* At first only the payment's own work item is in the queue.
LEMMA QueuedInit == Init => Queued
<1> SUFFICES ASSUME Init, NEW n \in AttemptNumbers, n > nAttempts
             PROVE  items[n] = NewItem("ABSENT", "OUTGOING_PAYMENT_ATTEMPT")
  BY DEF Queued
<1> QED
  BY SMTT(30) DEF Init, AttemptNumbers

\* The workers of outgoing-v2.ts use the durable queue as WorkQueue specifies it:
\* every claim, heartbeat, completion, retry, deferral, failure and replacement is
\* an operation of the queue, and a claim always spends an attempt or a recovery.
THEOREM ExecutionImplementsQueue == Spec => ImplementsWorkQueue
<1>1. Init => WQ!Init
  <2> SUFFICES ASSUME Init PROVE WQ!Init
    OBVIOUS
  <2>1. /\ items = [n \in AttemptNumbers |->
                      IF n = 1 THEN NewItem("AVAILABLE", "OUTGOING_PAYMENT")
                               ELSE NewItem("ABSENT", "OUTGOING_PAYMENT_ATTEMPT")]
        /\ deferrals = [n \in AttemptNumbers |-> 0]
    BY DEF Init
  <2>2. items \in [AttemptNumbers -> {WQ!NewItem("ABSENT", "OUTGOING_PAYMENT_ATTEMPT"),
                                      WQ!NewItem("AVAILABLE", "OUTGOING_PAYMENT")}]
    BY <2>1, SameRows
  <2>3. \A j \in AttemptNumbers : items[j].attempts = 0 /\ items[j].recoveries = 0
    BY <2>1 DEF NewItem
  <2>4. [j \in AttemptNumbers |-> items[j].attempts + items[j].recoveries + deferrals[j]]
          = [j \in AttemptNumbers |-> 0]
    BY SMTT(30), <2>1, <2>3
  <2> QED
    BY <2>1, <2>2, <2>4 DEF WQ!Init
<1>2. IInv /\ Queued /\ [Next]_vars => Queued' /\ [WQ!Next]_(WQ!vars)
  BY QueueStep
<1> QED
  BY <1>1, <1>2, QueuedInit, IInvAlways, PTL DEF Spec, ImplementsWorkQueue, WQ!Spec

\* The queue's own theorems, for the rows of one payment.
Q == INSTANCE WorkQueueProofs WITH
         Items <- AttemptNumbers,
         claims <- [i \in AttemptNumbers |->
                       items[i].attempts + items[i].recoveries + deferrals[i]]

\* Both instances specify the same queue.
LEMMA SameQueue ==
    /\ WQ!Init => Q!Init
    /\ [WQ!Next]_(WQ!vars) => [Q!Next]_(Q!vars)
<1>1. WQ!Init => Q!Init
  BY DEF WQ!Init, Q!Init, WQ!NewItem, Q!NewItem
<1>2. [WQ!Next]_(WQ!vars) => [Q!Next]_(Q!vars)
  BY DEF WQ!Next, Q!Next, WQ!vars, Q!vars, WQ!WorkKinds, Q!WorkKinds,
         WQ!Claim, Q!Claim, WQ!ClaimWorkItem, Q!ClaimWorkItem, WQ!Enqueue, Q!Enqueue,
         WQ!Finish, Q!Finish, WQ!LeaseElapses, Q!LeaseElapses,
         WQ!RenewWorkItemLease, Q!RenewWorkItemLease, WQ!DeferWorkItem, Q!DeferWorkItem,
         WQ!CompleteWorkItem, Q!CompleteWorkItem, WQ!FailWorkItem, Q!FailWorkItem,
         WQ!RetryWorkItem, Q!RetryWorkItem, WQ!NewItem, Q!NewItem, WQ!Owns, Q!Owns,
         WQ!Completed, Q!Completed, WQ!Exhausted, Q!Exhausted, WQ!Unleased, Q!Unleased,
         WQ!Retried, Q!Retried, WQ!RetryExhausts, Q!RetryExhausts, WQ!Deferred, Q!Deferred,
         WQ!RecoveringExpiredLease, Q!RecoveringExpiredLease,
         WQ!ClaimCandidates, Q!ClaimCandidates, WQ!Claimable, Q!Claimable,
         WQ!DeadLeases, Q!DeadLeases, WQ!AfterClaim, Q!AfterClaim,
         WQ!AfterSweep, Q!AfterSweep, WQ!Claimed, Q!Claimed,
         WQ!FinalLeaseExpired, Q!FinalLeaseExpired
<1> QED
  BY <1>1, <1>2

\* Hence the workers inherit what the queue guarantees, however they crash, stall
\* and race: each work item of a payment is claimed at most maxAttempts + 1 times
\* besides its deferrals and within its budget, none is ever stranded, no live
\* lease passes to another worker and a finished item stays finished.
THEOREM ExecutionInheritsQueue ==
    Spec => /\ []WQ!BudgetRespected
            /\ []WQ!ClaimsBounded
            /\ []WQ!NoStrandedItem
            /\ WQ!LeaseIsExclusive
<1>1. Q!WorkQueueAssumption /\ Q!WorkItemsAssumption
  BY PaymentExecutionAssumption, WorkItemsAssumption
     DEF Q!WorkQueueAssumption, Q!WorkItemsAssumption
<1>2. /\ Q!BudgetRespected => WQ!BudgetRespected
      /\ Q!ClaimsBounded => WQ!ClaimsBounded
  BY DEF WQ!BudgetRespected, Q!BudgetRespected, WQ!ClaimsBounded, Q!ClaimsBounded
<1>3. Q!NoStrandedItem => WQ!NoStrandedItem
  BY DEF WQ!NoStrandedItem, Q!NoStrandedItem, WQ!Claimable, Q!Claimable,
         WQ!FinalLeaseExpired, Q!FinalLeaseExpired
<1>4. [\A i \in AttemptNumbers :
          /\ items[i].status = "CLAIMED" /\ items[i].lease > 0 =>
                 items'[i].owner \in {items[i].owner, NoOwner}
          /\ Q!Finished(items[i]) => items'[i] = items[i]]_(Q!vars)
      => [\A i \in AttemptNumbers :
            /\ items[i].status = "CLAIMED" /\ items[i].lease > 0 =>
                   items'[i].owner \in {items[i].owner, NoOwner}
            /\ WQ!Finished(items[i]) => items'[i] = items[i]]_(WQ!vars)
  BY DEF WQ!vars, Q!vars, WQ!Finished, Q!Finished
<1>5. Q!LeaseIsExclusive => WQ!LeaseIsExclusive
  BY <1>4, PTL DEF WQ!LeaseIsExclusive, Q!LeaseIsExclusive
<1> QED
  BY <1>1, <1>2, <1>3, <1>5, ExecutionImplementsQueue, SameQueue, Q!BudgetAlwaysRespected,
     Q!ClaimsAlwaysBounded, Q!NothingStranded, Q!LeasesExclusive, PTL
     DEF ImplementsWorkQueue, WQ!Spec, Q!Spec

-----------------------------------------------------------------------------
(* One worker per item.  Without stalled workers the heartbeat keeps the      *)
(* lease of whoever works on an item, now for any number of attempts: Held    *)
(* is inductive with IInv and Queued.                                         *)

\* Without stalls nobody works on an item without holding its lease.
Held == \A w \in Workers : workers[w].pc # "idle" => Owns(items[workers[w].item], w)

\* At most one worker works on an item.
OneWorkerPerItem ==
    \A v, w \in Workers :
        /\ workers[v].pc # "idle" /\ workers[w].pc # "idle"
        /\ workers[v].item = workers[w].item
        => v = w

\* A step of worker w, which keeps its item or stops.
KeepsItem(w) ==
    /\ workers'[w].pc # "idle" => workers'[w].item = workers[w].item
    /\ \A v \in Workers \ {w} : workers'[v] = workers[v]

\* A step that keeps the item in the worker's state.
LEMMA BecomeKeepsItem ==
    ASSUME workers \in [Workers -> WorkerState], NEW w \in Workers, NEW t, Become(w, t),
           t.pc = "idle" \/ t.item = workers[w].item
    PROVE  KeepsItem(w)
BY DEF Become, KeepsItem

\* What follows an exception, and what a worker that stops or just goes on does.
LEMMA PlainKeepsItem ==
    ASSUME workers \in [Workers -> WorkerState], NEW w \in Workers,
           \/ \E err : Raise(w, err)
           \/ \E pc : Goto(w, pc)
           \/ Stop(w)
    PROVE  KeepsItem(w)
<1>1. Idle.pc = "idle"
  BY SMTT(30) DEF Idle
<1>2. workers[w] \in WorkerState
  OBVIOUS
<1>3. CASE Stop(w)
  BY <1>1, <1>3, BecomeKeepsItem DEF Stop
<1>4. ASSUME NEW pc, Goto(w, pc) PROVE KeepsItem(w)
  <2>1. [workers[w] EXCEPT !.pc = pc].item = workers[w].item
    BY SMTT(30), <1>2 DEF WorkerState
  <2> QED
    BY <1>4, <2>1, BecomeKeepsItem DEF Goto
<1>5. ASSUME NEW err, Raise(w, err) PROVE KeepsItem(w)
  <2>1. Raised(workers[w], err) = Idle \/ Raised(workers[w], err).item = workers[w].item
    BY SMTT(30), <1>2 DEF Raised, WorkerState
  <2> QED
    BY <1>1, <1>5, <2>1, BecomeKeepsItem DEF Raise
<1> QED
  BY <1>3, <1>4, <1>5

\* What a worker does apart from claiming.
LEMMA WorkerKeepsItem ==
    ASSUME IInv, NEW w \in Workers, WorkerStep(w)
    PROVE  KeepsItem(w)
<1> DEFINE Plain == (\E err : Raise(w, err)) \/ (\E pc : Goto(w, pc)) \/ Stop(w)
<1>1. PICK s, v : s = workers[w] /\ v = Viewing(workers[w])
  OBVIOUS
<1>2. /\ workers \in [Workers -> WorkerState] /\ s \in WorkerState
      /\ v \in WorkerState /\ v.item = s.item /\ TypeOK
  BY <1>1, Own, ViewingOK DEF TypeOK
<1>3. Plain \/ (\E t : Become(w, t) /\ t.item = s.item) => KeepsItem(w)
  BY <1>1, <1>2, PlainKeepsItem, BecomeKeepsItem
<1> HIDE DEF Plain
<1>4. CASE \/ LoadPayment(w) \/ Prepare(w) \/ PersistPrepared(w) \/ UseSigningRequest(w)
           \/ RejectRequest(w) \/ PersistSigned(w) \/ CompleteRequest(w)
           \/ Observe(w) \/ Send(w) \/ UpdateAttemptOutcome(w)
           \/ FinalizeCheck(w) \/ AbortCheck(w) \/ HandleFailure(w)
  <2>1. FollowingStep(w)
    BY <1>2, <1>4, LoadPaymentFollows, PrepareFollows, PersistPreparedFollows,
       UseSigningRequestFollows, RejectRequestFollows, PersistSignedFollows,
       CompleteRequestFollows, ObserveFollows, SendFollows, UpdateAttemptOutcomeFollows,
       FinalizeCheckFollows, AbortCheckFollows, HandleFailureFollows
  <2> QED
    BY <1>2, <2>1, BecomeKeepsItem DEF FollowingStep, Follows
<1>5. CASE LoadView(w)
  <2>1. PICK pv, pc, next :
          Become(w, [[v EXCEPT !.pv = pv] EXCEPT !.pc = pc, !.next = next])
    BY <1>1, <1>5 DEF LoadView
  <2>2. /\ [[v EXCEPT !.pv = pv] EXCEPT !.pc = pc, !.next = next].item = s.item
    BY SMTT(30), <1>2 DEF WorkerState
  <2> QED
    BY <1>3, <2>1, <2>2
<1>6. CASE \/ EnsureActive(w, "guardPrepare", "prepare")
           \/ EnsureActive(w, "guardSign", "sign")
           \/ EnsureActive(w, "guardSubmit", "observe")
  <2>1. \/ Plain
        \/ Become(w, [v EXCEPT !.pc = "abortCheck"])
        \/ Become(w, [v EXCEPT !.pc = "update", !.goal = "UNKNOWN"])
    BY <1>1, <1>6 DEF EnsureActive, Plain
  <2>2. /\ [v EXCEPT !.pc = "abortCheck"].item = s.item
        /\ [v EXCEPT !.pc = "update", !.goal = "UNKNOWN"].item = s.item
    BY SMTT(30), <1>2 DEF WorkerState
  <2> QED
    BY <1>3, <2>1, <2>2
<1>7. CASE Sign(w) \/ Recheck(w)
  <2>1. \/ Plain
        \/ Become(w, [s EXCEPT !.pc = "persistSigned", !.rejects = 0])
        \/ Become(w, [v EXCEPT !.pc = "guardSubmit"])
    BY <1>1, <1>7 DEF Sign, Recheck, Plain
  <2>2. /\ [s EXCEPT !.pc = "persistSigned", !.rejects = 0].item = s.item
        /\ [v EXCEPT !.pc = "guardSubmit"].item = s.item
    BY SMTT(30), <1>2 DEF WorkerState
  <2> QED
    BY <1>3, <2>1, <2>2
<1>8. CASE UpdatePaymentExecution(w) \/ Reconcile(w) \/ Height(w)
  <2>1. PICK replace :
          \/ Plain
          \/ Become(w, [s EXCEPT !.pc = "finalizeCheck", !.goal = "CONFIRMED"])
          \/ Become(w, [s EXCEPT !.pc = "retry", !.next = "RECONCILE_PAYMENT_ATTEMPT"])
          \/ Become(w, [s EXCEPT !.pc = "finalizeCheck", !.goal = "PROVED_NO_EFFECT",
                                !.replace = replace])
    BY <1>1, <1>8 DEF UpdatePaymentExecution, Reconcile, Height, NoEffectProved, StillUnknown,
                Plain
  <2>2. /\ [s EXCEPT !.pc = "finalizeCheck", !.goal = "CONFIRMED"].item = s.item
        /\ [s EXCEPT !.pc = "retry", !.next = "RECONCILE_PAYMENT_ATTEMPT"].item = s.item
        /\ [s EXCEPT !.pc = "finalizeCheck", !.goal = "PROVED_NO_EFFECT",
                                !.replace = replace].item = s.item
    BY SMTT(30), <1>2 DEF WorkerState
  <2> QED
    BY <1>3, <2>1, <2>2
<1>9. CASE FinalizeWrite(w) \/ FinalizeRolledBack(w) \/ AbortWrite(w)
  BY <1>3, <1>9 DEF FinalizeWrite, FinalizeRolledBack, AbortWrite, Plain
<1>10. CASE CompleteWorkItem(w) \/ RetryWorkItem(w) \/ FailWorkItem(w) \/ DeferWorkItem(w)
  BY <1>3, <1>10 DEF CompleteWorkItem, RetryWorkItem, FailWorkItem, DeferWorkItem, Settle,
                     LoseLease, Plain
<1> QED
  BY <1>4, <1>5, <1>6, <1>7, <1>8, <1>9, <1>10 DEF WorkerStep

\* A worker that takes a step has claimed an item.
LEMMA WorkerIsBusy ==
    ASSUME NEW w \in Workers, WorkerStep(w)
    PROVE  workers[w].pc # "idle"
BY DEF WorkerStep, At, LoadPayment, LoadView, EnsureActive, Prepare, PersistPrepared,
     UseSigningRequest, Sign, RejectRequest, PersistSigned, CompleteRequest, Recheck, Observe,
     Send, UpdateAttemptOutcome, UpdatePaymentExecution, Reconcile, Height, FinalizeCheck,
     FinalizeWrite, FinalizeRolledBack, AbortCheck, AbortWrite, CompleteWorkItem,
     RetryWorkItem, FailWorkItem, DeferWorkItem, HandleFailure

\* While the claimed rows stay as they are, so does who holds them.
LEMMA HeldKept ==
    ASSUME IInv, Held, NEW w \in Workers, KeepsItem(w), workers[w].pc # "idle",
           \A n \in AttemptNumbers : items[n].status = "CLAIMED" => items'[n] = items[n]
    PROVE  Held'
<1> SUFFICES ASSUME NEW v \in Workers, workers'[v].pc # "idle"
             PROVE  Owns(items'[workers'[v].item], v)
  BY DEF Held
<1>1. workers[v].pc # "idle" /\ workers'[v].item = workers[v].item
  BY DEF KeepsItem
<1>2. Owns(items[workers[v].item], v) /\ workers[v].item \in AttemptNumbers
  BY <1>1, MineOK DEF Held
<1> QED
  BY <1>1, <1>2 DEF Owns

\* A worker that gives back its item stops.
LEMMA SettleHolds ==
    ASSUME IInv, Held, NEW w \in Workers, workers[w].pc # "idle", NEW it, Settle(w, it)
    PROVE  Held'
<1>1. /\ Owns(items[workers[w].item], w) /\ workers[w].item \in AttemptNumbers
      /\ items' = [items EXCEPT ![workers[w].item] = it]
      /\ items \in [AttemptNumbers -> WorkItem]
  BY MineOK DEF Settle, StillOwned, Mine, IInv, TypeOK
<1>2. Idle.pc = "idle"
  BY SMTT(30) DEF Idle
<1>3. workers'[w].pc = "idle" /\ \A v \in Workers \ {w} : workers'[v] = workers[v]
  BY <1>2 DEF Settle, Stop, Become, IInv, TypeOK
<1>4. ASSUME NEW v \in Workers, workers'[v].pc # "idle"
      PROVE  Owns(items'[workers'[v].item], v)
  <2>1. v # w /\ workers'[v] = workers[v]
    BY <1>3, <1>4
  <2>2. Owns(items[workers[v].item], v)
    BY <1>4, <2>1 DEF Held
  <2>3. workers[v].item # workers[w].item
    BY <1>1, <2>1, <2>2 DEF Owns
  <2>4. workers[v].item \in AttemptNumbers
    BY <1>4, <2>1, MineOK
  <2>5. items'[workers[v].item] = items[workers[v].item]
    BY <1>1, <2>3, <2>4
  <2> QED
    BY <2>1, <2>2, <2>5
<1> QED
  BY <1>4 DEF Held

\* The row a replacement attempt gets was not there before.
LEMMA ReplacementIsNew ==
    ASSUME IInv, Queued, NEW w \in Workers, FinalizeWrite(w), NEW n \in AttemptNumbers,
           items[n].status = "CLAIMED"
    PROVE  items'[n] = items[n]
<1>1. items \in [AttemptNumbers -> WorkItem] /\ nAttempts \in AttemptNumbers
  BY DEF IInv, TypeOK
<1>2. n <= nAttempts
  <2>1. NewItem("ABSENT", "OUTGOING_PAYMENT_ATTEMPT").status = "ABSENT"
    BY SMTT(30) DEF NewItem
  <2>2. ~(n > nAttempts)
    BY <2>1 DEF Queued
  <2> QED
    BY SMTT(30), <1>1, <2>2 DEF AttemptNumbers
<1>3. n # nAttempts + 1
  BY SMTT(30), <1>1, <1>2 DEF AttemptNumbers
<1>4. items' = items \/ \E it : items' = [items EXCEPT ![nAttempts + 1] = it]
  BY DEF FinalizeWrite
<1> QED
  BY <1>1, <1>3, <1>4

\* Everything a worker does after a claim.
LEMMA WorkerHolds ==
    ASSUME IInv, Queued, Held, NEW w \in Workers, WorkerStep(w)
    PROVE  Held'
<1>1. KeepsItem(w)
  BY WorkerKeepsItem
<1>2. CASE FinalizeWrite(w)
  <2>1. workers[w].pc # "idle"
    BY <1>2 DEF FinalizeWrite, At
  <2> QED
    BY <1>1, <1>2, <2>1, ReplacementIsNew, HeldKept
<1>3. CASE CompleteWorkItem(w) \/ RetryWorkItem(w) \/ FailWorkItem(w) \/ DeferWorkItem(w)
  <2>1. workers[w].pc # "idle"
    BY <1>3 DEF CompleteWorkItem, RetryWorkItem, FailWorkItem, DeferWorkItem, At
  <2>2. UNCHANGED items \/ \E it : Settle(w, it)
    BY <1>3 DEF CompleteWorkItem, RetryWorkItem, FailWorkItem, DeferWorkItem, LoseLease
  <2> QED
    BY <1>1, <2>1, <2>2, SettleHolds, HeldKept
<1>4. CASE UNCHANGED items
  <2>1. workers[w].pc # "idle"
    BY WorkerIsBusy
  <2> QED
    BY <1>1, <1>4, <2>1, HeldKept
<1> QED
  BY <1>2, <1>3, <1>4, ItemWriters

\* claimWorkItem: what is claimed or swept nobody holds.
LEMMA ClaimHolds ==
    ASSUME IInv, Held, NEW w \in Workers, NEW kind, ClaimWorkItem(w, kind)
    PROVE  Held'
<1>1. /\ items \in [AttemptNumbers -> WorkItem] /\ workers \in [Workers -> WorkerState]
      /\ workers[w].pc = "idle"
  BY DEF IInv, TypeOK, ClaimWorkItem, At
<1>2. ASSUME NEW n \in AttemptNumbers, NEW v \in Workers, Owns(items[n], v)
      PROVE  ~Claimable(items[n]) /\ ~FinalLeaseExpired(items[n])
  BY SMTT(30), <1>1, <1>2 DEF Claimable, FinalLeaseExpired, Owns, WorkItem
<1>3. PICK swept : swept = AfterSweep(items, kind)
  OBVIOUS
<1>4. DOMAIN swept = AttemptNumbers
  BY <1>1, <1>3 DEF AfterSweep
<1>5. ASSUME NEW n \in AttemptNumbers, NEW v \in Workers, Owns(items[n], v)
      PROVE  swept[n] = items[n] /\ n \notin ClaimCandidates(items, kind)
  BY <1>1, <1>2, <1>3, <1>5 DEF AfterSweep, DeadLeases, ClaimCandidates
<1>6. ASSUME NEW v \in Workers, workers[v].pc # "idle"
      PROVE  workers[v].item \in AttemptNumbers /\ Owns(items[workers[v].item], v)
  BY <1>6, MineOK DEF Held
<1>7. CASE \E i \in ClaimCandidates(items, kind) :
               /\ items' = AfterClaim(items, kind, i, w)
               /\ Become(w, [Idle EXCEPT !.pc = "load", !.item = i])
  <2>1. PICK i \in ClaimCandidates(items, kind) :
               /\ items' = AfterClaim(items, kind, i, w)
               /\ Become(w, [Idle EXCEPT !.pc = "load", !.item = i])
    BY <1>7
  <2>2. i \in AttemptNumbers /\ items' = [swept EXCEPT ![i] = Claimed(items[i], w)]
    BY <1>1, <1>3, <2>1 DEF ClaimCandidates, AfterClaim
  <2> DEFINE t == [Idle EXCEPT !.pc = "load", !.item = i]
  <2>3. t.item = i
    BY SMTT(30) DEF Idle
  <2> HIDE DEF t
  <2>4. workers'[w].item = i /\ \A v \in Workers \ {w} : workers'[v] = workers[v]
    BY <1>1, <2>1, <2>3 DEF Become, t
  <2>5. Owns(items'[i], w)
    BY <1>1, <1>4, <2>2, ClaimedIsOwned
  <2>6. ASSUME NEW v \in Workers, v # w, workers[v].pc # "idle"
        PROVE  Owns(items'[workers[v].item], v)
    BY <1>4, <1>5, <1>6, <2>1, <2>2, <2>6
  <2> QED
    BY <2>4, <2>5, <2>6 DEF Held
<1>8. CASE items' = swept /\ UNCHANGED workers
  BY <1>5, <1>6, <1>8 DEF Held
<1> QED
  BY <1>3, <1>7, <1>8 DEF ClaimWorkItem

\* Without stalls a lease runs out only once its owner has left.
LEMMA ExpiryHolds ==
    ASSUME IInv, Held, ~Stalls, NEW i \in AttemptNumbers, LeaseExpires(i)
    PROVE  Held'
<1>1. /\ items \in [AttemptNumbers -> WorkItem] /\ UNCHANGED workers
      /\ workers[items[i].owner].item # i
      /\ \E it : items' = [items EXCEPT ![i] = it]
  BY DEF IInv, TypeOK, LeaseExpires
<1>2. ASSUME NEW v \in Workers, workers[v].pc # "idle"
      PROVE  Owns(items'[workers[v].item], v)
  <2>1. workers[v].item \in AttemptNumbers /\ Owns(items[workers[v].item], v)
    BY <1>2, MineOK DEF Held
  <2>2. workers[v].item # i
    BY <1>1, <2>1 DEF Owns
  <2> QED
    BY <1>1, <2>1, <2>2
<1> QED
  BY <1>1, <1>2 DEF Held

\* The invariant under every step.
LEMMA HeldStep ==
    ASSUME IInv, Queued, Held, ~Stalls, [Next]_vars
    PROVE  Held'
<1>1. ASSUME NEW w \in Workers, Crash(w) PROVE Held'
  <2>1. KeepsItem(w) /\ workers[w].pc # "idle" /\ UNCHANGED items
    BY <1>1, PlainKeepsItem DEF Crash, At, IInv, TypeOK
  <2> QED
    BY <2>1, HeldKept
<1>2. CASE UNCHANGED <<items, workers>>
  BY <1>2 DEF Held
<1>3. CASE Operator \/ (\E e \in Effects : NetworkStep(e)) \/ TransitionAccount \/ UNCHANGED vars
  BY <1>2, <1>3 DEF Operator, AcknowledgeException, ResolveConfirmedException,
                    ResolveProvedNoEffectException, CloseUnresolvedException, NetworkStep,
                    TransitionAccount, vars
<1> QED
  BY <1>1, <1>3, WorkerHolds, ClaimHolds, ExpiryHolds DEF Next, Automatic, Claim

\* Without stalled workers, however many routes, workers and crashes there are, no
\* two workers of outgoing-v2.ts work on the same work item at the same time: a
\* worker that has claimed an item holds its lease until it gives the item back.
THEOREM WorkIsExclusive ==
    ASSUME ~Stalls PROVE Spec => []OneWorkerPerItem
<1>1. Init => Held /\ Queued
  <2>1. Idle.pc = "idle"
    BY SMTT(30) DEF Idle
  <2>2. Init => Held
    BY <2>1 DEF Init, Held
  <2> QED
    BY <2>2, QueuedInit
<1>2. IInv /\ Queued /\ Held /\ [Next]_vars => Queued' /\ Held'
  BY QueueStep, HeldStep
<1>3. Held => OneWorkerPerItem
  BY DEF Held, OneWorkerPerItem, Owns
<1> QED
  BY <1>1, <1>2, <1>3, IInvAlways, PTL DEF Spec
=============================================================================
