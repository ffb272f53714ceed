------------------------- MODULE MCReconcilerRace --------------------------
(***************************************************************************)
(* PaymentExecution from the moment an executor has left attempt 1 UNKNOWN *)
(* and handed its work item to reconciliation: a state the executor        *)
(* reaches by preparing, signing and sending without an interruption.      *)
(* From there only reconcilers, which may outlive their leases, the        *)
(* network and operators act; no executor is up.  Two reconcilers can then *)
(* prove the same attempt to have had no effect, and both try to insert    *)
(* the replacement attempt.                                                *)
(***************************************************************************)
EXTENDS PaymentExecution

CONSTANT Executor    \* the worker that sent the transaction of attempt 1

ASSUME ExecutorAssumption == Executor \in Workers \ Reconcilers

Sent == <<1, Executor>>

\* The answer to sendTransaction was lost, so it may or may not be in flight.
HandedOver ==
    /\ payment = [status |-> "RECONCILING", exec |-> "RECONCILING", rv |-> 1]
    /\ attempts = [n \in AttemptNumbers |->
           IF n # 1 THEN NewAttempt
           ELSE [NewAttempt EXCEPT !.outcome = "UNKNOWN", !.effect = Sent, !.signed = TRUE,
                                   !.request = "SIGNED", !.rv = 3]]
    /\ nAttempts = 1
    /\ reservation = "HELD"
    /\ evidence = {}
    /\ exception = "NONE"
    /\ items = [n \in AttemptNumbers |->
           IF n # 1 THEN NewItem("ABSENT", "OUTGOING_PAYMENT_ATTEMPT")
           ELSE [NewItem("RETRY_WAIT", "RECONCILE_PAYMENT_ATTEMPT") EXCEPT !.attempts = 1]]
    /\ deferrals = [n \in AttemptNumbers |-> 0]
    /\ account = [active |-> TRUE, changes |-> 0]
    /\ \E sent \in {"none", "inflight"} :
           chain = [e \in Effects |-> IF e = Sent THEN sent ELSE "none"]
    /\ workers = [w \in Workers |-> Idle]

ReconcilersOnly ==
    \/ \E w \in Reconcilers : Claim(w) \/ WorkerStep(w) \/ Crash(w)
    \/ \E i \in AttemptNumbers : LeaseExpires(i)
    \/ \E e \in Effects : NetworkStep(e)
    \/ Operator

RaceSpec == HandedOver /\ [][ReconcilersOnly]_vars
=============================================================================
