---------------------------- MODULE MCSpendControl ----------------------------
(* SpendControl with concrete limits for TLC. *)
EXTENDS SpendControl, TLC

CONSTANTS c1, c2

Symmetry == Permutations(Clients) \cup Permutations(Keys)

\* Approval from 2 on, a budget and a cap that two payments reach.
Strict == [max |-> 2, budget |-> 4, window |-> 1, cap |-> 2, threshold |-> 2]
\* No window, no cap and no approvals, but a smaller budget.
Loose == [max |-> 2, budget |-> 2, window |-> Unlimited, cap |-> Unlimited,
          threshold |-> Unlimited]
\* A small payment, and a refund that needs approval: two do not fit.
MCIntents == {[kind |-> "PAY", amount |-> 1], [kind |-> "REFUND", amount |-> 2]}
\* One allowed payment of an earlier request has landed and is not yet finalized.
MCUnderway == <<[key |-> "k0", intent |-> [kind |-> "PAY", amount |-> 1],
                 created |-> 0, decision |-> "ALLOW", landed |-> TRUE, noEffect |-> {},
                 status |-> "ROUTING", reservation |-> "HELD",
                 approval |-> "NONE", expires |-> 0]>>
MCPolicies == {Loose}
=============================================================================
