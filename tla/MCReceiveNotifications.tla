----------------------- MODULE MCReceiveNotifications -----------------------
(* Small instances of ReceiveNotifications: a request made through /v1, and one
   made through /v2 in a denomination finer than cents. *)
EXTENDS ReceiveNotifications, TLC

CONSTANTS r1, s1

MCRequests == {r1}
MCTerms == (r1 :> [reference |-> "a", cents |-> 1, v2 |-> FALSE, life |-> 2])
MCTermsV2 == (r1 :> [reference |-> "a", cents |-> 1, v2 |-> TRUE, life |-> 2])
MCTransfers ==
    {[managed |-> FALSE, reference |-> "a", cents |-> 1, skew |-> 0],
     [managed |-> TRUE, reference |-> "a", cents |-> 1, skew |-> 1],
     [managed |-> TRUE, reference |-> "a", cents |-> 1, skew |-> -1],
     [managed |-> FALSE, reference |-> "a", cents |-> 2, skew |-> 0]}
MCEventTypes == (s1 :> {<<"receive_request", "updated">>, <<"receive_request", "expired">>})
=============================================================================
