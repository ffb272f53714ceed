-------------------------- MODULE MCAccountAccess --------------------------
(***************************************************************************)
(* An instance of AccountAccess for TLC.  A behaviour does one of a few    *)
(* workloads: several calls about credentials, or requests while           *)
(* credentials change, so that the product of the two stays small.         *)
(***************************************************************************)
EXTENDS AccountAccess, TLC

CONSTANTS c1, c2, q1, q2

MCWindow == [b \in Buckets |-> 2]
MCLimit == [b \in Buckets |-> 1]

MCScopes == [t \in Terms |-> IF t = "t1" THEN {"payments:create", "receive:manage"}
                             ELSE {"payments:read"}]
MCExpiry == [t \in Terms |-> IF t = "t1" THEN 2 ELSE Never]

MCWorkloads ==
    {[calls |-> 3, requests |-> 0, faults |-> 1, changes |-> 0, until |-> 2],
     [calls |-> 3, requests |-> 0, faults |-> 1, changes |-> 1, until |-> 0],
     [calls |-> 1, requests |-> 2, faults |-> 0, changes |-> 1, until |-> 1],
     [calls |-> 2, requests |-> 1, faults |-> 0, changes |-> 0, until |-> 2],
     [calls |-> 0, requests |-> 3, faults |-> 0, changes |-> 0, until |-> 4]}

MCRoutes == {"POST payments", "GET accounts/:id", "POST policies/:id/activate"}

Symmetric == Permutations(Calls) \union Permutations(Callers)
=============================================================================
