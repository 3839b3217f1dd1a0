------------------------- MODULE MCInvoiceLifecycle -------------------------
(***************************************************************************)
(* Small instances of InvoiceLifecycle for TLC: users, limits and plans.   *)
(***************************************************************************)
EXTENDS InvoiceLifecycle, TLC

CONSTANTS i1, r1, r2, u1, u2

Symmetry == Permutations(Requests)

\* The last user may sign small amounts only.
HighLimit == [u \in Users |-> 2]
LowLimit  == [u \in Users |-> IF u = u2 THEN 1 ELSE 2]

\* Steps with any one signature, and with one of each approver.
OneOf(k, us, above) ==
    [order |-> k, approvers |-> us, rule |-> "any", required |-> 0, above |-> above]
AllOf(k, us, above) ==
    [order |-> k, approvers |-> us, rule |-> "all", required |-> Cardinality(us), above |-> above]

\* Steps that are skipped for small amounts: the only one, the first, and one
\* between others, in a plan whose second number is missing.
MixedPlans ==
    {<<OneOf(1, {u1, u2}, 1)>>,
     <<OneOf(1, {u1}, 1), AllOf(2, {u1, u2}, 0)>>,
     <<OneOf(1, {u1}, 0), OneOf(3, {u1, u2}, 1), OneOf(4, {u2}, 0)>>}

TwoSigners == {<<AllOf(1, {u1, u2}, 0)>>}
TwoSteps   == {<<AllOf(1, {u1, u2}, 0), OneOf(3, {u1, u2}, 1)>>}
=============================================================================
