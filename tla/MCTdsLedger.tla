----------------------------- MODULE MCTdsLedger -----------------------------
(***************************************************************************)
(* Small instances of TdsLedger for TLC.                                   *)
(***************************************************************************)
EXTENDS TdsLedger, TLC

CONSTANTS i1, i2, v1, v2, r1, r2

Symmetry == Permutations(Vendors) \union Permutations(Requests)

\* The first amount is below the single threshold of 35, both together reach
\* the annual threshold of 70, and at ten percent the tax on each is rounded.
Amounts == (i1 :> 34) @@ (i2 :> 36)
=============================================================================
