--------------------------- MODULE MCTallyExport ---------------------------
(***************************************************************************)
(* Small instances of TallyExport for TLC.                                 *)
(***************************************************************************)
EXTENDS TallyExport, TLC

CONSTANTS i1, i2, r1, r2, b1, b2

\* Requests and batches are interchangeable; so are invoices.
Symmetry == Permutations(Invoices) \union Permutations(Requests) \union Permutations(Batches)
=============================================================================
