-------------------------- MODULE VoucherRegister --------------------------
(***************************************************************************)
(* What the export guard promises of Tally's books and of our record of    *)
(* them: versions of an invoice are posted in order, a version is posted   *)
(* only once the one before it is committed, and a version is committed    *)
(* only once Tally holds it.  So the books and the record agree, or the    *)
(* record is one version behind and the operator retries                   *)
(* (docs/runbooks/tally-exporter.md, section 3).                           *)
(***************************************************************************)
EXTENDS Naturals

CONSTANT Invoices

VARIABLES
    committed,  \* the version our record gives each invoice
    book        \* the <<invoice, version>> pairs Tally holds

vars == <<committed, book>>

Init ==
    /\ committed = [i \in Invoices |-> 0]
    /\ book = {}

\* Posting again what is in the book leaves it as it is.
PostVoucher(i) ==
    /\ \E k \in 1 .. committed[i] + 1 : book' = book \union {<<i, k>>}
    /\ UNCHANGED committed

Commit(i) ==
    /\ <<i, committed[i] + 1>> \in book
    /\ committed' = [committed EXCEPT ![i] = @ + 1]
    /\ UNCHANGED book

Next == \E i \in Invoices : PostVoucher(i) \/ Commit(i)

Spec == Init /\ [][Next]_vars
=============================================================================
