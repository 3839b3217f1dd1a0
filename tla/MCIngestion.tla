---------------------------- MODULE MCIngestion ----------------------------
(***************************************************************************)
(* Small instances of Ingestion for TLC.                                   *)
(***************************************************************************)
EXTENDS Ingestion, TLC

CONSTANTS t1, t2, s1, s2, s3, f1, f2, f3, m1, m2, r1, r2, c1, o1

Symmetry == Permutations(Runs)

\* s1 and s2 are the upload folders of t1 and t2; s3 is a mailbox of t1.
Owners == [s \in Sources |-> IF s = s2 THEN t2 ELSE t1]

\* f1, f2 and f3 are objects of t1's folder; m1 and m2 are attachments of two
\* messages of the mailbox.
Origins == [f \in Files |-> IF f \in {f1, f2, f3} THEN s1 ELSE s3]
Ids     == [f \in Files |-> IF f = f1 THEN 1 ELSE IF f = f2 THEN 2 ELSE IF f = f3 THEN 3
                            ELSE IF f = m1 THEN 4 ELSE 5]
=============================================================================
