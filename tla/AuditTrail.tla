----------------------------- MODULE AuditTrail -----------------------------
(***************************************************************************)
(* What the audit log promises for an entry handed to it: until it is on   *)
(* file the entry may be lost with the process that holds it, but once it  *)
(* is kept it is logged, at least once, or set aside for good.             *)
(***************************************************************************)
EXTENDS Naturals

CONSTANT Entries

VARIABLES
    fate,  \* what has become of each entry
    rows   \* how often it stands in the log

Fates == {"none", "held", "kept", "logged", "setAside", "lost"}

Init ==
    /\ fate = [e \in Entries |-> "none"]
    /\ rows = [e \in Entries |-> 0]

Becomes(e, f) == fate' = [fate EXCEPT ![e] = f]

Hold(e) == fate[e] = "none" /\ Becomes(e, "held") /\ UNCHANGED rows

Lose(e) == fate[e] = "held" /\ rows[e] = 0 /\ Becomes(e, "lost") /\ UNCHANGED rows

Keep(e) == fate[e] = "held" /\ Becomes(e, "kept") /\ UNCHANGED rows

\* A row is written, and perhaps the writer does not know.
Write(e) ==
    /\ fate[e] \in {"held", "kept"}
    /\ rows' = [rows EXCEPT ![e] = @ + 1]
    /\ UNCHANGED fate \/ Becomes(e, "logged")

Settle(e) ==
    /\ fate[e] \in {"held", "kept"} /\ rows[e] > 0
    /\ Becomes(e, "logged")
    /\ UNCHANGED rows

SetAside(e) == fate[e] = "kept" /\ Becomes(e, "setAside") /\ UNCHANGED rows

\* The process dies: all it held is settled or lost.
Die ==
    /\ fate' = [e \in Entries |->
                  IF fate[e] # "held" THEN fate[e]
                  ELSE IF rows[e] > 0 THEN "logged" ELSE "lost"]
    /\ UNCHANGED rows

Next ==
    \/ \E e \in Entries :
          Hold(e) \/ Lose(e) \/ Keep(e) \/ Write(e) \/ Settle(e) \/ SetAside(e)
    \/ Die

Spec == Init /\ [][Next]_<<fate, rows>>
=============================================================================
