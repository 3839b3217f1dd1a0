------------------------------ MODULE AuditLog ------------------------------
(***************************************************************************)
(* AuditLogService.ts: record writes an entry to the log beside the        *)
(* operation it documents; when that fails the entry becomes a dead        *)
(* letter, and retryDeadLetters, called by the tick of server.ts, tries    *)
(* the due letters again.  One backend process with one tick at a time.    *)
(*                                                                         *)
(* One action per database call.  A call may fail without effect, or take  *)
(* effect and lose its answer.  Times are abstract: a letter waits, and    *)
(* some time later it is due.                                              *)
(***************************************************************************)
EXTENDS Integers, FiniteSets

CONSTANTS
    Entries,      \* calls of record
    Poison,       \* entries whose payload the log's schema refuses
    MaxAttempts,  \* AUDIT_RETRY_MAX_ATTEMPTS
    NoEntry,      \* the tick works on no letter
    MaxFaults     \* bound: faults that are not failures to write a row

ASSUME AuditAssumption ==
    /\ Poison \subseteq Entries
    /\ MaxAttempts \in Nat \ {0}
    /\ NoEntry \notin Entries
    /\ MaxFaults \in Nat

VARIABLES
    request,  \* where record is
    rows,     \* AuditLogModel: the rows of each entry
    letter,   \* AuditLogDeadLetterModel: the letter of each entry
    tick,     \* the local variables of retryDeadLetters
    faults    \* bound: faults so far

vars == <<request, rows, letter, tick, faults>>

Requests == {"none", "write", "deadLetter", "over"}
Letter   == [state : {"none", "waiting", "due", "givenUp"}, attempts : 0 .. MaxAttempts]
NoLetter == [state |-> "none", attempts |-> 0]
Tick     == [at : {"idle", "next", "delete", "update"}, todo : SUBSET Entries,
             entry : Entries \union {NoEntry}]
NoTick   == [at |-> "idle", todo |-> {}, entry |-> NoEntry]

Init ==
    /\ request = [e \in Entries |-> "none"]
    /\ rows    = [e \in Entries |-> 0]
    /\ letter  = [e \in Entries |-> NoLetter]
    /\ tick    = NoTick
    /\ faults  = 0

Fault    == faults < MaxFaults /\ faults' = faults + 1
NoFault  == UNCHANGED faults
AddRow(e) == e \notin Poison /\ rows' = [rows EXCEPT ![e] = @ + 1]

(***************************************************************************)
(* record and handleWriteFailure.                                          *)
(***************************************************************************)
Goes(e, from, to) == request[e] = from /\ request' = [request EXCEPT ![e] = to]

\* The operation calls record and does not wait for it.
Record(e) == Goes(e, "none", "write") /\ UNCHANGED <<rows, letter, tick, faults>>

\* AuditLogModel.create of record ...
WriteRow(e) ==
    /\ \/ Goes(e, "write", "over") /\ AddRow(e) /\ NoFault
       \/ Goes(e, "write", "deadLetter") /\ UNCHANGED rows /\ NoFault
       \/ Goes(e, "write", "deadLetter") /\ AddRow(e) /\ Fault
    /\ UNCHANGED <<letter, tick>>

\* ... and of the dead letter, whose failure is only logged.
WriteLetter(e) ==
    /\ Goes(e, "deadLetter", "over")
    /\ \/ letter' = [letter EXCEPT ![e].state = "waiting"] /\ NoFault
       \/ UNCHANGED letter /\ Fault
    /\ UNCHANGED <<rows, tick>>

\* nextAttemptAt has come.
FallDue(e) ==
    /\ letter[e].state = "waiting"
    /\ letter' = [letter EXCEPT ![e].state = "due"]
    /\ UNCHANGED <<request, rows, tick, faults>>

(***************************************************************************)
(* retryDeadLetters.  The letters are read once, but no one else changes   *)
(* them while the tick goes through them.                                  *)
(***************************************************************************)
AtEntry(at, e) == tick.at = at /\ tick.entry = e

\* The loop goes on with the rest of the letters.
OnWith(todo) == tick' = IF todo = {} THEN NoTick
                        ELSE [at |-> "next", todo |-> todo, entry |-> NoEntry]

FindDue ==
    /\ tick.at = "idle"
    /\ \E e \in Entries : letter[e].state = "due"
    /\ OnWith({e \in Entries : letter[e].state = "due"})
    /\ UNCHANGED <<request, rows, letter, faults>>

Retry(e) ==
    /\ tick.at = "next" /\ e \in tick.todo
    /\ \E at \in {"delete", "update"} :
        /\ tick' = [at |-> at, todo |-> tick.todo \ {e}, entry |-> e]
        /\ \/ at = "delete" /\ AddRow(e) /\ NoFault
           \/ at = "update" /\ UNCHANGED rows /\ NoFault
           \/ at = "update" /\ AddRow(e) /\ Fault
    /\ UNCHANGED <<request, letter>>

\* Mutant: a written letter is not deleted.
KeepsLetter(e) == letter

WithoutLetter(e) == [letter EXCEPT ![e] = NoLetter]

\* deleteOne; when it fails the attempt counts as failed.
DeleteLetter(e) ==
    /\ AtEntry("delete", e)
    /\ \/ OnWith(tick.todo) /\ letter' = WithoutLetter(e) /\ NoFault
       \/ tick' = [tick EXCEPT !.at = "update"] /\ UNCHANGED letter /\ Fault
       \/ tick' = [tick EXCEPT !.at = "update"] /\ letter' = WithoutLetter(e) /\ Fault
    /\ UNCHANGED <<request, rows>>

\* Mutant: one attempt more than AUDIT_RETRY_MAX_ATTEMPTS.
AfterFailureLate(l) ==
    IF l.attempts >= MaxAttempts
    THEN [state |-> "givenUp", attempts |-> l.attempts + 1]
    ELSE [state |-> "waiting", attempts |-> l.attempts + 1]

\* Mutant: an attempt is not counted.
AfterFailureForever(l) == [l EXCEPT !.state = "waiting"]

\* Mutant: what is given up is deleted.
AfterFailureDropped(l) ==
    IF l.attempts + 1 >= MaxAttempts
    THEN NoLetter
    ELSE [state |-> "waiting", attempts |-> l.attempts + 1]

AfterFailure(l) ==
    IF l.attempts + 1 >= MaxAttempts
    THEN [state |-> "givenUp", attempts |-> l.attempts + 1]
    ELSE [state |-> "waiting", attempts |-> l.attempts + 1]

\* A letter that is gone is not updated.
Counted(e) == IF letter[e].state = "none" THEN letter
              ELSE [letter EXCEPT ![e] = AfterFailure(@)]

\* updateOne in the catch; when it fails the tick ends.
CountAttempt(e) ==
    /\ AtEntry("update", e)
    /\ \/ OnWith(tick.todo) /\ letter' = Counted(e) /\ NoFault
       \/ tick' = NoTick /\ letter' \in {letter, Counted(e)} /\ Fault
    /\ UNCHANGED <<request, rows>>

\* The process dies, with the requests and the tick.
Crash ==
    /\ Fault
    /\ request' = [e \in Entries |-> IF request[e] = "none" THEN "none" ELSE "over"]
    /\ tick' = NoTick
    /\ UNCHANGED <<rows, letter>>

Work ==
    \/ \E e \in Entries : WriteRow(e) \/ WriteLetter(e)
    \/ FindDue
    \/ \E e \in Entries : Retry(e) \/ DeleteLetter(e) \/ CountAttempt(e)

Next ==
    \/ \E e \in Entries : Record(e) \/ FallDue(e)
    \/ Work
    \/ Crash

Spec == Init /\ [][Next]_vars

\* The tick is scheduled again whenever one has ended, and time passes.
Fairness ==
    /\ \A e \in Entries :
        /\ WF_vars(WriteRow(e) \/ WriteLetter(e))
        /\ WF_vars(FallDue(e))
        /\ WF_vars(DeleteLetter(e) \/ CountAttempt(e))
    /\ WF_vars(FindDue \/ \E e \in Entries : Retry(e))

FairSpec == Spec /\ Fairness

(***************************************************************************)
(* Properties.                                                             *)
(***************************************************************************)
TypeOK ==
    /\ request \in [Entries -> Requests]
    /\ rows    \in [Entries -> Nat]
    /\ letter  \in [Entries -> Letter]
    /\ tick    \in Tick
    /\ faults  \in 0 .. MaxFaults

\* An entry stands in the log twice only after a fault: without lost answers,
\* failed deletions and crashes every entry is logged at most once, however
\* often it was tried and whatever the tick meets.
DuplicatesNeedFaults == \A e \in Entries : rows[e] <= 1 + faults

\* What has become of an entry, as the promise of the log sees it.
Fate(e) ==
    CASE request[e] = "none" -> "none"
      [] request[e] \in {"write", "deadLetter"} -> "held"
      [] request[e] = "over" /\ letter[e].state \in {"waiting", "due"} -> "kept"
      [] request[e] = "over" /\ letter[e].state = "givenUp" -> "setAside"
      [] request[e] = "over" /\ letter[e].state = "none" ->
            IF rows[e] > 0 THEN "logged" ELSE "lost"

Trail == INSTANCE AuditTrail WITH fate <- [e \in Entries |-> Fate(e)]

\* The service keeps the promise of the audit trail: an entry with a dead letter
\* is never lost, and what was given up stays.
TrailSpec == Trail!Spec

\* Every dead letter ends in the log or is given up.
LettersEnd == \A e \in Entries : Fate(e) = "kept" ~> Fate(e) \in {"logged", "setAside"}
=============================================================================
