-------------------------- MODULE AuditLog_proofs --------------------------
(***************************************************************************)
(* Proofs about AuditLog, for any entries, any number of attempts and any  *)
(* number of faults.                                                       *)
(***************************************************************************)
EXTENDS AuditLog, TLAPS

(***************************************************************************)
(* The inductive invariant.                                                *)
(***************************************************************************)

\* Nothing was written for an entry whose first write is yet to come.
FirstWrite == \A e \in Entries : request[e] \in {"none", "write"} => rows[e] = 0

\* Only what record is done with has a letter.
LetterIsLate == \A e \in Entries : letter[e].state # "none" => request[e] = "over"

\* Whoever still tries to log an entry has failed before for each row there is,
\* but for the row of the letter the tick is about to delete.
TriesAfterFaults ==
    \A e \in Entries :
        \/ request[e] = "deadLetter"
        \/ letter[e].state # "none" /\ ~AtEntry("delete", e)
        => rows[e] <= faults

\* What is not given up has attempts left.
AttemptsLeft == \A e \in Entries : letter[e].state # "givenUp" => letter[e].attempts < MaxAttempts

\* The letters of the tick are due, but for one it deleted without knowing.
TickIsDue ==
    \A e \in Entries :
        /\ e \in tick.todo => letter[e].state = "due" /\ tick.entry # e
        /\ AtEntry("delete", e) => letter[e].state = "due" /\ rows[e] > 0
        /\ AtEntry("update", e) =>
              \/ letter[e].state = "due"
              \/ letter[e].state = "none" /\ rows[e] > 0 /\ request[e] = "over"

IndInv ==
    /\ TypeOK
    /\ FirstWrite
    /\ LetterIsLate
    /\ TriesAfterFaults
    /\ AttemptsLeft
    /\ TickIsDue
    /\ DuplicatesNeedFaults

LEMMA InitEstablishes == Init => IndInv
  BY AuditAssumption, SMT
     DEF Init, IndInv, TypeOK, FirstWrite, LetterIsLate, TriesAfterFaults, AttemptsLeft,
         TickIsDue, DuplicatesNeedFaults, AtEntry, NoLetter, NoTick, Requests, Letter, Tick

(***************************************************************************)
(* Types.                                                                  *)
(***************************************************************************)
LEMMA TypeStep == ASSUME IndInv, [Next]_vars PROVE TypeOK'
<1> USE AuditAssumption DEF IndInv, TypeOK, Requests, Letter, Tick
<1>1. ASSUME NEW e \in Entries, Record(e) PROVE TypeOK'
  BY <1>1 DEF Record, Goes
<1>2. ASSUME NEW e \in Entries, FallDue(e) PROVE TypeOK'
  BY <1>2 DEF FallDue
<1>3. ASSUME NEW e \in Entries, WriteRow(e) PROVE TypeOK'
  BY <1>3 DEF WriteRow, Goes, AddRow, Fault, NoFault
<1>4. ASSUME NEW e \in Entries, WriteLetter(e) PROVE TypeOK'
  BY <1>4 DEF WriteLetter, Goes, Fault, NoFault
<1>5. CASE FindDue
  BY <1>5 DEF FindDue, OnWith, NoTick
<1>6. ASSUME NEW e \in Entries, Retry(e) PROVE TypeOK'
  BY <1>6 DEF Retry, AddRow, Fault, NoFault
<1>7. ASSUME NEW e \in Entries, DeleteLetter(e) PROVE TypeOK'
  BY <1>7 DEF DeleteLetter, AtEntry, OnWith, NoTick, WithoutLetter, NoLetter, Fault, NoFault
<1>8. ASSUME NEW e \in Entries, CountAttempt(e) PROVE TypeOK'
  <2>1. letter[e].state # "none" => AfterFailure(letter[e]) \in Letter
    BY <1>8 DEF CountAttempt, AtEntry, TickIsDue, AttemptsLeft, AfterFailure
  <2>2. Counted(e) \in [Entries -> Letter]
    BY <2>1 DEF Counted
  <2>3. letter' \in [Entries -> Letter]
    BY <1>8, <2>2 DEF CountAttempt
  <2>4. tick' \in Tick
    BY <1>8 DEF CountAttempt, OnWith, NoTick
  <2>5. faults' \in 0 .. MaxFaults
    BY <1>8 DEF CountAttempt, Fault, NoFault
  <2> QED BY <1>8, <2>3, <2>4, <2>5 DEF CountAttempt
<1>9. CASE Crash
  BY <1>9 DEF Crash, Fault, NoTick
<1>10. CASE UNCHANGED vars
  BY <1>10 DEF vars
<1> QED BY <1>1, <1>2, <1>3, <1>4, <1>5, <1>6, <1>7, <1>8, <1>9, <1>10 DEF Next, Work

(***************************************************************************)
(* Each action keeps the rest.                                             *)
(***************************************************************************)
LEMMA RecordStep ==
  ASSUME IndInv, NEW e \in Entries, Record(e) \/ WriteRow(e) \/ WriteLetter(e) \/ FallDue(e),
         TypeOK'
  PROVE  IndInv'
<1> USE AuditAssumption
    DEF IndInv, TypeOK, Requests, Letter, Tick, FirstWrite, LetterIsLate, TriesAfterFaults,
        AttemptsLeft, TickIsDue, DuplicatesNeedFaults, AtEntry
<1>1. CASE Record(e)
  BY <1>1 DEF Record, Goes
<1>2. CASE WriteRow(e)
  BY <1>2 DEF WriteRow, Goes, AddRow, Fault, NoFault
<1>3. CASE WriteLetter(e)
  <2>1. /\ request' = [request EXCEPT ![e] = "over"] /\ request[e] = "deadLetter"
        /\ letter[e].state = "none" /\ rows[e] <= faults
        /\ UNCHANGED <<rows, tick>>
    BY <1>3 DEF WriteLetter, Goes
  <2>a. letter' = letter \/ letter' = [letter EXCEPT ![e].state = "waiting"]
    BY <1>3 DEF WriteLetter
  <2>b. faults <= faults' /\ faults' \in Nat
    BY <1>3 DEF WriteLetter, Fault, NoFault
  <2>2. /\ \A d \in Entries \ {e} : letter'[d] = letter[d]
        /\ letter'[e].attempts = letter[e].attempts
        /\ letter'[e].state \in {"none", "waiting"}
        /\ faults <= faults' /\ faults' \in Nat
    BY <2>1, <2>a, <2>b
  <2>3. FirstWrite' /\ LetterIsLate'
    BY <2>1, <2>2
  <2>4. TriesAfterFaults' /\ DuplicatesNeedFaults'
    BY <2>1, <2>2
  <2>5. AttemptsLeft'
    BY <2>1, <2>2
  <2>6. TickIsDue'
    BY <2>1, <2>2
  <2> QED BY <2>3, <2>4, <2>5, <2>6
<1>4. CASE FallDue(e)
  BY <1>4 DEF FallDue
<1> QED BY <1>1, <1>2, <1>3, <1>4

LEMMA TickStep ==
  ASSUME IndInv, TypeOK',
         FindDue \/ \E e \in Entries : Retry(e) \/ DeleteLetter(e) \/ CountAttempt(e)
  PROVE  IndInv'
<1> USE AuditAssumption
    DEF IndInv, TypeOK, Requests, Letter, Tick, FirstWrite, LetterIsLate, TriesAfterFaults,
        AttemptsLeft, TickIsDue, DuplicatesNeedFaults, AtEntry
<1>1. CASE FindDue
  BY <1>1 DEF FindDue, OnWith, NoTick
<1>2. ASSUME NEW e \in Entries, Retry(e) PROVE IndInv'
  <2>1. /\ request[e] = "over" /\ letter[e].state = "due" /\ rows[e] <= faults
        /\ tick.at = "next"
    BY <1>2 DEF Retry
  <2>2. UNCHANGED <<request, letter>> /\ tick'.entry = e /\ tick'.todo = tick.todo \ {e}
    BY <1>2 DEF Retry
  <2>3. \A d \in Entries \ {e} : rows'[d] = rows[d]
    BY <1>2 DEF Retry, AddRow
  <2>4. \/ tick'.at = "delete" /\ rows'[e] = rows[e] + 1 /\ faults' = faults
        \/ tick'.at = "update" /\ rows'[e] = rows[e] /\ faults' = faults
        \/ tick'.at = "update" /\ rows'[e] = rows[e] + 1 /\ faults' = faults + 1
    BY <1>2 DEF Retry, AddRow, Fault, NoFault
  <2>5. FirstWrite' /\ LetterIsLate' /\ AttemptsLeft'
    BY <2>1, <2>2, <2>3
  <2>6. DuplicatesNeedFaults'
    BY <2>1, <2>3, <2>4
  <2>7. TriesAfterFaults'
    BY <2>1, <2>2, <2>3, <2>4
  <2>8. TickIsDue'
    BY <2>1, <2>2, <2>3, <2>4
  <2> QED BY <2>5, <2>6, <2>7, <2>8
<1>3. ASSUME NEW e \in Entries, DeleteLetter(e) PROVE IndInv'
  <2>1. /\ request[e] = "over" /\ letter[e].state = "due" /\ rows[e] > 0
        /\ tick.at = "delete" /\ tick.entry = e
    BY <1>3 DEF DeleteLetter
  <2>2. UNCHANGED <<request, rows>> /\ tick'.todo \subseteq tick.todo
    BY <1>3 DEF DeleteLetter, OnWith, NoTick
  <2>3. \A d \in Entries \ {e} : letter'[d] = letter[d] /\ ~AtEntry("delete", d)'
    BY <1>3 DEF DeleteLetter, WithoutLetter, OnWith, NoTick
  <2>4. /\ ~AtEntry("delete", e)'
        /\ tick'.entry \in {e, NoEntry}
        /\ letter'[e] \in {letter[e], NoLetter}
        /\ faults' \in {faults, faults + 1}
        /\ letter'[e] = NoLetter \/ faults' = faults + 1
    BY <1>3 DEF DeleteLetter, WithoutLetter, OnWith, NoTick, Fault, NoFault
  <2>5. NoLetter.state = "none" /\ NoLetter.attempts = 0
    BY DEF NoLetter
  <2>6. FirstWrite' /\ LetterIsLate' /\ AttemptsLeft' /\ DuplicatesNeedFaults'
    <3>1. FirstWrite'
      BY <2>2
    <3>2. LetterIsLate' /\ AttemptsLeft'
      BY <2>1, <2>2, <2>3, <2>4, <2>5
    <3>3. DuplicatesNeedFaults'
      BY <2>2, <2>4
    <3> QED BY <3>1, <3>2, <3>3
  <2>7. TriesAfterFaults'
    BY <2>1, <2>2, <2>3, <2>4, <2>5
  <2>8. ASSUME NEW d \in Entries
        PROVE  /\ d \in tick'.todo => letter'[d].state = "due" /\ tick'.entry # d
               /\ AtEntry("update", d)' =>
                    \/ letter'[d].state = "due"
                    \/ letter'[d].state = "none" /\ rows'[d] > 0 /\ request'[d] = "over"
    <3>1. CASE d = e
      BY <3>1, <2>1, <2>2, <2>4, <2>5
    <3>2. CASE d # e
      BY <3>2, <2>1, <2>2, <2>3, <2>4
    <3> QED BY <3>1, <3>2
  <2>9. TickIsDue'
    BY <2>3, <2>4, <2>8
  <2> QED BY <2>6, <2>7, <2>9
<1>4. ASSUME NEW e \in Entries, CountAttempt(e) PROVE IndInv'
  <2>1. /\ tick.at = "update" /\ tick.entry = e
        /\ \/ letter[e].state = "due"
           \/ letter[e].state = "none" /\ rows[e] > 0
        /\ request[e] = "over"
    BY <1>4 DEF CountAttempt
  <2>2. /\ UNCHANGED <<request, rows>>
        /\ tick'.todo \subseteq tick.todo /\ tick'.at \in {"idle", "next"}
        /\ tick'.entry = NoEntry
    BY <1>4 DEF CountAttempt, OnWith, NoTick
  <2>3. letter' = letter \/ letter' = Counted(e)
    BY <1>4 DEF CountAttempt
  <2>4. /\ \A d \in Entries \ {e} : letter'[d] = letter[d]
        /\ letter[e].state = "none" => letter'[e] = letter[e]
        /\ letter'[e].state # "givenUp" => letter'[e].attempts < MaxAttempts
    BY <2>1, <2>3 DEF Counted, AfterFailure
  <2>5. faults <= faults'
    BY <1>4 DEF CountAttempt, Fault, NoFault
  <2>6. FirstWrite' /\ LetterIsLate' /\ AttemptsLeft' /\ DuplicatesNeedFaults'
    BY <2>1, <2>2, <2>4, <2>5
  <2>7. TriesAfterFaults'
    BY <2>1, <2>2, <2>4, <2>5
  <2>8. TickIsDue'
    BY <2>1, <2>2, <2>4
  <2> QED BY <2>6, <2>7, <2>8
<1> QED BY <1>1, <1>2, <1>3, <1>4

LEMMA CrashStep == ASSUME IndInv, Crash, TypeOK' PROVE IndInv'
  BY AuditAssumption, SMT
     DEF Crash, Fault, NoTick, IndInv, TypeOK, Requests, Letter, Tick, FirstWrite, LetterIsLate,
         TriesAfterFaults, AttemptsLeft, TickIsDue, DuplicatesNeedFaults, AtEntry

LEMMA IndInvStep == ASSUME IndInv, [Next]_vars PROVE IndInv'
<1>1. TypeOK'
  BY TypeStep
<1>2. CASE Next
  BY <1>1, <1>2, RecordStep, TickStep, CrashStep DEF Next, Work
<1>3. CASE UNCHANGED vars
  BY <1>3 DEF vars, IndInv, TypeOK, FirstWrite, LetterIsLate, TriesAfterFaults, AttemptsLeft,
              TickIsDue, DuplicatesNeedFaults, AtEntry
<1> QED BY <1>2, <1>3

\* The invariant holds in every state.
THEOREM Invariance == Spec => []IndInv
<1>1. Init => IndInv
  BY InitEstablishes
<1>2. IndInv /\ [Next]_vars => IndInv'
  BY IndInvStep
<1> QED BY <1>1, <1>2, PTL DEF Spec

\* Type correctness: in particular no letter is tried more often than allowed.
THEOREM TypeCorrect == Spec => []TypeOK
  BY Invariance, PTL DEF IndInv

\* An entry stands in the log twice only after a fault.
THEOREM DuplicatesAreFaults == Spec => []DuplicatesNeedFaults
  BY Invariance, PTL DEF IndInv

(***************************************************************************)
(* The refinement.                                                         *)
(***************************************************************************)
fateMap == [e \in Entries |-> Fate(e)]

FateIs(e) ==
    /\ Fate(e) = "none" <=> request[e] = "none"
    /\ Fate(e) = "held" <=> request[e] \in {"write", "deadLetter"}
    /\ Fate(e) = "kept" <=> letter[e].state \in {"waiting", "due"}
    /\ Fate(e) = "setAside" <=> letter[e].state = "givenUp"
    /\ Fate(e) = "logged" <=>
          request[e] = "over" /\ letter[e].state = "none" /\ rows[e] > 0
    /\ Fate(e) = "lost" <=>
          request[e] = "over" /\ letter[e].state = "none" /\ rows[e] = 0

\* The fate of an entry, in a state of the invariant and in the next one.
LEMMA FateBefore == ASSUME IndInv, NEW e \in Entries PROVE FateIs(e)
<1>1. /\ request[e] \in Requests
      /\ letter[e].state \in {"none", "waiting", "due", "givenUp"}
      /\ rows[e] \in Nat
      /\ letter[e].state # "none" => request[e] = "over"
  BY DEF IndInv, TypeOK, Letter, LetterIsLate
<1> QED BY <1>1 DEF Fate, Requests, FateIs

LEMMA FateAfter == ASSUME IndInv', NEW e \in Entries PROVE FateIs(e)'
<1>1. /\ request'[e] \in Requests
      /\ letter'[e].state \in {"none", "waiting", "due", "givenUp"}
      /\ rows'[e] \in Nat
      /\ letter'[e].state # "none" => request'[e] = "over"
  BY DEF IndInv, TypeOK, Letter, LetterIsLate
<1> QED BY <1>1 DEF Fate, Requests, FateIs

\* What does not touch an entry does not change its fate.
LEMMA FateStays ==
  ASSUME NEW e \in Entries,
         request'[e] = request[e], rows'[e] = rows[e], letter'[e] = letter[e]
  PROVE  Fate(e)' = Fate(e)
  BY DEF Fate

\* A step that gives an entry a fate and leaves all others.
LEMMA BecomesStep ==
  ASSUME NEW e \in Entries, NEW f, Fate(e)' = f,
         \A d \in Entries \ {e} : Fate(d)' = Fate(d)
  PROVE  fateMap' = [fateMap EXCEPT ![e] = f]
  BY DEF fateMap

LEMMA RecordRefines ==
  ASSUME IndInv, IndInv', NEW e \in Entries,
         Record(e) \/ WriteRow(e) \/ WriteLetter(e) \/ FallDue(e)
  PROVE  [Trail!Next]_<<fateMap, rows>>
<1>1. \A d \in Entries \ {e} :
         request'[d] = request[d] /\ rows'[d] = rows[d] /\ letter'[d] = letter[d]
  BY DEF IndInv, TypeOK, Record, WriteRow, WriteLetter, FallDue, Goes, AddRow
<1>2. fateMap' = [fateMap EXCEPT ![e] = Fate(e)'] /\ fateMap[e] = Fate(e)
  BY <1>1, FateStays, BecomesStep DEF fateMap
<1>3. /\ FateIs(e) /\ FateIs(e)' /\ rows[e] \in Nat
      /\ Fate(e)' = Fate(e) => UNCHANGED fateMap
  BY <1>2, FateBefore, FateAfter DEF IndInv, TypeOK, fateMap
<1>4. CASE Record(e)
  <2>1. Fate(e) = "none" /\ Fate(e)' = "held" /\ UNCHANGED rows
    BY <1>3, <1>4 DEF Record, Goes, FateIs, IndInv, TypeOK
  <2> QED BY <2>1, <1>2 DEF Trail!Next, Trail!Hold, Trail!Becomes, fateMap
<1>5. CASE WriteRow(e)
  <2>1. Fate(e) = "held"
    BY <1>3, <1>5 DEF WriteRow, Goes, FateIs
  <2>2. CASE UNCHANGED rows
    <3>1. Fate(e)' = "held"
      BY <1>3, <1>5, <2>2 DEF WriteRow, Goes, AddRow, FateIs, IndInv, TypeOK
    <3> QED BY <1>3, <2>1, <2>2, <3>1
  <2>3. CASE rows' = [rows EXCEPT ![e] = @ + 1]
    <3>1. Fate(e)' \in {"held", "logged"}
      <4>1. request'[e] \in {"over", "deadLetter"} /\ letter'[e].state = "none" /\ rows'[e] > 0
        BY <1>5, <2>3 DEF WriteRow, Goes, IndInv, TypeOK, LetterIsLate
      <4> QED BY <1>3, <4>1 DEF FateIs
    <3>2. UNCHANGED fateMap \/ Trail!Becomes(e, "logged")
      BY <1>2, <1>3, <2>1, <3>1 DEF Trail!Becomes, fateMap
    <3> QED BY <1>2, <2>1, <2>3, <3>2 DEF Trail!Next, Trail!Write, fateMap
  <2> QED BY <1>5, <2>2, <2>3 DEF WriteRow, AddRow
<1>6. CASE WriteLetter(e)
  <2>1. /\ Fate(e) = "held" /\ UNCHANGED rows /\ request'[e] = "over"
        /\ letter[e].state = "none"
    BY <1>3, <1>6 DEF WriteLetter, Goes, FateIs, IndInv, TypeOK, LetterIsLate
  <2>2. CASE letter' = [letter EXCEPT ![e].state = "waiting"]
    <3>1. Fate(e)' = "kept"
      BY <1>3, <2>2 DEF FateIs, IndInv, TypeOK, Letter
    <3> QED BY <1>2, <2>1, <3>1 DEF Trail!Next, Trail!Keep, Trail!Becomes, fateMap
  <2>3. CASE UNCHANGED letter /\ rows[e] > 0
    <3>1. Fate(e)' = "logged"
      BY <1>3, <2>1, <2>3 DEF FateIs
    <3> QED BY <1>2, <2>1, <2>3, <3>1 DEF Trail!Next, Trail!Settle, Trail!Becomes, fateMap
  <2>4. CASE UNCHANGED letter /\ rows[e] = 0
    <3>1. Fate(e)' = "lost"
      BY <1>3, <2>1, <2>4 DEF FateIs
    <3> QED BY <1>2, <2>1, <2>4, <3>1 DEF Trail!Next, Trail!Lose, Trail!Becomes, fateMap
  <2> QED BY <1>3, <1>6, <2>2, <2>3, <2>4 DEF WriteLetter
<1>7. CASE FallDue(e)
  <2>1. Fate(e) = "kept" /\ Fate(e)' = "kept" /\ UNCHANGED rows
    BY <1>3, <1>7 DEF FallDue, FateIs, IndInv, TypeOK, Letter
  <2> QED BY <1>3, <2>1
<1> QED BY <1>4, <1>5, <1>6, <1>7

LEMMA TickRefines ==
  ASSUME IndInv, IndInv', NEW e \in Entries, Retry(e) \/ DeleteLetter(e) \/ CountAttempt(e)
  PROVE  [Trail!Next]_<<fateMap, rows>>
<1>1. \A d \in Entries \ {e} :
         request'[d] = request[d] /\ rows'[d] = rows[d] /\ letter'[d] = letter[d]
  BY DEF IndInv, TypeOK, Retry, DeleteLetter, CountAttempt, AddRow, WithoutLetter, Counted
<1>2. fateMap' = [fateMap EXCEPT ![e] = Fate(e)'] /\ fateMap[e] = Fate(e)
  BY <1>1, FateStays, BecomesStep DEF fateMap
<1>3. /\ FateIs(e) /\ FateIs(e)' /\ rows[e] \in Nat
      /\ Fate(e)' = Fate(e) => UNCHANGED fateMap
  BY <1>2, FateBefore, FateAfter DEF IndInv, TypeOK, fateMap
<1>4. CASE Retry(e)
  <2>1. UNCHANGED letter /\ letter[e].state = "due"
    BY <1>4 DEF Retry, IndInv, TickIsDue
  <2>2. Fate(e) = "kept" /\ Fate(e)' = "kept"
    BY <1>3, <2>1 DEF FateIs
  <2>3. UNCHANGED rows \/ rows' = [rows EXCEPT ![e] = @ + 1]
    BY <1>4 DEF Retry, AddRow
  <2> QED BY <1>3, <2>2, <2>3 DEF Trail!Next, Trail!Write, fateMap
<1>5. CASE DeleteLetter(e)
  <2>1. /\ letter[e].state = "due" /\ rows[e] > 0 /\ request[e] = "over"
        /\ UNCHANGED <<request, rows>>
    BY <1>5 DEF DeleteLetter, IndInv, TickIsDue, LetterIsLate
  <2>2. Fate(e) = "kept"
    BY <1>3, <2>1 DEF FateIs
  <2>3. CASE UNCHANGED letter
    BY <1>1, <1>3, <2>1, <2>3, FateStays
  <2>4. CASE letter' = WithoutLetter(e)
    <3>1. letter'[e].state = "none"
      BY <2>4 DEF WithoutLetter, NoLetter, IndInv, TypeOK
    <3>2. Fate(e)' = "logged"
      BY <1>3, <2>1, <3>1 DEF FateIs
    <3> QED BY <1>2, <2>1, <2>2, <3>2 DEF Trail!Next, Trail!Settle, Trail!Becomes, fateMap
  <2> QED BY <1>5, <2>3, <2>4 DEF DeleteLetter
<1>6. CASE CountAttempt(e)
  <2>1. UNCHANGED <<request, rows>> /\ (letter' = letter \/ letter' = Counted(e))
    BY <1>6 DEF CountAttempt
  <2>2. CASE UNCHANGED letter
    BY <1>1, <1>3, <2>1, <2>2, FateStays
  <2>3. CASE letter[e].state # "none" /\ letter' = Counted(e)
    <3>1. letter[e].state = "due"
      BY <1>6, <2>3 DEF CountAttempt, IndInv, TickIsDue
    <3>2. letter'[e].state \in {"waiting", "givenUp"}
      BY <2>3 DEF Counted, AfterFailure, IndInv, TypeOK
    <3>3. Fate(e) = "kept" /\ Fate(e)' \in {"kept", "setAside"}
      BY <1>3, <3>1, <3>2 DEF FateIs
    <3> QED BY <1>2, <1>3, <2>1, <3>3 DEF Trail!Next, Trail!SetAside, Trail!Becomes, fateMap
  <2> QED BY <2>1, <2>2, <2>3 DEF Counted
<1> QED BY <1>4, <1>5, <1>6

LEMMA CrashRefines == ASSUME IndInv, IndInv', Crash PROVE [Trail!Next]_<<fateMap, rows>>
<1>1. ASSUME NEW e \in Entries
      PROVE  Fate(e)' = IF Fate(e) # "held" THEN Fate(e)
                        ELSE IF rows[e] > 0 THEN "logged" ELSE "lost"
  <2>1. /\ FateIs(e) /\ FateIs(e)' /\ rows[e] \in Nat
        /\ request[e] \in {"none", "write", "deadLetter", "over"}
        /\ letter[e].state # "none" => request[e] = "over"
    BY FateBefore, FateAfter DEF IndInv, TypeOK, LetterIsLate, Requests
  <2>2. /\ UNCHANGED <<rows, letter>>
        /\ request'[e] = IF request[e] = "none" THEN "none" ELSE "over"
    BY DEF Crash
  <2>3. CASE Fate(e) # "held"
    <3>1. request'[e] = request[e]
      BY <2>1, <2>2, <2>3 DEF FateIs
    <3> QED BY <2>2, <2>3, <3>1, FateStays
  <2>4. CASE Fate(e) = "held"
    BY <2>1, <2>2, <2>4 DEF FateIs
  <2> QED BY <2>3, <2>4
<1>2. UNCHANGED rows
  BY DEF Crash
<1> QED BY <1>1, <1>2 DEF Trail!Next, Trail!Die, fateMap

LEMMA StepRefines ==
  ASSUME IndInv, IndInv', [Next]_vars PROVE [Trail!Next]_<<fateMap, rows>>
<1>1. CASE FindDue \/ UNCHANGED vars
  <2>1. UNCHANGED <<request, rows, letter>>
    BY <1>1 DEF FindDue, vars
  <2> QED BY <2>1 DEF fateMap, Fate
<1> QED BY <1>1, RecordRefines, TickRefines, CrashRefines DEF Next, Work

\* The service keeps the promise of the audit trail.
THEOREM Refinement == Spec => TrailSpec
<1>1. Init => Trail!Init
  BY DEF Init, Trail!Init, Fate
<1>2. IndInv /\ IndInv' /\ [Next]_vars => [Trail!Next]_<<fateMap, rows>>
  BY StepRefines
<1> QED BY <1>1, <1>2, Invariance, PTL DEF Spec, TrailSpec, Trail!Spec, fateMap
=============================================================================
