------------------------- MODULE TallyExport_proofs -------------------------
(***************************************************************************)
(* Proofs about TallyExport, for any number of invoices, requests and      *)
(* batches: the inductive invariant, the safety properties it implies, and *)
(* the refinement of VoucherRegister.                                      *)
(***************************************************************************)
EXTENDS TallyExport, TLAPS, SequenceTheorems

\* The initial state, before any request, satisfies every part of IndInv.
LEMMA InitInv == Init => IndInv
  <1> SUFFICES ASSUME Init PROVE IndInv
    OBVIOUS
  <1>1. TypeOK
    BY ConstantsAssumption DEF Init, TypeOK, Statuses, References, Item, NoItem, Kinds,
       Stages, Outcomes, NoOutcome, NoSnapshot, Null, MaxRetries
  <1>2. QueueInv /\ StageInv
    BY DEF Init, QueueInv, StageInv, Working
  <1>3. InFlightIsNext /\ DbNeverAhead /\ TallyAtMostOneAhead
    BY DEF Init, InFlightIsNext, DbNeverAhead, TallyAtMostOneAhead
  <1>4. SnapshotInv /\ AnswerInv /\ SuccessItemIsInTally
    BY DEF Init, SnapshotInv, AnswerInv, SuccessItemIsInTally, NoSnapshot, NoOutcome,
       NoItem
  <1> QED
    BY <1>1, <1>2, <1>3, <1>4 DEF IndInv

----------------------------------------------------------------------------
\* A handler in the retry chain makes the chain non-empty, so its tail exists.
LEMMA QueueAfterType ==
  ASSUME TypeOK, QueueInv, NEW r \in Requests
  PROVE  QueueAfter(r) \in Seq(Requests)
  <1>1. kind[r] = "retry" => retryQueue # <<>>
    BY DEF QueueInv, TypeOK
  <1> QED
    BY <1>1, HeadTailProperties DEF QueueAfter, TypeOK

\* Every step of the specification preserves the types.
LEMMA TypeStep ==
  ASSUME TypeOK, QueueInv, StageInv, [Next]_vars
  PROVE  TypeOK'
  <1> USE ConstantsAssumption
  <1>1. ASSUME NEW r \in Requests, NEW what \in Kinds, NEW stage \in Stages,
               NEW work \in SUBSET Invoices, NEW b \in Batches \union {NoBatch},
               Begin(r, what, stage, work, b),
               \/ snap' = [snap EXCEPT ![r] = exportVersion]
               \/ snap' = snap,
               \/ retryQueue' = Append(retryQueue, r)
               \/ retryQueue' = retryQueue
        PROVE  TypeOK'
    <2>1. retryQueue' \in Seq(Requests)
      <3>1. Append(retryQueue, r) \in Seq(Requests)
        BY AppendProperties DEF TypeOK
      <3> QED
        BY <1>1, <3>1 DEF TypeOK
    <2>2. snap' \in [Requests -> [Invoices -> Nat]]
      BY <1>1 DEF TypeOK
    <2>3. /\ kind'   \in [Requests -> Kinds]
          /\ pc'     \in [Requests -> Stages]
          /\ todo'   \in [Requests -> SUBSET Invoices]
          /\ target' \in [Requests -> Batches \union {NoBatch}]
          /\ runs'   \in Nat
      BY <1>1 DEF TypeOK, Begin
    <2> QED
      BY <1>1, <2>1, <2>2, <2>3 DEF TypeOK, Begin, docVars, tallyVars
  <1>2. ASSUME NEW r \in Requests, Finish(r), UNCHANGED <<docVars, batch, tallyVars>>
        PROVE  TypeOK'
    <2>1. retryQueue' \in Seq(Requests)
      BY <1>2, QueueAfterType DEF Finish
    <2> QED
      BY <1>2, <2>1 DEF TypeOK, Finish, docVars, tallyVars, NoSnapshot, NoOutcome,
         Kinds, Stages, Outcomes, MaxRetries
  <1>3. ASSUME NEW r \in Requests, Arrive(r) PROVE TypeOK'
    <2>1. CASE StartExport(r)
      BY <1>1, <2>1 DEF StartExport, Approved, Kinds, Stages
    <2>2. CASE StartFile(r)
      BY <1>1, <2>2 DEF StartFile, Approved, Kinds, Stages
    <2>3. CASE RequestRetry(r)
      BY <1>1, <2>3 DEF RequestRetry, Kinds, Stages
    <2> QED
      BY <1>3, <2>1, <2>2, <2>3 DEF Arrive
  <1>4. ASSUME NEW r \in Requests,
               \/ NothingToRetry(r) \/ RecordFails(r) \/ NoFile(r) \/ FinishMarking(r)
        PROVE  TypeOK'
    BY <1>2, <1>4 DEF NothingToRetry, RecordFails, NoFile, FinishMarking
  <1>5. ASSUME NEW r \in Requests, BeginRetry(r) PROVE TypeOK'
    BY <1>5 DEF TypeOK, BeginRetry, Failures, docVars, tallyVars, Stages
  <1>6. ASSUME NEW r \in Requests, NEW i \in Invoices,
               Refuse(r, i) \/ Stage(r, i) \/ MarkInvoice(r, i) \/ MarkFails(r, i)
        PROVE  TypeOK'
    <2>1. CASE Refuse(r, i)
      BY <2>1 DEF TypeOK, Refuse, MovesTo, docVars, tallyVars, reqVars, Stages, Outcomes
    <2>2. CASE Stage(r, i)
      <3>1. /\ cur'  \in [Requests -> Invoices \union {NoInvoice}]
            /\ todo' \in [Requests -> SUBSET Invoices]
        BY <2>2 DEF TypeOK, Stage
      <3>3. inFlight' \in [Invoices -> Nat]
        <4>1. snap[r][i] + 1 \in Nat
          BY DEF TypeOK
        <4> QED
          BY <2>2, <4>1 DEF TypeOK, Stage
      <3>2. pc' \in [Requests -> Stages]
        BY <2>2 DEF TypeOK, Stage, MovesTo, Stages
      <3> QED
        BY <2>2, <3>1, <3>2, <3>3 DEF TypeOK, Stage, MovesTo, tallyVars, reqVars
    <2>3. CASE MarkInvoice(r, i)
      BY <2>3 DEF TypeOK, MarkInvoice, MovesTo, tallyVars, reqVars, Stages, Statuses,
         References
    <2>4. CASE MarkFails(r, i)
      BY <2>4 DEF TypeOK, MarkFails, MovesTo, docVars, tallyVars, reqVars, Stages
    <2> QED
      BY <1>6, <2>1, <2>2, <2>3, <2>4
  <1>7. ASSUME NEW r \in Requests, NEW from \in Working, NEW result \in Outcomes,
               Settles(r, from, result), UNCHANGED <<status, reference, tallyVars>>,
               exportVersion' \in [Invoices -> Nat], inFlight' \in [Invoices -> Nat]
        PROVE  TypeOK'
    <2>1. cur[r] \in Invoices
      BY <1>7 DEF StageInv, Settles, MovesTo
    <2>2. outcome' \in [Requests -> [Invoices -> Outcomes]]
      BY <1>7, <2>1 DEF TypeOK, Settles
    <2>3. /\ pc'      \in [Requests -> Stages]
          /\ cur'     \in [Requests -> Invoices \union {NoInvoice}]
          /\ attempt' \in [Requests -> 0 .. MaxRetries]
      BY <1>7 DEF TypeOK, Settles, MovesTo, Stages, MaxRetries
    <2> QED
      BY <1>7, <2>2, <2>3 DEF TypeOK, Settles, MovesTo, tallyVars, reqVars
  <1>8. ASSUME NEW r \in Requests,
               ReadConflict(r) \/ MapFails(r) \/ Promote(r) \/ PromoteFails(r) \/ Clear(r)
        PROVE  TypeOK'
    <2>1. CASE ReadConflict(r) \/ MapFails(r) \/ PromoteFails(r)
      BY <1>7, <2>1 DEF ReadConflict, MapFails, PromoteFails, TypeOK, docVars, Working,
         Outcomes
    <2>2. CASE Promote(r)
      <3>1. Staged(r) \in Nat
        BY <2>2 DEF Staged, Promote, Settles, MovesTo, StageInv, Working, TypeOK
      <3> QED
        BY <1>7, <2>2, <3>1 DEF Promote, TypeOK, Working, Outcomes, Null
    <2>3. CASE Clear(r)
      <3>1. /\ inFlight' \in [Invoices -> Nat]
            /\ exportVersion' \in [Invoices -> Nat]
        <4>1. ClearStage(cur[r], Staged(r)) /\ exportVersion' = exportVersion
          BY <2>3 DEF Clear
        <4>2. inFlight' \in [Invoices -> Nat]
          <5>1. inFlight \in [Invoices -> Nat] /\ Null \in Nat
            BY DEF TypeOK, Null
          <5>2. \/ inFlight' = inFlight
                \/ inFlight' = [inFlight EXCEPT ![cur[r]] = Null]
            BY <4>1, <5>1 DEF ClearStage
          <5> QED
            BY <5>1, <5>2
        <4> QED
          BY <4>1, <4>2 DEF TypeOK
      <3> QED
        BY <1>7, <2>3, <3>1 DEF Clear, Working, Outcomes
    <2> QED
      BY <1>8, <2>1, <2>2, <2>3
  <1>9. ASSUME NEW r \in Requests, Post(r) \/ TallyRejects(r) \/ FinishLoop(r)
        PROVE  TypeOK'
    BY <1>9 DEF TypeOK, Post, TallyRejects, FinishLoop, MovesTo, docVars, tallyVars,
       loopVars, reqVars, Stages
  <1>10. ASSUME NEW r \in Requests, TallyImports(r) \/ PostAgain(r) \/ PostFails(r)
         PROVE  TypeOK'
    <2>1. Voucher(r) \in Invoices \X Nat
      BY <1>10 DEF TallyImports, PostAgain, PostFails, MovesTo, StageInv, Working, TypeOK,
         Voucher, Staged
    <2>2. CASE TallyImports(r)
      BY <2>1, <2>2 DEF TypeOK, TallyImports, MovesTo, docVars, loopVars, reqVars, Stages
    <2>3. CASE PostAgain(r)
      <3>1. attempt' \in [Requests -> 0 .. MaxRetries]
        <4>1. attempt[r] + 1 \in 0 .. MaxRetries
          <5>1. attempt[r] < MaxRetries
            BY <2>3 DEF PostAgain, MayPostAgain
          <5>2. attempt[r] \in 0 .. MaxRetries
            BY DEF TypeOK
          <5> QED
            BY <5>1, <5>2 DEF MaxRetries
        <4> QED
          BY <2>3, <4>1 DEF TypeOK, PostAgain
      <3>2. /\ pc' \in [Requests -> Stages]
            /\ late' \subseteq Invoices \X Nat
        BY <2>1, <2>3 DEF TypeOK, PostAgain, MovesTo, Stages
      <3> QED
        BY <2>3, <3>1, <3>2 DEF TypeOK, PostAgain, MovesTo, docVars, reqVars
    <2>4. CASE PostFails(r)
      BY <2>1, <2>4 DEF TypeOK, PostFails, MovesTo, docVars, loopVars, reqVars, Stages
    <2> QED
      BY <1>10, <2>2, <2>3, <2>4
  <1>11. ASSUME NEW r \in Requests, Record(r) \/ StoreFile(r) PROVE TypeOK'
    <2>1. CASE Record(r)
      <3>1. ASSUME NEW i \in Invoices
            PROVE  /\ NewItem(r, i) \in Item
                   /\ \A prior \in Item : MergedItem(r, i, prior) \in Item
        BY DEF NewItem, MergedItem, NoItem, Item, ResultStatus, ResultVersion, TypeOK
      <3>2. batch' \in [Batches -> [Invoices -> Item]]
        BY <2>1, <3>1 DEF TypeOK, Record
      <3> QED
        BY <2>1, <3>2 DEF TypeOK, Record, Successes, docVars, tallyVars, reqVars, Stages
    <2>2. CASE StoreFile(r)
      BY <2>2 DEF TypeOK, StoreFile, docVars, tallyVars, reqVars, Stages
    <2> QED
      BY <1>11, <2>1, <2>2
  <1>12. ASSUME NEW m \in late, LateImport(m) PROVE TypeOK'
    BY <1>12 DEF TypeOK, LateImport, docVars, loopVars, reqVars
  <1>13. ASSUME NEW i \in Invoices, DeleteInvoice(i) PROVE TypeOK'
    BY <1>13 DEF TypeOK, DeleteInvoice, tallyVars, loopVars, reqVars, Statuses
  <1>14. CASE Crash
    <2>1. \A r \in Requests : pc[r] = "posting" => Voucher(r) \in Invoices \X Nat
      BY DEF StageInv, Working, TypeOK, Voucher, Staged
    <2> QED
      BY <1>14, <2>1 DEF TypeOK, Crash, docVars, NoSnapshot, NoOutcome, Kinds, Stages,
         Outcomes, MaxRetries
  <1>15. CASE UNCHANGED vars
    BY <1>15 DEF TypeOK, vars, docVars, tallyVars, loopVars, reqVars
  <1> QED
    BY <1>3, <1>4, <1>5, <1>6, <1>8, <1>9, <1>10, <1>11, <1>12, <1>13, <1>14, <1>15
    DEF Next, Advance

----------------------------------------------------------------------------
\* Which stage a handler is in, and what that says of it, survives each step.
LEMMA StageStep ==
  ASSUME TypeOK, StageInv, [Next]_vars
  PROVE  StageInv'
  <1>1. ASSUME NEW r \in Requests, Arrive(r) PROVE StageInv'
    <2>1. \E b \in Batches \union {NoBatch}, work \in SUBSET Invoices :
             \/ Begin(r, "export", "next", work, b)
             \/ Begin(r, "file", "file", work, b)
             \/ Begin(r, "retry", "queued", work, b)
      BY <1>1 DEF Arrive, StartExport, StartFile, RequestRetry, Approved
    <2> QED
      BY <2>1 DEF Begin, StageInv, TypeOK, Working
  <1>2. ASSUME NEW r \in Requests, Finish(r) PROVE StageInv'
    BY <1>2 DEF Finish, StageInv, TypeOK, Working, NoOutcome
  <1>3. ASSUME NEW r \in Requests, BeginRetry(r) PROVE StageInv'
    BY <1>3 DEF BeginRetry, MayBegin, StageInv, TypeOK, Working
  <1>4. ASSUME NEW r \in Requests, NEW i \in Invoices,
               Refuse(r, i) \/ Stage(r, i) \/ MarkInvoice(r, i) \/ MarkFails(r, i)
        PROVE  StageInv'
    BY <1>4 DEF Refuse, Stage, MarkInvoice, MarkFails, MovesTo, reqVars, StageInv, TypeOK,
       Working
  <1>5. ASSUME NEW r \in Requests, NEW from \in Working, NEW result,
               Settles(r, from, result)
        PROVE  StageInv'
    BY <1>5 DEF Settles, MovesTo, reqVars, StageInv, TypeOK, Working
  <1>6. ASSUME NEW r \in Requests,
               ReadConflict(r) \/ MapFails(r) \/ Promote(r) \/ PromoteFails(r) \/ Clear(r)
        PROVE  StageInv'
    BY <1>5, <1>6 DEF ReadConflict, MapFails, Promote, PromoteFails, Clear, Working
  <1>7. ASSUME NEW r \in Requests,
               \/ Post(r) \/ TallyImports(r) \/ TallyRejects(r) \/ PostAgain(r)
               \/ PostFails(r) \/ FinishLoop(r)
        PROVE  StageInv'
    BY <1>7 DEF Post, TallyImports, TallyRejects, PostAgain, PostFails, FinishLoop,
       MovesTo, loopVars, reqVars, StageInv, TypeOK, Working
  <1>8. ASSUME NEW r \in Requests, Record(r) \/ StoreFile(r) PROVE StageInv'
    BY <1>8 DEF Record, StoreFile, reqVars, StageInv, TypeOK, Working
  <1>9. ASSUME UNCHANGED <<pc, kind, cur, outcome>> PROVE StageInv'
    BY <1>9 DEF StageInv
  <1>10. CASE Crash
    BY <1>10 DEF Crash, StageInv, Working, NoOutcome
  <1> QED
    BY <1>1, <1>2, <1>3, <1>4, <1>6, <1>7, <1>8, <1>9, <1>10
    DEF Next, Advance, NothingToRetry, RecordFails, NoFile, FinishMarking, LateImport,
        DeleteInvoice, vars, loopVars, reqVars

\* The tenant's retries stay in line, and only the first of them runs.
LEMMA QueueStep ==
  ASSUME TypeOK, QueueInv, StageInv, [Next]_vars
  PROVE  QueueInv'
  <1>1. ASSUME UNCHANGED <<retryQueue, kind>>,
               \A q \in Requests : pc[q] = "queued" => pc'[q] = "queued"
        PROVE  QueueInv'
    BY <1>1 DEF QueueInv
  <1>2. ASSUME NEW r \in Requests, pc[r] = "idle", retryQueue' = retryQueue,
               NEW what \in Kinds \ {"retry"}, kind' = [kind EXCEPT ![r] = what],
               NEW stage \in Stages, pc' = [pc EXCEPT ![r] = stage]
        PROVE  QueueInv'
    BY <1>2 DEF QueueInv, StageInv, TypeOK
  <1>3. ASSUME NEW r \in Requests, RequestRetry(r) PROVE QueueInv'
    <2>1. /\ pc[r] = "idle"
          /\ retryQueue' = Append(retryQueue, r)
          /\ kind' = [kind EXCEPT ![r] = "retry"]
          /\ pc'   = [pc EXCEPT ![r] = "queued"]
      BY <1>3 DEF RequestRetry, Begin
    <2>2. kind[r] = "none"
      BY <2>1 DEF StageInv
    <2>3. \A n \in 1 .. Len(retryQueue) : retryQueue[n] # r
      BY <2>2 DEF QueueInv
    <2>4. /\ Len(retryQueue') = Len(retryQueue) + 1
          /\ \A n \in 1 .. Len(retryQueue) : retryQueue'[n] = retryQueue[n]
          /\ retryQueue'[Len(retryQueue) + 1] = r
          /\ Len(retryQueue) \in Nat
      BY <2>1, AppendProperties DEF TypeOK
    <2> QED
      BY <2>1, <2>2, <2>3, <2>4 DEF QueueInv, TypeOK
  <1>4. ASSUME NEW r \in Requests, Finish(r), kind[r] = "retry" => retryQueue[1] = r
        PROVE  QueueInv'
    <2>1. CASE kind[r] # "retry"
      BY <1>4, <2>1 DEF Finish, QueueAfter, QueueInv, TypeOK
    <2>2. CASE kind[r] = "retry"
      <3>1. retryQueue # <<>> /\ retryQueue[1] = r /\ retryQueue' = Tail(retryQueue)
        BY <1>4, <2>2 DEF Finish, QueueAfter, QueueInv, TypeOK
      <3>2. /\ Len(retryQueue') = Len(retryQueue) - 1
            /\ \A n \in 1 .. Len(retryQueue) - 1 : retryQueue'[n] = retryQueue[n + 1]
            /\ Len(retryQueue) \in Nat \ {0}
        BY <3>1, HeadTailProperties DEF TypeOK
      <3>3. /\ kind' = [kind EXCEPT ![r] = "none"]
            /\ pc'   = [pc EXCEPT ![r] = "idle"]
        BY <1>4 DEF Finish
      <3>4. \A q \in Requests \ {r} : kind[q] = "retry" => pc[q] = "queued"
        BY <3>1 DEF QueueInv
      <3>5. \A m, n \in 1 .. Len(retryQueue') : retryQueue'[m] = retryQueue'[n] => m = n
        BY <3>2 DEF QueueInv
      <3>6. \A n \in 1 .. Len(retryQueue') : retryQueue'[n] # r
        BY <3>1, <3>2 DEF QueueInv
      <3>7. \A q \in Requests \ {r} :
              (\E n \in 1 .. Len(retryQueue') : retryQueue'[n] = q)
                <=> (\E n \in 1 .. Len(retryQueue) : retryQueue[n] = q)
        <4> SUFFICES ASSUME NEW q \in Requests \ {r}
                     PROVE  (\E n \in 1 .. Len(retryQueue') : retryQueue'[n] = q)
                              <=> (\E n \in 1 .. Len(retryQueue) : retryQueue[n] = q)
          OBVIOUS
        <4>1. ASSUME NEW n \in 1 .. Len(retryQueue), retryQueue[n] = q
              PROVE  n - 1 \in 1 .. Len(retryQueue') /\ retryQueue'[n - 1] = q
          BY <3>1, <3>2, <4>1
        <4>2. ASSUME NEW n \in 1 .. Len(retryQueue'), retryQueue'[n] = q
              PROVE  n + 1 \in 1 .. Len(retryQueue) /\ retryQueue[n + 1] = q
          BY <3>2, <4>2
        <4> QED
          BY <4>1, <4>2
      <3> QED
        BY <3>3, <3>4, <3>5, <3>6, <3>7 DEF QueueInv, TypeOK
    <2> QED
      BY <2>1, <2>2
  <1>5. ASSUME NEW r \in Requests, Arrive(r) PROVE QueueInv'
    BY <1>2, <1>3, <1>5 DEF Arrive, StartExport, StartFile, Begin, Kinds, Stages
  <1>6. ASSUME NEW r \in Requests, MayBegin(r) PROVE kind[r] = "retry" /\ retryQueue[1] = r
    BY <1>6 DEF MayBegin, StageInv, QueueInv, TypeOK
  <1>7. ASSUME NEW r \in Requests,
               NothingToRetry(r) \/ RecordFails(r) \/ NoFile(r) \/ FinishMarking(r)
        PROVE  QueueInv'
    <2>1. /\ Finish(r)
          /\ MayBegin(r) \/ pc[r] # "queued"
      BY <1>7 DEF NothingToRetry, RecordFails, NoFile, FinishMarking
    <2> QED
      BY <1>4, <1>6, <2>1 DEF QueueInv
  <1>8. ASSUME NEW r \in Requests, BeginRetry(r) PROVE QueueInv'
    <2>1. /\ UNCHANGED <<retryQueue, kind>>
          /\ pc' = [pc EXCEPT ![r] = "next"]
          /\ retryQueue[1] = r
      BY <1>6, <1>8 DEF BeginRetry
    <2> QED
      BY <2>1 DEF QueueInv, TypeOK
  <1>9. ASSUME NEW r \in Requests, NEW from \in Stages \ {"queued"}, NEW to \in Stages,
               MovesTo(r, from, to)
        PROVE  QueueInv'
    BY <1>1, <1>9 DEF MovesTo, reqVars, TypeOK
  <1>10. ASSUME NEW r \in Requests, NEW i \in Invoices,
                Refuse(r, i) \/ Stage(r, i) \/ MarkInvoice(r, i) \/ MarkFails(r, i)
         PROVE  QueueInv'
    BY <1>9, <1>10 DEF Refuse, Stage, MarkInvoice, MarkFails, Stages
  <1>11. ASSUME NEW r \in Requests,
                \/ ReadConflict(r) \/ MapFails(r) \/ Post(r)
                \/ TallyImports(r) \/ TallyRejects(r) \/ PostAgain(r) \/ PostFails(r)
                \/ Promote(r) \/ PromoteFails(r) \/ Clear(r) \/ FinishLoop(r)
         PROVE  QueueInv'
    BY <1>9, <1>11 DEF ReadConflict, MapFails, Post, TallyImports, TallyRejects, PostAgain,
       PostFails, Promote, PromoteFails, Clear, FinishLoop, Settles, Stages
  <1>12. ASSUME NEW r \in Requests, Record(r) \/ StoreFile(r) PROVE QueueInv'
    BY <1>1, <1>12 DEF Record, StoreFile, reqVars, TypeOK
  <1>13. CASE Crash
    BY <1>13 DEF Crash, QueueInv
  <1>14. ASSUME UNCHANGED <<retryQueue, kind, pc>> PROVE QueueInv'
    BY <1>1, <1>14
  <1> QED
    BY <1>5, <1>7, <1>8, <1>10, <1>11, <1>12, <1>13, <1>14
    DEF Next, Advance, LateImport, DeleteInvoice, vars, loopVars, reqVars

----------------------------------------------------------------------------
(***************************************************************************)
(* The versions.  Few steps touch them, so each step is first put into one *)
(* of four kinds.                                                          *)
(***************************************************************************)
\* Neither the version nor the stage of a document changes.
Keeps == UNCHANGED <<exportVersion, inFlight>>

\* A request that holds a version stages the one after it, when it is still
\* the committed one.
StagesNext ==
  /\ exportVersion' = exportVersion
  /\ \E i \in Invoices : inFlight' = [inFlight EXCEPT ![i] = exportVersion[i] + 1]

\* A stage is cleared.
Clears ==
  /\ exportVersion' = exportVersion
  /\ \E i \in Invoices : inFlight' = [inFlight EXCEPT ![i] = Null]

\* The staged version of a document, which Tally holds, is committed.
Commits ==
  \E i \in Invoices :
    /\ <<i, exportVersion[i] + 1>> \in vouchers
    /\ exportVersion' = [exportVersion EXCEPT ![i] = @ + 1]
    /\ inFlight' = [inFlight EXCEPT ![i] = Null]

\* No step does anything else to the versions: a stale stage, promote or clear
\* of a slow request does not match the document.
LEMMA VersionKinds ==
  ASSUME TypeOK, StageInv, InFlightIsNext, AnswerInv, [Next]_vars
  PROVE  Keeps \/ StagesNext \/ Clears \/ Commits
  <1>1. ASSUME NEW r \in Requests, NEW i \in Invoices, Stage(r, i)
        PROVE  Keeps \/ StagesNext
    <2>1. CASE MayStage(i, snap[r][i])
      BY <1>1, <2>1 DEF Stage, MayStage, StagesNext
    <2>2. CASE ~MayStage(i, snap[r][i])
      BY <1>1, <2>2 DEF Stage, Keeps
    <2> QED
      BY <2>1, <2>2
  <1>2. ASSUME NEW r \in Requests, Promote(r) PROVE Commits
    <2>1. /\ cur[r] \in Invoices
          /\ Voucher(r) \in vouchers
          /\ inFlight[cur[r]] = Staged(r)
      BY <1>2 DEF Promote, Settles, MovesTo, StageInv, AnswerInv, HoldsStage, Working
    <2>2. Staged(r) = exportVersion[cur[r]] + 1
      <3>1. Staged(r) \in Nat \ {0}
        BY <2>1 DEF Staged, TypeOK
      <3> QED
        BY <2>1, <3>1 DEF InFlightIsNext, Null
    <2> QED
      BY <1>2, <2>1, <2>2 DEF Promote, Commits, Voucher, TypeOK
  <1>3. ASSUME NEW r \in Requests, Clear(r) PROVE Keeps \/ Clears
    <2>1. cur[r] \in Invoices
      BY <1>3 DEF Clear, Settles, MovesTo, StageInv, Working
    <2>2. /\ exportVersion' = exportVersion
          /\ \/ inFlight' = [inFlight EXCEPT ![cur[r]] = Null]
             \/ inFlight' = [inFlight EXCEPT ![cur[r]] = inFlight[cur[r]]]
             \/ inFlight' = inFlight
      BY <1>3 DEF Clear, ClearStage
    <2> QED
      BY <2>1, <2>2 DEF Keeps, Clears, TypeOK
  <1>4. ASSUME NEW r \in Requests, Arrive(r) PROVE Keeps
    BY <1>4 DEF Arrive, StartExport, StartFile, RequestRetry, Begin, docVars, Keeps
  <1>5. ASSUME NEW r \in Requests, NEW i \in Invoices,
               Refuse(r, i) \/ MarkInvoice(r, i) \/ MarkFails(r, i)
        PROVE  Keeps
    BY <1>5 DEF Refuse, MarkInvoice, MarkFails, docVars, Keeps
  <1>6. ASSUME NEW r \in Requests,
               \/ BeginRetry(r) \/ NothingToRetry(r) \/ ReadConflict(r) \/ MapFails(r)
               \/ Post(r) \/ TallyImports(r) \/ TallyRejects(r) \/ PostAgain(r)
               \/ PostFails(r) \/ PromoteFails(r) \/ FinishLoop(r) \/ Record(r)
               \/ RecordFails(r) \/ StoreFile(r) \/ NoFile(r) \/ FinishMarking(r)
        PROVE  Keeps
    BY <1>6 DEF BeginRetry, NothingToRetry, ReadConflict, MapFails, Post, TallyImports,
       TallyRejects, PostAgain, PostFails, PromoteFails, FinishLoop, Record, RecordFails,
       StoreFile, NoFile, FinishMarking, docVars, Keeps
  <1>7. ASSUME (\E m \in late : LateImport(m)) \/ (\E i \in Invoices : DeleteInvoice(i))
               \/ Crash \/ UNCHANGED vars
        PROVE  Keeps
    BY <1>7 DEF LateImport, DeleteInvoice, Crash, vars, docVars, Keeps
  <1> QED
    BY <1>1, <1>2, <1>3, <1>4, <1>5, <1>6, <1>7 DEF Next, Advance

\* So the committed versions only grow, one at a time.
LEMMA VersionGrows ==
  ASSUME TypeOK, StageInv, InFlightIsNext, AnswerInv, [Next]_vars, NEW i \in Invoices
  PROVE  exportVersion'[i] \in {exportVersion[i], exportVersion[i] + 1}
  BY VersionKinds DEF Keeps, StagesNext, Clears, Commits, TypeOK

\* What is posted is the version after the one that was read, and Tally never
\* forgets a voucher.
LEMMA VoucherKinds ==
  ASSUME TypeOK, StageInv, SnapshotInv, [Next]_vars
  PROVE  /\ vouchers \subseteq vouchers'
         /\ \A m \in (vouchers' \union late') \ (vouchers \union late) :
               m \in Invoices \X Nat /\ m[2] \in 1 .. exportVersion[m[1]] + 1
  <1> DEFINE Fine(m) == m \in Invoices \X Nat /\ m[2] \in 1 .. exportVersion[m[1]] + 1
             Goal == /\ vouchers \subseteq vouchers'
                     /\ \A m \in (vouchers' \union late') \ (vouchers \union late) : Fine(m)
  <1>1. ASSUME NEW r \in Requests, pc[r] \in Working PROVE Fine(Voucher(r))
    <2>1. /\ cur[r] \in Invoices
          /\ snap[r][cur[r]] \in Nat /\ exportVersion[cur[r]] \in Nat
          /\ snap[r][cur[r]] <= exportVersion[cur[r]]
      BY <1>1 DEF StageInv, SnapshotInv, TypeOK
    <2> QED
      BY <2>1 DEF Voucher, Staged
  <1>2. ASSUME NEW r \in Requests, TallyImports(r) \/ PostAgain(r) \/ PostFails(r)
        PROVE  Goal
    <2>1. Fine(Voucher(r))
      BY <1>1, <1>2 DEF TallyImports, PostAgain, PostFails, MovesTo, Working
    <2>2. /\ vouchers \subseteq vouchers'
          /\ vouchers' \union late' \subseteq vouchers \union late \union {Voucher(r)}
      BY <1>2 DEF TallyImports, PostAgain, PostFails
    <2> QED
      BY <2>1, <2>2
  <1>3. CASE Crash
    <2>1. \A r \in Requests : pc[r] = "posting" => Fine(Voucher(r))
      BY <1>1 DEF Working
    <2> QED
      BY <1>3, <2>1 DEF Crash
  <1>4. ASSUME NEW m \in late, LateImport(m) PROVE Goal
    BY <1>4 DEF LateImport
  <1>5. ASSUME UNCHANGED tallyVars PROVE Goal
    BY <1>5 DEF tallyVars
  <1>6. ASSUME NEW r \in Requests, Arrive(r) PROVE UNCHANGED tallyVars
    BY <1>6 DEF Arrive, StartExport, StartFile, RequestRetry, Begin
  <1>7. ASSUME NEW r \in Requests, NEW i \in Invoices,
               Refuse(r, i) \/ Stage(r, i) \/ MarkInvoice(r, i) \/ MarkFails(r, i)
        PROVE  UNCHANGED tallyVars
    BY <1>7 DEF Refuse, Stage, MarkInvoice, MarkFails
  <1>8. ASSUME NEW r \in Requests,
               \/ BeginRetry(r) \/ NothingToRetry(r) \/ ReadConflict(r) \/ MapFails(r)
               \/ Post(r) \/ TallyRejects(r) \/ Promote(r) \/ PromoteFails(r) \/ Clear(r)
               \/ FinishLoop(r) \/ Record(r) \/ RecordFails(r) \/ StoreFile(r)
               \/ NoFile(r) \/ FinishMarking(r)
        PROVE  UNCHANGED tallyVars
    BY <1>8 DEF BeginRetry, NothingToRetry, ReadConflict, MapFails, Post, TallyRejects,
       Promote, PromoteFails, Clear, FinishLoop, Record, RecordFails, StoreFile, NoFile,
       FinishMarking
  <1>9. ASSUME (\E i \in Invoices : DeleteInvoice(i)) \/ UNCHANGED vars
        PROVE  UNCHANGED tallyVars
    BY <1>9 DEF DeleteInvoice, vars, tallyVars
  <1>10. Goal
    BY <1>2, <1>3, <1>4, <1>5, <1>6, <1>7, <1>8, <1>9 DEF Next, Advance
  <1> QED
    BY <1>10

----------------------------------------------------------------------------
\* The three facts about versions are preserved together.
LEMMA VersionStep ==
  ASSUME IndInv, [Next]_vars
  PROVE  InFlightIsNext' /\ DbNeverAhead' /\ TallyAtMostOneAhead'
  <1> USE DEF IndInv
  <1>1. InFlightIsNext'
    BY VersionKinds DEF InFlightIsNext, Keeps, StagesNext, Clears, Commits, TypeOK
  <1>2. DbNeverAhead'
    <2> SUFFICES ASSUME NEW i \in Invoices, NEW k \in 1 .. exportVersion'[i]
                 PROVE  <<i, k>> \in vouchers'
      BY DEF DbNeverAhead
    <2>1. CASE Commits
      <3>1. k \in 1 .. exportVersion[i] \/ <<i, k>> \in vouchers
        <4>1. PICK j \in Invoices :
                 /\ <<j, exportVersion[j] + 1>> \in vouchers
                 /\ exportVersion' = [exportVersion EXCEPT ![j] = @ + 1]
          BY <2>1 DEF Commits
        <4>2. exportVersion[i] \in Nat
          BY DEF TypeOK
        <4>3. CASE i = j
          <5>1. k \in 1 .. exportVersion[i] + 1
            BY <4>1, <4>3 DEF TypeOK
          <5>2. k \in 1 .. exportVersion[i] \/ k = exportVersion[i] + 1
            BY <4>2, <5>1
          <5> QED
            BY <4>1, <4>3, <5>2
        <4>4. CASE i # j
          BY <4>1, <4>4 DEF TypeOK
        <4> QED
          BY <4>3, <4>4
      <3> QED
        BY <3>1, VoucherKinds DEF DbNeverAhead
    <2>2. CASE exportVersion' = exportVersion
      BY <2>2, VoucherKinds DEF DbNeverAhead
    <2> QED
      BY <2>1, <2>2, VersionKinds DEF Keeps, StagesNext, Clears
  <1>3. TallyAtMostOneAhead'
    <2> SUFFICES ASSUME NEW m \in vouchers' \union late'
                 PROVE  m[2] \in 1 .. exportVersion'[m[1]] + 1
      BY DEF TallyAtMostOneAhead
    <2>1. m \in Invoices \X Nat /\ m[2] \in 1 .. exportVersion[m[1]] + 1
      BY VoucherKinds DEF TallyAtMostOneAhead, TypeOK
    <2>2. /\ exportVersion[m[1]] \in Nat
          /\ exportVersion'[m[1]] \in {exportVersion[m[1]], exportVersion[m[1]] + 1}
      BY <2>1, VersionGrows DEF TypeOK
    <2> QED
      BY <2>1, <2>2
  <1> QED
    BY <1>1, <1>2, <1>3

\* A snapshot is either kept, or taken now, or dropped.
LEMMA SnapshotStep ==
  ASSUME IndInv, [Next]_vars
  PROVE  SnapshotInv'
  <1> USE DEF IndInv
  <1> DEFINE Goal == \/ snap' = snap
                     \/ \E r \in Requests : snap' = [snap EXCEPT ![r] = exportVersion]
                     \/ \E r \in Requests : snap' = [snap EXCEPT ![r] = NoSnapshot]
                     \/ snap' = [r \in Requests |-> NoSnapshot]
  <1>1. ASSUME NEW r \in Requests, Arrive(r) PROVE Goal
    BY <1>1 DEF Arrive, StartExport, StartFile, RequestRetry
  <1>2. ASSUME NEW r \in Requests,
               \/ BeginRetry(r) \/ NothingToRetry(r) \/ RecordFails(r) \/ NoFile(r)
               \/ FinishMarking(r)
        PROVE  Goal
    BY <1>2 DEF BeginRetry, NothingToRetry, RecordFails, NoFile, FinishMarking, Finish
  <1>3. ASSUME NEW r \in Requests, NEW i \in Invoices,
               Refuse(r, i) \/ Stage(r, i) \/ MarkInvoice(r, i) \/ MarkFails(r, i)
        PROVE  Goal
    BY <1>3 DEF Refuse, Stage, MarkInvoice, MarkFails, MovesTo, reqVars
  <1>4. ASSUME NEW r \in Requests,
               \/ ReadConflict(r) \/ MapFails(r) \/ Post(r)
               \/ TallyImports(r) \/ TallyRejects(r) \/ PostAgain(r) \/ PostFails(r)
               \/ Promote(r) \/ PromoteFails(r) \/ Clear(r) \/ FinishLoop(r)
               \/ Record(r) \/ StoreFile(r)
        PROVE  Goal
    BY <1>4 DEF ReadConflict, MapFails, Post, TallyImports, TallyRejects, PostAgain,
       PostFails, Promote, PromoteFails, Clear, FinishLoop, Record, StoreFile, Settles,
       MovesTo, reqVars
  <1>5. ASSUME (\E m \in late : LateImport(m)) \/ (\E i \in Invoices : DeleteInvoice(i))
               \/ Crash \/ UNCHANGED vars
        PROVE  Goal
    BY <1>5 DEF LateImport, DeleteInvoice, Crash, vars, reqVars
  <1>6. Goal
    BY <1>1, <1>2, <1>3, <1>4, <1>5 DEF Next, Advance
  <1> SUFFICES ASSUME NEW r \in Requests, NEW i \in Invoices
               PROVE  snap'[r][i] <= exportVersion'[i]
    BY DEF SnapshotInv
  <1>7. snap'[r][i] \in {snap[r][i], exportVersion[i], 0}
    <2>1. snap \in [Requests -> [Invoices -> Nat]]
      BY DEF TypeOK
    <2>2. \/ snap'[r] = snap[r]
          \/ snap'[r] = exportVersion
          \/ snap'[r] = NoSnapshot
      BY <1>6, <2>1
    <2> QED
      BY <2>2 DEF NoSnapshot
  <1>8. snap[r][i] \in Nat /\ exportVersion[i] \in Nat /\ snap[r][i] <= exportVersion[i]
    BY DEF TypeOK, SnapshotInv
  <1> QED
    BY <1>7, <1>8, VersionGrows

\* Answers are recorded only for the voucher that was posted, and stay true.
LEMMA AnswerStep ==
  ASSUME IndInv, [Next]_vars
  PROVE  AnswerInv'
  <1> USE DEF IndInv
  <1> DEFINE Holds(q) == /\ pc'[q] = "accepted" => Voucher(q)' \in vouchers'
                         /\ \A i \in Invoices : outcome'[q][i] = "success" =>
                               /\ <<i, snap'[q][i] + 1>> \in vouchers'
                               /\ snap'[q][i] + 1 <= exportVersion'[i]
  <1>1. vouchers \subseteq vouchers'
    BY VoucherKinds
  <1>2. \A i \in Invoices : /\ exportVersion[i] \in Nat /\ exportVersion'[i] \in Nat
                            /\ exportVersion[i] <= exportVersion'[i]
    <2> SUFFICES ASSUME NEW i \in Invoices
                 PROVE  /\ exportVersion[i] \in Nat /\ exportVersion'[i] \in Nat
                        /\ exportVersion[i] <= exportVersion'[i]
      OBVIOUS
    <2>1. exportVersion[i] \in Nat
      BY DEF TypeOK
    <2> QED
      BY <2>1, VersionGrows
  <1>3. ASSUME NEW q \in Requests, snap'[q] = snap[q], cur'[q] = cur[q],
               pc'[q] = "accepted" => pc[q] = "accepted",
               \A i \in Invoices : outcome'[q][i] = "success" => outcome[q][i] = "success"
        PROVE  Holds(q)
    <2>1. pc'[q] = "accepted" => Voucher(q)' \in vouchers'
      BY <1>1, <1>3 DEF AnswerInv, Voucher, Staged
    <2>2. ASSUME NEW i \in Invoices, outcome'[q][i] = "success"
          PROVE  <<i, snap'[q][i] + 1>> \in vouchers' /\ snap'[q][i] + 1 <= exportVersion'[i]
      <3>1. <<i, snap[q][i] + 1>> \in vouchers /\ snap[q][i] + 1 <= exportVersion[i]
        BY <1>3, <2>2 DEF AnswerInv
      <3>2. snap[q][i] \in Nat
        BY DEF TypeOK
      <3> QED
        BY <1>1, <1>2, <1>3, <3>1, <3>2
    <2> QED
      BY <2>1, <2>2
  <1>4. ASSUME NEW q \in Requests, pc'[q] # "accepted",
               \A i \in Invoices : outcome'[q][i] # "success"
        PROVE  Holds(q)
    BY <1>4
  <1>5. ASSUME NEW r \in Requests, NEW q \in Requests, Arrive(r) PROVE Holds(q)
    <2>1. /\ UNCHANGED <<cur, outcome>>
          /\ pc[r] = "idle" /\ pc'[r] # "accepted"
          /\ \A o \in Requests \ {r} : pc'[o] = pc[o] /\ snap'[o] = snap[o]
      BY <1>5 DEF Arrive, StartExport, StartFile, RequestRetry, Begin, TypeOK
    <2>2. outcome[r] = NoOutcome
      BY <2>1 DEF StageInv
    <2>3. CASE q = r
      BY <1>4, <2>1, <2>2, <2>3 DEF NoOutcome
    <2>4. CASE q # r
      BY <1>3, <2>1, <2>4
    <2> QED
      BY <2>3, <2>4
  <1>6. ASSUME NEW r \in Requests, NEW q \in Requests, Finish(r) PROVE Holds(q)
    <2>1. CASE q = r
      BY <1>4, <1>6, <2>1 DEF Finish, TypeOK, NoOutcome
    <2>2. CASE q # r
      BY <1>3, <1>6, <2>2 DEF Finish, TypeOK
    <2> QED
      BY <2>1, <2>2
  <1>7. ASSUME NEW r \in Requests, NEW q \in Requests, BeginRetry(r) PROVE Holds(q)
    <2>1. outcome[r] = NoOutcome
      BY <1>7 DEF BeginRetry, MayBegin, StageInv
    <2>2. CASE q = r
      BY <1>4, <1>7, <2>1, <2>2 DEF BeginRetry, TypeOK, NoOutcome
    <2>3. CASE q # r
      BY <1>3, <1>7, <2>3 DEF BeginRetry, TypeOK
    <2> QED
      BY <2>2, <2>3
  <1>8. ASSUME NEW r \in Requests, NEW q \in Requests, NEW i \in Invoices,
               Refuse(r, i) \/ Stage(r, i) \/ MarkInvoice(r, i) \/ MarkFails(r, i)
        PROVE  Holds(q)
    <2>1. /\ snap' = snap
          /\ \A o \in Requests : o = r \/ cur'[o] = cur[o]
          /\ \A o \in Requests : pc'[o] = "accepted" => o # r /\ pc[o] = "accepted"
      BY <1>8 DEF Refuse, Stage, MarkInvoice, MarkFails, MovesTo, reqVars, TypeOK
    <2>2. \A j \in Invoices : outcome'[q][j] = "success" => outcome[q][j] = "success"
      <3>1. outcome' = outcome \/ outcome' = [outcome EXCEPT ![r][i] = "failure"]
        BY <1>8 DEF Refuse, Stage, MarkInvoice, MarkFails
      <3>2. outcome \in [Requests -> [Invoices -> Outcomes]]
        BY DEF TypeOK
      <3> QED
        BY <3>1, <3>2
    <2>3. CASE pc'[q] = "accepted"
      BY <1>3, <2>1, <2>2, <2>3
    <2>4. CASE pc'[q] # "accepted"
      BY <1>1, <1>2, <2>1, <2>2, <2>4 DEF AnswerInv, TypeOK
    <2> QED
      BY <2>3, <2>4
  <1>9. ASSUME NEW r \in Requests, NEW q \in Requests, Promote(r) PROVE Holds(q)
    <2>1. /\ pc[r] = "accepted" /\ cur[r] \in Invoices
          /\ pc' = [pc EXCEPT ![r] = "next"]
          /\ snap' = snap
          /\ cur' = [cur EXCEPT ![r] = NoInvoice]
          /\ \E result \in {"success", "failure"} :
                outcome' = [outcome EXCEPT ![r][cur[r]] = result]
          /\ exportVersion' = [exportVersion EXCEPT ![cur[r]] = Staged(r)]
      BY <1>9 DEF Promote, Settles, MovesTo, reqVars, StageInv, Working
    <2>2. CASE q = r
      <3>1. ASSUME NEW i \in Invoices, outcome'[r][i] = "success"
            PROVE  /\ <<i, snap'[r][i] + 1>> \in vouchers'
                   /\ snap'[r][i] + 1 <= exportVersion'[i]
        <4>1. CASE i = cur[r]
          <5>1. Voucher(r) \in vouchers
            BY <2>1 DEF AnswerInv
          <5>2. snap[r][i] \in Nat /\ exportVersion'[i] = snap[r][i] + 1
            BY <2>1, <4>1 DEF Staged, TypeOK
          <5> QED
            BY <1>1, <2>1, <4>1, <5>1, <5>2 DEF Voucher, Staged
        <4>2. CASE i # cur[r]
          <5>1. outcome[r][i] = "success" /\ snap[r][i] \in Nat
            BY <2>1, <3>1, <4>2 DEF TypeOK
          <5> QED
            BY <1>1, <1>2, <2>1, <5>1 DEF AnswerInv
        <4> QED
          BY <4>1, <4>2
      <3>2. pc'[r] # "accepted"
        BY <2>1 DEF TypeOK
      <3> QED
        BY <2>2, <3>1, <3>2
    <2>3. CASE q # r
      BY <1>3, <2>1, <2>3 DEF TypeOK
    <2> QED
      BY <2>2, <2>3
  <1>10. ASSUME NEW r \in Requests, NEW q \in Requests,
                ReadConflict(r) \/ MapFails(r) \/ PromoteFails(r) \/ Clear(r)
         PROVE  Holds(q)
    <2>1. PICK result \in {"failure", "rejected"} :
             /\ pc' = [pc EXCEPT ![r] = "next"]
             /\ snap' = snap
             /\ cur' = [cur EXCEPT ![r] = NoInvoice]
             /\ outcome' = [outcome EXCEPT ![r][cur[r]] = result]
      BY <1>10 DEF ReadConflict, MapFails, PromoteFails, Clear, Settles, MovesTo, reqVars
    <2>2. \A j \in Invoices : outcome'[q][j] = "success" => outcome[q][j] = "success"
      BY <2>1 DEF TypeOK
    <2>3. CASE q = r
      <3>1. pc'[q] # "accepted" /\ snap'[q] = snap[q]
        BY <2>1, <2>3 DEF TypeOK
      <3> QED
        BY <1>1, <1>2, <2>2, <3>1 DEF AnswerInv, TypeOK
    <2>4. CASE q # r
      BY <1>3, <2>1, <2>2, <2>4 DEF TypeOK
    <2> QED
      BY <2>3, <2>4
  <1>11. ASSUME NEW r \in Requests, NEW q \in Requests, TallyImports(r) PROVE Holds(q)
    <2>1. /\ UNCHANGED <<snap, cur, outcome>>
          /\ pc' = [pc EXCEPT ![r] = "accepted"]
          /\ vouchers' = vouchers \union {Voucher(r)}
      BY <1>11 DEF TallyImports, MovesTo, loopVars, reqVars
    <2>2. CASE q = r
      <3>1. Voucher(q)' \in vouchers'
        BY <2>1, <2>2 DEF Voucher, Staged
      <3> QED
        BY <1>1, <1>2, <2>1, <3>1 DEF AnswerInv, TypeOK
    <2>3. CASE q # r
      BY <1>3, <2>1, <2>3 DEF TypeOK
    <2> QED
      BY <2>2, <2>3
  <1>12. ASSUME NEW r \in Requests, NEW q \in Requests,
                \/ Post(r) \/ TallyRejects(r) \/ PostAgain(r) \/ PostFails(r)
                \/ FinishLoop(r) \/ Record(r) \/ StoreFile(r)
         PROVE  Holds(q)
    <2>1. /\ UNCHANGED <<snap, cur, outcome>>
          /\ pc'[q] = "accepted" => pc[q] = "accepted"
      BY <1>12 DEF Post, TallyRejects, PostAgain, PostFails, FinishLoop, Record, StoreFile,
         MovesTo, loopVars, reqVars, TypeOK
    <2> QED
      BY <1>3, <2>1
  <1>13. ASSUME NEW q \in Requests, UNCHANGED <<snap, cur, outcome, pc>> PROVE Holds(q)
    BY <1>3, <1>13
  <1>14. ASSUME NEW q \in Requests, Crash PROVE Holds(q)
    BY <1>4, <1>14 DEF Crash, NoOutcome
  <1>15. \A q \in Requests : Holds(q)
    BY <1>5, <1>6, <1>7, <1>8, <1>9, <1>10, <1>11, <1>12, <1>13, <1>14
    DEF Next, Advance, NothingToRetry, RecordFails, NoFile, FinishMarking, LateImport,
        DeleteInvoice, vars, loopVars, reqVars
  <1> QED
    BY <1>15 DEF AnswerInv

\* Only a handler that records its results writes a batch.
LEMMA BatchWriters ==
  ASSUME [Next]_vars
  PROVE  (\E r \in Requests : Record(r)) \/ batch' = batch
  <1>1. ASSUME NEW r \in Requests, Arrive(r) PROVE batch' = batch
    BY <1>1 DEF Arrive, StartExport, StartFile, RequestRetry, Begin
  <1>2. ASSUME NEW r \in Requests, NEW i \in Invoices,
               Refuse(r, i) \/ Stage(r, i) \/ MarkInvoice(r, i) \/ MarkFails(r, i)
        PROVE  batch' = batch
    BY <1>2 DEF Refuse, Stage, MarkInvoice, MarkFails, MovesTo
  <1>3. ASSUME NEW r \in Requests,
               \/ BeginRetry(r) \/ NothingToRetry(r) \/ ReadConflict(r) \/ MapFails(r)
               \/ Post(r) \/ TallyImports(r) \/ TallyRejects(r) \/ PostAgain(r)
               \/ PostFails(r) \/ Promote(r) \/ PromoteFails(r) \/ Clear(r)
               \/ FinishLoop(r) \/ RecordFails(r) \/ StoreFile(r) \/ NoFile(r)
               \/ FinishMarking(r)
        PROVE  batch' = batch
    BY <1>3 DEF BeginRetry, NothingToRetry, ReadConflict, MapFails, Post, TallyImports,
       TallyRejects, PostAgain, PostFails, Promote, PromoteFails, Clear, FinishLoop,
       RecordFails, StoreFile, NoFile, FinishMarking, Settles, MovesTo
  <1>4. ASSUME \/ \E m \in late : LateImport(m)
               \/ \E i \in Invoices : DeleteInvoice(i)
               \/ Crash \/ UNCHANGED vars
        PROVE  batch' = batch
    BY <1>4 DEF LateImport, DeleteInvoice, Crash, vars
  <1> QED
    BY <1>1, <1>2, <1>3, <1>4 DEF Next, Advance

\* A success item is written from an answered post, and stays true.
LEMMA ItemStep ==
  ASSUME IndInv, [Next]_vars
  PROVE  SuccessItemIsInTally'
  <1> USE DEF IndInv
  <1> DEFINE True(i, item) == item.status = "SUCCESS" =>
                                /\ <<i, item.version>> \in vouchers
                                /\ item.version \in 1 .. exportVersion[i]
  <1>1. ASSUME NEW r \in Requests, NEW i \in Invoices PROVE True(i, NewItem(r, i))
    <2>1. snap[r][i] \in Nat /\ exportVersion[i] \in Nat
      BY DEF TypeOK
    <2> QED
      BY <2>1 DEF AnswerInv, NewItem, NoItem, ResultStatus, ResultVersion
  <1>2. ASSUME NEW r \in Requests, NEW i \in Invoices, NEW prior, True(i, prior)
        PROVE  True(i, MergedItem(r, i, prior))
    <2>1. snap[r][i] \in Nat /\ exportVersion[i] \in Nat
      BY DEF TypeOK
    <2> QED
      BY <1>2, <2>1 DEF AnswerInv, MergedItem, ResultStatus, ResultVersion
  <1>3. \A b \in Batches, i \in Invoices : True(i, batch[b][i])
    BY DEF SuccessItemIsInTally
  <1>4. ASSUME NEW r \in Requests, Record(r)
        PROVE  \A b \in Batches, i \in Invoices : True(i, batch'[b][i])
    <2> SUFFICES ASSUME NEW b \in Batches, NEW i \in Invoices PROVE True(i, batch'[b][i])
      OBVIOUS
    <2>1. CASE b = target[r]
      <3>1. batch'[b][i] = IF kind[r] = "retry" THEN MergedItem(r, i, batch[b][i])
                                                ELSE NewItem(r, i)
        BY <1>4, <2>1 DEF Record, TypeOK
      <3> QED
        BY <1>1, <1>2, <1>3, <3>1
    <2>2. CASE b # target[r]
      BY <1>3, <1>4, <2>2 DEF Record, TypeOK
    <2> QED
      BY <2>1, <2>2
  <1>6. \A b \in Batches, i \in Invoices : True(i, batch'[b][i])
    BY <1>3, <1>4, BatchWriters
  <1> SUFFICES ASSUME NEW b \in Batches, NEW i \in Invoices, batch'[b][i].status = "SUCCESS"
               PROVE  /\ <<i, batch'[b][i].version>> \in vouchers'
                      /\ batch'[b][i].version \in 1 .. exportVersion'[i]
    BY DEF SuccessItemIsInTally
  <1>7. /\ <<i, batch'[b][i].version>> \in vouchers
        /\ batch'[b][i].version \in 1 .. exportVersion[i]
    BY <1>6
  <1>8. exportVersion[i] \in Nat
    BY DEF TypeOK
  <1> QED
    BY <1>7, <1>8, VoucherKinds, VersionGrows


\* Once refused, a request reads the reason whenever it does: a deleted
\* document does not come back and a version does not go back.
LEMMA ConflictStep ==
  ASSUME IndInv, ConflictMeansVersionMoved, [Next]_vars
  PROVE  ConflictMeansVersionMoved'
  <1> USE DEF IndInv
  <1> DEFINE Moved(r) == ~Exists(cur[r]) \/ exportVersion[cur[r]] > snap[r][cur[r]]
  <1>1. ASSUME NEW i \in Invoices, status[i] = "DELETED" PROVE status'[i] = "DELETED"
    <2>1. ASSUME NEW r \in Requests, NEW j \in Invoices,
                 Refuse(r, j) \/ Stage(r, j) \/ MarkFails(r, j)
          PROVE  status' = status
      BY <2>1 DEF Refuse, Stage, MarkFails, docVars
    <2>2. ASSUME NEW r \in Requests, NEW j \in Invoices, MarkInvoice(r, j)
          PROVE  status'[i] = "DELETED"
      BY <1>1, <2>2 DEF MarkInvoice, Exists, TypeOK
    <2>3. ASSUME NEW j \in Invoices, DeleteInvoice(j) PROVE status'[i] = "DELETED"
      BY <1>1, <2>3 DEF DeleteInvoice, TypeOK
    <2>4. ASSUME NEW r \in Requests, Arrive(r) PROVE status' = status
      BY <2>4 DEF Arrive, StartExport, StartFile, RequestRetry, Begin, docVars
    <2>5. ASSUME NEW r \in Requests,
                 \/ BeginRetry(r) \/ NothingToRetry(r) \/ ReadConflict(r) \/ MapFails(r)
                 \/ Post(r) \/ TallyImports(r) \/ TallyRejects(r) \/ PostAgain(r)
                 \/ PostFails(r) \/ Promote(r) \/ PromoteFails(r) \/ Clear(r)
                 \/ FinishLoop(r) \/ Record(r) \/ RecordFails(r) \/ StoreFile(r)
                 \/ NoFile(r) \/ FinishMarking(r)
          PROVE  status' = status
      BY <2>5 DEF BeginRetry, NothingToRetry, ReadConflict, MapFails, Post, TallyImports,
         TallyRejects, PostAgain, PostFails, Promote, PromoteFails, Clear, FinishLoop,
         Record, RecordFails, StoreFile, NoFile, FinishMarking, docVars
    <2>6. ASSUME (\E m \in late : LateImport(m)) \/ Crash \/ UNCHANGED vars
          PROVE  status' = status
      BY <2>6 DEF LateImport, Crash, vars, docVars
    <2> QED
      BY <1>1, <2>1, <2>2, <2>3, <2>4, <2>5, <2>6 DEF Next, Advance
  <1>2. ASSUME NEW r \in Requests, pc'[r] = "conflict"
        PROVE  \/ /\ pc[r] = "conflict" /\ cur'[r] = cur[r] /\ snap'[r] = snap[r]
               \/ \E i \in Invoices : Stage(r, i)
    <2>1. ASSUME NEW q \in Requests, NEW i \in Invoices,
                 \/ Refuse(q, i) \/ MarkInvoice(q, i) \/ MarkFails(q, i)
                 \/ Stage(q, i) /\ q # r
          PROVE  pc[r] = "conflict" /\ cur'[r] = cur[r] /\ snap'[r] = snap[r]
      BY <1>2, <2>1 DEF Refuse, Stage, MarkInvoice, MarkFails, MovesTo, reqVars, TypeOK
    <2>2. ASSUME NEW q \in Requests, Arrive(q)
          PROVE  pc[r] = "conflict" /\ cur'[r] = cur[r] /\ snap'[r] = snap[r]
      BY <1>2, <2>2 DEF Arrive, StartExport, StartFile, RequestRetry, Begin, TypeOK
    <2>3. ASSUME NEW q \in Requests, Finish(q) \/ BeginRetry(q)
          PROVE  pc[r] = "conflict" /\ cur'[r] = cur[r] /\ snap'[r] = snap[r]
      BY <1>2, <2>3 DEF Finish, BeginRetry, TypeOK
    <2>4. ASSUME NEW q \in Requests,
                 \/ ReadConflict(q) \/ MapFails(q) \/ Post(q)
                 \/ TallyImports(q) \/ TallyRejects(q) \/ PostAgain(q) \/ PostFails(q)
                 \/ Promote(q) \/ PromoteFails(q) \/ Clear(q) \/ FinishLoop(q)
                 \/ Record(q) \/ StoreFile(q)
          PROVE  pc[r] = "conflict" /\ cur'[r] = cur[r] /\ snap'[r] = snap[r]
      BY <1>2, <2>4 DEF ReadConflict, MapFails, Post, TallyImports, TallyRejects, PostAgain,
         PostFails, Promote, PromoteFails, Clear, FinishLoop, Record, StoreFile, Settles,
         MovesTo, loopVars, reqVars, TypeOK
    <2>5. ASSUME \/ \E m \in late : LateImport(m)
                 \/ \E i \in Invoices : DeleteInvoice(i)
                 \/ UNCHANGED vars
          PROVE  pc[r] = "conflict" /\ cur'[r] = cur[r] /\ snap'[r] = snap[r]
      BY <1>2, <2>5 DEF LateImport, DeleteInvoice, vars, loopVars, reqVars
    <2>6. ~Crash
      BY <1>2 DEF Crash
    <2> QED
      BY <2>1, <2>2, <2>3, <2>4, <2>5, <2>6
      DEF Next, Advance, NothingToRetry, RecordFails, NoFile, FinishMarking
  <1> SUFFICES ASSUME NEW r \in Requests, pc'[r] = "conflict" PROVE Moved(r)'
    BY DEF ConflictMeansVersionMoved
  <1>3. CASE pc[r] = "conflict" /\ cur'[r] = cur[r] /\ snap'[r] = snap[r]
    <2>1. /\ cur[r] \in Invoices /\ Moved(r)
          /\ exportVersion[cur[r]] \in Nat /\ snap[r][cur[r]] \in Nat
      BY <1>3 DEF StageInv, Working, ConflictMeansVersionMoved, TypeOK
    <2>2. ~Exists(cur[r]) => status'[cur[r]] = "DELETED"
      BY <1>1, <2>1 DEF Exists
    <2>3. exportVersion'[cur[r]] \in {exportVersion[cur[r]], exportVersion[cur[r]] + 1}
      BY <2>1, VersionGrows
    <2> QED
      BY <1>3, <2>1, <2>2, <2>3 DEF Exists
  <1>4. ASSUME NEW i \in Invoices, Stage(r, i) PROVE Moved(r)'
    <2>1. /\ cur'[r] = i
          /\ UNCHANGED <<status, exportVersion, snap>>
          /\ ~MayStage(i, snap[r][i])
      BY <1>4 DEF Stage, MovesTo, reqVars, TypeOK
    <2>2. /\ exportVersion[i] \in Nat /\ snap[r][i] \in Nat
          /\ snap[r][i] <= exportVersion[i]
          /\ inFlight[i] \in {Null, exportVersion[i] + 1}
      BY DEF SnapshotInv, InFlightIsNext, TypeOK
    <2>3. ~Exists(i) \/ exportVersion[i] > snap[r][i]
      BY <2>1, <2>2 DEF MayStage
    <2> QED
      BY <2>1, <2>3 DEF Exists
  <1> QED
    BY <1>2, <1>3, <1>4

\* Only an import adds to Tally's books, one voucher at a time.
LEMMA ImportKinds ==
  ASSUME TypeOK, StageInv, SnapshotInv, TallyAtMostOneAhead, [Next]_vars
  PROVE  \/ vouchers' = vouchers
         \/ /\ exportVersion' = exportVersion
            /\ \E i \in Invoices : \E k \in 1 .. exportVersion[i] + 1 :
                   vouchers' = vouchers \union {<<i, k>>}
  <1> DEFINE Imports == \E i \in Invoices : \E k \in 1 .. exportVersion[i] + 1 :
                          vouchers' = vouchers \union {<<i, k>>}
  <1>1. ASSUME NEW r \in Requests, TallyImports(r) PROVE exportVersion' = exportVersion /\ Imports
    <2>1. /\ cur[r] \in Invoices
          /\ snap[r][cur[r]] \in Nat /\ exportVersion[cur[r]] \in Nat
          /\ snap[r][cur[r]] <= exportVersion[cur[r]]
      BY <1>1 DEF TallyImports, MovesTo, StageInv, Working, SnapshotInv, TypeOK
    <2>2. Staged(r) \in 1 .. exportVersion[cur[r]] + 1
      BY <2>1 DEF Staged
    <2> QED
      BY <1>1, <2>1, <2>2 DEF TallyImports, Voucher, docVars
  <1>2. ASSUME NEW m \in late, LateImport(m) PROVE exportVersion' = exportVersion /\ Imports
    <2>1. PICK i \in Invoices, k \in Nat : m = <<i, k>>
      BY DEF TypeOK
    <2>2. k \in 1 .. exportVersion[i] + 1
      BY <2>1 DEF TallyAtMostOneAhead
    <2> QED
      BY <1>2, <2>1, <2>2 DEF LateImport, docVars
  <1>3. ASSUME NEW r \in Requests, Arrive(r) PROVE vouchers' = vouchers
    BY <1>3 DEF Arrive, StartExport, StartFile, RequestRetry, Begin, tallyVars
  <1>4. ASSUME NEW r \in Requests, NEW i \in Invoices,
               Refuse(r, i) \/ Stage(r, i) \/ MarkInvoice(r, i) \/ MarkFails(r, i)
        PROVE  vouchers' = vouchers
    BY <1>4 DEF Refuse, Stage, MarkInvoice, MarkFails, tallyVars
  <1>5. ASSUME NEW r \in Requests,
               \/ BeginRetry(r) \/ NothingToRetry(r) \/ ReadConflict(r) \/ MapFails(r)
               \/ Post(r) \/ TallyRejects(r) \/ PostAgain(r) \/ PostFails(r)
               \/ Promote(r) \/ PromoteFails(r) \/ Clear(r) \/ FinishLoop(r)
               \/ Record(r) \/ RecordFails(r) \/ StoreFile(r) \/ NoFile(r)
               \/ FinishMarking(r)
        PROVE  vouchers' = vouchers
    BY <1>5 DEF BeginRetry, NothingToRetry, ReadConflict, MapFails, Post, TallyRejects,
       PostAgain, PostFails, Promote, PromoteFails, Clear, FinishLoop, Record, RecordFails,
       StoreFile, NoFile, FinishMarking, tallyVars
  <1>6. ASSUME (\E i \in Invoices : DeleteInvoice(i)) \/ Crash \/ UNCHANGED vars
        PROVE  vouchers' = vouchers
    BY <1>6 DEF DeleteInvoice, Crash, vars, tallyVars
  <1> QED
    BY <1>1, <1>2, <1>3, <1>4, <1>5, <1>6 DEF Next, Advance

----------------------------------------------------------------------------
(***************************************************************************)
(* What the invoices show: a handler marks only invoices whose version it  *)
(* has seen committed, or puts a file's reference on them.                 *)
(***************************************************************************)
MarksTrueVersions ==
    /\ \A i \in Invoices : reference[i] = "voucher" => exportVersion[i] > 0
    /\ \A r \in Requests : pc[r] = "marking" /\ kind[r] # "file" =>
          \A i \in todo[r] : exportVersion[i] > 0

\* A handler that marks has just recorded its results, or was marking before.
LEMMA MarkingKinds ==
  ASSUME TypeOK, StageInv, [Next]_vars, NEW r \in Requests,
         pc'[r] = "marking", kind'[r] # "file"
  PROVE  \/ Record(r)
         \/ pc[r] = "marking" /\ kind[r] # "file" /\ todo'[r] \subseteq todo[r]
  <1> DEFINE Marked == pc[r] = "marking" /\ kind[r] # "file" /\ todo'[r] \subseteq todo[r]
  <1>1. ASSUME NEW q \in Requests, NEW i \in Invoices,
               Refuse(q, i) \/ Stage(q, i) \/ MarkInvoice(q, i) \/ MarkFails(q, i)
        PROVE  Marked
    <2>1. kind' = kind /\ todo'[r] \subseteq todo[r] /\ pc[r] = "marking"
      BY <1>1 DEF Refuse, Stage, MarkInvoice, MarkFails, MovesTo, reqVars, TypeOK
    <2> QED
      BY <2>1
  <1>2. ASSUME NEW q \in Requests, Arrive(q) PROVE Marked
    BY <1>2 DEF Arrive, StartExport, StartFile, RequestRetry, Begin, TypeOK
  <1>3. ASSUME NEW q \in Requests, Finish(q) \/ BeginRetry(q) PROVE Marked
    BY <1>3 DEF Finish, BeginRetry, TypeOK
  <1>4. ASSUME NEW q \in Requests,
               \/ ReadConflict(q) \/ MapFails(q) \/ Post(q) \/ TallyImports(q)
               \/ TallyRejects(q) \/ PostAgain(q) \/ PostFails(q) \/ Promote(q)
               \/ PromoteFails(q) \/ Clear(q) \/ FinishLoop(q)
        PROVE  Marked
    BY <1>4 DEF ReadConflict, MapFails, Post, TallyImports, TallyRejects, PostAgain,
       PostFails, Promote, PromoteFails, Clear, FinishLoop, Settles, MovesTo, loopVars,
       reqVars, TypeOK
  <1>5. ASSUME NEW q \in Requests, Record(q) PROVE Record(r) \/ Marked
    BY <1>5 DEF Record, reqVars, TypeOK
  <1>6. ASSUME NEW q \in Requests, StoreFile(q) PROVE Marked
    BY <1>6 DEF StoreFile, StageInv, reqVars, TypeOK
  <1>7. ASSUME \/ \E m \in late : LateImport(m)
               \/ \E i \in Invoices : DeleteInvoice(i)
               \/ UNCHANGED vars
        PROVE  Marked
    BY <1>7 DEF LateImport, DeleteInvoice, vars, loopVars, reqVars
  <1>8. ~Crash
    BY DEF Crash
  <1> QED
    BY <1>1, <1>2, <1>3, <1>4, <1>5, <1>6, <1>7, <1>8
    DEF Next, Advance, NothingToRetry, RecordFails, NoFile, FinishMarking

\* No step but a mark touches the reference of an invoice.
LEMMA ReferenceKinds ==
  ASSUME [Next]_vars
  PROVE  \/ reference' = reference
         \/ \E r \in Requests, i \in Invoices : MarkInvoice(r, i)
  <1>1. ASSUME NEW r \in Requests, Arrive(r) PROVE reference' = reference
    BY <1>1 DEF Arrive, StartExport, StartFile, RequestRetry, Begin, docVars
  <1>2. ASSUME NEW r \in Requests, NEW i \in Invoices,
               Refuse(r, i) \/ Stage(r, i) \/ MarkFails(r, i)
        PROVE  reference' = reference
    BY <1>2 DEF Refuse, Stage, MarkFails, docVars
  <1>3. ASSUME NEW r \in Requests,
               \/ BeginRetry(r) \/ NothingToRetry(r) \/ ReadConflict(r) \/ MapFails(r)
               \/ Post(r) \/ TallyImports(r) \/ TallyRejects(r) \/ PostAgain(r)
               \/ PostFails(r) \/ Promote(r) \/ PromoteFails(r) \/ Clear(r)
               \/ FinishLoop(r) \/ Record(r) \/ RecordFails(r) \/ StoreFile(r)
               \/ NoFile(r) \/ FinishMarking(r)
        PROVE  reference' = reference
    BY <1>3 DEF BeginRetry, NothingToRetry, ReadConflict, MapFails, Post, TallyImports,
       TallyRejects, PostAgain, PostFails, Promote, PromoteFails, Clear, FinishLoop, Record,
       RecordFails, StoreFile, NoFile, FinishMarking, docVars
  <1>4. ASSUME \/ \E m \in late : LateImport(m)
               \/ \E i \in Invoices : DeleteInvoice(i)
               \/ Crash \/ UNCHANGED vars
        PROVE  reference' = reference
    BY <1>4 DEF LateImport, DeleteInvoice, Crash, vars, docVars
  <1> QED
    BY <1>1, <1>2, <1>3, <1>4 DEF Next, Advance

\* Versions only grow, and what is marked is a recorded success.
LEMMA MarkStep ==
  ASSUME IndInv, MarksTrueVersions, [Next]_vars
  PROVE  MarksTrueVersions'
  <1> USE DEF IndInv
  <1>1. ASSUME NEW i \in Invoices, exportVersion[i] > 0 PROVE exportVersion'[i] > 0
    <2>1. exportVersion[i] \in Nat
      BY DEF TypeOK
    <2>2. exportVersion'[i] \in {exportVersion[i], exportVersion[i] + 1}
      BY VersionGrows
    <2> QED
      BY <1>1, <2>1, <2>2
  <1>2. ASSUME NEW i \in Invoices, reference'[i] = "voucher" PROVE exportVersion'[i] > 0
    <2>1. CASE reference' = reference
      BY <1>1, <1>2, <2>1 DEF MarksTrueVersions
    <2>2. ASSUME NEW r \in Requests, NEW j \in Invoices, MarkInvoice(r, j)
          PROVE  exportVersion'[i] > 0
      <3>1. CASE reference[i] = "voucher"
        BY <1>1, <3>1 DEF MarksTrueVersions
      <3>2. CASE reference[i] # "voucher"
        <4>1. i = j /\ pc[r] = "marking" /\ kind[r] # "file" /\ i \in todo[r]
          BY <1>2, <2>2, <3>2 DEF MarkInvoice, MovesTo, TypeOK
        <4> QED
          BY <1>1, <4>1 DEF MarksTrueVersions
      <3> QED
        BY <3>1, <3>2
    <2> QED
      BY <2>1, <2>2, ReferenceKinds
  <1>3. ASSUME NEW r \in Requests, pc'[r] = "marking", kind'[r] # "file",
               NEW i \in todo'[r]
        PROVE  exportVersion'[i] > 0
    <2>1. CASE Record(r)
      <3>1. i \in Invoices /\ outcome[r][i] = "success"
        BY <1>3, <2>1 DEF Record, Successes, TypeOK
      <3>2. snap[r][i] \in Nat /\ snap[r][i] + 1 <= exportVersion[i]
        BY <3>1 DEF AnswerInv, TypeOK
      <3> QED
        BY <1>1, <3>1, <3>2 DEF TypeOK
    <2>2. CASE pc[r] = "marking" /\ kind[r] # "file" /\ todo'[r] \subseteq todo[r]
      BY <1>1, <1>3, <2>2 DEF MarksTrueVersions, TypeOK
    <2> QED
      BY <1>3, <2>1, <2>2, MarkingKinds
  <1> QED
    BY <1>2, <1>3 DEF MarksTrueVersions

----------------------------------------------------------------------------
(***************************************************************************)
(* What the batches keep: an export has its batch for itself, and a retry  *)
(* handles no item that has succeeded.                                     *)
(***************************************************************************)
\* From its first invoice to the write of its batch.
Exporting == Working \union {"next", "record"}

\* The invoices a handler has a result for, or will have one.
Handles(r) ==
    {i \in Invoices : \/ i \in todo[r]
                      \/ pc[r] \in Working /\ i = cur[r]
                      \/ outcome[r][i] # "none"}

\* A waiting or exporting handler has a batch to write.
HasBatch(r) ==
    pc[r] \in Exporting \union {"queued"} =>
        kind[r] \in {"export", "retry"} /\ target[r] \in Batches

\* The batch of an export is still unwritten, and nobody else's.
OwnsBatch(r) ==
    kind[r] = "export" /\ pc[r] \in Exporting =>
        /\ \A i \in Invoices : batch[target[r]][i] = NoItem
        /\ \A q \in Requests : target[q] = target[r] => q = r

\* A retry visits, and has results for, items that have not succeeded.
RetriesFailures(r) ==
    kind[r] = "retry" /\ pc[r] \in Exporting =>
        \A i \in Handles(r) : batch[target[r]][i].status # "SUCCESS"

BatchInv == \A r \in Requests : HasBatch(r) /\ OwnsBatch(r) /\ RetriesFailures(r)

\* In the loop a handler keeps its batch and goes over no more invoices.
LEMMA LoopContinues ==
  ASSUME TypeOK, StageInv, NEW r \in Requests, NEW q \in Requests,
         \/ \E i \in Invoices : Refuse(r, i) \/ Stage(r, i)
         \/ ReadConflict(r) \/ MapFails(r) \/ Post(r) \/ TallyImports(r)
         \/ TallyRejects(r) \/ PostAgain(r) \/ PostFails(r) \/ Promote(r)
         \/ PromoteFails(r) \/ Clear(r) \/ FinishLoop(r)
  PROVE  /\ UNCHANGED <<kind, target, batch>>
         /\ pc'[q] # pc[q] => pc[q] \in Exporting /\ pc'[q] \in Exporting
         /\ Handles(q)' \subseteq Handles(q)
  <1>1. ASSUME NEW i \in Invoices, Refuse(r, i) PROVE Handles(q)' \subseteq Handles(q)
    <2>1. /\ pc[r] = "next" /\ pc' = pc /\ i \in todo[r] /\ cur' = cur
          /\ todo'[q] \subseteq todo[q]
          /\ outcome'[q] = IF q = r THEN [outcome[q] EXCEPT ![i] = "failure"]
                                   ELSE outcome[q]
      BY <1>1 DEF Refuse, MovesTo, TypeOK
    <2> QED
      BY <2>1 DEF Handles, TypeOK
  <1>2. ASSUME NEW i \in Invoices, Stage(r, i) PROVE Handles(q)' \subseteq Handles(q)
    <2>1. /\ i \in todo[r] /\ todo'[q] \subseteq todo[q]
          /\ outcome' = outcome
          /\ q # r => cur'[q] = cur[q] /\ pc'[q] = pc[q]
          /\ q = r => cur'[q] = i
      BY <1>2 DEF Stage, MovesTo, TypeOK
    <2> QED
      BY <2>1 DEF Handles
  <1>3. ASSUME NEW from \in Working, NEW result, Settles(r, from, result)
        PROVE  Handles(q)' \subseteq Handles(q)
    <2>1. /\ todo' = todo /\ pc[r] \in Working /\ cur[r] \in Invoices
          /\ q # r => cur'[q] = cur[q] /\ pc'[q] = pc[q] /\ outcome'[q] = outcome[q]
          /\ q = r => pc'[q] = "next"
          /\ q = r => outcome'[q] = [outcome[q] EXCEPT ![cur[q]] = result]
      BY <1>3 DEF Settles, MovesTo, TypeOK, StageInv
    <2> QED
      BY <2>1 DEF Handles, TypeOK, Working
  <1>4. ASSUME \/ Post(r) \/ TallyImports(r) \/ TallyRejects(r) \/ PostAgain(r)
               \/ PostFails(r) \/ FinishLoop(r)
        PROVE  Handles(q)' \subseteq Handles(q)
    <2>1. /\ UNCHANGED <<todo, cur, outcome>>
          /\ pc'[q] = pc[q] \/ pc[q] \in Working \/ pc'[q] \notin Working
      BY <1>4 DEF Post, TallyImports, TallyRejects, PostAgain, PostFails, FinishLoop,
         MovesTo, loopVars, TypeOK, Working
    <2> QED
      BY <2>1 DEF Handles
  <1>5. Handles(q)' \subseteq Handles(q)
    BY <1>1, <1>2, <1>3, <1>4
    DEF ReadConflict, MapFails, Promote, PromoteFails, Clear, Working
  <1>6. ASSUME NEW from \in Exporting, NEW to \in Exporting, MovesTo(r, from, to)
        PROVE  /\ UNCHANGED <<kind, target, batch>>
               /\ pc'[q] # pc[q] => pc[q] \in Exporting /\ pc'[q] \in Exporting
    <2>1. /\ UNCHANGED <<kind, target, batch>>
          /\ pc[r] = from /\ pc' = [pc EXCEPT ![r] = to]
      BY <1>6 DEF MovesTo, reqVars
    <2>2. CASE q = r
      BY <2>1, <2>2 DEF TypeOK
    <2>3. CASE q # r
      BY <2>1, <2>3 DEF TypeOK
    <2> QED
      BY <2>1, <2>2, <2>3
  <1>7. \E from, to \in Exporting : MovesTo(r, from, to)
    <2>1. ASSUME NEW i \in Invoices, Refuse(r, i) \/ Stage(r, i)
          PROVE  \E to \in Exporting : MovesTo(r, "next", to)
      BY <2>1 DEF Refuse, Stage, Exporting, Working
    <2>2. ASSUME \/ ReadConflict(r) \/ MapFails(r) \/ Promote(r) \/ PromoteFails(r)
                 \/ Clear(r)
          PROVE  \E from \in Working : MovesTo(r, from, "next")
      BY <2>2 DEF ReadConflict, MapFails, Promote, PromoteFails, Clear, Settles, Working
    <2>3. ASSUME Post(r) \/ TallyImports(r) \/ TallyRejects(r) \/ PostAgain(r) \/ PostFails(r)
          PROVE  \E from, to \in Working : MovesTo(r, from, to)
      BY <2>3 DEF Post, TallyImports, TallyRejects, PostAgain, PostFails, Working
    <2>4. FinishLoop(r) => MovesTo(r, "next", "record")
      BY DEF FinishLoop
    <2> QED
      BY <2>1, <2>2, <2>3, <2>4 DEF Exporting
  <1> QED
    BY <1>5, <1>6, <1>7

\* What the other handlers keep of BatchInv when one of them takes a step that
\* leaves the batches alone and takes no export's batch.
LEMMA OthersKeepBatches ==
  ASSUME BatchInv, NEW r \in Requests, batch' = batch,
         \A q \in Requests \ {r} :
             /\ pc'[q] = pc[q] /\ kind'[q] = kind[q] /\ target'[q] = target[q]
             /\ todo'[q] = todo[q] /\ cur'[q] = cur[q] /\ outcome'[q] = outcome[q],
         \A q \in Requests \ {r} :
             kind[q] = "export" /\ pc[q] \in Exporting => target'[r] # target[q],
         HasBatch(r)' /\ OwnsBatch(r)' /\ RetriesFailures(r)'
  PROVE  BatchInv'
  <1> SUFFICES ASSUME NEW q \in Requests \ {r}
               PROVE  HasBatch(q)' /\ OwnsBatch(q)' /\ RetriesFailures(q)'
    BY DEF BatchInv
  <1>1. HasBatch(q)'
    BY DEF BatchInv, HasBatch
  <1>2. OwnsBatch(q)'
    BY DEF BatchInv, OwnsBatch
  <1>3. RetriesFailures(q)'
    <2>1. Handles(q)' = Handles(q)
      BY DEF Handles
    <2> QED
      BY <2>1 DEF BatchInv, RetriesFailures
  <1> QED
    BY <1>1, <1>2, <1>3

\* Each step keeps every handler's claim on its batch.
LEMMA BatchStep ==
  ASSUME TypeOK, QueueInv, StageInv, BatchInv, [Next]_vars
  PROVE  BatchInv'
  <1> USE ConstantsAssumption
  <1>1. ASSUME NEW r \in Requests, StartExport(r) PROVE BatchInv'
    <2>1. PICK ids \in SUBSET Invoices, b \in Batches :
             FreshBatch(b) /\ Begin(r, "export", "next", ids, b)
      BY <1>1 DEF StartExport, Approved
    <2>2. /\ pc' = [pc EXCEPT ![r] = "next"] /\ kind' = [kind EXCEPT ![r] = "export"]
          /\ target' = [target EXCEPT ![r] = b] /\ todo' = [todo EXCEPT ![r] = ids]
          /\ UNCHANGED <<batch, cur, outcome>>
      BY <2>1 DEF Begin
    <2>3. HasBatch(r)' /\ OwnsBatch(r)' /\ RetriesFailures(r)'
      BY <2>1, <2>2 DEF HasBatch, OwnsBatch, RetriesFailures, FreshBatch, TypeOK
    <2>4. \A q \in Requests \ {r} :
             /\ pc'[q] = pc[q] /\ kind'[q] = kind[q] /\ target'[q] = target[q]
             /\ todo'[q] = todo[q] /\ cur'[q] = cur[q] /\ outcome'[q] = outcome[q]
             /\ target'[r] # target[q]
      BY <2>1, <2>2 DEF FreshBatch, TypeOK
    <2> QED
      BY <2>2, <2>3, <2>4, OthersKeepBatches
  <1>2. ASSUME NEW r \in Requests, StartFile(r) PROVE BatchInv'
    <2>1. PICK ids \in SUBSET Invoices : Begin(r, "file", "file", ids, NoBatch)
      BY <1>2 DEF StartFile, Approved
    <2>2. /\ pc' = [pc EXCEPT ![r] = "file"] /\ kind' = [kind EXCEPT ![r] = "file"]
          /\ target' = [target EXCEPT ![r] = NoBatch] /\ todo' = [todo EXCEPT ![r] = ids]
          /\ UNCHANGED <<batch, cur, outcome>>
      BY <2>1 DEF Begin
    <2>3. HasBatch(r)' /\ OwnsBatch(r)' /\ RetriesFailures(r)'
      BY <2>2 DEF HasBatch, OwnsBatch, RetriesFailures, Exporting, Working, TypeOK
    <2>4. \A q \in Requests \ {r} :
             /\ pc'[q] = pc[q] /\ kind'[q] = kind[q] /\ target'[q] = target[q]
             /\ todo'[q] = todo[q] /\ cur'[q] = cur[q] /\ outcome'[q] = outcome[q]
             /\ target'[r] = NoBatch
      BY <2>2 DEF TypeOK
    <2> QED
      BY <2>2, <2>3, <2>4, OthersKeepBatches DEF BatchInv, HasBatch
  <1>3. ASSUME NEW r \in Requests, RequestRetry(r) PROVE BatchInv'
    <2>1. PICK b \in Batches : /\ \E i \in Invoices : batch[b][i] # NoItem
                              /\ Begin(r, "retry", "queued", {}, b)
      BY <1>3 DEF RequestRetry
    <2>2. /\ pc' = [pc EXCEPT ![r] = "queued"] /\ kind' = [kind EXCEPT ![r] = "retry"]
          /\ target' = [target EXCEPT ![r] = b] /\ todo' = [todo EXCEPT ![r] = {}]
          /\ UNCHANGED <<batch, cur, outcome>>
      BY <2>1 DEF Begin
    <2>3. HasBatch(r)' /\ OwnsBatch(r)' /\ RetriesFailures(r)'
      BY <2>2 DEF HasBatch, OwnsBatch, RetriesFailures, Exporting, Working, TypeOK
    <2>4. \A q \in Requests \ {r} :
             /\ pc'[q] = pc[q] /\ kind'[q] = kind[q] /\ target'[q] = target[q]
             /\ todo'[q] = todo[q] /\ cur'[q] = cur[q] /\ outcome'[q] = outcome[q]
             /\ target'[r] = b
      BY <2>2 DEF TypeOK
    <2>5. \A q \in Requests : kind[q] = "export" /\ pc[q] \in Exporting => target[q] # b
      BY <2>1 DEF BatchInv, OwnsBatch
    <2> QED
      BY <2>2, <2>3, <2>4, <2>5, OthersKeepBatches
  <1>4. ASSUME NEW r \in Requests, Finish(r), batch' = batch PROVE BatchInv'
    <2>1. HasBatch(r)' /\ OwnsBatch(r)' /\ RetriesFailures(r)'
      BY <1>4 DEF Finish, HasBatch, OwnsBatch, RetriesFailures, Exporting, Working, TypeOK
    <2>2. \A q \in Requests \ {r} :
             /\ pc'[q] = pc[q] /\ kind'[q] = kind[q] /\ target'[q] = target[q]
             /\ todo'[q] = todo[q] /\ cur'[q] = cur[q] /\ outcome'[q] = outcome[q]
             /\ target'[r] = NoBatch
      BY <1>4 DEF Finish, TypeOK
    <2> QED
      BY <1>4, <2>1, <2>2, OthersKeepBatches DEF BatchInv, HasBatch
  <1>5. ASSUME NEW r \in Requests, BeginRetry(r) PROVE BatchInv'
    <2>1. /\ pc[r] = "queued" /\ kind[r] = "retry" /\ target[r] \in Batches
          /\ outcome[r] = NoOutcome
      BY <1>5 DEF BeginRetry, MayBegin, StageInv, BatchInv, HasBatch
    <2>2. /\ pc' = [pc EXCEPT ![r] = "next"]
          /\ todo'[r] \subseteq Failures(target[r])
          /\ \A q \in Requests \ {r} : todo'[q] = todo[q]
          /\ UNCHANGED <<batch, kind, target, cur, outcome>>
      BY <1>5 DEF BeginRetry, TypeOK
    <2>3. Handles(r)' \subseteq Failures(target[r])
      BY <2>1, <2>2 DEF Handles, Working, NoOutcome, TypeOK
    <2>4. HasBatch(r)' /\ OwnsBatch(r)' /\ RetriesFailures(r)'
      BY <2>1, <2>2, <2>3 DEF HasBatch, OwnsBatch, RetriesFailures, Failures, TypeOK
    <2>5. \A q \in Requests \ {r} :
             /\ pc'[q] = pc[q] /\ kind'[q] = kind[q] /\ target'[q] = target[q]
             /\ todo'[q] = todo[q] /\ cur'[q] = cur[q] /\ outcome'[q] = outcome[q]
             /\ kind[q] = "export" /\ pc[q] \in Exporting => target'[r] # target[q]
      BY <2>2 DEF BatchInv, OwnsBatch, TypeOK
    <2> QED
      BY <2>2, <2>4, <2>5, OthersKeepBatches
  <1>6. ASSUME NEW r \in Requests,
               \/ \E i \in Invoices : Refuse(r, i) \/ Stage(r, i)
               \/ ReadConflict(r) \/ MapFails(r) \/ Post(r) \/ TallyImports(r)
               \/ TallyRejects(r) \/ PostAgain(r) \/ PostFails(r) \/ Promote(r)
               \/ PromoteFails(r) \/ Clear(r) \/ FinishLoop(r)
        PROVE  BatchInv'
    <2>1. ASSUME NEW q \in Requests
          PROVE  /\ UNCHANGED <<kind, target, batch>>
                 /\ pc'[q] # pc[q] => pc[q] \in Exporting /\ pc'[q] \in Exporting
                 /\ Handles(q)' \subseteq Handles(q)
      BY <1>6, LoopContinues
    <2>2. ASSUME NEW q \in Requests
          PROVE  HasBatch(q)' /\ OwnsBatch(q)' /\ RetriesFailures(q)'
      BY <2>1 DEF BatchInv, HasBatch, OwnsBatch, RetriesFailures
    <2> QED
      BY <2>2 DEF BatchInv
  <1>7. ASSUME NEW r \in Requests, Record(r) PROVE BatchInv'
    <2>1. /\ pc[r] = "record" /\ pc' = [pc EXCEPT ![r] = "marking"]
          /\ \A b \in Batches \ {target[r]} : batch'[b] = batch[b]
          /\ \A q \in Requests \ {r} : todo'[q] = todo[q]
          /\ UNCHANGED <<cur, outcome, kind, target>>
      BY <1>7 DEF Record, reqVars, TypeOK
    <2>2. kind[r] \in {"export", "retry"}
      BY <2>1 DEF BatchInv, HasBatch, Exporting
    <2>3. HasBatch(r)' /\ OwnsBatch(r)' /\ RetriesFailures(r)'
      BY <2>1 DEF HasBatch, OwnsBatch, RetriesFailures, Exporting, Working, TypeOK
    <2>4. ASSUME NEW q \in Requests \ {r}
          PROVE  HasBatch(q)' /\ OwnsBatch(q)' /\ RetriesFailures(q)'
      <3>1. pc'[q] = pc[q] /\ Handles(q)' = Handles(q)
        BY <2>1 DEF Handles, TypeOK
      <3>2. HasBatch(q)'
        BY <2>1, <3>1 DEF BatchInv, HasBatch
      <3>3. OwnsBatch(q)'
        <4> SUFFICES ASSUME kind[q] = "export", pc[q] \in Exporting PROVE OwnsBatch(q)'
          BY <2>1, <3>1 DEF OwnsBatch
        <4>1. target[q] \in Batches \ {target[r]}
          BY DEF BatchInv, HasBatch, OwnsBatch
        <4> QED
          BY <2>1, <3>1, <4>1 DEF BatchInv, OwnsBatch
      <3>4. RetriesFailures(q)'
        <4> SUFFICES ASSUME kind[q] = "retry", pc[q] \in Exporting PROVE RetriesFailures(q)'
          BY <2>1, <3>1 DEF RetriesFailures
        <4>1. target[q] \in Batches
          BY DEF BatchInv, HasBatch
        <4>2. kind[r] # "retry"
          BY <2>1 DEF QueueInv, Exporting, Working
        <4>3. target[q] # target[r]
          BY <2>1, <2>2, <4>2 DEF BatchInv, OwnsBatch, Exporting
        <4> QED
          BY <2>1, <3>1, <4>1, <4>3 DEF BatchInv, RetriesFailures
      <3> QED
        BY <3>2, <3>3, <3>4
    <2> QED
      BY <2>3, <2>4 DEF BatchInv
  <1>8. ASSUME NEW r \in Requests,
               \/ StoreFile(r)
               \/ \E i \in Invoices : MarkInvoice(r, i) \/ MarkFails(r, i)
        PROVE  BatchInv'
    <2>1. /\ pc'[r] = "marking" /\ \A q \in Requests \ {r} : pc'[q] = pc[q]
          /\ \A q \in Requests \ {r} : todo'[q] = todo[q]
          /\ UNCHANGED <<batch, cur, outcome, kind, target>>
          /\ pc[r] \in {"file", "marking"}
      BY <1>8 DEF StoreFile, MarkInvoice, MarkFails, MovesTo, reqVars, TypeOK
    <2>2. HasBatch(r)' /\ OwnsBatch(r)' /\ RetriesFailures(r)'
      BY <2>1 DEF HasBatch, OwnsBatch, RetriesFailures, Exporting, Working
    <2>3. \A q \in Requests \ {r} :
             kind[q] = "export" /\ pc[q] \in Exporting => target'[r] # target[q]
      BY <2>1 DEF BatchInv, OwnsBatch
    <2> QED
      BY <2>1, <2>2, <2>3, OthersKeepBatches
  <1>9. ASSUME UNCHANGED <<pc, kind, target, batch, todo, cur, outcome>> PROVE BatchInv'
    BY <1>9 DEF BatchInv, HasBatch, OwnsBatch, RetriesFailures, Handles
  <1>10. CASE Crash
    BY <1>10 DEF Crash, BatchInv, HasBatch, OwnsBatch, RetriesFailures, Exporting, Working
  <1> QED
    BY <1>1, <1>2, <1>3, <1>4, <1>5, <1>6, <1>7, <1>8, <1>9, <1>10
    DEF Next, Arrive, Advance, NothingToRetry, RecordFails, NoFile, FinishMarking,
        LateImport, DeleteInvoice, vars, loopVars, reqVars

\* A success item is in no handler's way: exports write batches of their own, and
\* retries only the items they handle.
LEMMA SuccessKept ==
  ASSUME TypeOK, StageInv, BatchInv, [Next]_vars,
         NEW b \in Batches, NEW i \in Invoices, batch[b][i].status = "SUCCESS"
  PROVE  batch'[b][i] = batch[b][i]
  <1>1. CASE batch' = batch
    BY <1>1
  <1>2. ASSUME NEW r \in Requests, Record(r) PROVE batch'[b][i] = batch[b][i]
    <2>1. CASE b # target[r]
      BY <1>2, <2>1 DEF Record, TypeOK
    <2>2. CASE b = target[r]
      <3>1. /\ pc[r] \in Exporting
            /\ kind[r] \in {"export", "retry"}
        BY <1>2 DEF Record, Exporting, BatchInv, HasBatch
      <3>2. kind[r] = "retry"
        <4>1. batch[b][i] # NoItem
          BY DEF NoItem
        <4> QED
          BY <2>2, <3>1, <4>1 DEF BatchInv, OwnsBatch
      <3>3. outcome[r][i] = "none"
        BY <2>2, <3>1, <3>2 DEF BatchInv, RetriesFailures, Handles
      <3> QED
        BY <1>2, <2>2, <3>2, <3>3 DEF Record, MergedItem, TypeOK
    <2> QED
      BY <2>1, <2>2
  <1> QED
    BY <1>1, <1>2, BatchWriters

----------------------------------------------------------------------------
(***************************************************************************)
(* The theorems.                                                           *)
(***************************************************************************)
\* Every part of the inductive invariant holds in every reachable state.
THEOREM Invariance == Spec => []IndInv
  <1>1. Init => IndInv
    BY InitInv
  <1>2. IndInv /\ [Next]_vars => IndInv'
    <2> SUFFICES ASSUME IndInv, [Next]_vars PROVE IndInv'
      OBVIOUS
    <2>1. TypeOK' /\ QueueInv' /\ StageInv'
      BY TypeStep, QueueStep, StageStep DEF IndInv
    <2> QED
      BY <2>1, VersionStep, SnapshotStep, AnswerStep, ItemStep DEF IndInv
  <1> QED
    BY <1>1, <1>2, PTL DEF Spec

\* The types of the documents, of Tally's books and of the requests.
THEOREM TypeCorrect == Spec => []TypeOK
  <1>1. IndInv => TypeOK
    BY DEF IndInv
  <1> QED
    BY <1>1, Invariance, PTL

\* An invoice's stage is always the version after the committed one.
THEOREM StageFollowsVersion == Spec => []InFlightIsNext
  <1>1. IndInv => InFlightIsNext
    BY DEF IndInv
  <1> QED
    BY <1>1, Invariance, PTL

\* Tally holds every version the database has committed.
THEOREM DatabaseBehindTally == Spec => []DbNeverAhead
  <1>1. IndInv => DbNeverAhead
    BY DEF IndInv
  <1> QED
    BY <1>1, Invariance, PTL

\* No post, late or lost, takes Tally more than one version ahead.
THEOREM TallyNearDatabase == Spec => []TallyAtMostOneAhead
  <1>1. IndInv => TallyAtMostOneAhead
    BY DEF IndInv
  <1> QED
    BY <1>1, Invariance, PTL

\* A refused stage means the document is gone or was exported meanwhile.
THEOREM ConflictExplained == Spec => []ConflictMeansVersionMoved
  <1>1. Init => ConflictMeansVersionMoved
    BY DEF Init, ConflictMeansVersionMoved
  <1>2. IndInv /\ ConflictMeansVersionMoved /\ [Next]_vars => ConflictMeansVersionMoved'
    BY ConflictStep
  <1> QED
    BY <1>1, <1>2, Invariance, PTL DEF Spec

\* A success item of a batch names a committed voucher.
THEOREM BatchIsTruthful == Spec => []SuccessItemIsInTally
  <1>1. IndInv => SuccessItemIsInTally
    BY DEF IndInv
  <1> QED
    BY <1>1, Invariance, PTL

\* An invoice marked as exported to Tally has a committed version.
THEOREM ExportsHaveVersions == Spec => []ExportedHasVersion
  <1>1. Init => MarksTrueVersions
    BY DEF Init, MarksTrueVersions
  <1>2. IndInv /\ MarksTrueVersions /\ [Next]_vars => MarksTrueVersions'
    BY MarkStep
  <1>3. MarksTrueVersions => ExportedHasVersion
    BY DEF MarksTrueVersions, ExportedHasVersion
  <1> QED
    BY <1>1, <1>2, <1>3, Invariance, PTL DEF Spec

\* No retry, however late or repeated, turns a success item back.
THEOREM SuccessIsFinal == Spec => SuccessItemIsFinal
  <1>1. Init => BatchInv
    BY DEF Init, BatchInv, HasBatch, OwnsBatch, RetriesFailures, Exporting, Working
  <1>2. IndInv /\ BatchInv /\ [Next]_vars => BatchInv'
    BY BatchStep DEF IndInv
  <1>3. IndInv /\ BatchInv /\ [Next]_vars =>
          [\A b \in Batches, i \in Invoices :
              batch[b][i].status = "SUCCESS" => batch'[b][i] = batch[b][i]]_vars
    BY SuccessKept DEF IndInv
  <1> QED
    BY <1>1, <1>2, <1>3, Invariance, PTL DEF Spec, SuccessItemIsFinal

\* The guard, with every interleaving, crash and late post, implements the
\* abstract register of vouchers.
THEOREM Refinement == Spec => RegisterSpec
  <1>1. Init => Register!Init
    BY DEF Init, Register!Init
  <1>2. IndInv /\ [Next]_vars => [Register!Next]_(Register!vars)
    <2> SUFFICES ASSUME IndInv, [Next]_vars PROVE [Register!Next]_(Register!vars)
      OBVIOUS
    <2> USE DEF IndInv
    <2>1. CASE vouchers' = vouchers /\ exportVersion' = exportVersion
      BY <2>1 DEF Register!vars
    <2>2. CASE vouchers' = vouchers /\ Commits
      BY <2>2 DEF Commits, Register!Next, Register!Commit
    <2>3. CASE /\ exportVersion' = exportVersion
               /\ \E i \in Invoices : \E k \in 1 .. exportVersion[i] + 1 :
                     vouchers' = vouchers \union {<<i, k>>}
      BY <2>3 DEF Register!Next, Register!PostVoucher
    <2> QED
      BY <2>1, <2>2, <2>3, VersionKinds, ImportKinds DEF Keeps, StagesNext, Clears
  <1> QED
    BY <1>1, <1>2, Invariance, PTL DEF Spec, RegisterSpec, Register!Spec
=============================================================================
