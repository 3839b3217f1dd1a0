---------------------------- MODULE TallyExport ----------------------------
(***************************************************************************)
(* Posting approved invoices to Tally (services/export): the two-phase     *)
(* version guard of tallyReExportGuard.ts, the per-invoice loop of         *)
(* tallyExporter.ts, and the two operations of exportService.ts that drive *)
(* it (exportApprovedInvoices, retryFailedItems), beside what touches the  *)
(* same documents meanwhile: the XML file export, the deletion of an       *)
(* invoice, a crash of the process.                                        *)
(*                                                                         *)
(* A request is one HTTP request being served; every `await` of its        *)
(* handler is a point where the other requests may run.  Tally is          *)
(* external: it identifies a voucher by its GUID, and the GUID is a hash   *)
(* of the client org, the invoice and the export version, so a voucher is  *)
(* a pair <<invoice, version>>.                                            *)
(***************************************************************************)
EXTENDS Naturals, Sequences, FiniteSets

CONSTANTS
    Invoices,    \* invoices of one client org that have been approved
    Requests,    \* slots for requests served at the same time
    Batches,     \* identities of ExportBatch documents
    NoInvoice,   \* no invoice is being worked on
    NoBatch,     \* the request has no batch
    MaxRuns      \* bound: how many export, file and retry requests are made

ASSUME ConstantsAssumption ==
    /\ NoInvoice \notin Invoices
    /\ NoBatch \notin Batches
    /\ MaxRuns \in Nat

Null == 0          \* inFlightExportVersion: null (a staged version is >= 1)
MaxRetries == 1    \* default argument of postWithRetry

VARIABLES
    status,         \* Invoice.status: APPROVED, EXPORTED, or DELETED
    exportVersion,  \* Invoice.exportVersion
    inFlight,       \* Invoice.inFlightExportVersion
    reference,      \* what Invoice.export.externalReference points at
    batch,          \* ExportBatch.items, one entry per invoice
    vouchers,       \* vouchers Tally holds
    late,           \* posts whose answer never came: imported later, or never
    retryQueue,     \* tenantRetryQueues: the tenant's chain of retries
    kind,           \* what a request does: export, file or retry
    pc,             \* where its handler is
    todo,           \* invoices its current loop has still to visit
    snap,           \* exportVersion of the documents it loaded
    cur,            \* invoice it is working on
    attempt,        \* posts of the current voucher that already failed
    outcome,        \* ExportResultItem of each invoice it has visited
    target,         \* the batch it creates or retries
    runs            \* requests made so far, at most MaxRuns

docVars   == <<status, exportVersion, inFlight, reference>>
tallyVars == <<vouchers, late>>
loopVars  == <<todo, cur, attempt, outcome>>
reqVars   == <<kind, snap, target>>
vars == <<docVars, batch, tallyVars, retryQueue, pc, loopVars, reqVars, runs>>

Statuses   == {"APPROVED", "EXPORTED", "DELETED"}
References == {"none", "voucher", "file"}
Kinds      == {"none", "export", "file", "retry"}
Stages     == {"idle", "queued", "next", "conflict", "staged", "posting",
               "accepted", "rejected", "failed", "record", "marking", "file"}
Outcomes   == {"none", "success", "rejected", "failure"}
Item       == [status : {"none", "SUCCESS", "FAILURE"}, version : Nat]
NoItem     == [status |-> "none", version |-> 0]
NoOutcome  == [i \in Invoices |-> "none"]
NoSnapshot == [i \in Invoices |-> 0]

\* Every approved invoice starts as it was ingested: never exported.
Init ==
    /\ status        = [i \in Invoices |-> "APPROVED"]
    /\ exportVersion = [i \in Invoices |-> 0]
    /\ inFlight      = [i \in Invoices |-> Null]
    /\ reference     = [i \in Invoices |-> "none"]
    /\ batch         = [b \in Batches |-> [i \in Invoices |-> NoItem]]
    /\ vouchers   = {}
    /\ late       = {}
    /\ retryQueue = <<>>
    /\ kind    = [r \in Requests |-> "none"]
    /\ pc      = [r \in Requests |-> "idle"]
    /\ todo    = [r \in Requests |-> {}]
    /\ snap    = [r \in Requests |-> NoSnapshot]
    /\ cur     = [r \in Requests |-> NoInvoice]
    /\ attempt = [r \in Requests |-> 0]
    /\ outcome = [r \in Requests |-> NoOutcome]
    /\ target  = [r \in Requests |-> NoBatch]
    /\ runs    = 0

(***************************************************************************)
(* The re-export decision and the guard's conditions on the document.  Its *)
(* writes are one updateOne each, so atomic; none matches a deleted        *)
(* document.                                                               *)
(***************************************************************************)
Exists(i)  == status[i] # "DELETED"
Staged(r)  == snap[r][cur[r]] + 1          \* decision.nextExportVersion
Voucher(r) == <<cur[r], Staged(r)>>        \* computeVoucherGuid

\* resolveReExportDecision: Create only for a first export outside a retry.
Action(r) ==
    IF snap[r][cur[r]] = 0 /\ kind[r] # "retry" THEN "Create" ELSE "Alter"

\* Mutant: the compare-and-set forgets the version.
MayStageAnyVersion(i, v) == Exists(i) /\ inFlight[i] \in {Null, v + 1}

\* Mutant: a stage left behind by a crash is not accepted again.
MayStageOnlyUnstaged(i, v) ==
    Exists(i) /\ exportVersion[i] = v /\ inFlight[i] = Null

\* The filter of stageInFlightExportVersion for a request that read version v.
MayStage(i, v) ==
    /\ Exists(i)
    /\ exportVersion[i] = v
    /\ inFlight[i] \in {Null, v + 1}

\* Mutant: promote and clear match any document of that id.
HoldsAnything(i, staged) == Exists(i)

\* The filter of promoteExportVersion and clearInFlightExportVersion.
HoldsStage(i, staged) == Exists(i) /\ inFlight[i] = staged

(***************************************************************************)
(* Requests arrive.                                                        *)
(***************************************************************************)
Begin(r, what, stage, work, b) ==
    /\ pc[r] = "idle"
    /\ runs < MaxRuns
    /\ runs'   = runs + 1
    /\ kind'   = [kind EXCEPT ![r] = what]
    /\ pc'     = [pc EXCEPT ![r] = stage]
    /\ todo'   = [todo EXCEPT ![r] = work]
    /\ target' = [target EXCEPT ![r] = b]
    /\ UNCHANGED <<docVars, batch, tallyVars, cur, attempt, outcome>>

Approved == {i \in Invoices : status[i] = "APPROVED"}

\* A batch identity nobody uses; the document itself is created in RecordBatch.
FreshBatch(b) ==
    /\ \A i \in Invoices : batch[b][i] = NoItem
    /\ \A r \in Requests : target[r] # b

\* exportApprovedInvoices up to its query, for the approved invoices among
\* the ids the request names (all of them when it names none).
StartExport(r) ==
    /\ \E ids \in SUBSET Approved \ {{}}, b \in Batches :
        FreshBatch(b) /\ Begin(r, "export", "next", ids, b)
    /\ snap' = [snap EXCEPT ![r] = exportVersion]
    /\ UNCHANGED retryQueue

\* generateExportFile up to its query.
StartFile(r) ==
    /\ \E ids \in SUBSET Approved \ {{}} : Begin(r, "file", "file", ids, NoBatch)
    /\ UNCHANGED <<snap, retryQueue>>

\* retryFailedItems chains itself behind the tenant's earlier retries.
RequestRetry(r) ==
    /\ \E b \in Batches :
        /\ \E i \in Invoices : batch[b][i] # NoItem
        /\ Begin(r, "retry", "queued", {}, b)
    /\ retryQueue' = Append(retryQueue, r)
    /\ UNCHANGED snap

\* Mutant: a retry that fails keeps its turn.
QueueAfterSuccess(r) ==
    IF kind[r] = "retry" /\ pc[r] = "marking" THEN Tail(retryQueue) ELSE retryQueue

\* A retry that has settled, well or badly, lets the next one start.
QueueAfter(r) == IF kind[r] = "retry" THEN Tail(retryQueue) ELSE retryQueue

\* A finished request keeps nothing.
Finish(r) ==
    /\ kind'    = [kind EXCEPT ![r] = "none"]
    /\ pc'      = [pc EXCEPT ![r] = "idle"]
    /\ todo'    = [todo EXCEPT ![r] = {}]
    /\ snap'    = [snap EXCEPT ![r] = NoSnapshot]
    /\ cur'     = [cur EXCEPT ![r] = NoInvoice]
    /\ attempt' = [attempt EXCEPT ![r] = 0]
    /\ outcome' = [outcome EXCEPT ![r] = NoOutcome]
    /\ target'  = [target EXCEPT ![r] = NoBatch]
    /\ retryQueue' = QueueAfter(r)
    /\ UNCHANGED runs

Failures(b) == {i \in Invoices : batch[b][i].status = "FAILURE"}

\* Mutant: no mutex, a retry starts as soon as it is requested.
MayBeginUnqueued(r) == pc[r] = "queued"

\* runWithTenantMutex: the work of r runs once every earlier work has settled.
MayBegin(r) == pc[r] = "queued" /\ Head(retryQueue) = r

\* Load the batch, choose among its failed items, load their invoices
\* whatever their status.
BeginRetry(r) ==
    /\ MayBegin(r)
    /\ \E ids \in SUBSET Failures(target[r]) \ {{}} :
        todo' = [todo EXCEPT ![r] = {i \in ids : Exists(i)}]
    /\ pc'   = [pc EXCEPT ![r] = "next"]
    /\ snap' = [snap EXCEPT ![r] = exportVersion]
    /\ UNCHANGED <<docVars, batch, tallyVars, retryQueue, kind, cur, attempt,
                   outcome, target, runs>>

\* ExportRetryNoFailuresError: no failed item, or none that was asked for.
NothingToRetry(r) ==
    /\ MayBegin(r)
    /\ Finish(r)
    /\ UNCHANGED <<docVars, batch, tallyVars>>

(***************************************************************************)
(* The exporter's loop, one invoice at a time.                             *)
(***************************************************************************)
MovesTo(r, from, to) ==
    /\ pc[r] = from
    /\ pc' = [pc EXCEPT ![r] = to]
    /\ UNCHANGED <<batch, retryQueue, reqVars, runs>>

\* The handler has a result for its current invoice and takes the next one.
Settles(r, from, result) ==
    /\ MovesTo(r, from, "next")
    /\ outcome' = [outcome EXCEPT ![r][cur[r]] = result]
    /\ cur'     = [cur EXCEPT ![r] = NoInvoice]
    /\ attempt' = [attempt EXCEPT ![r] = 0]
    /\ UNCHANGED todo

\* Nothing is staged when the invoice fails validation, its organisation is
\* gone, an Alter finds the F12 flag unset (an admin may set or unset it at
\* any time), or the database fails.
Refuse(r, i) ==
    /\ i \in todo[r]
    /\ MovesTo(r, "next", "next")
    /\ todo'    = [todo EXCEPT ![r] = @ \ {i}]
    /\ outcome' = [outcome EXCEPT ![r][i] = "failure"]
    /\ UNCHANGED <<docVars, tallyVars, cur, attempt>>

\* stageInFlightExportVersion: the compare-and-set ...
Stage(r, i) ==
    /\ i \in todo[r]
    /\ todo' = [todo EXCEPT ![r] = @ \ {i}]
    /\ cur'  = [cur EXCEPT ![r] = i]
    /\ \/ /\ MayStage(i, snap[r][i])
          /\ inFlight' = [inFlight EXCEPT ![i] = snap[r][i] + 1]
          /\ MovesTo(r, "next", "staged")
       \/ /\ ~MayStage(i, snap[r][i])
          /\ inFlight' = inFlight
          /\ MovesTo(r, "next", "conflict")
    /\ UNCHANGED <<status, exportVersion, reference, tallyVars, attempt, outcome>>

\* ... and the second read, which names the conflict it then throws.
ReadConflict(r) ==
    /\ Settles(r, "conflict", "failure")
    /\ UNCHANGED <<docVars, tallyVars>>

\* mapInvoiceToVoucher throws (MissingVendorStateError): the stage stays.
MapFails(r) ==
    /\ Settles(r, "staged", "failure")
    /\ UNCHANGED <<docVars, tallyVars>>

Post(r) ==
    /\ MovesTo(r, "staged", "posting")
    /\ UNCHANGED <<docVars, tallyVars, loopVars>>

TallyImports(r) ==
    /\ MovesTo(r, "posting", "accepted")
    /\ vouchers' = vouchers \union {Voucher(r)}
    /\ UNCHANGED <<docVars, late, loopVars>>

\* Mutant: the answer is not read.
AnswerUnread(r) ==
    /\ MovesTo(r, "posting", "accepted")
    /\ UNCHANGED <<docVars, tallyVars, loopVars>>

\* ERRORS > 0 or a LINEERROR: Tally answered and imported nothing.
TallyRejects(r) ==
    /\ MovesTo(r, "posting", "rejected")
    /\ UNCHANGED <<docVars, tallyVars, loopVars>>

\* Mutant: one post too many.
MayPostOnceMore(r) == attempt[r] <= MaxRetries

MayPostAgain(r) == attempt[r] < MaxRetries

\* No answer (connection lost, 30 s timeout): the same payload again, once.
PostAgain(r) ==
    /\ MovesTo(r, "posting", "posting")
    /\ MayPostAgain(r)
    /\ attempt' = [attempt EXCEPT ![r] = @ + 1]
    /\ late'    = late \union {Voucher(r)}
    /\ UNCHANGED <<docVars, vouchers, todo, cur, outcome>>

\* No answer again, an HTTP error, or an answer that cannot be parsed.
PostFails(r) ==
    /\ MovesTo(r, "posting", "failed")
    /\ late' = late \union {Voucher(r)}
    /\ UNCHANGED <<docVars, vouchers, loopVars>>

\* Tally gets to a post whose sender has stopped waiting.
LateImport(m) ==
    /\ m \in late
    /\ late'     = late \ {m}
    /\ vouchers' = vouchers \union {m}
    /\ UNCHANGED <<docVars, batch, retryQueue, pc, loopVars, reqVars, runs>>

\* promoteExportVersion, then success, or a failure when its answer is lost.
Promote(r) ==
    /\ Settles(r, "accepted", "success") \/ Settles(r, "accepted", "failure")
    /\ HoldsStage(cur[r], Staged(r))
    /\ exportVersion' = [exportVersion EXCEPT ![cur[r]] = Staged(r)]
    /\ inFlight'      = [inFlight EXCEPT ![cur[r]] = Null]
    /\ UNCHANGED <<status, reference, tallyVars>>

\* The stage was taken away meanwhile, or the write was lost: Tally keeps the
\* voucher, the document its version and, in the second case, its stage.
PromoteFails(r) ==
    /\ Settles(r, "accepted", "failure")
    /\ UNCHANGED <<docVars, tallyVars>>

\* clearInFlightExportVersion after a failed post or a rejection; a failing
\* clear is only logged.
ClearStage(i, staged) ==
    \/ inFlight' = [inFlight EXCEPT ![i] = IF HoldsStage(i, staged) THEN Null ELSE @]
    \/ inFlight' = inFlight

Clear(r) ==
    /\ \/ Settles(r, "failed", "failure")
       \/ Settles(r, "rejected", "rejected")
    /\ ClearStage(cur[r], Staged(r))
    /\ UNCHANGED <<status, exportVersion, reference, tallyVars>>

FinishLoop(r) ==
    /\ todo[r] = {}
    /\ MovesTo(r, "next", "record")
    /\ UNCHANGED <<docVars, tallyVars, loopVars>>

(***************************************************************************)
(* The batch and the invoices are written after the loop.                  *)
(***************************************************************************)
\* Mutant: the prior version is reported.
PriorVersion(r, i) == IF outcome[r][i] = "failure" THEN 0 ELSE snap[r][i]

\* The version a result carries; none when Tally gave no answer.
ResultVersion(r, i) == IF outcome[r][i] = "failure" THEN 0 ELSE snap[r][i] + 1

ResultStatus(r, i) == IF outcome[r][i] = "success" THEN "SUCCESS" ELSE "FAILURE"

\* buildBatchItemsFromResults: only an answered post has a version.
NewItem(r, i) ==
    IF outcome[r][i] = "none"
    THEN NoItem
    ELSE [status |-> ResultStatus(r, i), version |-> ResultVersion(r, i)]

\* mergeRetryResultIntoItem: without a version of its own the result keeps
\* the prior one.
MergedItem(r, i, prior) ==
    IF outcome[r][i] = "none"
    THEN prior
    ELSE [status  |-> ResultStatus(r, i),
          version |-> IF outcome[r][i] = "failure" THEN prior.version
                                                   ELSE ResultVersion(r, i)]

\* Mutant: every invoice visited is marked.
AllVisited(r) == {i \in Invoices : outcome[r][i] # "none"}

Successes(r) == {i \in Invoices : outcome[r][i] = "success"}

\* ExportBatchModel.create, or batch.save of the merged items.
Record(r) ==
    /\ pc[r] = "record"
    /\ batch' = [batch EXCEPT ![target[r]] = [i \in Invoices |->
                    IF kind[r] = "retry" THEN MergedItem(r, i, batch[target[r]][i])
                                         ELSE NewItem(r, i)]]
    /\ todo' = [todo EXCEPT ![r] = Successes(r)]
    /\ pc'   = [pc EXCEPT ![r] = "marking"]
    /\ UNCHANGED <<docVars, tallyVars, retryQueue, cur, attempt, outcome, reqVars, runs>>

\* The write fails and the request with it: no invoice is marked.
RecordFails(r) ==
    /\ pc[r] = "record"
    /\ Finish(r)
    /\ UNCHANGED <<docVars, batch, tallyVars>>

\* generateImportFile, putObject and the batch: the invoices of a file are the
\* ones the builder does not skip.
StoreFile(r) ==
    /\ pc[r] = "file"
    /\ \E included \in SUBSET todo[r] \ {{}} :
        todo' = [todo EXCEPT ![r] = included]
    /\ pc' = [pc EXCEPT ![r] = "marking"]
    /\ UNCHANGED <<docVars, batch, tallyVars, retryQueue, cur, attempt, outcome,
                   reqVars, runs>>

\* Every invoice is skipped, or storing the file or the batch fails.
NoFile(r) ==
    /\ pc[r] = "file"
    /\ Finish(r)
    /\ UNCHANGED <<docVars, batch, tallyVars>>

\* One updateOne per successful invoice, with no guard on its status.
MarkInvoice(r, i) ==
    /\ i \in todo[r]
    /\ MovesTo(r, "marking", "marking")
    /\ todo' = [todo EXCEPT ![r] = @ \ {i}]
    /\ status'    = [status EXCEPT ![i] = IF Exists(i) THEN "EXPORTED" ELSE @]
    /\ reference' = [reference EXCEPT ![i] =
                        IF ~Exists(i) THEN @
                        ELSE IF kind[r] = "file" THEN "file" ELSE "voucher"]
    /\ UNCHANGED <<exportVersion, inFlight, tallyVars, cur, attempt, outcome>>

\* A failed write of saveBatch or bulkWrite is only logged.
MarkFails(r, i) ==
    /\ i \in todo[r]
    /\ MovesTo(r, "marking", "marking")
    /\ todo' = [todo EXCEPT ![r] = @ \ {i}]
    /\ UNCHANGED <<docVars, tallyVars, cur, attempt, outcome>>

FinishMarking(r) ==
    /\ pc[r] = "marking"
    /\ todo[r] = {}
    /\ Finish(r)
    /\ UNCHANGED <<docVars, batch, tallyVars>>

(***************************************************************************)
(* What else touches the documents.                                        *)
(***************************************************************************)
\* deleteInvoices: deleteMany of everything that is not EXPORTED.
DeleteInvoice(i) ==
    /\ status[i] = "APPROVED"
    /\ status' = [status EXCEPT ![i] = "DELETED"]
    /\ UNCHANGED <<exportVersion, inFlight, reference, batch, tallyVars, retryQueue,
                   pc, loopVars, reqVars, runs>>

\* The process dies with its requests and its queue; the documents and Tally
\* survive, and so do the posts under way.
Crash ==
    /\ \E r \in Requests : pc[r] # "idle"
    /\ late' = late \union {Voucher(r) : r \in {q \in Requests : pc[q] = "posting"}}
    /\ retryQueue' = <<>>
    /\ kind'    = [r \in Requests |-> "none"]
    /\ pc'      = [r \in Requests |-> "idle"]
    /\ todo'    = [r \in Requests |-> {}]
    /\ snap'    = [r \in Requests |-> NoSnapshot]
    /\ cur'     = [r \in Requests |-> NoInvoice]
    /\ attempt' = [r \in Requests |-> 0]
    /\ outcome' = [r \in Requests |-> NoOutcome]
    /\ target'  = [r \in Requests |-> NoBatch]
    /\ UNCHANGED <<docVars, batch, vouchers, runs>>

(***************************************************************************)
(* The specification.                                                      *)
(***************************************************************************)
Arrive(r) == StartExport(r) \/ StartFile(r) \/ RequestRetry(r)

\* The step the handler of r takes next; exactly one awaited result at a time.
Advance(r) ==
    \/ BeginRetry(r) \/ NothingToRetry(r)
    \/ \E i \in Invoices : Refuse(r, i) \/ Stage(r, i)
    \/ ReadConflict(r) \/ MapFails(r) \/ Post(r)
    \/ TallyImports(r) \/ TallyRejects(r) \/ PostAgain(r) \/ PostFails(r)
    \/ Promote(r) \/ PromoteFails(r) \/ Clear(r) \/ FinishLoop(r)
    \/ Record(r) \/ RecordFails(r) \/ StoreFile(r) \/ NoFile(r)
    \/ \E i \in Invoices : MarkInvoice(r, i) \/ MarkFails(r, i)
    \/ FinishMarking(r)

Next ==
    \/ \E r \in Requests : Arrive(r) \/ Advance(r)
    \/ \E m \in late : LateImport(m)
    \/ \E i \in Invoices : DeleteInvoice(i)
    \/ Crash

Spec == Init /\ [][Next]_vars

\* A handler that can go on goes on: the event loop runs it, and a post comes
\* back within its 30 s timeout.
FairSpec == Spec /\ \A r \in Requests : WF_vars(Advance(r))

----------------------------------------------------------------------------
(***************************************************************************)
(* Properties.                                                             *)
(***************************************************************************)
\* Every variable keeps its type.
TypeOK ==
    /\ status        \in [Invoices -> Statuses]
    /\ exportVersion \in [Invoices -> Nat]
    /\ inFlight      \in [Invoices -> Nat]
    /\ reference     \in [Invoices -> References]
    /\ batch         \in [Batches -> [Invoices -> Item]]
    /\ vouchers \subseteq Invoices \X Nat
    /\ late     \subseteq Invoices \X Nat
    /\ retryQueue \in Seq(Requests)
    /\ kind    \in [Requests -> Kinds]
    /\ pc      \in [Requests -> Stages]
    /\ todo    \in [Requests -> SUBSET Invoices]
    /\ snap    \in [Requests -> [Invoices -> Nat]]
    /\ cur     \in [Requests -> Invoices \union {NoInvoice}]
    /\ attempt \in [Requests -> 0 .. MaxRetries]
    /\ outcome \in [Requests -> [Invoices -> Outcomes]]
    /\ target  \in [Requests -> Batches \union {NoBatch}]
    /\ runs \in Nat

\* Whatever exports race, an invoice is either not being exported or staged at
\* the version right after the committed one (stage, promote and clear
\* together; a lost clear or a crash may leave the stage behind).
InFlightIsNext ==
    \A i \in Invoices : inFlight[i] \in {Null, exportVersion[i] + 1}

\* The database is never ahead of Tally: each version it has committed was
\* imported (runbook 3, "or the DB stays behind and the operator retries").
DbNeverAhead ==
    \A i \in Invoices : \A k \in 1 .. exportVersion[i] : <<i, k>> \in vouchers

\* Tally is never more than one version ahead, not even through a post that
\* outlives its request: no version is skipped.
TallyAtMostOneAhead ==
    \A m \in vouchers \union late : m[2] \in 1 .. exportVersion[m[1]] + 1

\* A refused stage always means that the document is gone or its version has
\* moved: the IN_FLIGHT_MISMATCH answer of stageInFlightExportVersion is for
\* documents no export has written.
ConflictMeansVersionMoved ==
    \A r \in Requests :
        pc[r] = "conflict" =>
            ~Exists(cur[r]) \/ exportVersion[cur[r]] > snap[r][cur[r]]

\* An invoice shown as exported to Tally by an API export has a committed
\* version, however its export, its retries and a file export interleave.
ExportedHasVersion ==
    \A i \in Invoices :
        status[i] = "EXPORTED" /\ reference[i] = "voucher" => exportVersion[i] > 0

\* A batch item reported as a success names a voucher that Tally holds and a
\* version the database has committed.
SuccessItemIsInTally ==
    \A b \in Batches, i \in Invoices :
        batch[b][i].status = "SUCCESS" =>
            /\ <<i, batch[b][i].version>> \in vouchers
            /\ batch[b][i].version \in 1 .. exportVersion[i]

\* A retry never turns a batch item back from success to failure: retries of
\* one tenant are serialised and only pick failed items.
SuccessItemIsFinal ==
    [][\A b \in Batches, i \in Invoices :
        batch[b][i].status = "SUCCESS" => batch'[b][i] = batch[b][i]]_vars

\* A retry that waits for its tenant's turn gets it and ends, whatever happens
\* to the retries before it (runWithTenantMutex swallows their failures).
RetryEnds == \A r \in Requests : pc[r] = "queued" ~> pc[r] = "idle"

----------------------------------------------------------------------------
(***************************************************************************)
(* The inductive invariant behind the safety properties.                   *)
(***************************************************************************)
\* The stages in which a request works on cur[r].
Working == {"conflict", "staged", "posting", "accepted", "rejected", "failed"}

\* The chain holds the tenant's retries, once each, and only its head runs.
QueueInv ==
    /\ \A m, n \in 1 .. Len(retryQueue) : retryQueue[m] = retryQueue[n] => m = n
    /\ \A r \in Requests :
        /\ kind[r] = "retry" <=> \E n \in 1 .. Len(retryQueue) : retryQueue[n] = r
        /\ kind[r] = "retry" /\ pc[r] # "queued" => retryQueue[1] = r

\* What a stage says of its request.
StageInv ==
    \A r \in Requests :
        /\ pc[r] = "idle" => kind[r] = "none"
        /\ pc[r] = "queued" => kind[r] = "retry"
        /\ pc[r] = "file" => kind[r] = "file"
        /\ pc[r] \in Working => cur[r] \in Invoices
        /\ pc[r] \in {"idle", "queued"} => outcome[r] = NoOutcome

\* No request has read a version that is still to be committed.
SnapshotInv ==
    \A r \in Requests, i \in Invoices : snap[r][i] <= exportVersion[i]

\* What a request has been told by Tally is so.
AnswerInv ==
    \A r \in Requests :
        /\ pc[r] = "accepted" => Voucher(r) \in vouchers
        /\ \A i \in Invoices : outcome[r][i] = "success" =>
                /\ <<i, snap[r][i] + 1>> \in vouchers
                /\ snap[r][i] + 1 <= exportVersion[i]

\* Together, whatever the interleaving, they are preserved by every step.
IndInv ==
    /\ TypeOK /\ QueueInv /\ StageInv
    /\ InFlightIsNext /\ DbNeverAhead /\ TallyAtMostOneAhead
    /\ SnapshotInv /\ AnswerInv /\ SuccessItemIsInTally

----------------------------------------------------------------------------
\* The guard implements the register of vouchers.
Register == INSTANCE VoucherRegister WITH committed <- exportVersion, book <- vouchers

RegisterSpec == Register!Spec

\* README.md line 78, "a deterministic GUID per voucher so re-export is
\* idempotent": an approved invoice is one voucher in Tally.
OneVoucherPerInvoice ==
    \A m, n \in vouchers : m[1] = n[1] => m = n
=============================================================================
