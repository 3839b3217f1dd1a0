# LedgerBuddy in TLA+

Specifications of the parts of LedgerBuddy (BillForge) where several requests,
jobs and timers meet on the same documents: ingestion and triage, the life of an
invoice from extraction to export, its approval workflow, the posting of
vouchers to Tally, the cumulative TDS ledgers of vendors, the audit log, and the
Gmail mailbox with its reconnection mails. TLC checks small instances; TLAPS
proves the safety properties of all six models for every value of the constants.

    tlc -workers 2 -config TallyExport_race.cfg MCTallyExport
    tlapm TallyExport_proofs.tla

Every definition of `TallyExport`, `InvoiceLifecycle`, `TdsLedger`, `Ingestion`,
`AuditLog` and `Mailbox` that stands for code is listed with its lines in
`PROJECT.json` (`map`). Paths below are relative to `src/`, service paths to
`src/backend/src/services/`.

## 1. The system

LedgerBuddy ingests invoices (mail, S3, upload), extracts their data with OCR
and a language model, enriches them with Indian tax rules, has them reviewed
and approved, and exports them to Tally as XML vouchers. The backend is one
Node process (Express, Mongoose on MongoDB, a little Redis); handlers interleave
at every `await`, and the documents are the shared state. There are no database
transactions on the invoice path: what is atomic is one `updateOne`,
`updateMany` (per document), `findOneAndUpdate` or `save()`.

| component | state it keeps | operations | what is hard | what makes it correct |
|---|---|---|---|---|
| Version guard and exporter (`export/tallyReExportGuard.ts`, `tallyExporter.ts`) | `Invoice.exportVersion`, `inFlightExportVersion`; Tally's vouchers | stage, post (repeated once), promote, clear | concurrent exports, lost answers, crash between phases | record never ahead of Tally, nor more than one behind |
| Export service (`export/exportService.ts`) | `ExportBatch.items`, `Invoice.status/export`, retry chain per tenant | export, file, retry of failed items | partial failure, two retries of one batch, lost marks | batch items true and final; every retry ends |
| Invoice service (`invoice/invoiceService.ts`) | `Invoice.status`, `parsed`, `approval` | approve, edit, retry extraction, delete | load–change–save against concurrent updates | nothing exported unapproved; edits respect approvals |
| Approval workflow (`invoice/approvalWorkflowService.ts`) | `workflowState` of invoices, the workflow document | configure, initiate, approve step, reject step | counting signatures on a loaded copy, configuration changes under way | steps in order, all sign where all must, limits |
| Triage (`invoice/triageService.ts`) | status, organisation of an invoice | assign, reject | load–check–save while a run overwrites the document | a document in the books has an organisation |
| Action queue (`invoice/action*.ts`, `models/invoice/invoice.actionSeverity.ts`) | stored reason and severity | hooks after save and update | the hook searches with the old filter | stored reason fits the status |
| Ingestion (`ingestion/ingestionService.ts`, `persistence.ts`) | checkpoints, documents | run, process file, upsert | parallel files, overlapping runs, a failed or dead run, work nobody awaits any more | no checkpoint passes an unread file; runs leave assigned documents alone |
| Job orchestrator (`ingestion/IngestionJobOrchestrator.ts`) | status and rerun flag per tenant, pause flag | start, progress, pause, rerun | a request that meets a running job, polls beside jobs, shared pause flag | one job per tenant; an announced upload is read; every run ends |
| TDS (`tds/*`, `compliance/tdsOrchestrator.ts`, `TdsCalculationService.ts`) | vendor ledgers, overflow pages, archives | compute, record, split, archive | read–compute–record, repeated runs | ledger equals the sum of its invoices; threshold seen |
| Compliance (`compliance/*`) | `Invoice.compliance` | enrich, re-trigger after edits | late enrichment over a newer edit | enrichment fits the data |
| Vendor master (`compliance/VendorMasterService.ts`) | vendors, their ledgers | upsert, change, merge | merge against recording | nothing lost in a merge |
| Reconciliation (`bank/ReconciliationService.ts`) | links of transactions and invoices | auto match, manual match, unmatch | two writes per link, stale candidates | links are mutual and unique |
| Audit log (`core/AuditLogService.ts`) | log, dead letters | record, retry of dead letters | lost answers, failed calls, crash, entries that never pass | a kept entry is logged or set aside, twice only after a fault |
| Gmail mailbox (`tenant/tenantGmailIntegrationService.ts`, `platform/mailboxNotificationService.ts`) | integration, notices | connect, sync, lose, poll, mail, retry | two syncs and the tick on stale copies | a refused mailbox is found out; few notices, mailed once, none retried for ever |
| Tenant, platform, flags, auth, sts, keycloak | invites, organisations, flags, sessions | administration | small: expiry, uniqueness, caches | – |
| Sources, storage, `ai`, `core` | none | fetch, store, extract | external services | – |
| `frontend`, `ai` (Python), `infra`, `dev` | none shared | – | – | – |

Interaction: ingestion creates invoices, triage gives them an organisation; the
invoice service and the workflow move them to APPROVED; the export service reads
APPROVED invoices, drives the exporter, writes the batch and marks the invoices
EXPORTED. All of it goes through the invoice document; no two components share a
lock except the per-tenant retry chain. One tick (`server.ts`) retries dead
letters and mails and then polls the mailboxes that are due, one after the
other, beside whatever requests and jobs are running.

## 2. Modules

| module | what it is |
|---|---|
| `TallyExport` | stage–post–promote, the three operations of the export service, deletion, crash, Tally |
| `VoucherRegister` | the abstract register of vouchers that `TallyExport` implements |
| `MCTallyExport` | its instances for TLC |
| `TallyExport_proofs` | its theorems |
| `InvoiceLifecycle` | statuses, approval, workflow, edit, configuration, export mark |
| `MCInvoiceLifecycle` | its instances: users, limits, plans |
| `InvoiceLifecycle_proofs` | its theorems |
| `TdsLedger` | ledgers, overflow pages and archives of vendors: record, split, archive, merge |
| `MCTdsLedger` | its instances: amounts and thresholds |
| `TdsLedger_proofs` | its theorems |
| `Sums_proofs` | lemmas on sums over finite sets, which its cumulatives need |
| `Ingestion` | jobs, polls, runs with their checkpoints, the work on each file, uploads, triage |
| `MCIngestion` | its instances: sources, files and their document ids |
| `Ingestion_proofs` | its theorems |
| `AuditTrail` | the abstract promise of the audit log |
| `AuditLog` | record, dead letters and their retries, which implement it |
| `MCAuditLog` | its instances |
| `AuditLog_proofs` | its theorems |
| `Mailbox` | one Gmail mailbox: syncs, polling, loss of access, notices and mails |
| `MCMailbox` | its instances |
| `Mailbox_proofs` | its theorems |

The first two systems are composed by what each leaves to the other: `TallyExport`
starts from approved invoices and details the export that `InvoiceLifecycle`
takes as a query followed, at any later time or never, by the unconditional
EXPORTED mark. `Ingestion` details what the lifecycle takes as one step,
`Extract`: here a document is a file, an organisation and a status, there a
status, an amount and a workflow. `TdsLedger` reads an invoice's vendor and
amount and shares no other state with them. `Mailbox` details the sync that
`Ingestion` takes as the listing of a source; `AuditLog` shares only the tick.

### 2.1 TallyExport

A *request* is one HTTP request being served. `pc[r]` says at which `await` its
handler is; `todo`, `snap`, `cur`, `attempt`, `outcome` and `target` are its
local variables (the documents it loaded are reduced to their `exportVersion`).

| action | code |
|---|---|
| `StartExport`, `Refuse`, `Stage`, `ReadConflict`, `MapFails` | query, validation and decision, `stageInFlightExportVersion` with its second read, `mapInvoiceToVoucher` |
| `Post`, `TallyImports`, `TallyRejects`, `PostAgain`, `PostFails`, `LateImport` | `postWithRetry` and Tally |
| `Promote`, `PromoteFails`, `Clear` | `promoteExportVersion`, `clearInFlightExportVersion` |
| `FinishLoop`, `Record`, `RecordFails`, `MarkInvoice`, `MarkFails`, `FinishMarking` | batch, then one update per invoice (`saveBatch` swallows failures) |
| `RequestRetry`, `BeginRetry`, `NothingToRetry` | `retryFailedItems` behind `runWithTenantMutex` |
| `StartFile`, `StoreFile`, `NoFile` | `generateExportFile` |
| `DeleteInvoice`, `Crash` | `deleteInvoices`; the process dies |

Assumptions. Tally is external: it identifies a voucher by GUID, and a GUID is
a hash of organisation, invoice and version, so a voucher is a pair
`<<invoice, version>>`. A post that got no answer may have been imported, be
imported later, or never. A promotion may take effect and lose its answer: the
invoice's version is committed and its result a failure. The F12 flag of the organisation can change at any
time, so a refusal by it is a choice (`Refuse`). There is one backend process:
the retry chain is in its memory.

### 2.2 InvoiceLifecycle

A handler that loads a Mongoose document, changes it and calls `save()` is
two actions, and holds the document it loaded (`seen`, `plan`) in between.
`save()` is external (Mongoose 8) and modelled by what it does: it sends only
the fields that differ from the loaded ones (`Sent`), elements pushed onto an
array as `$push` (`Append`), and it compares the document version only when a
whole array was assigned. Among these handlers only the edit assigns one
(`processingIssues`), so `current[r]` is kept for edits: every `save()` that
touches an array moves the version (`MovesVersion`), `updateOne` and
`updateMany` never do (`KeepsVersion`). A save on a deleted document fails.

| action | code |
|---|---|
| `RequestApprove`, `ApproveDirectly`, `ReadStatus` | `approveInvoices`, `approveWithWorkflow` |
| `Initiate`, `SaveInitiated` | `initiateWorkflow` |
| `RequestSign`, `LoadSign`, `SavePartial`, `SaveAdvance`, `SaveFinal` | `approveStep`: partial, next step, completion |
| `RequestReject`, `SaveRejection` | `rejectStep` |
| `RequestEdit`, `SaveEdit` | `updateInvoiceParsedFields`, `determineStatusAfterEdit` |
| `RequestExport`, `MarkExported` | export query, EXPORTED mark |
| `SaveConfig`, `Revert` | `saveWorkflowConfig`, its two writes |
| `Extract`, `RetryExtraction`, `Delete` | `upsertFromPending`, `retryInvoices`, `deleteInvoices` |
| `GiveUp` | any error answer, early return or failed call |

Abstractions. Consecutive reads of one handler are one step. A bulk request is
a set of requests over one id. One workflow per tenant. FAILED_PARSE stands for
FAILED_OCR as well; PENDING_TRIAGE and REJECTED are left to `Ingestion`.
An invoice always has an amount, and conditions are "amount above a threshold".
Roles, personas, capabilities and the compliance sign-off say who may sign a
step: the set `approvers`. How many signatures rule "all" asks for is another
number, `required`, since the code counts it apart: named users and holders of a
role are counted as such, but a capability or "any member" counts all members of
the tenant, and nothing counted regards the capability a sign-off needs. A plan
is a list of steps whose numbers (`order`) nobody validates: a number may be
missing or used twice, `StepAt` finds the first step of a number, and the search
for the next step (`Follows`, `Skips`) passes missing numbers without a result.
A workflow whose first step is skipped stands at step 2 even if there is none.
The revert of several invoices is one step. Limits do not change while the
system runs. `MaxRuns` bounds how many requests are made.

### 2.3 TdsLedger

| action | code |
|---|---|
| `RequestTds` | `retriggerTdsAndTcs`, after an edit changed the GL code |
| `ReadLedger`, `ReadArchive` | `getCumulativeForVendor`: the ledger, then the archive |
| `Record` | `computeTds` (`Deduction`, `Crosses`) from what was read, and the upsert of `recordTdsToLedger` |
| `CutEntries`, `SavePage` | `splitEntriesIfOverflow`, its two writes |
| `TakeLedger`, `SaveArchive` | `archiveFyForVendor`, its two writes |
| `MergeVendors` | `mergeVendors` with `consolidateTdsLedgers` and `repointInvoices`, one transaction |
| `GiveUp` | a failed call or the end of the process; what the handler held is in `lost` |

Ingestion runs the same computation without an invoice id, so it reads and
never records; an edit passes no lower deduction certificate. One financial
year, section and rate are modelled: ledgers of others do not meet. A ledger
that does not exist is one that counts no invoice, because a ledger is created
by its first recording. The pages of a vendor are one sequence of entries.
`hasOverflow` and the read that follows a recording only choose the entries for
a warning and are left out. `archiveFyForVendor` has no caller outside its
tests; it is modelled as a request. Negative credit notes are not recorded
(`taxableAmount <= 0` gives an empty delta), so amounts are positive.

### 2.4 Ingestion

`run[r]` holds the local variables of one `runOnce`, `step` and `data` those of
`processFile` for each file of its batch, `desk[c]` the document a clerk loaded.
What runs between two awaited calls is one step: the report of progress, the end
of a run, the status it leaves and the rerun it starts.

| action | code |
|---|---|
| `StartJob`, `Poll`, `PauseJob` | `startJob`, `runPollingTick`, `pauseJob` |
| `ReadCheckpoint`, `List`, `Mark`, `FailRun` | `runOnce`: the marker of a source, its new files, the loop over a settled batch; `GoesOn` to the next batch or source, `Ends` with then and catch of the job |
| `CheckMessage`, `Overwrite`, `CheckProtected`, `Create` | `processFile` up to the upsert, and the calls of `upsertFromPending` |
| `FailUpsert`, `RejectWork` | `persistFailure`, and the rejection of `Promise.all`, which waits for no other file |
| `Put`, `Register`, `Deliver` | the routes that upload by form or by key; a message arrives |
| `TakeUp`, `Decide` | `assignClientOrg`, `reject`: load and save |
| `RetryDocument`, `Crash` | `retryInvoices`; the process dies |

Abstractions. Files arrive without an organisation: no source sets one and no
resolver is configured where the service is built. How an extraction ends is
chosen when its batch starts, since until its upsert the work only reads. A
document of equal content hash only adds a warning. The copies of job state in
Redis are written and never read back into a decision. A message that is sent to
two mailboxes is two messages.

A run scans the sources of its tenant (`Scanned`): its mailboxes, or all
mailboxes if it has none, and its upload folder last; checkpoints are kept for
each source and tenant. Each tenant has an upload folder. `Unsupported` are the
objects whose extension the listing does not know (`.webp` is accepted by the
upload route and is one of them). `Matches` is the upsert's lookup: the source's
id of the document alone, so files of other sources may find it.

Two variables are auxiliary. `announced` holds the uploads that raised the rerun
flag, withdrawn when a pause, a failure or the last rerun drops it. `unseen` holds
the objects that a listing could not read and those stored at the instant of one
that sorts after them. `Missed` names with them all that the code may leave
unread for good: what it does not know, could not read, or stored too late in its
instant, and files that share their id with a file of another source.

### 2.5 AuditLog

| action | code |
|---|---|
| `Record`, `WriteRow`, `WriteLetter` | `record` (not awaited by its caller), `handleWriteFailure` |
| `FallDue`, `FindDue` | `nextAttemptAt` comes; the query of `retryDeadLetters` |
| `Retry`, `DeleteLetter`, `CountAttempt` | one letter: write the row, delete the letter, or count the failure |
| `Crash` | the process dies with its requests and its tick |

Writing a row may fail at any time; `MaxFaults` bounds what is worse: calls
that take effect and lose their answer, failures of the other calls, crashes.
`Poison` are entries the schema refuses each time. `AuditTrail` promises of an
entry: it may be lost while the process holds it, but once it is kept it is
logged or set aside. Its `fate` is computed from `request`, `letter` and `rows`.

### 2.6 Mailbox

| action | code |
|---|---|
| `Connect`, `Revoke`, `FallDue`, `Age` | the OAuth callback; the access is withdrawn at Google; a poll falls due; a notice is a day old |
| `StartSync`, `LoadPolled`, `Refresh`, `Fetch`, `MarkSync` | `resolveIngestionCredentials`, `fetchNewFiles`, `markSyncSuccess` |
| `Lose`, `Dedup`, `RecordNotice`, `SendFirst`, `SaveFirst` | `transitionToNeedsReauth`, `notifyNeedsReauth` |
| `FindFailed`, `GiveUp`, `SendAgain`, `SaveAttempt` | `retryFailedNotifications` |
| `Poll`, `EndPoll`, `Crash` | the tick's poll, `markPollingCompleted`; the process dies |

One mailbox of one tenant, with polling enabled and a sender address; the
notices written as skipped are read by nobody and left out. Tokens are numbers;
Google refuses a revoked one and all before it.

## 3. Runs

All runs say `CHECK_DEADLOCK FALSE`: when the requests of the bound are spent
and done the system stops.

| run | instance | shows |
|---|---|---|
| `tally_race` | 1 invoice, 2 slots, 2 batches, 4 requests | `TypeOK`; stages and versions (`InFlightIsNext`, `DbNeverAhead`, `TallyAtMostOneAhead`); refusals explained (`ConflictMeansVersionMoved`); batches and invoices tell the truth (`SuccessItemIsInTally`, `SuccessItemIsFinal`, `ExportedHasVersion`); refinement (`RegisterSpec`) |
| `tally_live` | 1 invoice, 2 slots, 1 batch, 3 requests, fairness | `RetryEnds` |
| `tally_onevoucher` | as race | violation: two vouchers for one approved invoice |
| `life_race` | 1 invoice, 2 slots, 2 users, 2 amounts, plans of 1–3 steps, one with a gap, 4 requests | `TypeOK`, `AwaitingHasActiveWorkflow`, `WorkflowApprovalStands`, `ExportedWasApproved`, no step is jumped (`NoStepIsJumped`); edits keep approvals, restart them for a new amount, and drop no signature they did not see (`EditKeepsWorkflowApproval`, `NewAmountRestarts`, `EditDropsOnlyWhatItSaw`) |
| `life_stuck` | 2 slots, one rule-all step | violation: all have signed, the step does not move |
| `life_limit` | 2 slots, limits, two amounts | violation: a signature checked before an edit completes the workflow for the new amount |
| `tds_race` | 2 vendors, 2 invoices, 2 slots, cap 1, 4 requests and any merges | `TypeOK`; no entry dropped or doubled (`RecordingsListedOnce`); cumulatives are sums (`CumulativesMatchEntries`); crossings are real (`CrossedIsTrue`); the tax stays the one due unless a crossing was missed (`TaxKeepsUp`) |
| `ingest_race` | 2 messages in the mailbox of one tenant, another tenant without one, 2 runs, 2 starts, failing calls | one run behind a running status (`RunningJobIsOne`); nothing unread behind a marker (`CheckpointCovers`) |
| `ingest_uploads` | 3 objects, one of an unknown type, 1 run, 1 job with a rerun, 1 clerk, 1 organisation, unreadable objects, equal times, failing calls, fairness | `TypeOK`; nothing else unread behind a marker (`CheckpointCovers`); an announced upload is read (`AnnouncedIsRead`); triage and runs on one document (`ParsedHasOrg`, `KeepsAssigned`); `RunsEnd` |
| `ingest_pending` | 1 object, 1 organisation | violation: a PENDING document is left behind the checkpoint |
| `audit_faults` | 3 entries, one poisoned, 4 attempts, 2 faults, fairness | `TypeOK`; `DuplicatesNeedFaults`; refinement (`TrailSpec`); `LettersEnd` |
| `mailbox_race` | one job's sync and the tick, 2 tokens, 2 attempts, 1 fault, fairness | `TypeOK`; mails and notices stay few (`MailedTwiceNeedsFaults`, `NoticesAreDeduped`); `NoticesSettle`; a refused mailbox is found out (`RefusalIsNoticed`) |

Why the bounds are enough. The guard's interesting case is three parties on one
invoice: one that lost its answer or crashed after staging, one that stages the
same version, one that comes with the next version. The first needs no slot any
more when the others begin, so two slots and four requests show it, with one
request left for a retry; without the fourth, dropping the filter of promote and
clear would not be noticed by `TallyAtMostOneAhead`. (With a third slot, 867,000
states, the same properties hold.) Invoices do not influence each other except
through a batch, and a batch is read and written as a whole and merged item by
item, so one invoice in two batches shows what a retry may overwrite. Two amounts are below
and above a condition or a limit; two users are one and another approver; three
steps are needed for a skipped step between two others. For the ledgers, a cap
of 1 makes the second recording split, and two slots let a recording, a merge or
a second split fall between its writes; four requests are two recordings, an
archiving and one more that finds the archive. The amounts 34 and 36 reach the
annual threshold of 70 exactly, so three recordings are below, at and above it,
34 is below the single threshold of 35, and at ten percent the tax on each is
rounded. What overlapping requests do to the rules of approval are the runs
`life_stuck` and `life_limit`. In `life_race` the four requests include reconfiguration, so
initiate, sign, edit or reject, and a change of plan can all overlap on one
invoice.

For ingestion, two starts are a job and a poll, or a job and a later one, of one
tenant or of two, on one source; the rerun makes three passes over it, and with a
concurrency of 2 both files fall into one batch or into two, depending on when
they arrived.
`ingest_uploads` needs one run only: what an upload or a clerk meets are the calls
of a listing or of an upsert that have passed. A job whose first pass missed an
announced upload reads it in its one rerun, and is then over with the
announcement still standing, unless the flag was raised again; three objects are
one unknown, and two that may share an instant in either order. A concurrency of 1
gives the two supported objects a batch each, so the run is followed across
batches; `ingest_race` has them in one. The poisoned audit
entry fails each of its 4 attempts, while two faults can hit the same letter in
one tick and the next, or its row and its deletion. For the mailbox, a notice
takes a lost sync; new syncs start as long as fewer than `MaxNotices` were
written, and the job's sync and the poller's together can write one more at the
same moment; two retries are the first and the last; two tokens are a
reconnection under way.

What section 4 lists as proved holds without any bound.

Fairness. In `TallyExport`, `FairSpec` assumes weak fairness of each handler as
a whole (`Advance(r)`): the event loop runs a handler whose awaited call has come back,
MongoDB calls return or fail, and a post comes back within its 30 s timeout. It
assumes nothing of new requests, of late imports by Tally, of deletions or of
crashes. A retry waits only for the retries before it, and those end whether
they succeed or throw. `Ingestion` assumes that the calls of a run and of the
work on each file return (`RunStep`, `Work`); starts, uploads and clerks need
not act, and `RunsEnd` holds because a pass reads a finite list and reruns are
counted. `AuditLog` and `Mailbox` assume that the tick is scheduled again after
each end, whatever its outcome (`scheduleNextPoll` of `server.ts`), that times come
(`FallDue`) and that calls return; faults are bounded, so that a letter
or a notice is not failed for ever by faults alone. Nothing is assumed of the
administrator or of Google: `RefusalIsNoticed` speaks only of behaviours in
which the access stays withdrawn.

## 4. Proofs

The `_proofs` modules prove that invariants are inductive and derive from them
the safety and action properties that the passing runs of section 3 check. The
theorems have no hypotheses beyond the assumptions
of the models on their constants (`ConstantsAssumption`, `LifecycleAssumption`,
`LedgerAssumption`, `IngestionAssumption`, `AuditAssumption`, `MailboxAssumption`:
types, that users, vendors and handlers are finitely many, and that each tenant
has an upload folder).

* **TallyExport.** None of `InFlightIsNext`, `DbNeverAhead` and
  `TallyAtMostOneAhead` is inductive alone. What is missing is what a handler
  knows: no snapshot is newer than the committed version (`SnapshotInv`), and
  an accepted post is in Tally, with any success it recorded already committed
  (`AnswerInv`). With them a promotion commits exactly one version, and one
  that Tally holds; a post is for the version after a committed one; and the
  merged items of a retry keep true versions (`SuccessItemIsInTally`).
  `QueueInv` and `StageInv` tie the retry chain and `pc` to the request kinds.
  `ExportedHasVersion` follows from `MarksTrueVersions`: also what a handler has
  yet to mark has a committed version, and versions never shrink.
  `SuccessItemIsFinal` needs `BatchInv`: an export has its batch for itself and
  it is still unwritten, and a retry visits, and has results for, only items
  that have not succeeded (`RetriesFailures`), because retries of a batch run
  one after the other and each reads the items when it begins.
  `Refinement` maps `committed` to `exportVersion` and `book` to `vouchers`:
  an accepted or late post is `PostVoucher`, a promotion is `Commit`, all else
  stutters.
* **InvoiceLifecycle.** `WorkflowApprovalStands` and the three properties of
  edits need `HandlersKnowTheWorkflow`: an edit whose version is still current
  has seen the workflow as it is, or it was taken away, because every save that
  signs, rejects or completes moves the version; `ExportedWasApproved` needs that
  an export that has begun works on an invoice somebody approved. With
  `ActiveIsAwaiting`, a workflow in progress is that of an invoice that awaits
  approval, so an edit that changes the amount under one has loaded that status
  and takes the workflow away (`NewAmountRestarts`), with no result it has not
  seen (`EditDropsOnlyWhatItSaw`). `NoStepIsJumped` needs
  `HandlersHoldTheirStep`, what a signer holds of the plan it read, since the
  plan may be another one, or the workflow begun anew, when it saves; it speaks of
  some plan that was configured and of the step the last signature was for, for
  any numbering. The proof has one step per action and one lemma per part of the
  invariant; lemmas say what appending results and skips leaves settled.
* **TdsLedger.** `CrossedIsTrue` is about a marking decided on a stale
  cumulative, so it needs `ViewsAreOld`: as long as nobody merged or archived,
  no view is above the ledger it was read from, because ledgers only grow. That
  in turn needs an archive that counts nothing to sum to nothing (a reader that
  finds no ledger looks there) and `HandlersHoldTheirWork`: exactly the handlers
  that archive hold a ledger. One lemma covers the steps that leave cumulatives
  alone; `Record` is the step with content. Types rest on lemmas for the
  deduction, the recording, the split and the merge.

  `RecordingsListedOnce` is proved of lists indexed by their places: `ListedOnce`
  says that the entries of all lists and the lost ones have the ids
  `1 .. recorded`, each at one place. Four lemmas on sequences (an entry is
  appended, a list is cut, one list joins another, one is emptied) cover all
  actions, with `HoldsWhatItMoves`: a handler holds entries only between its
  two writes.
  `CumulativesMatchEntries` is a statement about sums over sets that change. The
  lemmas of `Sums_proofs` (an element is taken out, two sets are joined, the
  elements are renamed, one value changes, two exchange) are proved by induction
  over finite sets; as the induction theorems of the library take an operator,
  each takes instead a smallest subset it would fail for (`WFMin`) and
  contradicts it. With them `AddsUp` is inductive: what the documents count,
  vanished ones included, is the sum over the set of all entries, listed or lost;
  a recording adds one entry and as much to one ledger, and every other step
  keeps the set and moves amounts between two documents or out of one
  (`HoldsNoAmounts`: a handler that does not archive counts nothing).
  `TaxKeepsUp` is arithmetic: the taxes due on two amounts and the one due on
  their sum differ by at most one (a lemma on `Due`), so each recording costs at
  most its own rounding, whichever branch of the computation it took.
* **Ingestion.** `TypeOK` is proved with `DocsInv`: every document is sound,
  that is, one in the books has an organisation and one without was read; this
  gives `ParsedHasOrg`, because a clerk's save sets both fields. `RunningJobIsOne`
  is proved with `RunShape`, which ties what a run holds to its stage, because
  how a run goes on or ends depends on it.
  `CheckpointCovers` is not inductive alone. What a document says it was read from
  is a file of its source (`Sound`), so that a reading of a message is found
  again by the id of the message. A file is settled when its id has been read or
  it is unknown or unseen (`Settled`), which implies that it was read or is
  `Missed` (`SettledIsKnown`). A run must hold stored files of its source, its
  batch before the others (`Held`); a file of the batch that is done was read
  (`DoneIsRead`); and every file of the source is settled, is held, or comes
  after all the run holds (`Passed`), so whichever marker it writes covers only
  what is settled. The markers are those of stored files (`Reached`): an object
  stored later either comes after them or joins `unseen`, which is where equal
  times are dealt with. What is settled stays settled, so another run takes none
  of it away.
  `AnnouncedIsRead` adds that the job with an announced upload holds it or will
  list it, or the rerun flag is up, unless it is settled (`AnnouncedInv`). One
  effect lemma per action says what it does to runs, work and documents, and is
  used by all the invariants.
* **AuditLog.** `DuplicatesNeedFaults` counts rows, so each row must be paid for:
  an entry has none before its first write (`FirstWrite`), it has a letter only
  once its request is over (`LetterIsLate`), and whoever may write again has had
  a fault for each row there is, but for the letter about to be deleted
  (`TriesAfterFaults`). `AttemptsLeft` bounds `attempts`, and `TickIsDue` says
  what the tick knows of the letters it goes through. `Refinement` maps
  a row written to `Write`, a deletion to `Settle`, the last attempt to
  `SetAside`, a crash to `Die`, and the rest to a stutter.
* **Mailbox.** `MailedTwiceNeedsFaults` counts the mails of a notice, so
  `CountInv` allows one and one more for each fault. That holds because a sync
  that has not saved its first mail is its notice's only owner, and the tick
  mails nothing while no recipient is stored (`OwnerInv`); and what the tick has
  loaded of a notice with a recipient is still so when it mails (`TickInv`).
  `NoticesAreDeduped` is about a query that finds no live notice and a later
  insert: `DedupInv` counts the live notices together with the syncs that may
  still add one or revive their own, no more than there are syncs; what one of
  the two sets gains the other loses (lemma `Trade`).

Only model-checked: liveness (`RetryEnds`, `RunsEnd`, `LettersEnd`,
`NoticesSettle`, `RefusalIsNoticed`), which needs fairness and ENABLED and is out
of the prover's reach; and the four violations, which are counterexamples.

## 5. Departures from the documents

Kept as runs (see `findings` in `PROJECT.json`):

1. `README.md:78` calls re-export idempotent by its GUID. The GUID contains the
   version; an export whose query falls between another's promotion and its
   EXPORTED mark posts version 2 (`tally_onevoucher`).
2. `docs/state-machine/INVOICE-STATE-MACHINE.md:76` says the invoice is approved
   when all steps pass. Two concurrent last signatures of a rule-all step leave
   it waiting, and nobody may sign again (`life_stuck`).
3. The same document, lines 35 and 69: a PENDING invoice goes through the
   pipeline, a retried one re-enters it. A document created with an organisation
   is never matched by a file that arrives without one; the run creates a second
   document and the first stays PENDING (`ingest_pending`).
4. `docs/state-machine/INVOICE-STATE-MACHINE.md:931` calls the approval limit the
   largest amount a user can approve. A final signature checked before an edit
   raised the amount is saved after it and approves the new amount, though the edit
   had reset the workflow (`life_limit`).

Admitted by the models as well, and not kept as runs:

* Rule all, counted: `docs/accounting-payments/input/PRD-REFINED.md:397` says that
  every approver must sign. For a capability or any member the code counts all
  members of the tenant, so a step that all who may sign have signed waits for
  others, without any race: `SignedStepMovesOn` fails with one slot and a plan
  whose `required` is above the number of its approvers.
* Rule all, twice: `approvalWorkflowService.test.ts:631` says that a user who has
  signed a step is refused. Two overlapping requests of one user both pass the
  check, and the two signatures count as those of two approvers.
* TDS: `docs/accounting-payments/RFC-BACKEND.md:2464` (risk R8) wants a missed
  threshold corrected after the upsert. The document is read back and its
  cumulative not looked at; two requests that read a cumulative below the
  threshold miss the crossing, and later ones take the branch without catch-up.
  `TaxKeepsUp` says that nothing else makes the tax fall behind.
* Ingestion: `docs/accounting-payments/input/DATA-MODEL-AUDIT.md:150` deduplicates
  invoices by tenant, source, document and attachment. The upsert looks for the
  source's id of the document alone; uids are numbered per mailbox, and the
  message of one mailbox overwrites another's.
* `docs/runbooks/tally-exporter.md:168` says recovery posts with
  `ACTION="Alter"`. At version 0 it is Create unless it is a batch retry.
* `docs/state-machine/INVOICE-STATE-MACHINE.md:10`: FAILED_PARSE can only be
  retried or deleted. An edit moves it to PARSED or NEEDS_REVIEW.
* PARSED to APPROVED with the workflow enabled: approve reads PARSED, a retry
  makes it PENDING, `initiateWorkflow` returns false, extraction finishes, the
  direct approval goes through.
* AWAITING_APPROVAL with the workflow disabled: the initiation read the enabled
  workflow and is saved after the disabling; or the second write of
  `saveWorkflowConfig` fails.
* An EXPORTED invoice is edited: the edit was loaded before the mark, which
  does not move the document version.
* An APPROVED invoice is edited and stays APPROVED (`determineStatusAfterEdit`).
* TDS: changing the GL code twice records the invoice twice; nothing looks for
  its earlier entry.
* TDS: a stop between the two writes of a split or of an archiving loses what
  was moved, and a second archiving of a year replaces the first archive
  (`lost`, `gone`).
* TDS: a merge leaves overflow pages and archives under the source, so
  `invoiceCount` of the target differs from its listed entries although nothing
  drifted (compare `docs/runbooks/tds-and-audit.md`, section 3.5); a request
  that read the source's fingerprint before opens the source's ledger again; two
  ledgers below the threshold become one above it, unmarked and without
  catch-up. Ledgers are merged tenant-wide, invoices within one organisation.
* Ingestion: an object that could not be read, one that is listed later with the
  time of the marker and a smaller key, and one of an accepted type the source
  does not know (`constants.ts:17` accepts `.webp`, the table of
  `S3UploadIngestionSource.ts` lacks it) stay behind the checkpoint: the
  exceptions that `Missed` names.
* Ingestion: a tenant without a mailbox scans those of all tenants, and the
  documents it reads or overwrites become its own.
* Ingestion: one message counts as read with its first attachment; a second one
  that meets the first as a document is a duplicate or overwrites it.
* Ingestion: a failure without an organisation does not pass the schema of
  invoices, so a file whose extraction fails ends each run of its source, and no
  file of its batch or after it gets behind the marker.
* Ingestion: after `Promise.all` has rejected, the other files of the batch go on
  and may write beside the next run.
* Ingestion: the pause flag is the service's, so a pause for one tenant stops
  another's run, and any run that starts, also a poll, withdraws it. The slower
  of two runs moves the checkpoint back, and files are read again.
* Mailbox: a sync that refreshes the old token while the mailbox is reconnected
  saves `requires_reauth` over the new connection; the tick gives up a notice
  whose first mail is under way, because no recipient is stored yet. Credentials
  are looked up by tenant, whichever of several mailboxes is synced.
* Workflow: a plan that is shortened leaves invoices at a step that is missing, and
  so does a plan without a step 2 whose first step is skipped. A signature saved
  late moves a workflow that was begun anew to the step after the one it was
  given for, which may be an earlier or a later one, or completes it;
  the lookup by `tenantId` alone may find another organisation's workflow (one
  organisation is modelled).

## 6. Plan

Done: the six models above with two abstract specifications, and proofs of
their safety and action properties (section 4) and of both refinements. Left, in this order:

1. An abstract specification of the TDS ledger (each recording counted once, in
   one document or lost), and the refinement by `TdsLedger`; `AddsUp` and
   `ListedOnce` are the invariants it needs.
2. Two organisations in the workflow model, with the lookup by tenant.
3. The re-trigger of compliance after an edit, against another edit.

## 7. Not modelled

* **Reconciliation.** A match is two writes on two documents without a
  transaction or a check of the other side. Serial calls already leave a
  transaction linked to an invoice that is linked elsewhere, so nothing true is
  left to say of interleavings.
* **Action queue.** The stored reason is computed from one document; the hook
  after an update may miss it, and the code promises no more.
* **Tenant administration** (organisations, invites, assignments): single guards
  before single writes. Its two windows between a check and a write (an
  organisation deleted while something is added to it, an invite accepted twice)
  are plain from the code.
* **Extraction, OCR, language models**: a choice in `Extract` and in the outcome
  of a batch. XML and amounts of vouchers, validation and suggestion of
  compliance data, confidence, artifacts: functions of one document.
* **Authentication and capabilities**: guards taken as passed. **Analytics,
  platform administration, feature flags**: reads and single writes.
* **Frontend, Python services, infrastructure, scripts, vendored code**: no state
  that meets the backend's other than through the requests modelled. They and
  the extraction pipeline are most of the repository's lines, which is why the
  map covers a small share of them.

`PROJECT.json` gives the reason for each component.
