------------------------------ MODULE Ingestion ------------------------------
(***************************************************************************)
(* How files become documents: the jobs of IngestionJobOrchestrator.ts and *)
(* the polling tick of server.ts run IngestionService.runOnce, which reads *)
(* new files behind a checkpoint, processes them in parallel batches and   *)
(* upserts their documents (persistence.ts); uploads (routes/ingestion/    *)
(* jobs.ts) put files and documents beside it, and the triage desk         *)
(* (triageService.ts) takes documents into an organisation.                *)
(*                                                                         *)
(* One action per database or storage call; what runs between two calls    *)
(* is atomic, since nothing else runs before the promises of one call are  *)
(* settled: a progress report, the end of a run, the status it leaves and  *)
(* the rerun it starts are one step.  No source knows a client             *)
(* organisation and no resolver is configured, so every file arrives       *)
(* without one.                                                            *)
(***************************************************************************)
EXTENDS Integers, Sequences, FiniteSets

CONSTANTS
    Tenants,
    Sources,      \* ingestion sources: the mailboxes, and ...
    Folders,      \* ... the upload folder of each tenant
    Files,        \* files of the sources: attachments and uploaded objects
    Runs,         \* slots for runs of runOnce
    Clerks,       \* slots for triage requests
    Orgs,         \* client organisations
    NoOrg,        \* clientOrgId null
    NoSource,     \* a run that scans no source
    Owner,        \* source.tenantId
    Origin,       \* file.sourceKey
    DocumentId,   \* file.sourceDocumentId: a number, equal within one mail
    Mail,         \* files that are attachments, all of one sender's messages
    Unsupported,  \* objects whose extension MIME_BY_EXTENSION lacks, .webp among them
    Concurrency,  \* env.INGESTION_CONCURRENCY
    MaxReruns,    \* RERUN_MAX_COUNT
    CallsFail,    \* do calls to the database and the storage fail?
    ReadsFail,    \* ... and does the source skip objects it cannot read?
    SameInstant,  \* may two objects have one lastModified?
    MaxStarts,    \* bound: jobs and polls started
    MaxUploads    \* bound: documents when an upload is registered

Slots == Runs \X Files

ASSUME IngestionAssumption ==
    /\ Tenants # {}
    /\ NoOrg \notin Orgs
    /\ NoSource \notin Sources
    /\ Folders \subseteq Sources
    /\ Owner \in [Sources -> Tenants]
    /\ \A t \in Tenants : \E s \in Folders : Owner[s] = t
    /\ Origin \in [Files -> Sources]
    /\ DocumentId \in [Files -> Nat]
    /\ Mail \subseteq Files
    /\ Unsupported \subseteq Files \ Mail
    /\ Concurrency \in Nat \ {0}
    /\ MaxReruns \in Nat
    /\ CallsFail \in BOOLEAN
    /\ ReadsFail \in BOOLEAN
    /\ SameInstant \in BOOLEAN
    /\ MaxStarts \in Nat
    /\ MaxUploads \in Nat

VARIABLES
    stored,      \* when a file was stored, 0 if it was not
    clock,       \* the storage's clock
    docs,        \* InvoiceModel: the documents in the order of their creation
    checkpoint,  \* CheckpointModel: the marker of each source and tenant
    pauseRequested,
    job,         \* localStatus of each tenant
    pendingRerun, \* localPendingRerun of each tenant
    run,         \* the local variables of each run
    step,        \* processFile: where the work of a run on a file is
    data,        \* ... and the status its upsert will write
    desk,        \* the document a clerk loaded, and where it is to go
    starts,      \* jobs and polls started, at most MaxStarts
    announced,   \* auxiliary: uploads that raised the rerun flag
    unseen       \* auxiliary: objects that a listing could not read, or that
                 \* were stored at the instant of one that sorts after them

fileVars == <<stored, clock, unseen>>
jobVars  == <<pauseRequested, job, pendingRerun, announced>>
workVars == <<run, step, data>>
vars     == <<fileVars, docs, checkpoint, jobVars, workVars, desk, starts>>

Statuses  == {"PENDING", "PENDING_TRIAGE", "PARSED", "FAILED", "REJECTED"}
JobStates == {"idle", "running", "paused", "completed", "failed"}
Steps     == {"none", "message", "upsert", "check", "create", "done"}
Marker    == Nat \X Nat
NoMarker  == <<0, 0>>

\* A document is named after the file it was created for, or as its uploader
\* called it (renamed).  message: the attachment whose message gmailMessageId
\* names, if any.  content: the file it was last read from, none for an upload
\* that no run has read.
Document ==
    [name : Files, renamed : BOOLEAN, tenant : Tenants, source : Sources,
     org : Orgs \union {NoOrg}, status : Statuses,
     message : SUBSET Files, content : SUBSET Files]

Run ==
    [stage : {"idle", "scan", "list", "batch"}, tenant : Tenants, isJob : BOOLEAN,
     reruns : Nat, left : SUBSET Sources, source : Sources \union {NoSource},
     marker : Marker, todo : SUBSET Files, batch : SUBSET Files]

NoRun ==
    [stage |-> "idle", tenant |-> CHOOSE t \in Tenants : TRUE, isJob |-> FALSE,
     reruns |-> 0, left |-> {}, source |-> NoSource, marker |-> NoMarker,
     todo |-> {}, batch |-> {}]

\* Going to no organisation is being rejected.
Case   == [doc : Nat, goesTo : Orgs \union {NoOrg}]
NoCase == [doc |-> 0, goesTo |-> NoOrg]

Init ==
    /\ stored         = [f \in Files |-> 0]
    /\ clock          = 0
    /\ docs           = <<>>
    /\ checkpoint     = [at \in Sources \X Tenants |-> NoMarker]
    /\ pauseRequested = FALSE
    /\ job            = [t \in Tenants |-> [running |-> FALSE, state |-> "idle"]]
    /\ pendingRerun   = [t \in Tenants |-> FALSE]
    /\ run            = [r \in Runs |-> NoRun]
    /\ step           = [w \in Slots |-> "none"]
    /\ data           = [w \in Slots |-> "PENDING_TRIAGE"]
    /\ desk           = [c \in Clerks |-> NoCase]
    /\ starts         = 0
    /\ announced      = [t \in Tenants |-> {}]
    /\ unseen         = {}

(***************************************************************************)
(* Markers order the files of a source: by lastModified and then by key,   *)
(* or by uid.                                                              *)
(***************************************************************************)
MarkerOf(f) == <<stored[f], DocumentId[f]>>

\* Mutant: the key does not decide between objects of one instant.
AfterInTime(m, n) == m[1] > n[1]

After(m, n) == m[1] > n[1] \/ (m[1] = n[1] /\ m[2] > n[2])

New(s, marker) == {f \in Files : Origin[f] = s /\ stored[f] > 0 /\ After(MarkerOf(f), marker)}

\* The first files of a list, one batch of them.
Firsts(S) ==
    {B \in SUBSET S :
        /\ Cardinality(B) = IF Cardinality(S) < Concurrency THEN Cardinality(S)
                                                            ELSE Concurrency
        /\ \A b \in B, f \in S \ B : ~After(MarkerOf(b), MarkerOf(f))}

(***************************************************************************)
(* Jobs and runs.                                                          *)
(***************************************************************************)
Live(r)  == run[r].stage # "idle"
IsIdle(r) == ~Live(r) /\ \A f \in Files : step[<<r, f>>] = "none"

Running(t)    == [job EXCEPT ![t] = [running |-> TRUE, state |-> "running"]]
Ended(t, how) == [job EXCEPT ![t] = [running |-> FALSE, state |-> how]]

\* The configured sources: the mailboxes.
Configured == Sources \ Folders

\* tenantScopedSources: the mailboxes of the tenant, or all of them if it has
\* none, and its upload folder.
Scanned(t) ==
    LET own == {s \in Configured : Owner[s] = t} IN
    (IF own = {} THEN Configured ELSE own) \union {s \in Folders : Owner[s] = t}

\* runOnce up to its first call.  It withdraws whatever pause was requested.
Begins(r, t, isJob, reruns) ==
    /\ run' = [run EXCEPT ![r] =
                [NoRun EXCEPT !.stage = "scan", !.tenant = t, !.isJob = isJob,
                              !.reruns = reruns, !.left = Scanned(t)]]
    /\ pauseRequested' = FALSE

\* onProgress with running: a pause that was shown is no longer.
Reports(r) == job' = IF run[r].isJob THEN Running(run[r].tenant) ELSE job

\* Mutant: one rerun less than RERUN_MAX_COUNT.
WantsRerunBelow(r) ==
    /\ run[r].isJob
    /\ pendingRerun[run[r].tenant]
    /\ run[r].reruns + 1 < MaxReruns

WantsRerun(r) ==
    /\ run[r].isJob
    /\ pendingRerun[run[r].tenant]
    /\ run[r].reruns < MaxReruns

\* The end of a run, and for a job its then and catch: the status, the flag,
\* and the rerun.  Work that outlives its run keeps the tenant.  Announcements
\* are withdrawn when the job did not complete, or the flag is up and no rerun
\* may follow.
Ends(r, how) ==
    LET t     == run[r].tenant
        again == how = "completed" /\ WantsRerun(r)
        drops == how # "completed" \/ (pendingRerun[t] /\ run[r].reruns >= MaxReruns)
    IN
    /\ IF again THEN Begins(r, t, TRUE, run[r].reruns + 1)
                ELSE /\ run' = [run EXCEPT ![r] = [NoRun EXCEPT !.tenant = t]]
                     /\ UNCHANGED pauseRequested
    /\ IF run[r].isJob
       THEN /\ job' = IF again THEN Running(t) ELSE Ended(t, how)
            /\ pendingRerun' = [pendingRerun EXCEPT ![t] = FALSE]
            /\ announced' = [announced EXCEPT ![t] = IF drops THEN {} ELSE @]
       ELSE UNCHANGED <<job, pendingRerun, announced>>

\* startJob: a request that finds the job running raises the rerun flag.
StartJob(t) ==
    /\ starts < MaxStarts
    /\ starts' = starts + 1
    /\ \/ /\ job[t].running
          /\ pendingRerun' = [pendingRerun EXCEPT ![t] = TRUE]
          /\ UNCHANGED <<run, pauseRequested, job>>
       \/ /\ ~job[t].running
          /\ \E r \in Runs : IsIdle(r) /\ Begins(r, t, TRUE, 0)
          /\ job' = Running(t)
          /\ UNCHANGED pendingRerun
    /\ UNCHANGED <<fileVars, docs, checkpoint, step, data, desk, announced>>

\* runPollingTick: one tenant after the other, beside the jobs.
Poll(t) ==
    /\ starts < MaxStarts
    /\ starts' = starts + 1
    /\ \A r \in Runs : Live(r) => run[r].isJob
    /\ \E r \in Runs : IsIdle(r) /\ Begins(r, t, FALSE, 0)
    /\ UNCHANGED <<fileVars, docs, checkpoint, job, pendingRerun, announced, step, data, desk>>

\* Mutant: the job no longer counts as running.
PausedAtOnce(t) == Ended(t, "paused")

Paused(t) == [job EXCEPT ![t].state = "paused"]

\* pauseJob: the flag is the service's, whichever tenant asked.
PauseJob(t) ==
    /\ job[t].running
    /\ pauseRequested' = TRUE
    /\ pendingRerun' = [pendingRerun EXCEPT ![t] = FALSE]
    /\ announced' = [announced EXCEPT ![t] = {}]
    /\ job' = Paused(t)
    /\ UNCHANGED <<fileVars, docs, checkpoint, workVars, desk, starts>>

\* The status that buildSuccessData or buildFailureData gives a file without an
\* organisation.
Outcome(fails) == IF fails THEN "FAILED" ELSE "PENDING_TRIAGE"

\* Mutant: the next batch starts where this one did.
TakesAgain(R, B) == [R EXCEPT !.stage = "batch", !.batch = B]

Takes(R, B) == [R EXCEPT !.stage = "batch", !.batch = B, !.todo = @ \ B]

\* Promise.all over a batch: the work on its files starts.  How each extraction
\* will end is chosen here; until its upsert, processFile only reads.
StartsBatch(r, R, B) ==
    /\ run' = [run EXCEPT ![r] = Takes(R, B)]
    /\ step' = [w \in Slots |->
                  IF w[1] # r THEN step[w]
                  ELSE IF w[2] \notin B THEN "none"
                  ELSE IF w[2] \in Mail THEN "message" ELSE "upsert"]
    /\ \E failing \in SUBSET B :
          data' = [w \in Slots |-> IF w[1] # r THEN data[w] ELSE Outcome(w[2] \in failing)]

NoWork(r) ==
    /\ step' = [w \in Slots |-> IF w[1] = r THEN "none" ELSE step[w]]
    /\ UNCHANGED data

\* After the list, or after the last file of a batch: the next batch, the next
\* source, or the end.
GoesOn(r, R) ==
    \/ /\ R.todo # {}
       /\ \E B \in Firsts(R.todo) : StartsBatch(r, R, B)
       /\ Reports(r)
       /\ UNCHANGED <<pauseRequested, pendingRerun, announced>>
    \/ /\ R.todo = {} /\ R.left # {}
       /\ run' = [run EXCEPT ![r] = [R EXCEPT !.stage = "scan"]]
       /\ Reports(r)
       /\ NoWork(r)
       /\ UNCHANGED <<pauseRequested, pendingRerun, announced>>
    \/ /\ R.todo = {} /\ R.left = {}
       /\ Ends(r, "completed")
       /\ NoWork(r)

\* CheckpointModel.findOne of the next source, the upload folder last ...
ReadCheckpoint(r) ==
    /\ run[r].stage = "scan"
    /\ \E s \in run[r].left :
        /\ s \in Folders => run[r].left \subseteq Folders
        /\ run' = [run EXCEPT ![r].stage = "list", ![r].source = s,
                               ![r].marker = checkpoint[<<s, run[r].tenant>>],
                               ![r].left = @ \ {s}]
    /\ UNCHANGED <<fileVars, docs, checkpoint, jobVars, step, data, desk, starts>>

\* ... and its new files, without the objects whose extension is unknown and
\* those that could not be read.
List(r) ==
    LET new == New(run[r].source, run[r].marker) \ Unsupported IN
    /\ run[r].stage = "list"
    /\ \E unread \in SUBSET (new \ Mail) :
          /\ unread = {} \/ ReadsFail
          /\ unseen' = unseen \union unread
          /\ GoesOn(r, [run[r] EXCEPT !.todo = new \ unread])
    /\ UNCHANGED <<stored, clock, docs, checkpoint, desk, starts>>

\* Mutant: the first files that are done are not kept waiting for the others.
FileIsDone(r) ==
    /\ run[r].stage = "batch"
    /\ \E f \in run[r].batch : step[<<r, f>>] = "done"

\* Promise.all has settled: every file of the batch is done.
BatchIsDone(r) ==
    /\ run[r].stage = "batch"
    /\ \A f \in run[r].batch : step[<<r, f>>] = "done"

\* The loop over a settled batch: the checkpoint of each file in their order,
\* and after the last one the pause that may have been requested.
Mark(r) ==
    /\ BatchIsDone(r)
    /\ \E f \in run[r].batch :
          LET R == [run[r] EXCEPT !.batch = @ \ {f}, !.marker = MarkerOf(f)] IN
          /\ \A g \in run[r].batch : ~After(MarkerOf(f), MarkerOf(g))
          /\ checkpoint' = IF MarkerOf(f) = run[r].marker THEN checkpoint
                           ELSE [checkpoint EXCEPT ![<<run[r].source, run[r].tenant>>] =
                                    MarkerOf(f)]
          /\ \/ /\ R.batch # {}
                /\ run' = [run EXCEPT ![r] = R]
                /\ Reports(r)
                /\ UNCHANGED <<step, data, pauseRequested, pendingRerun, announced>>
             \/ /\ R.batch = {} /\ pauseRequested
                /\ Ends(r, "paused")
                /\ NoWork(r)
             \/ R.batch = {} /\ ~pauseRequested /\ GoesOn(r, R)
    /\ UNCHANGED <<fileVars, docs, desk, starts>>

\* A failed call between the files ends the run; nothing works for it then.
FailRun(r) ==
    /\ CallsFail
    /\ run[r].stage \in {"scan", "list"} \/ BatchIsDone(r)
    /\ Ends(r, "failed")
    /\ NoWork(r)
    /\ UNCHANGED <<fileVars, docs, checkpoint, desk, starts>>

(***************************************************************************)
(* The work on one file: processFile, upsertFromPending, persistFailure.   *)
(* It goes on when another file of its batch has ended the run.            *)
(***************************************************************************)
Works(r, f, from, to) ==
    /\ step[<<r, f>>] = from
    /\ step' = [step EXCEPT ![<<r, f>>] = to]
    /\ UNCHANGED <<run, data>>

\* The end of the work; when its run has ended, nobody awaits it.
Finishes(r, f, from) ==
    /\ step[<<r, f>>] = from
    /\ step' = [step EXCEPT ![<<r, f>>] = IF f \in run[r].batch THEN "done" ELSE "none"]
    /\ UNCHANGED run
    /\ data' = [data EXCEPT ![<<r, f>>] = "PENDING_TRIAGE"]

\* Mutant: any document of the same source document is taken.
SameDocument(d, f) == DocumentId[docs[d].name] = DocumentId[f]

\* matchBase: the file has no organisation, so only documents without one
\* match; the tenant and the source are not compared.
Matches(d, f) == DocumentId[docs[d].name] = DocumentId[f] /\ docs[d].org = NoOrg

Matching(f) == {d \in DOMAIN docs : Matches(d, f)}

\* UPSERT_OVERWRITE_SAFE_STATUSES.  No document without organisation is ever
\* PENDING, so the first update of the upsert, for PENDING alone, finds none.
Overwritable == {"PENDING", "PENDING_TRIAGE", "FAILED"}

\* A message is known by its mailbox and uid.
SameMessage(f, g) == Origin[f] = Origin[g] /\ DocumentId[f] = DocumentId[g]

BearsMessage(doc, f) == \E g \in doc.message : SameMessage(f, g)

\* The message of an attachment was ingested before: DUPLICATE.
CheckMessage(r, f) ==
    LET known == \E d \in DOMAIN docs :
                     docs[d].tenant = run[r].tenant /\ BearsMessage(docs[d], f)
    IN
    /\ \/ Finishes(r, f, "message") /\ known
       \/ Works(r, f, "message", "upsert") /\ ~known
    /\ UNCHANGED <<fileVars, docs, checkpoint, jobVars, desk, starts>>

IsMessage(r, f) == f \in Mail /\ data[<<r, f>>] = "PENDING_TRIAGE"

\* The unique index over organisation and gmailMessageId refuses f to a document
\* other than those of S.
MessageClashes(f, org, S) ==
    \E d \in DOMAIN docs \ S : docs[d].org = org /\ BearsMessage(docs[d], f)

\* updateData: all but the attachment name.
Overwritten(doc, r, f) ==
    [doc EXCEPT !.tenant = run[r].tenant, !.source = Origin[f], !.org = NoOrg,
                !.status = data[<<r, f>>],
                !.message = IF IsMessage(r, f) THEN {f} ELSE @, !.content = {f}]

\* A duplicate key counts as created.
Overwrite(r, f) ==
    LET found == {d \in Matching(f) : docs[d].status \in Overwritable} IN
    /\ \/ /\ Finishes(r, f, "upsert")
          /\ \E d \in found :
                docs' = IF IsMessage(r, f) /\ MessageClashes(f, NoOrg, {d}) THEN docs
                        ELSE [docs EXCEPT ![d] = Overwritten(@, r, f)]
       \/ /\ Works(r, f, "upsert", "check")
          /\ found = {}
          /\ UNCHANGED docs
    /\ UNCHANGED <<fileVars, checkpoint, jobVars, desk, starts>>

CheckProtected(r, f) ==
    /\ \/ Finishes(r, f, "check") /\ Matching(f) # {}
       \/ Works(r, f, "check", "create") /\ Matching(f) = {}
    /\ UNCHANGED <<fileVars, docs, checkpoint, jobVars, desk, starts>>

Ingested(r, f) ==
    [name |-> f, renamed |-> FALSE, tenant |-> run[r].tenant, source |-> Origin[f],
     org |-> NoOrg, status |-> "PENDING_TRIAGE",
     message |-> IF IsMessage(r, f) THEN {f} ELSE {}, content |-> {f}]

\* InvoiceModel.create.  A duplicate key counts as created; a failure without an
\* organisation does not pass the schema (RejectWork).
Create(r, f) ==
    /\ data[<<r, f>>] = "PENDING_TRIAGE"
    /\ Finishes(r, f, "create")
    /\ docs' = IF IsMessage(r, f) /\ MessageClashes(f, NoOrg, {}) THEN docs
               ELSE Append(docs, Ingested(r, f))
    /\ UNCHANGED <<fileVars, checkpoint, jobVars, desk, starts>>

\* A failed call of the upsert of a success: it is upserted as a failure.
FailUpsert(r, f) ==
    /\ CallsFail
    /\ step[<<r, f>>] \in {"upsert", "check", "create"}
    /\ data[<<r, f>>] = "PENDING_TRIAGE"
    /\ data' = [data EXCEPT ![<<r, f>>] = "FAILED"]
    /\ step' = [step EXCEPT ![<<r, f>>] = "upsert"]
    /\ UNCHANGED <<fileVars, docs, checkpoint, jobVars, run, desk, starts>>

\* processFile throws: a failed call outside its try, a failed call of
\* persistFailure, or the create that the schema refuses.
Throws(r, f) ==
    \/ CallsFail /\ step[<<r, f>>] = "message"
    \/ CallsFail /\ step[<<r, f>>] \in {"upsert", "check"} /\ data[<<r, f>>] = "FAILED"
    \/ step[<<r, f>>] = "create" /\ data[<<r, f>>] = "FAILED"

\* Promise.all rejects at the first file that throws and waits for no other.
RejectWork(r, f) ==
    /\ Throws(r, f)
    /\ step' = [w \in Slots |->
                  IF w = <<r, f>> \/ (w[1] = r /\ step[w] = "done") THEN "none" ELSE step[w]]
    /\ data' = [data EXCEPT ![<<r, f>>] = "PENDING_TRIAGE"]
    /\ IF f \in run[r].batch THEN Ends(r, "failed") ELSE UNCHANGED <<run, jobVars>>
    /\ UNCHANGED <<fileVars, docs, checkpoint, desk, starts>>

(***************************************************************************)
(* What stores files: uploads and mails.                                   *)
(***************************************************************************)

\* putObject: of an upload handler, or of a browser with a presigned address.
Put(f) ==
    /\ f \notin Mail /\ stored[f] = 0
    /\ \E now \in {clock, clock + 1} :
          /\ now > clock \/ (SameInstant /\ clock > 0)
          /\ clock' = now
          /\ stored' = [stored EXCEPT ![f] = now]
          /\ unseen' = IF \E g \in Files : /\ Origin[g] = Origin[f] /\ stored[g] = now
                                           /\ DocumentId[g] >= DocumentId[f]
                       THEN unseen \union {f} ELSE unseen
    /\ UNCHANGED <<docs, checkpoint, jobVars, workVars, desk, starts>>

\* The unique index over organisation, source, document and attachment name.
NameClashes(doc, org, S) ==
    \E d \in DOMAIN docs \ S :
        /\ docs[d].org = org /\ docs[d].source = doc.source
        /\ docs[d].name = doc.name /\ docs[d].renamed = doc.renamed

Uploaded(f, renamed, org) ==
    [name |-> f, renamed |-> renamed, tenant |-> Owner[Origin[f]], source |-> Origin[f],
     org |-> org, status |-> "PENDING", message |-> {}, content |-> {}]

\* InvoiceModel.create of an upload, whose document keeps the user's file name
\* (jobsUpload) or the object's (jobsUploadByKeys), and then the rerun flag.
Register(f, renamed, org) ==
    LET t == Owner[Origin[f]] IN
    /\ f \notin Mail /\ stored[f] > 0
    /\ Len(docs) < MaxUploads
    /\ ~NameClashes(Uploaded(f, renamed, org), org, {})
    /\ docs' = Append(docs, Uploaded(f, renamed, org))
    /\ IF job[t].running
       THEN /\ pendingRerun' = [pendingRerun EXCEPT ![t] = TRUE]
            /\ announced' = [announced EXCEPT ![t] = @ \union {f}]
       ELSE UNCHANGED <<pendingRerun, announced>>
    /\ UNCHANGED <<fileVars, checkpoint, pauseRequested, job, workVars, desk, starts>>

\* A message arrives with all its attachments.
Deliver(f) ==
    /\ f \in Mail /\ stored[f] = 0
    /\ clock' = clock + 1
    /\ stored' = [g \in Files |->
                    IF g \in Mail /\ SameMessage(g, f) THEN clock' ELSE stored[g]]
    /\ UNCHANGED <<unseen, docs, checkpoint, jobVars, workVars, desk, starts>>

(***************************************************************************)
(* The triage desk, and a retry of documents that have an organisation.    *)
(***************************************************************************)

\* assignClientOrg and reject: load, check ...
TakeUp(c, d, org) ==
    /\ desk[c] = NoCase
    /\ docs[d].status = "PENDING_TRIAGE"
    /\ desk' = [desk EXCEPT ![c] = [doc |-> d, goesTo |-> org]]
    /\ UNCHANGED <<fileVars, docs, checkpoint, jobVars, workVars, starts>>

\* Mutant: the save sends the status alone.
AssignedStatus(doc, org) == [doc EXCEPT !.status = "PARSED"]

\* What save() sends: both fields differ from the loaded ones.
Assigned(doc, org) == [doc EXCEPT !.status = "PARSED", !.org = org]

\* Mutant: a rejected document goes back to review.
RejectedToReview(doc) == [doc EXCEPT !.status = "NEEDS_REVIEW"]

Rejected(doc) == [doc EXCEPT !.status = "REJECTED"]

MayBeAssigned(d, org) ==
    /\ ~NameClashes(docs[d], org, {d})
    /\ \A f \in docs[d].message : ~MessageClashes(f, org, {d})

\* ... and save.  A duplicate key or another failure ends the request.
Decide(c) ==
    LET d == desk[c].doc  org == desk[c].goesTo IN
    /\ desk[c] # NoCase
    /\ desk' = [desk EXCEPT ![c] = NoCase]
    /\ \/ org \in Orgs /\ MayBeAssigned(d, org) /\ docs' = [docs EXCEPT ![d] = Assigned(@, org)]
       \/ org = NoOrg /\ docs' = [docs EXCEPT ![d] = Rejected(@)]
       \/ /\ CallsFail \/ (org \in Orgs /\ ~MayBeAssigned(d, org))
          /\ UNCHANGED docs
    /\ UNCHANGED <<fileVars, checkpoint, jobVars, workVars, starts>>

\* retryInvoices
RetryDocument(d) ==
    /\ docs[d].org # NoOrg
    /\ docs[d].status \in {"PENDING", "FAILED", "PARSED"}
    /\ docs' = [docs EXCEPT ![d].status = "PENDING"]
    /\ UNCHANGED <<fileVars, checkpoint, jobVars, workVars, desk, starts>>

\* The process ends: runs, work, requests and the orchestrator's maps are gone.
Crash ==
    /\ pauseRequested' = FALSE
    /\ job'           = [t \in Tenants |-> [running |-> FALSE, state |-> "idle"]]
    /\ pendingRerun'  = [t \in Tenants |-> FALSE]
    /\ announced'     = [t \in Tenants |-> {}]
    /\ run'           = [r \in Runs |-> NoRun]
    /\ step'          = [w \in Slots |-> "none"]
    /\ data'          = [w \in Slots |-> "PENDING_TRIAGE"]
    /\ desk'          = [c \in Clerks |-> NoCase]
    /\ UNCHANGED <<fileVars, docs, checkpoint, starts>>

(***************************************************************************)
(* The specification.                                                      *)
(***************************************************************************)
Work(r, f) ==
    \/ CheckMessage(r, f)
    \/ Overwrite(r, f)
    \/ CheckProtected(r, f)
    \/ Create(r, f)
    \/ RejectWork(r, f)

RunStep(r) ==
    \/ ReadCheckpoint(r)
    \/ List(r)
    \/ Mark(r)

Request ==
    \/ \E t \in Tenants : StartJob(t) \/ Poll(t) \/ PauseJob(t)
    \/ \E f \in Files : Put(f) \/ Deliver(f)
    \/ \E f \in Files, renamed \in BOOLEAN, org \in Orgs : Register(f, renamed, org)
    \/ \E c \in Clerks, d \in DOMAIN docs, org \in Orgs \union {NoOrg} : TakeUp(c, d, org)
    \/ \E d \in DOMAIN docs : RetryDocument(d)

Next ==
    \/ Request
    \/ \E r \in Runs : RunStep(r) \/ FailRun(r)
    \/ \E r \in Runs, f \in Files : Work(r, f) \/ FailUpsert(r, f)
    \/ \E c \in Clerks : Decide(c)
    \/ Crash

Spec == Init /\ [][Next]_vars

Fairness ==
    /\ \A r \in Runs : WF_vars(RunStep(r))
    /\ \A r \in Runs, f \in Files : WF_vars(Work(r, f))

FairSpec == Spec /\ Fairness

(***************************************************************************)
(* Properties.                                                             *)
(***************************************************************************)
TypeOK ==
    /\ stored         \in [Files -> Nat]
    /\ clock          \in Nat
    /\ docs           \in Seq(Document)
    /\ checkpoint     \in [Sources \X Tenants -> Marker]
    /\ pauseRequested \in BOOLEAN
    /\ job            \in [Tenants -> [running : BOOLEAN, state : JobStates]]
    /\ pendingRerun   \in [Tenants -> BOOLEAN]
    /\ run            \in [Runs -> Run]
    /\ step           \in [Slots -> Steps]
    /\ data           \in [Slots -> {"PENDING_TRIAGE", "FAILED"}]
    /\ desk           \in [Clerks -> Case]
    /\ starts         \in 0 .. MaxStarts
    /\ announced      \in [Tenants -> SUBSET Files]
    /\ unseen         \subseteq Files

\* A tenant's status says running exactly while one run works for its job:
\* requests, reruns, pauses, failures and the polls beside them never start a
\* second job nor leave a status running with nothing behind it.
JobRun(r, t) == Live(r) /\ run[r].isJob /\ run[r].tenant = t

RunningJobIsOne ==
    \A t \in Tenants :
        /\ job[t].running <=> \E r \in Runs : JobRun(r, t)
        /\ \A r, q \in Runs : JobRun(r, t) /\ JobRun(q, t) => r = q

\* A run has read the file, or another attachment of its message.
HasBeenRead(f) ==
    \E d \in DOMAIN docs :
        /\ docs[d].content # {}
        /\ docs[d].source = Origin[f] /\ DocumentId[docs[d].name] = DocumentId[f]

\* What may leave an object unread for good: an extension the upload accepts and
\* the source does not know, a listing that could not read it, an object of a
\* greater key stored before it at the same instant; or its document may have
\* been taken by the reading of a file of another source with the same id.
Missed(f) ==
    \/ f \in Unsupported \union unseen
    \/ \E g \in Files : Origin[g] # Origin[f] /\ DocumentId[g] = DocumentId[f]

\* Nothing a checkpoint has passed is unread, but for these cases: whatever runs
\* overlap, fail, pause or die, for whichever tenant they scan the source, and
\* in whatever order their batches settle, a file at or before the marker was
\* read.
CheckpointCovers ==
    \A f \in Files, t \in Tenants :
        stored[f] > 0 /\ ~After(MarkerOf(f), checkpoint[<<Origin[f], t>>])
            => HasBeenRead(f) \/ Missed(f)

\* An upload that raised the rerun flag was read when the job is over: it may
\* have missed the listing of the job it met, then the rerun reads it (unless
\* the job was paused, failed, or had used up its reruns).
AnnouncedIsRead ==
    \A t \in Tenants :
        ~job[t].running => \A f \in announced[t] : HasBeenRead(f) \/ Missed(f)

\* "does NOT clobber a human-edited PARSED row on a re-poll": no run, also one
\* that reads a file a second time or was left behind by a failed one, changes
\* a document that has an organisation.
KeepsAssigned ==
    [][\A r \in Runs, f \in Files : Work(r, f) =>
        \A d \in DOMAIN docs : docs[d].org # NoOrg => docs'[d] = docs[d]]_vars

\* A document that left triage for the books has an organisation, though the
\* clerk saves what was loaded before a run overwrote it.
ParsedHasOrg ==
    \A d \in DOMAIN docs : docs[d].status = "PARSED" => docs[d].org # NoOrg

\* Every run ends.
RunsEnd == \A r \in Runs : Live(r) ~> ~Live(r)

\* docs/state-machine/INVOICE-STATE-MACHINE.md:35 and :69: a PENDING document
\* goes through the ingestion pipeline, a retried one "re-enters" it.  So its
\* file is yet to be listed or in the hands of a run.
PendingIsAhead ==
    \A d \in DOMAIN docs :
        LET f == docs[d].name IN
        docs[d].status = "PENDING" =>
            \/ After(MarkerOf(f), checkpoint[<<Origin[f], docs[d].tenant>>])
            \/ \E r \in Runs : Live(r) /\ f \in run[r].todo \union run[r].batch
=============================================================================
