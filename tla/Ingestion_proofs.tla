------------------------- MODULE Ingestion_proofs -------------------------
(***************************************************************************)
(* Proofs about Ingestion, for any tenants, sources, files, runs, clerks   *)
(* and organisations, any concurrency and any number of reruns.            *)
(***************************************************************************)
EXTENDS Ingestion, TLAPS, SequenceTheorems

(***************************************************************************)
(* Documents.  Every step leaves sound documents, and what was read before *)
(* is read after it.                                                       *)
(***************************************************************************)

\* What left triage has an organisation, and only uploads, which have one, were
\* not read.  What was read came from a file of the document's source, and the
\* message is that of its source document.
Sound(doc) ==
    /\ doc.status = "PARSED" => doc.org # NoOrg
    /\ doc.message # {} \/ doc.org = NoOrg => doc.content # {}
    /\ \A g \in doc.message : DocumentId[g] = DocumentId[doc.name]
    /\ doc.content # {} =>
          \E g \in Files : Origin[g] = doc.source /\ DocumentId[g] = DocumentId[doc.name]

SoundDocuments == {doc \in Document : Sound(doc)}

DocsInv == docs \in Seq(SoundDocuments)

KeepsReading ==
    /\ DocsInv'
    /\ Len(docs) <= Len(docs')
    /\ \A d \in DOMAIN docs :
          /\ docs'[d].name = docs[d].name
          /\ docs[d].content # {} => docs'[d].content # {}

LEMMA DocumentFields ==
  ASSUME DocsInv, NEW d \in DOMAIN docs
  PROVE  /\ docs[d] \in SoundDocuments
         /\ docs[d] \in Document
         /\ docs[d].name \in Files
         /\ docs[d].message \in SUBSET Files
         /\ docs[d].content \in SUBSET Files
         /\ docs[d].status = "PARSED" => docs[d].org # NoOrg
         /\ docs[d].message # {} \/ docs[d].org = NoOrg => docs[d].content # {}
         /\ \A g \in docs[d].message : DocumentId[g] = DocumentId[docs[d].name]
         /\ docs[d].content # {} =>
               \E g \in Files : /\ Origin[g] = docs[d].source
                                /\ DocumentId[g] = DocumentId[docs[d].name]
<1>1. docs[d] \in SoundDocuments
  BY ElementOfSeq, LenProperties DEF DocsInv
<1>2. docs[d] \in Document /\ Sound(docs[d])
  BY <1>1 DEF SoundDocuments
<1>3. /\ docs[d].name \in Files
      /\ docs[d].message \in SUBSET Files /\ docs[d].content \in SUBSET Files
  BY <1>2 DEF Document
<1> QED
  BY <1>1, <1>2, <1>3 DEF Sound

LEMMA SameDocuments ==
  ASSUME DocsInv, UNCHANGED docs PROVE KeepsReading
  BY LenProperties DEF DocsInv, KeepsReading

LEMMA ChangedDocument ==
  ASSUME DocsInv, NEW d, NEW doc,
         d \in DOMAIN docs =>
            /\ doc \in SoundDocuments
            /\ doc.name = docs[d].name
            /\ docs[d].content # {} => doc.content # {},
         docs' = [docs EXCEPT ![d] = doc]
  PROVE  KeepsReading
<1>1. CASE d \in DOMAIN docs
  <2>1. d \in 1 .. Len(docs) /\ docs \in Seq(SoundDocuments) /\ doc \in SoundDocuments
    BY <1>1, LenProperties DEF DocsInv
  <2>2. /\ [docs EXCEPT ![d] = doc] \in Seq(SoundDocuments)
        /\ Len([docs EXCEPT ![d] = doc]) = Len(docs)
        /\ \A e \in 1 .. Len(docs) : [docs EXCEPT ![d] = doc][e] = IF e = d THEN doc ELSE docs[e]
    BY <2>1, ExceptSeq
  <2>3. DOMAIN docs = 1 .. Len(docs)
    BY LenProperties DEF DocsInv
  <2>4. DocsInv' /\ Len(docs) <= Len(docs')
    BY <2>2, <2>1, LenProperties DEF DocsInv
  <2>5. ASSUME NEW e \in DOMAIN docs
        PROVE  /\ docs'[e].name = docs[e].name
               /\ docs[e].content # {} => docs'[e].content # {}
    BY <1>1, <2>2, <2>3
  <2> QED
    BY <2>4, <2>5 DEF KeepsReading
<1>2. CASE d \notin DOMAIN docs
  <2>1. docs' = docs
    BY <1>2, LenProperties DEF DocsInv
  <2> QED
    BY <2>1, SameDocuments
<1> QED
  BY <1>1, <1>2

LEMMA AddedDocument ==
  ASSUME DocsInv, NEW doc \in SoundDocuments, docs' = Append(docs, doc)
  PROVE  KeepsReading
<1>1. /\ docs' \in Seq(SoundDocuments)
      /\ Len(docs') = Len(docs) + 1
      /\ \A d \in 1 .. Len(docs) : docs'[d] = docs[d]
  BY AppendProperties DEF DocsInv
<1> QED
  BY <1>1, LenProperties DEF KeepsReading, DocsInv

\* The documents a run writes.
LEMMA WorkKeepsReading ==
  ASSUME TypeOK, DocsInv, NEW r \in Runs, NEW f \in Files, Work(r, f) \/ FailUpsert(r, f)
  PROVE  KeepsReading
<1> USE IngestionAssumption
<1>1. /\ data[<<r, f>>] \in {"PENDING_TRIAGE", "FAILED"}
      /\ run[r].tenant \in Tenants /\ Origin[f] \in Sources
  BY DEF TypeOK, Slots, Run
<1>2. CASE Overwrite(r, f)
  <2>1. CASE UNCHANGED docs
    BY <2>1, SameDocuments
  <2>2. ASSUME NEW d \in Matching(f), docs' = [docs EXCEPT ![d] = Overwritten(docs[d], r, f)]
        PROVE  KeepsReading
    <3> DEFINE doc == Overwritten(docs[d], r, f)
               message == IF IsMessage(r, f) THEN {f} ELSE docs[d].message
    <3>1. /\ d \in DOMAIN docs /\ DocumentId[docs[d].name] = DocumentId[f]
          /\ docs[d] \in Document
          /\ \A g \in docs[d].message : DocumentId[g] = DocumentId[docs[d].name]
          /\ docs[d].message \in SUBSET Files
      BY <2>2, DocumentFields DEF Matching, Matches
    <3>2. /\ message \in SUBSET Files
          /\ \A g \in message : DocumentId[g] = DocumentId[docs[d].name]
      BY <3>1
    <3> HIDE DEF message
    <3>3. /\ doc \in Document
          /\ doc.name = docs[d].name /\ doc.content = {f} /\ doc.status = data[<<r, f>>]
          /\ doc.message = message /\ doc.source = Origin[f]
      BY <1>1, <3>1, <3>2 DEF Overwritten, Document, Statuses, message
    <3> HIDE DEF doc
    <3>4. doc \in SoundDocuments
      BY <1>1, <3>1, <3>2, <3>3 DEF SoundDocuments, Sound
    <3> QED
      BY <2>2, <3>1, <3>3, <3>4, ChangedDocument DEF doc
  <2> QED
    BY <1>2, <2>1, <2>2 DEF Overwrite
<1>3. CASE Create(r, f)
  <2>1. CASE UNCHANGED docs
    BY <2>1, SameDocuments
  <2>2. CASE docs' = Append(docs, Ingested(r, f))
    <3>1. Ingested(r, f) \in SoundDocuments
      BY <1>1 DEF Ingested, SoundDocuments, Sound, Document, Statuses
    <3> QED
      BY <2>2, <3>1, AddedDocument
  <2> QED
    BY <1>3, <2>1, <2>2 DEF Create
<1>4. CASE CheckMessage(r, f) \/ CheckProtected(r, f) \/ RejectWork(r, f) \/ FailUpsert(r, f)
  BY <1>4, SameDocuments DEF CheckMessage, CheckProtected, RejectWork, FailUpsert
<1> QED
  BY <1>2, <1>3, <1>4 DEF Work

LEMMA RequestKeepsReading ==
  ASSUME TypeOK, DocsInv, Request
  PROVE  KeepsReading
<1> USE IngestionAssumption
<1>1. CASE \E t \in Tenants : StartJob(t) \/ Poll(t) \/ PauseJob(t)
  BY <1>1, SameDocuments DEF StartJob, Poll, PauseJob
<1>2. CASE \E f \in Files : Put(f) \/ Deliver(f)
  BY <1>2, SameDocuments DEF Put, Deliver
<1>3. ASSUME NEW f \in Files, NEW renamed \in BOOLEAN, NEW org \in Orgs, Register(f, renamed, org)
      PROVE  KeepsReading
  <2>1. Uploaded(f, renamed, org) \in SoundDocuments
    BY <1>3 DEF Uploaded, SoundDocuments, Sound, Document, Statuses
  <2> QED
    BY <1>3, <2>1, AddedDocument DEF Register
<1>4. CASE \E c \in Clerks, d \in DOMAIN docs, org \in Orgs \union {NoOrg} : TakeUp(c, d, org)
  BY <1>4, SameDocuments DEF TakeUp
<1>5. ASSUME NEW d \in DOMAIN docs, RetryDocument(d)
      PROVE  KeepsReading
  <2> DEFINE doc == [docs[d] EXCEPT !.status = "PENDING"]
  <2>1. docs[d] \in Document /\ Sound(docs[d])
    BY DocumentFields DEF SoundDocuments
  <2>2. /\ doc \in Document
        /\ doc.name = docs[d].name /\ doc.content = docs[d].content
        /\ doc.message = docs[d].message /\ doc.status = "PENDING"
        /\ doc.org = docs[d].org /\ doc.source = docs[d].source
    BY <2>1 DEF Document, Statuses
  <2> HIDE DEF doc
  <2>3. doc \in SoundDocuments
    BY <2>1, <2>2 DEF SoundDocuments, Sound
  <2>4. docs' = [docs EXCEPT ![d] = doc]
    BY <1>5 DEF RetryDocument, doc
  <2> QED
    BY <2>2, <2>3, <2>4, ChangedDocument
<1> QED
  BY <1>1, <1>2, <1>3, <1>4, <1>5 DEF Request

LEMMA DecideKeepsReading ==
  ASSUME TypeOK, DocsInv, NEW c \in Clerks, Decide(c)
  PROVE  KeepsReading
<1> USE IngestionAssumption
<1> DEFINE d == desk[c].doc  org == desk[c].goesTo
<1>1. CASE UNCHANGED docs
  BY <1>1, SameDocuments
<1>2. CASE org \in Orgs /\ docs' = [docs EXCEPT ![d] = Assigned(docs[d], org)]
  <2> DEFINE doc == Assigned(docs[d], org)
  <2>1. ASSUME d \in DOMAIN docs
        PROVE  /\ doc \in SoundDocuments
               /\ doc.name = docs[d].name
               /\ doc.content = docs[d].content
    <3>1. docs[d] \in Document /\ Sound(docs[d])
      BY <2>1, DocumentFields DEF SoundDocuments
    <3>2. doc \in Document
      BY <1>2, <3>1 DEF Assigned, Document, Statuses
    <3>3. /\ doc.name = docs[d].name /\ doc.content = docs[d].content
          /\ doc.message = docs[d].message /\ doc.status = "PARSED"
          /\ doc.org = org /\ doc.source = docs[d].source
      BY <3>1 DEF Assigned, Document
    <3> QED
      BY <1>2, <3>1, <3>2, <3>3 DEF SoundDocuments, Sound
  <2> QED
    BY <1>2, <2>1, ChangedDocument
<1>3. CASE docs' = [docs EXCEPT ![d] = Rejected(docs[d])]
  <2> DEFINE doc == Rejected(docs[d])
  <2>1. ASSUME d \in DOMAIN docs
        PROVE  /\ doc \in SoundDocuments
               /\ doc.name = docs[d].name
               /\ doc.content = docs[d].content
    <3>1. docs[d] \in Document /\ Sound(docs[d])
      BY <2>1, DocumentFields DEF SoundDocuments
    <3>2. doc \in Document
      BY <1>3, <3>1 DEF Rejected, Document, Statuses
    <3>3. /\ doc.name = docs[d].name /\ doc.content = docs[d].content
          /\ doc.message = docs[d].message /\ doc.status = "REJECTED"
          /\ doc.org = docs[d].org /\ doc.source = docs[d].source
      BY <3>1 DEF Rejected, Document
    <3> QED
      BY <1>3, <3>1, <3>2, <3>3 DEF SoundDocuments, Sound
  <2> QED
    BY <1>3, <2>1, ChangedDocument
<1> QED
  BY <1>1, <1>2, <1>3 DEF Decide

LEMMA DocsStep ==
  ASSUME TypeOK, DocsInv, [Next]_vars
  PROVE  KeepsReading
<1>1. CASE Request
  BY <1>1, RequestKeepsReading
<1>2. ASSUME NEW r \in Runs, RunStep(r) \/ FailRun(r)
      PROVE  KeepsReading
  BY <1>2, SameDocuments DEF RunStep, FailRun, ReadCheckpoint, List, Mark
<1>3. ASSUME NEW r \in Runs, NEW f \in Files, Work(r, f) \/ FailUpsert(r, f)
      PROVE  KeepsReading
  BY <1>3, WorkKeepsReading
<1>4. ASSUME NEW c \in Clerks, Decide(c)
      PROVE  KeepsReading
  BY <1>4, DecideKeepsReading
<1>5. CASE Crash \/ UNCHANGED vars
  BY <1>5, SameDocuments DEF Crash, vars
<1> QED
  BY <1>1, <1>2, <1>3, <1>4, <1>5 DEF Next

\* Some document with the file's id was read, from whichever source.
IdRead(f) ==
    \E d \in DOMAIN docs : docs[d].content # {} /\ DocumentId[docs[d].name] = DocumentId[f]

\* ... or the source will never offer the file.
Settled(f) == IdRead(f) \/ f \in Unsupported \union unseen

LEMMA ReadStaysRead ==
  ASSUME DocsInv, KeepsReading, unseen \subseteq unseen', NEW f \in Files
  PROVE  /\ IdRead(f) => IdRead(f)'
         /\ Settled(f) => Settled(f)'
<1>1. ASSUME IdRead(f) PROVE IdRead(f)'
  <2>1. PICK d \in DOMAIN docs :
          docs[d].content # {} /\ DocumentId[docs[d].name] = DocumentId[f]
    BY <1>1 DEF IdRead
  <2>2. d \in DOMAIN docs'
    BY LenProperties DEF DocsInv, KeepsReading
  <2> QED
    BY <2>1, <2>2 DEF IdRead, KeepsReading
<1> QED
  BY <1>1 DEF Settled

\* A document with the file's id was read from the file's source, or another
\* source has a file with that id.
LEMMA SettledIsKnown ==
  ASSUME DocsInv, NEW f \in Files, Settled(f)
  PROVE  HasBeenRead(f) \/ Missed(f)
<1>1. CASE f \in Unsupported \union unseen
  BY <1>1 DEF Missed
<1>2. ASSUME NEW d \in DOMAIN docs, docs[d].content # {},
             DocumentId[docs[d].name] = DocumentId[f]
      PROVE  HasBeenRead(f) \/ Missed(f)
  <2>1. PICK g \in Files : Origin[g] = docs[d].source /\ DocumentId[g] = DocumentId[f]
    BY <1>2, DocumentFields
  <2>2. CASE docs[d].source = Origin[f]
    BY <1>2, <2>2 DEF HasBeenRead
  <2>3. CASE docs[d].source # Origin[f]
    BY <2>1, <2>3 DEF Missed
  <2> QED
    BY <2>2, <2>3
<1> QED
  BY <1>1, <1>2 DEF Settled, IdRead

(***************************************************************************)
(* Types.  What starts a run, what ends one, and what goes on.             *)
(***************************************************************************)
Outcomes == {"completed", "paused", "failed"}

Others(r) == \A q \in Runs : q # r => run'[q] = run[q]

RunTypes ==
    /\ pauseRequested' \in BOOLEAN
    /\ job'            \in [Tenants -> [running : BOOLEAN, state : JobStates]]
    /\ pendingRerun'   \in [Tenants -> BOOLEAN]
    /\ run'            \in [Runs -> Run]
    /\ announced'      \in [Tenants -> SUBSET Files]

WorkTypes ==
    /\ step' \in [Slots -> Steps]
    /\ data' \in [Slots -> {"PENDING_TRIAGE", "FAILED"}]

LEMMA RunFields ==
  ASSUME TypeOK, NEW r \in Runs
  PROVE  /\ run[r] \in Run
         /\ run[r].stage \in {"idle", "scan", "list", "batch"}
         /\ run[r].tenant \in Tenants
         /\ run[r].isJob \in BOOLEAN
         /\ run[r].reruns \in Nat
         /\ run[r].left \subseteq Sources
         /\ run[r].source \in Sources \union {NoSource}
         /\ run[r].marker \in Marker
         /\ run[r].todo \subseteq Files
         /\ run[r].batch \subseteq Files
<1>1. run[r] \in Run
  BY DEF TypeOK
<1> QED
  BY <1>1 DEF Run

LEMMA NoRunIsRun ==
  /\ NoRun \in Run
  /\ NoRun.stage = "idle" /\ NoRun.isJob = FALSE /\ NoRun.left = {}
  /\ NoRun.source = NoSource /\ NoRun.marker = NoMarker
  /\ NoRun.todo = {} /\ NoRun.batch = {} /\ NoRun.reruns = 0
<1>1. (CHOOSE t \in Tenants : TRUE) \in Tenants
  BY IngestionAssumption
<1> QED
  BY <1>1 DEF NoRun, Run, Marker, NoMarker

LEMMA ScannedSources ==
  ASSUME NEW t \in Tenants
  PROVE  /\ Scanned(t) \subseteq Sources
         /\ \A s \in Sources : Owner[s] = t => s \in Scanned(t)
  BY IngestionAssumption DEF Scanned, Configured

LEMMA BeginsEffect ==
  ASSUME TypeOK, NEW r \in Runs, NEW t \in Tenants, NEW isJob \in BOOLEAN,
         NEW reruns \in Nat, Begins(r, t, isJob, reruns)
  PROVE  /\ run' \in [Runs -> Run] /\ pauseRequested' \in BOOLEAN
         /\ Others(r)
         /\ run'[r].stage = "scan" /\ run'[r].tenant = t /\ run'[r].isJob = isJob
         /\ run'[r].reruns = reruns /\ run'[r].marker = NoMarker
         /\ run'[r].left = Scanned(t)
         /\ run'[r].todo = {} /\ run'[r].batch = {}
<1> DEFINE fresh == [NoRun EXCEPT !.stage = "scan", !.tenant = t, !.isJob = isJob,
                              !.reruns = reruns, !.left = Scanned(t)]
<1>1. /\ fresh \in Run
      /\ fresh.stage = "scan" /\ fresh.tenant = t /\ fresh.isJob = isJob
      /\ fresh.reruns = reruns /\ fresh.marker = NoMarker
      /\ fresh.left = Scanned(t)
      /\ fresh.todo = {} /\ fresh.batch = {}
  BY NoRunIsRun, ScannedSources DEF Run
<1>2. run' = [run EXCEPT ![r] = fresh] /\ run \in [Runs -> Run] /\ pauseRequested' = FALSE
  BY DEF Begins, TypeOK
<1> HIDE DEF fresh
<1> QED
  BY <1>1, <1>2 DEF Others

LEMMA RunningType ==
  ASSUME TypeOK, NEW t \in Tenants, NEW how \in JobStates
  PROVE  /\ Running(t) \in [Tenants -> [running : BOOLEAN, state : JobStates]]
         /\ Ended(t, how) \in [Tenants -> [running : BOOLEAN, state : JobStates]]
         /\ \A u \in Tenants :
              /\ Running(t)[u].running <=> u = t \/ job[u].running
              /\ Ended(t, how)[u].running <=> u # t /\ job[u].running
<1>1. job \in [Tenants -> [running : BOOLEAN, state : JobStates]]
  BY DEF TypeOK
<1> QED
  BY <1>1 DEF Running, Ended, JobStates

LEMMA EndsEffect ==
  ASSUME TypeOK, NEW r \in Runs, NEW how \in Outcomes, Ends(r, how)
  PROVE  /\ RunTypes
         /\ Others(r)
         /\ run'[r].todo = {} /\ run'[r].batch = {}
         /\ \/ /\ ~(how = "completed" /\ WantsRerun(r))
               /\ run'[r].stage = "idle" /\ run'[r].isJob = FALSE /\ run'[r].reruns = 0
            \/ /\ how = "completed" /\ WantsRerun(r)
               /\ run'[r].stage = "scan" /\ run'[r].isJob = TRUE
               /\ run'[r].tenant = run[r].tenant
               /\ run'[r].reruns = run[r].reruns + 1
               /\ run'[r].left = Scanned(run[r].tenant)
<1> USE IngestionAssumption
<1> DEFINE t     == run[r].tenant
           again == how = "completed" /\ WantsRerun(r)
<1>1. t \in Tenants /\ run[r].isJob \in BOOLEAN /\ run[r].reruns + 1 \in Nat
  BY RunFields
<1>2. /\ run' \in [Runs -> Run] /\ pauseRequested' \in BOOLEAN /\ Others(r)
      /\ run'[r].todo = {} /\ run'[r].batch = {}
      /\ \/ /\ ~again
            /\ run'[r].stage = "idle" /\ run'[r].isJob = FALSE /\ run'[r].reruns = 0
         \/ /\ again
            /\ run'[r].stage = "scan" /\ run'[r].isJob = TRUE /\ run'[r].tenant = t
            /\ run'[r].reruns = run[r].reruns + 1
            /\ run'[r].left = Scanned(t)
  <2>1. CASE again
    <3>1. Begins(r, t, TRUE, run[r].reruns + 1)
      BY <2>1 DEF Ends
    <3> QED
      BY <1>1, <2>1, <3>1, BeginsEffect
  <2>2. CASE ~again
    <3> DEFINE ended == [NoRun EXCEPT !.tenant = t]
    <3>1. run' = [run EXCEPT ![r] = ended] /\ UNCHANGED pauseRequested
      BY <2>2 DEF Ends
    <3>2. /\ ended \in Run /\ ended.stage = "idle" /\ ended.isJob = FALSE
          /\ ended.reruns = 0 /\ ended.todo = {} /\ ended.batch = {}
      BY <1>1, NoRunIsRun DEF Run
    <3> HIDE DEF ended, t
    <3> QED
      BY <2>2, <3>1, <3>2 DEF TypeOK, Others
  <2> QED
    BY <2>1, <2>2
<1>3. /\ job' \in [Tenants -> [running : BOOLEAN, state : JobStates]]
      /\ pendingRerun' \in [Tenants -> BOOLEAN]
      /\ announced' \in [Tenants -> SUBSET Files]
  <2>1. CASE run[r].isJob
    <3>1. job' \in {Running(t), Ended(t, how)}
      BY <2>1 DEF Ends
    <3>2. job' \in [Tenants -> [running : BOOLEAN, state : JobStates]]
      BY <1>1, <3>1, RunningType DEF Outcomes, JobStates
    <3>3. pendingRerun' = [pendingRerun EXCEPT ![t] = FALSE]
      BY <2>1 DEF Ends
    <3>4. \/ announced' = [announced EXCEPT ![t] = {}]
          \/ announced' = [announced EXCEPT ![t] = announced[t]]
      BY <2>1 DEF Ends
    <3>5. t \in Tenants /\ pendingRerun \in [Tenants -> BOOLEAN]
          /\ announced \in [Tenants -> SUBSET Files]
      BY <1>1 DEF TypeOK
    <3> HIDE DEF t
    <3>6. announced' \in [Tenants -> SUBSET Files]
      BY <3>4, <3>5
    <3> QED
      BY <3>2, <3>3, <3>5, <3>6
  <2>2. CASE ~run[r].isJob
    BY <2>2 DEF Ends, TypeOK
  <2> QED
    BY <2>1, <2>2
<1> QED
  BY <1>2, <1>3 DEF RunTypes

LEMMA NoWorkType ==
  ASSUME TypeOK, NEW r \in Runs, NoWork(r) PROVE WorkTypes
  BY DEF NoWork, WorkTypes, TypeOK, Steps

LEMMA ReportsEffect ==
  ASSUME TypeOK, NEW r \in Runs, Reports(r)
  PROVE  /\ job' \in [Tenants -> [running : BOOLEAN, state : JobStates]]
         /\ \A t \in Tenants :
              job'[t].running <=> job[t].running \/ (run[r].isJob /\ run[r].tenant = t)
<1>1. job \in [Tenants -> [running : BOOLEAN, state : JobStates]] /\ "idle" \in JobStates
  BY DEF TypeOK, JobStates
<1>2. CASE run[r].isJob
  <2>1. job' = Running(run[r].tenant) /\ run[r].tenant \in Tenants
    BY <1>2, RunFields DEF Reports
  <2>2. /\ Running(run[r].tenant) \in [Tenants -> [running : BOOLEAN, state : JobStates]]
        /\ \A u \in Tenants :
              Running(run[r].tenant)[u].running <=> u = run[r].tenant \/ job[u].running
    BY <1>1, <2>1, RunningType
  <2> QED
    BY <1>2, <2>1, <2>2
<1>3. CASE ~run[r].isJob
  <2>1. job' = job
    BY <1>3 DEF Reports
  <2>2. \A t \in Tenants : job[t].running \in BOOLEAN
    BY <1>1
  <2> QED
    BY <1>1, <1>3, <2>1, <2>2
<1> QED
  BY <1>2, <1>3

LEMMA TakesEffect ==
  ASSUME NEW R \in Run, NEW B \in Firsts(R.todo)
  PROVE  /\ B \subseteq R.todo
         /\ \A b \in B, f \in R.todo \ B : ~After(MarkerOf(b), MarkerOf(f))
         /\ Takes(R, B) \in Run
         /\ Takes(R, B).stage = "batch" /\ Takes(R, B).batch = B
         /\ Takes(R, B).todo = R.todo \ B
         /\ Takes(R, B).tenant = R.tenant /\ Takes(R, B).isJob = R.isJob
         /\ Takes(R, B).reruns = R.reruns /\ Takes(R, B).left = R.left
         /\ Takes(R, B).source = R.source /\ Takes(R, B).marker = R.marker
<1>1. /\ B \subseteq R.todo
      /\ \A b \in B, f \in R.todo \ B : ~After(MarkerOf(b), MarkerOf(f))
  BY DEF Firsts
<1>2. B \subseteq Files
  BY <1>1 DEF Run
<1> QED
  BY <1>1, <1>2 DEF Takes, Run

LEMMA StartsBatchEffect ==
  ASSUME TypeOK, NEW r \in Runs, NEW R \in Run, NEW B \in Firsts(R.todo), StartsBatch(r, R, B)
  PROVE  /\ run' = [run EXCEPT ![r] = Takes(R, B)] /\ run' \in [Runs -> Run]
         /\ WorkTypes
         /\ \A f \in Files : step'[<<r, f>>] # "done"
         /\ \A w \in Slots : w[1] # r => step'[w] = step[w]
<1>1. run' = [run EXCEPT ![r] = Takes(R, B)] /\ run' \in [Runs -> Run]
  BY TakesEffect DEF StartsBatch, TypeOK
<1>2. step' = [w \in Slots |->
                  IF w[1] # r THEN step[w]
                  ELSE IF w[2] \notin B THEN "none"
                  ELSE IF w[2] \in Mail THEN "message" ELSE "upsert"]
  BY DEF StartsBatch
<1>3. step' \in [Slots -> Steps]
  BY <1>2 DEF TypeOK, Steps
<1>4. ASSUME NEW f \in Files PROVE step'[<<r, f>>] # "done"
  <2>1. <<r, f>> \in Slots /\ <<r, f>>[1] = r
    BY DEF Slots
  <2> QED
    BY <1>2, <2>1
<1>5. data' \in [Slots -> {"PENDING_TRIAGE", "FAILED"}]
  <2>1. PICK failing \in SUBSET B :
          data' = [w \in Slots |-> IF w[1] # r THEN data[w] ELSE Outcome(w[2] \in failing)]
    BY DEF StartsBatch
  <2> QED
    BY <2>1 DEF TypeOK, Outcome
<1> QED
  BY <1>1, <1>2, <1>3, <1>4, <1>5 DEF WorkTypes

\* What GoesOn does: the next batch, the next source, or the end.
Continues(r, R) ==
    \/ /\ \E B \in Firsts(R.todo) : run' = [run EXCEPT ![r] = Takes(R, B)]
       /\ Reports(r)
       /\ UNCHANGED <<pauseRequested, pendingRerun, announced>>
    \/ /\ R.todo = {}
       /\ run' = [run EXCEPT ![r] = [R EXCEPT !.stage = "scan"]]
       /\ Reports(r)
       /\ UNCHANGED <<pauseRequested, pendingRerun, announced>>
    \/ /\ R.todo = {} /\ R.left = {}
       /\ Ends(r, "completed")

LEMMA GoesOnEffect ==
  ASSUME TypeOK, NEW r \in Runs, NEW R \in Run, GoesOn(r, R)
  PROVE  /\ RunTypes /\ WorkTypes /\ Others(r)
         /\ \A f \in Files : step'[<<r, f>>] # "done"
         /\ \A w \in Slots : w[1] # r => step'[w] = step[w]
         /\ Continues(r, R)
<1>1. ASSUME NEW B \in Firsts(R.todo), StartsBatch(r, R, B), Reports(r),
             UNCHANGED <<pauseRequested, pendingRerun, announced>>
      PROVE  /\ RunTypes /\ WorkTypes /\ Others(r)
             /\ \A f \in Files : step'[<<r, f>>] # "done"
             /\ \A w \in Slots : w[1] # r => step'[w] = step[w]
             /\ Continues(r, R)
  <2>1. /\ run' = [run EXCEPT ![r] = Takes(R, B)] /\ run' \in [Runs -> Run]
        /\ WorkTypes
        /\ \A f \in Files : step'[<<r, f>>] # "done"
        /\ \A w \in Slots : w[1] # r => step'[w] = step[w]
    BY <1>1, StartsBatchEffect
  <2>2. RunTypes
    BY <1>1, <2>1, ReportsEffect DEF RunTypes, TypeOK
  <2>3. Others(r)
    BY <2>1 DEF Others, TypeOK
  <2> QED
    BY <1>1, <2>1, <2>2, <2>3 DEF Continues
<1>2. ASSUME NoWork(r)
      PROVE  /\ \A f \in Files : step'[<<r, f>>] # "done"
             /\ \A w \in Slots : w[1] # r => step'[w] = step[w]
  <2>1. step' = [w \in Slots |-> IF w[1] = r THEN "none" ELSE step[w]]
    BY <1>2 DEF NoWork
  <2>2. \A f \in Files : <<r, f>> \in Slots /\ <<r, f>>[1] = r
    BY DEF Slots
  <2> QED
    BY <2>1, <2>2
<1>3. ASSUME R.todo = {}, run' = [run EXCEPT ![r] = [R EXCEPT !.stage = "scan"]], Reports(r),
             UNCHANGED <<pauseRequested, pendingRerun, announced>>
      PROVE  RunTypes /\ Others(r) /\ Continues(r, R)
  <2>1. [R EXCEPT !.stage = "scan"] \in Run
    BY DEF Run
  <2>2. run' \in [Runs -> Run] /\ Others(r)
    BY <1>3, <2>1 DEF TypeOK, Others
  <2> QED
    BY <1>3, <2>2, ReportsEffect DEF RunTypes, TypeOK, Continues
<1>4. ASSUME R.todo = {}, R.left = {}, Ends(r, "completed")
      PROVE  RunTypes /\ Others(r) /\ Continues(r, R)
  BY <1>4, EndsEffect DEF Outcomes, Continues
<1> QED
  BY <1>1, <1>2, <1>3, <1>4, NoWorkType DEF GoesOn

LEMMA MarkerType ==
  ASSUME TypeOK, NEW f \in Files PROVE MarkerOf(f) \in Marker
  BY IngestionAssumption DEF TypeOK, MarkerOf, Marker

\* No file is stored, and what was missed stays missed.
SameFiles == UNCHANGED <<stored, clock>> /\ unseen \subseteq unseen'

LEMMA RunStepType ==
  ASSUME TypeOK, DocsInv, NEW r \in Runs, RunStep(r) \/ FailRun(r)
  PROVE  /\ RunTypes /\ WorkTypes
         /\ checkpoint' \in [Sources \X Tenants -> Marker]
         /\ SameFiles /\ unseen' \subseteq Files
         /\ UNCHANGED <<docs, desk, starts>>
<1>0. ASSUME UNCHANGED fileVars PROVE SameFiles /\ unseen' \subseteq Files
  BY <1>0 DEF SameFiles, fileVars, TypeOK
<1>1. CASE ReadCheckpoint(r)
  <2> DEFINE marker(s) == checkpoint[<<s, run[r].tenant>>]
  <2>1. PICK s \in run[r].left :
          run' = [run EXCEPT ![r].stage = "list", ![r].source = s,
                             ![r].marker = marker(s), ![r].left = @ \ {s}]
    BY <1>1 DEF ReadCheckpoint
  <2>2. s \in Sources /\ marker(s) \in Marker
    BY RunFields DEF TypeOK
  <2> HIDE DEF marker
  <2>3. run' \in [Runs -> Run]
    <3> DEFINE R == [run[r] EXCEPT !.stage = "list", !.source = s, !.marker = marker(s),
                                   !.left = @ \ {s}]
    <3>1. run \in [Runs -> Run]
      BY DEF TypeOK
    <3>2. run' = [run EXCEPT ![r] = R]
      BY <2>1, <3>1
    <3>3. R \in Run
      BY <2>2, RunFields DEF Run
    <3> HIDE DEF R
    <3> QED
      BY <3>1, <3>2, <3>3
  <2>4. UNCHANGED <<fileVars, docs, checkpoint, jobVars, step, data, desk, starts>>
    BY <1>1 DEF ReadCheckpoint
  <2> QED
    BY <1>0, <2>3, <2>4 DEF jobVars, TypeOK, RunTypes, WorkTypes
<1>2. CASE List(r)
  <2> DEFINE new == New(run[r].source, run[r].marker) \ Unsupported
  <2>1. PICK unread \in SUBSET (new \ Mail) :
          /\ unseen' = unseen \union unread
          /\ GoesOn(r, [run[r] EXCEPT !.todo = new \ unread])
    BY <1>2 DEF List
  <2>2. new \subseteq Files
    BY DEF New
  <2>3. [run[r] EXCEPT !.todo = new \ unread] \in Run
    <3> HIDE DEF new
    <3> QED
      BY <2>2, RunFields DEF Run
  <2>4. UNCHANGED <<stored, clock, docs, checkpoint, desk, starts>>
    BY <1>2 DEF List
  <2>5. SameFiles /\ unseen' \subseteq Files
    BY <2>1, <2>2, <2>4 DEF SameFiles, TypeOK
  <2> HIDE DEF new
  <2> QED
    BY <2>1, <2>3, <2>4, <2>5, GoesOnEffect DEF TypeOK
<1>3. CASE Mark(r)
  <2> DEFINE R(f) == [run[r] EXCEPT !.batch = @ \ {f}, !.marker = MarkerOf(f)]
  <2>1. PICK f \in run[r].batch :
          /\ checkpoint' = IF MarkerOf(f) = run[r].marker THEN checkpoint
                           ELSE [checkpoint EXCEPT ![<<run[r].source, run[r].tenant>>] =
                                    MarkerOf(f)]
          /\ \/ /\ run' = [run EXCEPT ![r] = R(f)]
                /\ Reports(r)
                /\ UNCHANGED <<step, data, pauseRequested, pendingRerun, announced>>
             \/ Ends(r, "paused") /\ NoWork(r)
             \/ GoesOn(r, R(f))
    BY <1>3 DEF Mark
  <2>2. f \in Files /\ MarkerOf(f) \in Marker
    BY RunFields, MarkerType
  <2>3. R(f) \in Run
    BY <2>2, RunFields DEF Run
  <2> HIDE DEF R
  <2>4. checkpoint' \in [Sources \X Tenants -> Marker]
    BY <2>1, <2>2 DEF TypeOK
  <2>5. SameFiles /\ unseen' \subseteq Files /\ UNCHANGED <<docs, desk, starts>>
    BY <1>0, <1>3 DEF Mark
  <2>6. CASE run' = [run EXCEPT ![r] = R(f)] /\ Reports(r)
             /\ UNCHANGED <<step, data, pauseRequested, pendingRerun, announced>>
    <3>1. run' \in [Runs -> Run]
      BY <2>3, <2>6 DEF TypeOK
    <3>2. RunTypes /\ WorkTypes
      BY <2>6, <3>1, ReportsEffect DEF RunTypes, WorkTypes, TypeOK
    <3> QED
      BY <2>4, <2>5, <3>2
  <2>7. CASE Ends(r, "paused") /\ NoWork(r)
    BY <2>4, <2>5, <2>7, EndsEffect, NoWorkType DEF Outcomes
  <2>8. CASE GoesOn(r, R(f))
    BY <2>3, <2>4, <2>5, <2>8, GoesOnEffect
  <2> QED
    BY <2>1, <2>6, <2>7, <2>8
<1>4. CASE FailRun(r)
  <2>1. Ends(r, "failed") /\ NoWork(r) /\ UNCHANGED <<fileVars, docs, checkpoint, desk, starts>>
    BY <1>4 DEF FailRun
  <2> QED
    BY <1>0, <2>1, EndsEffect, NoWorkType DEF Outcomes, TypeOK
<1> QED
  BY <1>1, <1>2, <1>3, <1>4 DEF RunStep

LEMMA WorkStepType ==
  ASSUME TypeOK, NEW r \in Runs, NEW f \in Files, Work(r, f) \/ FailUpsert(r, f)
  PROVE  /\ RunTypes /\ WorkTypes
         /\ UNCHANGED <<fileVars, checkpoint, desk, starts>>
<1>1. ASSUME UNCHANGED <<run, jobVars>>
      PROVE  RunTypes
  BY <1>1 DEF RunTypes, TypeOK, jobVars
<1>2. ASSUME NEW from \in Steps, NEW to \in Steps, Works(r, f, from, to)
      PROVE  WorkTypes
  BY <1>2 DEF Works, WorkTypes, TypeOK
<1>3. ASSUME NEW from \in Steps, Finishes(r, f, from)
      PROVE  WorkTypes
  BY <1>3 DEF Finishes, WorkTypes, TypeOK, Steps
<1>4. CASE CheckMessage(r, f) \/ Overwrite(r, f) \/ CheckProtected(r, f) \/ Create(r, f)
  <2>1. UNCHANGED <<run, jobVars, fileVars, checkpoint, desk, starts>>
    BY <1>4 DEF CheckMessage, Overwrite, CheckProtected, Create, Works, Finishes
  <2>2. WorkTypes
    BY <1>2, <1>3, <1>4 DEF CheckMessage, Overwrite, CheckProtected, Create, Steps
  <2> QED
    BY <1>1, <2>1, <2>2
<1>5. CASE FailUpsert(r, f)
  BY <1>1, <1>5 DEF FailUpsert, WorkTypes, TypeOK, Steps
<1>6. CASE RejectWork(r, f)
  <2>1. WorkTypes
    BY <1>6 DEF RejectWork, WorkTypes, TypeOK, Steps
  <2>2. RunTypes
    BY <1>1, <1>6, EndsEffect DEF RejectWork, Outcomes
  <2> QED
    BY <1>6, <2>1, <2>2 DEF RejectWork
<1> QED
  BY <1>4, <1>5, <1>6 DEF Work

LEMMA RequestType ==
  ASSUME TypeOK, DocsInv, Request
  PROVE  /\ RunTypes /\ WorkTypes
         /\ stored' \in [Files -> Nat] /\ clock' \in Nat /\ unseen' \subseteq Files
         /\ checkpoint' \in [Sources \X Tenants -> Marker]
         /\ desk' \in [Clerks -> Case]
         /\ starts' \in 0 .. MaxStarts
<1> USE IngestionAssumption
<1>1. ASSUME UNCHANGED <<run, jobVars>>
      PROVE  RunTypes
  BY <1>1 DEF RunTypes, TypeOK, jobVars
<1>2. ASSUME UNCHANGED <<step, data>>
      PROVE  WorkTypes
  BY <1>2 DEF WorkTypes, TypeOK
<1>3. ASSUME NEW t \in Tenants, StartJob(t)
      PROVE  RunTypes
  <2>1. CASE UNCHANGED <<run, pauseRequested, job>>
             /\ pendingRerun' = [pendingRerun EXCEPT ![t] = TRUE]
    BY <1>3, <2>1 DEF StartJob, RunTypes, TypeOK
  <2>2. CASE /\ \E r \in Runs : IsIdle(r) /\ Begins(r, t, TRUE, 0)
             /\ job' = Running(t) /\ UNCHANGED pendingRerun
    <3>1. run' \in [Runs -> Run] /\ pauseRequested' \in BOOLEAN
      BY <2>2, BeginsEffect
    <3>2. job' \in [Tenants -> [running : BOOLEAN, state : JobStates]]
      BY <2>2, RunningType DEF JobStates
    <3> QED
      BY <1>3, <2>2, <3>1, <3>2 DEF StartJob, RunTypes, TypeOK
  <2> QED
    BY <1>3, <2>1, <2>2 DEF StartJob
<1>4. ASSUME NEW t \in Tenants, StartJob(t) \/ Poll(t)
      PROVE  /\ WorkTypes /\ starts' \in 0 .. MaxStarts
             /\ UNCHANGED <<fileVars, checkpoint, desk>>
  <2>1. /\ starts < MaxStarts /\ starts' = starts + 1
        /\ UNCHANGED <<step, data, fileVars, checkpoint, desk>>
    BY <1>4 DEF StartJob, Poll
  <2>2. starts' \in 0 .. MaxStarts
    BY <2>1 DEF TypeOK
  <2> QED
    BY <1>2, <2>1, <2>2
<1>5. ASSUME NEW t \in Tenants, Poll(t)
      PROVE  RunTypes
  <2>1. run' \in [Runs -> Run] /\ pauseRequested' \in BOOLEAN
    BY <1>5, BeginsEffect DEF Poll
  <2> QED
    BY <1>5, <2>1 DEF Poll, RunTypes, TypeOK
<1>6. ASSUME NEW t \in Tenants, PauseJob(t)
      PROVE  /\ RunTypes /\ WorkTypes
             /\ UNCHANGED <<fileVars, checkpoint, desk, starts>>
  BY <1>6 DEF PauseJob, Paused, RunTypes, WorkTypes, TypeOK, JobStates, workVars
<1>7. ASSUME NEW f \in Files, Put(f) \/ Deliver(f)
      PROVE  /\ stored' \in [Files -> Nat] /\ clock' \in Nat /\ unseen' \subseteq Files
             /\ UNCHANGED <<run, jobVars, step, data, checkpoint, desk, starts>>
  <2>1. CASE Put(f)
    <3>1. unseen' = unseen \/ unseen' = unseen \union {f}
      BY <2>1 DEF Put
    <3>2. /\ clock' \in {clock, clock + 1} /\ stored' = [stored EXCEPT ![f] = clock']
          /\ UNCHANGED <<run, jobVars, step, data, checkpoint, desk, starts>>
      BY <2>1 DEF Put, workVars
    <3> QED
      BY <3>1, <3>2 DEF TypeOK
  <2>2. CASE Deliver(f)
    BY <2>2 DEF Deliver, TypeOK, workVars
  <2> QED
    BY <1>7, <2>1, <2>2
<1>8. ASSUME NEW f \in Files, NEW renamed \in BOOLEAN, NEW org \in Orgs, Register(f, renamed, org)
      PROVE  /\ RunTypes /\ WorkTypes
             /\ UNCHANGED <<fileVars, checkpoint, desk, starts>>
  <2>1. /\ UNCHANGED <<run, pauseRequested, job, step, data, fileVars, checkpoint, desk, starts>>
        /\ \/ UNCHANGED <<pendingRerun, announced>>
           \/ /\ pendingRerun' = [pendingRerun EXCEPT ![Owner[Origin[f]]] = TRUE]
              /\ announced' = [announced EXCEPT ![Owner[Origin[f]]] = @ \union {f}]
    BY <1>8 DEF Register, workVars
  <2>2. WorkTypes
    BY <1>2, <2>1
  <2>3. RunTypes
    <3> DEFINE t == Owner[Origin[f]]
    <3>0. /\ pendingRerun \in [Tenants -> BOOLEAN] /\ announced \in [Tenants -> SUBSET Files]
          /\ t \in Tenants
      BY DEF TypeOK
    <3> HIDE DEF t
    <3>1. pendingRerun' \in [Tenants -> BOOLEAN] /\ announced' \in [Tenants -> SUBSET Files]
      <4>1. CASE UNCHANGED <<pendingRerun, announced>>
        BY <3>0, <4>1
      <4>2. CASE /\ pendingRerun' = [pendingRerun EXCEPT ![t] = TRUE]
                 /\ announced' = [announced EXCEPT ![t] = @ \union {f}]
        BY <3>0, <4>2
      <4> QED
        BY <2>1, <4>1, <4>2 DEF t
    <3>2. /\ pauseRequested' \in BOOLEAN /\ run' \in [Runs -> Run]
          /\ job' \in [Tenants -> [running : BOOLEAN, state : JobStates]]
      BY <2>1 DEF TypeOK
    <3> QED
      BY <3>1, <3>2 DEF RunTypes
  <2> QED
    BY <2>1, <2>2, <2>3
<1>9. ASSUME NEW c \in Clerks, NEW d \in DOMAIN docs, NEW org \in Orgs \union {NoOrg},
             TakeUp(c, d, org)
      PROVE  /\ desk' \in [Clerks -> Case]
             /\ UNCHANGED <<run, jobVars, step, data, fileVars, checkpoint, starts>>
  <2>1. d \in Nat
    BY LenProperties DEF DocsInv
  <2> QED
    BY <1>9, <2>1 DEF TakeUp, TypeOK, Case, workVars
<1>10. ASSUME NEW d \in DOMAIN docs, RetryDocument(d)
      PROVE  UNCHANGED <<run, jobVars, step, data, fileVars, checkpoint, desk, starts>>
  BY <1>10 DEF RetryDocument, workVars
<1>11. /\ stored \in [Files -> Nat] /\ clock \in Nat /\ unseen \subseteq Files
       /\ checkpoint \in [Sources \X Tenants -> Marker]
       /\ desk \in [Clerks -> Case] /\ starts \in 0 .. MaxStarts
  BY DEF TypeOK
<1> QED
  BY <1>1, <1>2, <1>3, <1>4, <1>5, <1>6, <1>7, <1>8, <1>9, <1>10, <1>11 DEF Request, fileVars

LEMMA TypeStep ==
  ASSUME TypeOK, DocsInv, [Next]_vars
  PROVE  TypeOK' /\ DocsInv'
<1>1. docs' \in Seq(Document) /\ DocsInv'
  <2>1. DocsInv'
    BY DocsStep DEF KeepsReading
  <2>2. SoundDocuments \subseteq Document
    BY DEF SoundDocuments
  <2> QED
    BY <2>1, <2>2, ElementOfSeq, LenProperties DEF DocsInv
<1>2. CASE Request
  BY <1>1, <1>2, RequestType DEF TypeOK, RunTypes, WorkTypes
<1>3. ASSUME NEW r \in Runs, RunStep(r) \/ FailRun(r)
      PROVE  TypeOK'
  BY <1>1, <1>3, RunStepType DEF TypeOK, RunTypes, WorkTypes, SameFiles
<1>4. ASSUME NEW r \in Runs, NEW f \in Files, Work(r, f) \/ FailUpsert(r, f)
      PROVE  TypeOK'
  BY <1>1, <1>4, WorkStepType DEF TypeOK, RunTypes, WorkTypes, fileVars
<1>5. ASSUME NEW c \in Clerks, Decide(c)
      PROVE  TypeOK'
  <2>1. desk' \in [Clerks -> Case]
    BY <1>5, IngestionAssumption DEF Decide, TypeOK, NoCase, Case
  <2> QED
    BY <1>1, <1>5, <2>1 DEF Decide, TypeOK, fileVars, jobVars, workVars
<1>6. CASE Crash
  BY <1>1, <1>6, NoRunIsRun, IngestionAssumption
     DEF Crash, TypeOK, JobStates, Steps, NoCase, Case, fileVars
<1>7. CASE UNCHANGED vars
  BY <1>1, <1>7 DEF TypeOK, vars, fileVars, jobVars, workVars
<1> QED
  BY <1>1, <1>2, <1>3, <1>4, <1>5, <1>6, <1>7 DEF Next

LEMMA TypeInit ==
  Init => TypeOK /\ DocsInv
<1>1. <<>> \in Seq(Document) /\ <<>> \in Seq(SoundDocuments)
  BY EmptySeq
<1>2. ASSUME Init PROVE DocsInv
  BY <1>1, <1>2 DEF Init, DocsInv
<1>3. ASSUME Init
      PROVE  /\ run \in [Runs -> Run] /\ checkpoint \in [Sources \X Tenants -> Marker]
             /\ stored \in [Files -> Nat] /\ clock \in Nat /\ unseen \subseteq Files
             /\ pauseRequested \in BOOLEAN
  BY <1>3, NoRunIsRun DEF Init, Marker, NoMarker
<1>4. ASSUME Init
      PROVE  /\ job \in [Tenants -> [running : BOOLEAN, state : JobStates]]
             /\ pendingRerun \in [Tenants -> BOOLEAN]
             /\ announced \in [Tenants -> SUBSET Files]
             /\ desk \in [Clerks -> Case]
  BY <1>4 DEF Init, JobStates, NoCase, Case
<1>5. ASSUME Init
      PROVE  /\ step \in [Slots -> Steps]
             /\ data \in [Slots -> {"PENDING_TRIAGE", "FAILED"}]
             /\ starts \in 0 .. MaxStarts
  BY <1>5, IngestionAssumption DEF Init, Steps
<1>6. ASSUME Init PROVE docs \in Seq(Document)
  BY <1>1, <1>6 DEF Init
<1> QED
  BY <1>2, <1>3, <1>4, <1>5, <1>6 DEF TypeOK

\* Every variable keeps its type, and every document is sound: the state of
\* runs, work and requests after any call of any of them.
THEOREM TypeCorrect == Spec => [](TypeOK /\ DocsInv)
<1>1. Init => TypeOK /\ DocsInv
  BY TypeInit
<1>2. TypeOK /\ DocsInv /\ [Next]_vars => (TypeOK /\ DocsInv)'
  BY TypeStep
<1> QED
  BY <1>1, <1>2, PTL DEF Spec

\* A document in the books has an organisation, whatever a run wrote between the
\* load and the save of the clerk who assigned it.
THEOREM ParsedDocumentsHaveOrg == Spec => []ParsedHasOrg
<1>1. DocsInv => ParsedHasOrg
  BY DocumentFields DEF ParsedHasOrg
<1> QED
  BY <1>1, TypeCorrect, PTL

(***************************************************************************)
(* What a step of a run does, in the terms the invariants are stated in.   *)
(***************************************************************************)
\* R is r's record with other files: the same source, and the same job.
SameRun(r, R) ==
    /\ R \in Run
    /\ R.source = run[r].source /\ R.left = run[r].left
    /\ R.tenant = run[r].tenant /\ R.isJob = run[r].isJob /\ R.reruns = run[r].reruns

LEMMA ReadCheckpointEffect ==
  ASSUME TypeOK, NEW r \in Runs, ReadCheckpoint(r)
  PROVE  \E s \in run[r].left :
            /\ s \in Sources
            /\ run[r].stage = "scan" /\ run'[r].stage = "list"
            /\ run'[r].source = s /\ run'[r].marker = checkpoint[<<s, run[r].tenant>>]
            /\ run'[r].left = run[r].left \ {s}
            /\ run'[r].todo = run[r].todo /\ run'[r].batch = run[r].batch
            /\ run'[r].tenant = run[r].tenant /\ run'[r].isJob = run[r].isJob
            /\ run'[r].reruns = run[r].reruns
            /\ Others(r)
            /\ UNCHANGED <<fileVars, docs, checkpoint, jobVars, step, data>>
<1> DEFINE marker(s) == checkpoint[<<s, run[r].tenant>>]
<1>1. PICK s \in run[r].left :
        run' = [run EXCEPT ![r].stage = "list", ![r].source = s,
                           ![r].marker = marker(s), ![r].left = @ \ {s}]
  BY DEF ReadCheckpoint
<1>2. s \in Sources /\ run \in [Runs -> Run]
  BY RunFields DEF TypeOK
<1> HIDE DEF marker
<1>3. /\ run'[r].stage = "list" /\ run'[r].source = s /\ run'[r].marker = marker(s)
      /\ run'[r].left = run[r].left \ {s}
      /\ run'[r].todo = run[r].todo /\ run'[r].batch = run[r].batch
      /\ run'[r].tenant = run[r].tenant /\ run'[r].isJob = run[r].isJob
      /\ run'[r].reruns = run[r].reruns
      /\ Others(r)
  BY <1>1, <1>2 DEF Others, Run
<1>4. run[r].stage = "scan" /\ UNCHANGED <<fileVars, docs, checkpoint, jobVars, step, data>>
  BY DEF ReadCheckpoint
<1> QED
  BY <1>2, <1>3, <1>4 DEF marker

LEMMA ListEffect ==
  ASSUME TypeOK, NEW r \in Runs, List(r)
  PROVE  /\ run[r].stage = "list"
         /\ SameFiles /\ UNCHANGED <<docs, checkpoint>>
         /\ \E R \in Run :
              /\ SameRun(r, R)
              /\ R.batch = run[r].batch /\ R.marker = run[r].marker
              /\ R.todo \subseteq New(run[r].source, run[r].marker)
              /\ New(run[r].source, run[r].marker) \ R.todo \subseteq Unsupported \union unseen'
              /\ GoesOn(r, R)
<1> DEFINE new == New(run[r].source, run[r].marker) \ Unsupported
<1>1. PICK unread \in SUBSET (new \ Mail) :
        /\ unseen' = unseen \union unread
        /\ GoesOn(r, [run[r] EXCEPT !.todo = new \ unread])
  BY DEF List
<1> DEFINE R == [run[r] EXCEPT !.todo = new \ unread]
<1>2. /\ new \subseteq Files /\ new \subseteq New(run[r].source, run[r].marker)
      /\ New(run[r].source, run[r].marker) \ (new \ unread) \subseteq Unsupported \union unseen'
  BY <1>1 DEF New
<1>3. /\ R \in Run /\ R.todo = new \ unread
      /\ R.batch = run[r].batch /\ R.marker = run[r].marker
      /\ R.source = run[r].source /\ R.left = run[r].left
      /\ R.tenant = run[r].tenant /\ R.isJob = run[r].isJob /\ R.reruns = run[r].reruns
  <2> HIDE DEF new
  <2> QED
    BY <1>2, RunFields DEF Run
<1>4. run[r].stage = "list" /\ UNCHANGED <<stored, clock, docs, checkpoint>>
  BY DEF List
<1>5. SameFiles
  BY <1>1, <1>4 DEF SameFiles
<1> HIDE DEF R, new
<1>6. GoesOn(r, R)
  BY <1>1 DEF R
<1>7. SameRun(r, R)
  BY <1>3 DEF SameRun
<1> QED
  BY <1>2, <1>3, <1>4, <1>5, <1>6, <1>7

LEMMA MarkEffect ==
  ASSUME TypeOK, NEW r \in Runs, Mark(r)
  PROVE  /\ run[r].stage = "batch"
         /\ \A g \in run[r].batch : step[<<r, g>>] = "done"
         /\ UNCHANGED <<fileVars, docs>>
         /\ \E f \in run[r].batch, R \in Run :
              /\ SameRun(r, R)
              /\ R.stage = "batch" /\ R.todo = run[r].todo
              /\ R.batch = run[r].batch \ {f} /\ R.marker = MarkerOf(f)
              /\ \/ checkpoint' = checkpoint
                 \/ checkpoint' = [checkpoint EXCEPT ![<<run[r].source, run[r].tenant>>] =
                                      MarkerOf(f)]
              /\ \/ /\ run' = [run EXCEPT ![r] = R]
                    /\ Reports(r)
                    /\ UNCHANGED <<step, data, pauseRequested, pendingRerun, announced>>
                 \/ R.batch = {} /\ Ends(r, "paused") /\ NoWork(r)
                 \/ R.batch = {} /\ GoesOn(r, R)
<1> DEFINE S(f) == [run[r] EXCEPT !.batch = @ \ {f}, !.marker = MarkerOf(f)]
<1>1. PICK f \in run[r].batch :
        /\ checkpoint' = IF MarkerOf(f) = run[r].marker THEN checkpoint
                         ELSE [checkpoint EXCEPT ![<<run[r].source, run[r].tenant>>] =
                                  MarkerOf(f)]
        /\ \/ /\ run' = [run EXCEPT ![r] = S(f)]
              /\ Reports(r)
              /\ UNCHANGED <<step, data, pauseRequested, pendingRerun, announced>>
           \/ S(f).batch = {} /\ Ends(r, "paused") /\ NoWork(r)
           \/ S(f).batch = {} /\ GoesOn(r, S(f))
  BY DEF Mark
<1>2. run[r].stage = "batch" /\ (\A g \in run[r].batch : step[<<r, g>>] = "done")
  BY DEF Mark, BatchIsDone
<1>3. MarkerOf(f) \in Marker
  BY RunFields, MarkerType
<1>4. /\ S(f) \in Run /\ S(f).stage = run[r].stage /\ S(f).todo = run[r].todo
      /\ S(f).batch = run[r].batch \ {f} /\ S(f).marker = MarkerOf(f)
      /\ S(f).source = run[r].source /\ S(f).left = run[r].left
      /\ S(f).tenant = run[r].tenant /\ S(f).isJob = run[r].isJob
      /\ S(f).reruns = run[r].reruns
  BY <1>3, RunFields DEF Run
<1>5. UNCHANGED <<fileVars, docs>>
  BY DEF Mark
<1> HIDE DEF S
<1>6. \/ checkpoint' = checkpoint
      \/ checkpoint' = [checkpoint EXCEPT ![<<run[r].source, run[r].tenant>>] = MarkerOf(f)]
  BY <1>1
<1>7. SameRun(r, S(f)) /\ S(f).stage = "batch"
  BY <1>2, <1>4 DEF SameRun
<1>8. \/ /\ run' = [run EXCEPT ![r] = S(f)]
         /\ Reports(r)
         /\ UNCHANGED <<step, data, pauseRequested, pendingRerun, announced>>
      \/ S(f).batch = {} /\ Ends(r, "paused") /\ NoWork(r)
      \/ S(f).batch = {} /\ GoesOn(r, S(f))
  BY <1>1
<1> QED
  BY <1>2, <1>4, <1>5, <1>6, <1>7, <1>8

LEMMA RejectEffect ==
  ASSUME TypeOK, NEW r \in Runs, NEW f \in Files, RejectWork(r, f)
  PROVE  \/ UNCHANGED <<run, jobVars>>
         \/ f \in run[r].batch /\ Ends(r, "failed")
  BY DEF RejectWork

(***************************************************************************)
(* Jobs.  Files are in the hands of a run only while it reads them, and a  *)
(* tenant's status says running exactly while one run is its job.          *)
(***************************************************************************)
Shape(R) ==
    /\ R.stage # "batch" => R.todo = {} /\ R.batch = {}
    /\ R.stage \in {"list", "batch"} => R.source \in Sources

RunShape == \A r \in Runs : Shape(run[r])

JobInv ==
    /\ RunShape
    /\ RunningJobIsOne
    /\ \A r \in Runs : run[r].reruns <= MaxReruns

LEMMA LiveKeepsOne ==
  ASSUME TypeOK, JobInv, NEW r \in Runs, Live(r), Others(r), run'[r].stage # "idle",
         Shape(run'[r]),
         run'[r].isJob = run[r].isJob, run'[r].tenant = run[r].tenant,
         run'[r].reruns = run[r].reruns, Reports(r) \/ UNCHANGED job
  PROVE  JobInv'
<1>1. \A q \in Runs, t \in Tenants : JobRun(q, t)' <=> JobRun(q, t)
  BY DEF Others, JobRun, Live
<1>2. ASSUME NEW t \in Tenants PROVE job'[t].running <=> job[t].running
  <2>1. run[r].isJob /\ run[r].tenant = t => job[t].running
    BY DEF JobInv, RunningJobIsOne, JobRun
  <2> QED
    BY <2>1, ReportsEffect
<1>3. RunningJobIsOne'
  BY <1>1, <1>2 DEF JobInv, RunningJobIsOne
<1>4. RunShape' /\ \A q \in Runs : run'[q].reruns <= MaxReruns
  BY DEF JobInv, RunShape, Others
<1> QED
  BY <1>3, <1>4 DEF JobInv

LEMMA EndsKeepsOne ==
  ASSUME TypeOK, JobInv, NEW r \in Runs, Live(r), NEW how \in Outcomes, Ends(r, how)
  PROVE  JobInv'
<1>0. PICK t \in Tenants : t = run[r].tenant
  BY RunFields
<1>1. Others(r)
  BY EndsEffect
<1>2. \A q \in Runs : q # r => \A u \in Tenants : JobRun(q, u)' <=> JobRun(q, u)
  BY <1>1 DEF Others, JobRun, Live
<1>3. run[r].isJob \in BOOLEAN /\ run[r].reruns \in Nat
  BY RunFields
<1>4. RunShape' /\ \A q \in Runs : run'[q].reruns <= MaxReruns
  <2>1. Shape(run'[r])
    BY EndsEffect DEF Shape
  <2>2. run'[r].reruns <= MaxReruns
    <3>1. MaxReruns \in Nat /\ (WantsRerun(r) => run[r].reruns < MaxReruns)
      BY IngestionAssumption DEF WantsRerun
    <3>2. \/ run'[r].reruns = 0
          \/ WantsRerun(r) /\ run'[r].reruns = run[r].reruns + 1
      BY EndsEffect
    <3> QED
      BY <1>3, <3>1, <3>2
  <2>3. \A q \in Runs : Shape(run[q]) /\ run[q].reruns <= MaxReruns
    BY DEF JobInv, RunShape
  <2>4. \A q \in Runs : Shape(run'[q]) /\ run'[q].reruns <= MaxReruns
    BY <1>1, <2>1, <2>2, <2>3 DEF Others
  <2> QED
    BY <2>4 DEF RunShape
<1>5. CASE ~run[r].isJob
  <2>1. UNCHANGED job /\ run'[r].stage = "idle"
    BY <1>5, EndsEffect DEF Ends, WantsRerun
  <2>2. \A u \in Tenants : ~JobRun(r, u) /\ ~JobRun(r, u)'
    BY <1>5, <2>1 DEF JobRun, Live
  <2>3. RunningJobIsOne'
    BY <1>2, <2>1, <2>2 DEF JobInv, RunningJobIsOne
  <2> QED
    BY <1>4, <2>3 DEF JobInv
<1>6. CASE run[r].isJob
  <2>1. JobRun(r, t) /\ \A u \in Tenants : JobRun(r, u) => u = t
    BY <1>0, <1>6 DEF JobRun
  <2>2. \A q \in Runs : q # r => ~JobRun(q, t)
    BY <1>3, <2>1 DEF JobInv, RunningJobIsOne
  <2>3. \A u \in Tenants : u # t => (job'[u].running <=> job[u].running)
    <3>1. job' \in {Running(t), Ended(t, how)}
      BY <1>0, <1>6 DEF Ends
    <3>2. how \in JobStates
      BY DEF Outcomes, JobStates
    <3> QED
      BY <1>3, <3>1, <3>2, RunningType
  <2>4. \A u \in Tenants : JobRun(r, u)' => u = t
    BY <1>0, <1>6, EndsEffect DEF JobRun, Live
  <2>5. job'[t].running <=> JobRun(r, t)'
    <3>1. CASE how = "completed" /\ WantsRerun(r)
      <4>1. Begins(r, t, TRUE, run[r].reruns + 1) /\ job' = Running(t)
        BY <1>0, <1>6, <3>1 DEF Ends
      <4>2. JobRun(r, t)'
        <5>1. run[r].reruns + 1 \in Nat
          BY <1>3
        <5>2. run'[r].stage = "scan" /\ run'[r].isJob /\ run'[r].tenant = t
          BY <4>1, <5>1, BeginsEffect
        <5> QED
          BY <5>2 DEF JobRun, Live
      <4>3. Running(t)[t].running
        BY <1>3, RunningType DEF JobStates
      <4> QED
        BY <4>1, <4>2, <4>3
    <3>2. CASE ~(how = "completed" /\ WantsRerun(r))
      <4>1. run'[r].stage = "idle" /\ job' = Ended(t, how)
        BY <1>0, <1>6, <3>2, EndsEffect DEF Ends
      <4>2. ~JobRun(r, t)'
        BY <4>1 DEF JobRun, Live
      <4>3. ~Ended(t, how)[t].running
        BY <1>3, RunningType DEF JobStates, Outcomes
      <4> QED
        BY <4>1, <4>2, <4>3
    <3> QED
      BY <3>1, <3>2
  <2>6. RunningJobIsOne'
    <3>1. ASSUME NEW u \in Tenants, u # t
          PROVE  /\ job'[u].running <=> \E q \in Runs : JobRun(q, u)'
                 /\ \A p, q \in Runs : JobRun(p, u)' /\ JobRun(q, u)' => p = q
      <4>1. \A q \in Runs : JobRun(q, u)' <=> JobRun(q, u)
        BY <1>2, <2>1, <2>4, <3>1
      <4>2. job'[u].running <=> job[u].running
        BY <2>3, <3>1
      <4> QED
        BY <4>1, <4>2 DEF JobInv, RunningJobIsOne
    <3>2. /\ job'[t].running <=> \E q \in Runs : JobRun(q, t)'
          /\ \A p, q \in Runs : JobRun(p, t)' /\ JobRun(q, t)' => p = q
      <4>1. \A q \in Runs : JobRun(q, t)' => q = r
        BY <1>2, <1>3, <2>2
      <4> QED
        BY <2>5, <4>1
    <3> QED
      BY <3>1, <3>2 DEF RunningJobIsOne
  <2> QED
    BY <1>4, <2>6 DEF JobInv
<1> QED
  BY <1>3, <1>5, <1>6

LEMMA GoesOnKeepsOne ==
  ASSUME TypeOK, JobInv, NEW r \in Runs, Live(r), NEW R \in Run, SameRun(r, R),
         R.batch = {}, R.source \in Sources, GoesOn(r, R)
  PROVE  JobInv'
<1>1. Continues(r, R) /\ Others(r)
  BY GoesOnEffect
<1>2. ASSUME NEW B \in Firsts(R.todo), run' = [run EXCEPT ![r] = Takes(R, B)], Reports(r)
      PROVE  JobInv'
  <2>1. run'[r] = Takes(R, B)
    BY <1>2 DEF TypeOK
  <2>2. /\ run'[r].stage # "idle" /\ Shape(run'[r])
        /\ run'[r].isJob = run[r].isJob /\ run'[r].tenant = run[r].tenant
        /\ run'[r].reruns = run[r].reruns
    BY <2>1, TakesEffect DEF SameRun, Shape
  <2> QED
    BY <1>1, <1>2, <2>2, LiveKeepsOne
<1>3. ASSUME R.todo = {}, run' = [run EXCEPT ![r] = [R EXCEPT !.stage = "scan"]], Reports(r)
      PROVE  JobInv'
  <2>1. run'[r] = [R EXCEPT !.stage = "scan"]
    BY <1>3 DEF TypeOK
  <2>2. /\ run'[r].stage # "idle" /\ Shape(run'[r])
        /\ run'[r].isJob = run[r].isJob /\ run'[r].tenant = run[r].tenant
        /\ run'[r].reruns = run[r].reruns
    BY <1>3, <2>1 DEF SameRun, Shape, Run
  <2> QED
    BY <1>1, <1>3, <2>2, LiveKeepsOne
<1>4. ASSUME Ends(r, "completed") PROVE JobInv'
  BY <1>4, EndsKeepsOne DEF Outcomes
<1> QED
  BY <1>1, <1>2, <1>3, <1>4 DEF Continues

LEMMA RunStepKeepsOne ==
  ASSUME TypeOK, JobInv, NEW r \in Runs, RunStep(r) \/ FailRun(r)
  PROVE  JobInv'
<1>1. CASE ReadCheckpoint(r)
  <2>1. /\ Live(r) /\ run'[r].stage # "idle" /\ Others(r)
        /\ run'[r].isJob = run[r].isJob /\ run'[r].tenant = run[r].tenant
        /\ run'[r].reruns = run[r].reruns /\ UNCHANGED job
        /\ run'[r].stage = "list" /\ run'[r].source \in Sources
        /\ run'[r].todo = run[r].todo /\ run'[r].batch = run[r].batch
        /\ run[r].stage = "scan"
    BY <1>1, ReadCheckpointEffect DEF Live, jobVars
  <2>2. Shape(run'[r])
    BY <2>1 DEF JobInv, RunShape, Shape
  <2> QED
    BY <2>1, <2>2, LiveKeepsOne
<1>2. CASE List(r)
  <2>1. PICK R \in Run : SameRun(r, R) /\ R.batch = run[r].batch /\ GoesOn(r, R)
                         /\ run[r].stage = "list"
    BY <1>2, ListEffect
  <2>2. run[r].batch = {} /\ run[r].source \in Sources
    BY <2>1 DEF JobInv, RunShape, Shape
  <2> QED
    BY <2>1, <2>2, GoesOnKeepsOne DEF SameRun, Live
<1>3. CASE Mark(r)
  <2>1. PICK f \in run[r].batch, R \in Run :
          /\ SameRun(r, R) /\ R.stage = "batch" /\ run[r].stage = "batch"
          /\ \/ run' = [run EXCEPT ![r] = R] /\ Reports(r)
             \/ Ends(r, "paused")
             \/ R.batch = {} /\ GoesOn(r, R)
    BY <1>3, MarkEffect
  <2>2. Live(r) /\ R.source \in Sources
    BY <2>1 DEF JobInv, RunShape, Shape, Live, SameRun
  <2>3. CASE run' = [run EXCEPT ![r] = R] /\ Reports(r)
    <3>1. run'[r] = R /\ Others(r)
      BY <2>3 DEF TypeOK, Others
    <3> QED
      BY <2>1, <2>2, <2>3, <3>1, LiveKeepsOne DEF SameRun, Shape
  <2> QED
    BY <2>1, <2>2, <2>3, EndsKeepsOne, GoesOnKeepsOne DEF Outcomes
<1>4. CASE FailRun(r)
  <2>1. Live(r) /\ Ends(r, "failed")
    BY <1>4 DEF FailRun, BatchIsDone, Live
  <2> QED
    BY <2>1, EndsKeepsOne DEF Outcomes
<1> QED
  BY <1>1, <1>2, <1>3, <1>4 DEF RunStep

LEMMA SameRunsKeepOne ==
  ASSUME TypeOK, JobInv, UNCHANGED run, \A t \in Tenants : job'[t].running <=> job[t].running
  PROVE  JobInv'
  BY DEF JobInv, RunShape, RunningJobIsOne, JobRun, Live

LEMMA RequestKeepsOne ==
  ASSUME TypeOK, JobInv, Request
  PROVE  JobInv'
<1> USE IngestionAssumption
<1>1. ASSUME NEW t \in Tenants, NEW r \in Runs, NEW isJob \in BOOLEAN, IsIdle(r),
             Begins(r, t, isJob, 0), isJob => ~job[t].running,
             job' = IF isJob THEN Running(t) ELSE job
      PROVE  JobInv'
  <2>1. /\ Others(r) /\ run'[r].stage = "scan" /\ run'[r].tenant = t
        /\ run'[r].isJob = isJob /\ run'[r].reruns = 0
        /\ run'[r].todo = {} /\ run'[r].batch = {}
    BY <1>1, BeginsEffect
  <2>2. \A q \in Runs, u \in Tenants : JobRun(q, u)' <=> JobRun(q, u) \/ (isJob /\ q = r /\ u = t)
    <3>1. \A u \in Tenants : ~JobRun(r, u)
      BY <1>1 DEF JobRun, IsIdle
    <3>2. \A u \in Tenants : JobRun(r, u)' <=> isJob /\ u = t
      BY <2>1 DEF JobRun, Live
    <3>3. \A q \in Runs : q # r => \A u \in Tenants : JobRun(q, u)' <=> JobRun(q, u)
      BY <2>1 DEF JobRun, Live, Others
    <3> QED
      BY <3>1, <3>2, <3>3
  <2>3. \A u \in Tenants : job'[u].running <=> job[u].running \/ (isJob /\ u = t)
    BY <1>1, RunningType DEF JobStates
  <2>4. RunningJobIsOne'
    BY <1>1, <2>2, <2>3 DEF JobInv, RunningJobIsOne
  <2>5. RunShape' /\ \A q \in Runs : run'[q].reruns <= MaxReruns
    BY <2>1 DEF JobInv, RunShape, Shape, Others
  <2> QED
    BY <2>4, <2>5 DEF JobInv
<1>2. ASSUME NEW t \in Tenants, StartJob(t)
      PROVE  JobInv'
  <2>1. CASE UNCHANGED <<run, pauseRequested, job>>
    BY <2>1, SameRunsKeepOne
  <2>2. CASE /\ ~job[t].running
             /\ \E r \in Runs : IsIdle(r) /\ Begins(r, t, TRUE, 0)
             /\ job' = Running(t)
    BY <1>1, <2>2
  <2> QED
    BY <1>2, <2>1, <2>2 DEF StartJob
<1>3. ASSUME NEW t \in Tenants, Poll(t)
      PROVE  JobInv'
  BY <1>1, <1>3 DEF Poll
<1>4. ASSUME NEW t \in Tenants, PauseJob(t)
      PROVE  JobInv'
  <2>1. \A u \in Tenants : job'[u].running <=> job[u].running
    BY <1>4 DEF PauseJob, Paused, TypeOK
  <2> QED
    BY <1>4, <2>1, SameRunsKeepOne DEF PauseJob, workVars
<1>5. ASSUME NEW f \in Files, Put(f) \/ Deliver(f)
      PROVE  JobInv'
  BY <1>5, SameRunsKeepOne DEF Put, Deliver, jobVars, workVars
<1>6. ASSUME NEW f \in Files, NEW renamed \in BOOLEAN, NEW org \in Orgs, Register(f, renamed, org)
      PROVE  JobInv'
  BY <1>6, SameRunsKeepOne DEF Register, workVars
<1>7. ASSUME NEW c \in Clerks, NEW d \in DOMAIN docs, NEW org \in Orgs \union {NoOrg},
             TakeUp(c, d, org)
      PROVE  JobInv'
  BY <1>7, SameRunsKeepOne DEF TakeUp, jobVars, workVars
<1>8. ASSUME NEW d \in DOMAIN docs, RetryDocument(d)
      PROVE  JobInv'
  BY <1>8, SameRunsKeepOne DEF RetryDocument, jobVars, workVars
<1> QED
  BY <1>2, <1>3, <1>4, <1>5, <1>6, <1>7, <1>8 DEF Request

LEMMA JobStep ==
  ASSUME TypeOK, JobInv, [Next]_vars
  PROVE  JobInv'
<1> USE IngestionAssumption
<1>1. CASE Request
  BY <1>1, RequestKeepsOne
<1>2. ASSUME NEW r \in Runs, RunStep(r) \/ FailRun(r)
      PROVE  JobInv'
  BY <1>2, RunStepKeepsOne
<1>3. ASSUME NEW r \in Runs, NEW f \in Files, Work(r, f) \/ FailUpsert(r, f)
      PROVE  JobInv'
  <2>1. CASE UNCHANGED <<run, jobVars>>
    BY <2>1, SameRunsKeepOne DEF jobVars
  <2>2. CASE f \in run[r].batch /\ Ends(r, "failed")
    <3>1. Live(r)
      BY <2>2 DEF JobInv, RunShape, Shape, Live
    <3> QED
      BY <2>2, <3>1, EndsKeepsOne DEF Outcomes
  <2>3. UNCHANGED <<run, jobVars>> \/ (f \in run[r].batch /\ Ends(r, "failed"))
    BY <1>3, RejectEffect
       DEF Work, CheckMessage, Overwrite, CheckProtected, Create, FailUpsert, Works, Finishes
  <2> QED
    BY <2>1, <2>2, <2>3
<1>4. ASSUME NEW c \in Clerks, Decide(c)
      PROVE  JobInv'
  BY <1>4, SameRunsKeepOne DEF Decide, jobVars, workVars
<1>5. CASE Crash
  <2>1. /\ \A r \in Runs : run'[r] = NoRun
        /\ \A t \in Tenants : job'[t].running = FALSE
    BY <1>5 DEF Crash
  <2>2. \A r \in Runs, t \in Tenants : ~JobRun(r, t)'
    BY <2>1, NoRunIsRun DEF JobRun, Live
  <2> QED
    BY <2>1, <2>2, NoRunIsRun DEF JobInv, RunningJobIsOne, RunShape, Shape
<1>6. CASE UNCHANGED vars
  BY <1>6, SameRunsKeepOne DEF vars, jobVars, workVars
<1> QED
  BY <1>1, <1>2, <1>3, <1>4, <1>5, <1>6 DEF Next

LEMMA JobInit ==
  Init => JobInv
<1>1. ASSUME Init
      PROVE  /\ \A r \in Runs : run[r] = NoRun
             /\ \A t \in Tenants : job[t].running = FALSE
  BY <1>1 DEF Init
<1>2. ASSUME Init PROVE \A r \in Runs, t \in Tenants : ~JobRun(r, t)
  BY <1>1, <1>2, NoRunIsRun DEF JobRun, Live
<1>3. ASSUME Init PROVE RunShape /\ \A r \in Runs : run[r].reruns <= MaxReruns
  BY <1>1, <1>3, NoRunIsRun, IngestionAssumption DEF RunShape, Shape
<1>4. ASSUME Init PROVE RunningJobIsOne
  BY <1>1, <1>2, <1>4 DEF RunningJobIsOne
<1> QED
  BY <1>3, <1>4 DEF JobInv

\* Requests, polls, reruns, pauses, failures and crashes never leave a tenant
\* with two jobs, with a job its status denies, or with a status no job is
\* behind.
THEOREM OneJobRuns == Spec => []RunningJobIsOne
<1>1. Init => TypeOK /\ DocsInv /\ JobInv
  BY TypeInit, JobInit
<1>2. TypeOK /\ DocsInv /\ JobInv /\ [Next]_vars => (TypeOK /\ DocsInv /\ JobInv)'
  BY TypeStep, JobStep
<1>3. JobInv => RunningJobIsOne
  BY DEF JobInv
<1> QED
  BY <1>1, <1>2, <1>3, PTL DEF Spec

\* What a run writes, also when it reads a file again or is left behind by a
\* failed one, never touches a document of an organisation.
THEOREM RunsKeepAssigned == Spec => KeepsAssigned
<1>1. ASSUME TypeOK, DocsInv, NEW r \in Runs, NEW f \in Files, Work(r, f),
             NEW d \in DOMAIN docs, docs[d].org # NoOrg
      PROVE  docs'[d] = docs[d]
  <2>1. d \in 1 .. Len(docs) /\ docs \in Seq(SoundDocuments) /\ Len(docs) \in Nat
    BY <1>1, LenProperties DEF DocsInv
  <2>2. CASE Overwrite(r, f)
    <3>1. ASSUME NEW e \in Matching(f), docs' = [docs EXCEPT ![e] = Overwritten(docs[e], r, f)]
          PROVE  docs'[d] = docs[d]
      <4>1. e # d
        BY <1>1 DEF Matching, Matches
      <4> QED
        BY <3>1, <4>1
    <3> QED
      BY <2>2, <3>1 DEF Overwrite
  <2>3. CASE Create(r, f)
    <3>1. ASSUME NEW doc, docs' = Append(docs, doc) PROVE docs'[d] = docs[d]
      BY <2>1, <3>1
    <3> QED
      BY <2>3, <3>1 DEF Create
  <2> QED
    BY <1>1, <2>2, <2>3 DEF Work, CheckMessage, CheckProtected, RejectWork
<1>2. TypeOK /\ DocsInv /\ [Next]_vars =>
        [\A r \in Runs, f \in Files : Work(r, f) =>
            \A d \in DOMAIN docs : docs[d].org # NoOrg => docs'[d] = docs[d]]_vars
  BY <1>1
<1> QED
  BY <1>2, TypeCorrect, PTL DEF Spec, KeepsAssigned

(***************************************************************************)
(* Checkpoints.  What a run holds and what it has left behind.             *)
(***************************************************************************)
\* A marker that a source's files have reached.
Reached(at, s, m) ==
    \/ m = NoMarker
    \/ \E g \in Files : Origin[g] = s /\ at[g] > 0 /\ m = <<at[g], DocumentId[g]>>

ClockInv ==
    /\ \A f \in Files : stored[f] <= clock
    /\ \A s \in Sources, t \in Tenants : Reached(stored, s, checkpoint[<<s, t>>])
    /\ \A f, g \in Mail : SameMessage(f, g) => stored[f] = stored[g]

\* A run holds stored files of its source, its batch before the others.
Held(r) ==
    /\ \A f \in run[r].todo \union run[r].batch : stored[f] > 0 /\ Origin[f] = run[r].source
    /\ \A b \in run[r].batch, f \in run[r].todo : ~After(MarkerOf(b), MarkerOf(f))
    /\ run[r].stage \in {"list", "batch"} => Reached(stored, run[r].source, run[r].marker)

\* While it lists, what its marker passed was read or missed; while it reads, so
\* was all that it does not hold, but for what came after all of its files.
Passed(r, f) ==
    /\ run[r].stage = "list" /\ ~After(MarkerOf(f), run[r].marker) => Settled(f)
    /\ run[r].stage = "batch" =>
          \/ Settled(f)
          \/ f \in run[r].todo \union run[r].batch
          \/ \A g \in run[r].todo \union run[r].batch : After(MarkerOf(f), MarkerOf(g))

\* Work that is done has read its file.
DoneIsRead(r) == \A f \in run[r].batch : step[<<r, f>>] = "done" => IdRead(f)

RunInv(r) ==
    /\ Held(r)
    /\ DoneIsRead(r)
    /\ \A f \in Files : Origin[f] = run[r].source /\ stored[f] > 0 => Passed(r, f)

Covered ==
    \A f \in Files, t \in Tenants :
        stored[f] > 0 /\ ~After(MarkerOf(f), checkpoint[<<Origin[f], t>>]) => Settled(f)

CoverInv ==
    /\ ClockInv
    /\ \A r \in Runs : RunInv(r)
    /\ Covered

LEMMA AfterTotal ==
  ASSUME NEW m \in Marker, NEW n \in Marker
  PROVE  After(m, n) \/ After(n, m) \/ m = n
  BY DEF After, Marker

LEMMA SameMarkers ==
  ASSUME UNCHANGED stored, NEW f PROVE MarkerOf(f)' = MarkerOf(f)
  BY DEF MarkerOf

LEMMA SameMarkerSameId ==
  ASSUME NEW f \in Files, NEW g \in Files, MarkerOf(f) = MarkerOf(g), IdRead(f)
  PROVE  Settled(g)
  BY DEF MarkerOf, IdRead, Settled

\* A run that keeps its files, beside any reading.
LEMMA KeptRun ==
  ASSUME TypeOK, DocsInv, KeepsReading, SameFiles, NEW r \in Runs, RunInv(r),
         run'[r] = run[r],
         \A f \in run[r].batch :
            step'[<<r, f>>] = "done" => step[<<r, f>>] = "done" \/ IdRead(f)'
  PROVE  RunInv(r)'
<1>1. /\ \A f \in Files : Settled(f) => Settled(f)'
      /\ \A f \in Files : IdRead(f) => IdRead(f)'
      /\ \A f \in Files : MarkerOf(f)' = MarkerOf(f)
      /\ run[r].todo \subseteq Files /\ run[r].batch \subseteq Files
      /\ stored' = stored
  BY ReadStaysRead, SameMarkers, RunFields DEF SameFiles
<1>2. Held(r)'
  <2>1. Held(r)
    BY DEF RunInv
  <2>2. run[r].stage \in {"list", "batch"} => Reached(stored', run[r].source, run[r].marker)
    BY <1>1, <2>1 DEF Held
  <2> QED
    BY <1>1, <2>1, <2>2 DEF Held
<1>3. DoneIsRead(r)'
  BY <1>1 DEF RunInv, DoneIsRead
<1>4. ASSUME NEW f \in Files, Origin[f] = run[r].source, stored[f] > 0
      PROVE  Passed(r, f)'
  <2>1. Passed(r, f)
    BY <1>4 DEF RunInv
  <2> QED
    BY <1>1, <2>1 DEF Passed
<1> QED
  BY <1>1, <1>2, <1>3, <1>4 DEF RunInv

\* A run that lets go of its files.
LEMMA FreedRun ==
  ASSUME NEW r \in Runs, run'[r].todo = {}, run'[r].batch = {},
         run'[r].stage \in {"idle", "scan"}
  PROVE  RunInv(r)'
  BY DEF RunInv, Held, DoneIsRead, Passed

LEMMA KeptCheckpoint ==
  ASSUME TypeOK, DocsInv, KeepsReading, SameFiles, Covered,
         \/ UNCHANGED checkpoint
         \/ \E s \in Sources, t \in Tenants, m \in Marker :
               /\ checkpoint' = [checkpoint EXCEPT ![<<s, t>>] = m]
               /\ \A f \in Files : Origin[f] = s /\ stored[f] > 0 /\ ~After(MarkerOf(f), m)
                                      => Settled(f)
  PROVE  Covered'
<1>1. /\ \A f \in Files : Settled(f) => Settled(f)'
      /\ \A f \in Files : MarkerOf(f)' = MarkerOf(f)
      /\ stored' = stored
  BY ReadStaysRead, SameMarkers DEF SameFiles
<1>2. ASSUME NEW f \in Files, NEW t \in Tenants, stored[f] > 0,
             ~After(MarkerOf(f), checkpoint'[<<Origin[f], t>>])
      PROVE  Settled(f)
  <2> DEFINE at == <<Origin[f], t>>
  <2>0. at \in Sources \X Tenants /\ checkpoint \in [Sources \X Tenants -> Marker]
    BY IngestionAssumption DEF TypeOK
  <2>1. CASE checkpoint'[at] = checkpoint[at]
    BY <1>2, <2>1 DEF Covered
  <2>2. ASSUME NEW s \in Sources, NEW u \in Tenants, NEW m \in Marker,
               checkpoint' = [checkpoint EXCEPT ![<<s, u>>] = m],
               \A g \in Files : Origin[g] = s /\ stored[g] > 0 /\ ~After(MarkerOf(g), m)
                                    => Settled(g)
        PROVE  Settled(f)
    <3>1. CASE at = <<s, u>>
      <4>1. Origin[f] = s /\ checkpoint'[at] = m
        BY <2>0, <2>2, <3>1
      <4> QED
        BY <1>2, <2>2, <4>1
    <3>2. CASE at # <<s, u>>
      <4>1. checkpoint'[at] = checkpoint[at]
        BY <2>0, <2>2, <3>2
      <4> QED
        BY <2>1, <4>1
    <3> QED
      BY <3>1, <3>2
  <2> QED
    BY <2>1, <2>2
<1> QED
  BY <1>1, <1>2 DEF Covered

LEMMA KeptClock ==
  ASSUME ClockInv, SameFiles, UNCHANGED checkpoint PROVE ClockInv'
<1>1. stored' = stored /\ clock' = clock /\ checkpoint' = checkpoint
  BY DEF SameFiles
<1>2. \A s \in Sources, t \in Tenants : Reached(stored', s, checkpoint'[<<s, t>>])
  BY <1>1 DEF ClockInv
<1> QED
  BY <1>1, <1>2 DEF ClockInv

\* Steps of requests, clerks and work keep what they do not touch.
LEMMA KeptCover ==
  ASSUME TypeOK, DocsInv, KeepsReading, CoverInv, SameFiles, UNCHANGED checkpoint,
         \A r \in Runs : RunInv(r)'
  PROVE  CoverInv'
  BY KeptCheckpoint, KeptClock DEF CoverInv

\* After the whole batch is done, whatever is not after one of its files was read.
LEMMA BatchCovers ==
  ASSUME TypeOK, CoverInv, NEW r \in Runs, run[r].stage = "batch",
         \A g \in run[r].batch : step[<<r, g>>] = "done",
         NEW f \in run[r].batch, NEW g \in Files, Origin[g] = run[r].source, stored[g] > 0,
         ~After(MarkerOf(g), MarkerOf(f))
  PROVE  Settled(g)
<1>1. /\ f \in Files /\ MarkerOf(f) \in Marker /\ MarkerOf(g) \in Marker
      /\ \A h \in run[r].batch : IdRead(h)
  BY RunFields, MarkerType DEF CoverInv, RunInv, DoneIsRead
<1>2. CASE g \in run[r].todo
  <2>1. ~After(MarkerOf(f), MarkerOf(g))
    BY <1>2 DEF CoverInv, RunInv, Held
  <2>2. MarkerOf(f) = MarkerOf(g)
    BY <1>1, <2>1, AfterTotal
  <2> QED
    BY <1>1, <2>2, SameMarkerSameId
<1>3. Passed(r, g)
  BY DEF CoverInv, RunInv
<1> QED
  BY <1>1, <1>2, <1>3 DEF Passed, Settled

LEMMA TakenRun ==
  ASSUME TypeOK, DocsInv, KeepsReading, SameFiles, NEW r \in Runs,
         NEW R \in Run, NEW B \in Firsts(R.todo), run' = [run EXCEPT ![r] = Takes(R, B)],
         \A f \in Files : step'[<<r, f>>] # "done",
         \A f \in R.todo : stored[f] > 0 /\ Origin[f] = R.source,
         Reached(stored, R.source, R.marker),
         \A f \in Files : Origin[f] = R.source /\ stored[f] > 0 =>
            \/ Settled(f)' \/ f \in R.todo
            \/ \A g \in R.todo : After(MarkerOf(f), MarkerOf(g))
  PROVE  RunInv(r)'
<1>1. /\ \A f \in Files : Settled(f) => Settled(f)'
      /\ \A f \in Files : MarkerOf(f)' = MarkerOf(f)
      /\ R.todo \subseteq Files
      /\ stored' = stored
  BY ReadStaysRead, SameMarkers DEF SameFiles, Run
<1>2. run'[r] = Takes(R, B)
  BY DEF TypeOK
<1>3. /\ B \subseteq R.todo
      /\ \A b \in B, f \in R.todo \ B : ~After(MarkerOf(b), MarkerOf(f))
      /\ run'[r].stage = "batch" /\ run'[r].batch = B /\ run'[r].todo = R.todo \ B
      /\ run'[r].source = R.source /\ run'[r].marker = R.marker
  BY <1>2, TakesEffect
<1>4. Held(r)'
  <2>1. \A f \in run'[r].todo \union run'[r].batch : stored'[f] > 0 /\ Origin[f] = run'[r].source
    BY <1>1, <1>3
  <2>2. \A b \in run'[r].batch, f \in run'[r].todo : ~After(MarkerOf(b)', MarkerOf(f)')
    BY <1>1, <1>3
  <2>3. Reached(stored', run'[r].source, run'[r].marker)
    BY <1>1, <1>3
  <2> QED
    BY <2>1, <2>2, <2>3 DEF Held
<1>5. DoneIsRead(r)'
  BY <1>1, <1>3 DEF DoneIsRead
<1>6. ASSUME NEW f \in Files, Origin[f] = R.source, stored[f] > 0
      PROVE  Passed(r, f)'
  <2>1. \/ Settled(f)' \/ f \in R.todo
        \/ \A g \in R.todo : After(MarkerOf(f), MarkerOf(g))
    BY <1>6
  <2>2. run'[r].todo \union run'[r].batch = R.todo
    BY <1>3
  <2>3. \A g \in R.todo : MarkerOf(g)' = MarkerOf(g)
    BY <1>1
  <2> QED
    BY <1>1, <1>3, <2>1, <2>2, <2>3 DEF Passed
<1> QED
  BY <1>1, <1>3, <1>4, <1>5, <1>6 DEF RunInv

LEMMA EndsCovers ==
  ASSUME TypeOK, NEW r \in Runs, NEW how \in Outcomes, Ends(r, how)
  PROVE  RunInv(r)'
<1>1. run'[r].todo = {} /\ run'[r].batch = {} /\ run'[r].stage \in {"idle", "scan"}
  BY EndsEffect
<1> QED
  BY <1>1, FreedRun

LEMMA GoesOnCovers ==
  ASSUME TypeOK, DocsInv, KeepsReading, SameFiles, NEW r \in Runs,
         NEW R \in Run, R.batch = {}, Reached(stored, R.source, R.marker),
         \A f \in R.todo : stored[f] > 0 /\ Origin[f] = R.source,
         \A f \in Files : Origin[f] = R.source /\ stored[f] > 0 =>
            \/ Settled(f)' \/ f \in R.todo
            \/ \A g \in R.todo : After(MarkerOf(f), MarkerOf(g)),
         GoesOn(r, R)
  PROVE  RunInv(r)'
<1>1. Continues(r, R) /\ \A f \in Files : step'[<<r, f>>] # "done"
  BY GoesOnEffect
<1>2. ASSUME NEW B \in Firsts(R.todo), run' = [run EXCEPT ![r] = Takes(R, B)]
      PROVE  RunInv(r)'
  BY <1>1, <1>2, TakenRun
<1>3. ASSUME R.todo = {}, run' = [run EXCEPT ![r] = [R EXCEPT !.stage = "scan"]]
      PROVE  RunInv(r)'
  <2>1. run'[r] = [R EXCEPT !.stage = "scan"]
    BY <1>3 DEF TypeOK
  <2>2. run'[r].todo = {} /\ run'[r].batch = {} /\ run'[r].stage = "scan"
    BY <1>3, <2>1 DEF Run
  <2> QED
    BY <2>2, FreedRun
<1>4. ASSUME Ends(r, "completed")
      PROVE  RunInv(r)'
  BY <1>4, EndsCovers DEF Outcomes
<1> QED
  BY <1>1, <1>2, <1>3, <1>4 DEF Continues

LEMMA OthersKept ==
  ASSUME TypeOK, DocsInv, KeepsReading, CoverInv, SameFiles, NEW r \in Runs, Others(r),
         \A w \in Slots : w[1] # r => step'[w] = step[w],
         RunInv(r)'
  PROVE  \A q \in Runs : RunInv(q)'
<1>1. ASSUME NEW q \in Runs, q # r PROVE RunInv(q)'
  <2>1. run'[q] = run[q] /\ RunInv(q)
    BY <1>1 DEF Others, CoverInv
  <2>2. \A f \in run[q].batch : step'[<<q, f>>] = step[<<q, f>>]
    BY <1>1, RunFields DEF Slots
  <2> QED
    BY <2>1, <2>2, KeptRun
<1> QED
  BY <1>1

LEMMA ReadCheckpointCovers ==
  ASSUME TypeOK, DocsInv, JobInv, CoverInv, NEW r \in Runs, ReadCheckpoint(r)
  PROVE  CoverInv'
<1> DEFINE t == run[r].tenant
<1>1. PICK s \in run[r].left :
        /\ s \in Sources /\ run[r].stage = "scan" /\ run'[r].stage = "list"
        /\ run'[r].source = s /\ run'[r].marker = checkpoint[<<s, t>>]
        /\ run'[r].todo = run[r].todo /\ run'[r].batch = run[r].batch
        /\ Others(r)
        /\ UNCHANGED <<fileVars, docs, checkpoint, step>>
  BY ReadCheckpointEffect
<1>2. /\ run'[r].todo = {} /\ run'[r].batch = {}
      /\ t \in Tenants /\ KeepsReading /\ SameFiles
  BY <1>1, RunFields, SameDocuments DEF JobInv, RunShape, Shape, SameFiles, fileVars
<1> HIDE DEF t
<1>3. Reached(stored', s, checkpoint[<<s, t>>])
  <2>1. Reached(stored, s, checkpoint[<<s, t>>])
    BY <1>1, <1>2 DEF CoverInv, ClockInv
  <2> QED
    BY <1>1, <1>2, <2>1 DEF SameFiles
<1>4. Held(r)' /\ DoneIsRead(r)'
  BY <1>1, <1>2, <1>3 DEF Held, DoneIsRead
<1>5. ASSUME NEW f \in Files, Origin[f] = s, stored[f] > 0
      PROVE  Passed(r, f)'
  <2>1. ~After(MarkerOf(f), checkpoint[<<s, t>>]) => Settled(f)
    BY <1>2, <1>5 DEF CoverInv, Covered
  <2>2. MarkerOf(f)' = MarkerOf(f) /\ (Settled(f) => Settled(f)')
    BY <1>2, SameMarkers, ReadStaysRead DEF SameFiles
  <2> QED
    BY <1>1, <2>1, <2>2 DEF Passed
<1>6. RunInv(r)'
  BY <1>1, <1>2, <1>4, <1>5 DEF RunInv, SameFiles
<1>7. \A q \in Runs : RunInv(q)'
  BY <1>1, <1>2, <1>6, OthersKept
<1> QED
  BY <1>1, <1>2, <1>7, KeptCover

LEMMA ListCovers ==
  ASSUME TypeOK, DocsInv, JobInv, CoverInv, NEW r \in Runs, List(r)
  PROVE  CoverInv'
<1> DEFINE new == New(run[r].source, run[r].marker)
<1>1. PICK R \in Run :
        /\ SameRun(r, R)
        /\ R.batch = run[r].batch /\ R.marker = run[r].marker
        /\ R.todo \subseteq new /\ new \ R.todo \subseteq Unsupported \union unseen'
        /\ GoesOn(r, R)
        /\ run[r].stage = "list"
        /\ SameFiles /\ UNCHANGED <<docs, checkpoint>>
  BY ListEffect
<1>2. /\ R.batch = {} /\ Reached(stored, R.source, R.marker) /\ R.source = run[r].source
      /\ R.source \in Sources
  BY <1>1 DEF JobInv, RunShape, Shape, CoverInv, RunInv, Held, SameRun
<1>3. \A f \in R.todo : stored[f] > 0 /\ Origin[f] = R.source
  BY <1>1, <1>2 DEF New
<1>4. ASSUME NEW f \in Files, Origin[f] = R.source, stored[f] > 0
      PROVE  Settled(f)' \/ f \in R.todo
  <2>1. Passed(r, f)
    BY <1>2, <1>4 DEF CoverInv, RunInv
  <2>2. CASE After(MarkerOf(f), run[r].marker)
    <3>1. f \in new
      BY <1>2, <1>4, <2>2 DEF New
    <3> QED
      BY <1>1, <3>1 DEF Settled
  <2>3. CASE ~After(MarkerOf(f), run[r].marker)
    <3>1. Settled(f)
      BY <1>1, <2>1, <2>3 DEF Passed
    <3> QED
      BY <1>1, <3>1, ReadStaysRead, SameDocuments DEF SameFiles
  <2> QED
    BY <2>2, <2>3
<1>5. KeepsReading
  BY <1>1, SameDocuments
<1>6. RunInv(r)'
  BY <1>1, <1>2, <1>3, <1>4, <1>5, GoesOnCovers
<1>7. Others(r) /\ \A w \in Slots : w[1] # r => step'[w] = step[w]
  BY <1>1, GoesOnEffect
<1>8. \A q \in Runs : RunInv(q)'
  BY <1>1, <1>5, <1>6, <1>7, OthersKept
<1> QED
  BY <1>1, <1>5, <1>8, KeptCover

LEMMA MarkCovers ==
  ASSUME TypeOK, DocsInv, JobInv, CoverInv, NEW r \in Runs, Mark(r)
  PROVE  CoverInv'
<1> DEFINE t == run[r].tenant
<1>1. /\ run[r].stage = "batch" /\ UNCHANGED <<fileVars, docs>>
      /\ \A g \in run[r].batch : step[<<r, g>>] = "done"
  BY MarkEffect
<1>2. PICK f \in run[r].batch, R \in Run :
        /\ SameRun(r, R)
        /\ R.stage = "batch" /\ R.todo = run[r].todo
        /\ R.batch = run[r].batch \ {f} /\ R.marker = MarkerOf(f)
        /\ \/ checkpoint' = checkpoint
           \/ checkpoint' = [checkpoint EXCEPT ![<<run[r].source, t>>] = MarkerOf(f)]
        /\ \/ /\ run' = [run EXCEPT ![r] = R]
              /\ Reports(r)
              /\ UNCHANGED <<step, data, pauseRequested, pendingRerun, announced>>
           \/ R.batch = {} /\ Ends(r, "paused") /\ NoWork(r)
           \/ R.batch = {} /\ GoesOn(r, R)
  BY MarkEffect
<1>3. /\ f \in Files /\ MarkerOf(f) \in Marker /\ KeepsReading /\ SameFiles
      /\ run[r].source \in Sources /\ R.source = run[r].source /\ t \in Tenants
      /\ \A g \in run[r].batch : IdRead(g)
  BY <1>1, <1>2, RunFields, MarkerType, SameDocuments
     DEF JobInv, RunShape, Shape, SameRun, CoverInv, RunInv, DoneIsRead, SameFiles, fileVars
<1>4. Reached(stored, run[r].source, MarkerOf(f))
  BY <1>2, <1>3 DEF CoverInv, RunInv, Held, Reached, MarkerOf
<1> HIDE DEF t
<1>5. Covered'
  <2>1. \A g \in Files : Origin[g] = run[r].source /\ stored[g] > 0
                            /\ ~After(MarkerOf(g), MarkerOf(f)) => Settled(g)
    BY <1>1, <1>2, BatchCovers
  <2>2. Covered
    BY DEF CoverInv
  <2> QED
    BY <1>2, <1>3, <2>1, <2>2, KeptCheckpoint
<1>6. ClockInv'
  <2>1. ClockInv
    BY DEF CoverInv
  <2>2. \A s \in Sources, u \in Tenants : Reached(stored, s, checkpoint'[<<s, u>>])
    <3>1. ASSUME NEW s \in Sources, NEW u \in Tenants
          PROVE  \/ checkpoint'[<<s, u>>] = checkpoint[<<s, u>>]
                 \/ s = run[r].source /\ checkpoint'[<<s, u>>] = MarkerOf(f)
      BY <1>2, <1>3 DEF TypeOK
    <3> QED
      BY <1>4, <2>1, <3>1 DEF ClockInv
  <2>3. \A s \in Sources, u \in Tenants : Reached(stored', s, checkpoint'[<<s, u>>])
    BY <1>3, <2>2 DEF SameFiles
  <2> QED
    BY <1>3, <2>1, <2>3 DEF ClockInv, SameFiles
<1>7. /\ \A g \in run[r].todo \union run[r].batch : stored[g] > 0 /\ Origin[g] = R.source
      /\ \A b \in run[r].batch, g \in run[r].todo : ~After(MarkerOf(b), MarkerOf(g))
  BY <1>3 DEF CoverInv, RunInv, Held
<1>8. /\ \A g \in Files : Settled(g) => Settled(g)'
      /\ \A g \in Files : IdRead(g) => IdRead(g)'
      /\ \A g \in Files : MarkerOf(g)' = MarkerOf(g)
      /\ run[r].todo \subseteq Files /\ run[r].batch \subseteq Files
      /\ stored' = stored
  BY <1>3, ReadStaysRead, SameMarkers, RunFields DEF SameFiles
<1>9. ASSUME NEW g \in Files, Origin[g] = R.source, stored[g] > 0
      PROVE  \/ Settled(g)'
             \/ g \in R.todo \union R.batch
             \/ \A h \in R.todo \union R.batch : After(MarkerOf(g), MarkerOf(h))
  <2>1. Passed(r, g)
    BY <1>3, <1>9 DEF CoverInv, RunInv
  <2>2. g = f => Settled(g)
    BY <1>3 DEF Settled
  <2> QED
    BY <1>1, <1>2, <1>8, <2>1, <2>2 DEF Passed
<1>10. ASSUME run' = [run EXCEPT ![r] = R], UNCHANGED step
       PROVE  RunInv(r)'
  <2>1. run'[r] = R
    BY <1>10 DEF TypeOK
  <2>2. Reached(stored', R.source, R.marker)
    BY <1>2, <1>3, <1>4, <1>8
  <2>3. Held(r)'
    BY <1>2, <1>7, <1>8, <2>1, <2>2 DEF Held
  <2>4. DoneIsRead(r)'
    BY <1>2, <1>3, <1>8, <2>1 DEF DoneIsRead
  <2>5. ASSUME NEW g \in Files, Origin[g] = R.source, stored[g] > 0
        PROVE  Passed(r, g)'
    <3>1. R.todo \union R.batch \subseteq Files
      BY <1>2, <1>8
    <3> QED
      BY <1>2, <1>8, <1>9, <2>1, <2>5, <3>1 DEF Passed
  <2> QED
    BY <1>8, <2>1, <2>3, <2>4, <2>5 DEF RunInv
<1>11. RunInv(r)' /\ Others(r) /\ \A w \in Slots : w[1] # r => step'[w] = step[w]
  <2>1. CASE run' = [run EXCEPT ![r] = R] /\ UNCHANGED step
    <3>1. Others(r)
      BY <2>1 DEF Others, TypeOK
    <3> QED
      BY <1>10, <2>1, <3>1
  <2>2. CASE Ends(r, "paused") /\ NoWork(r)
    <3>1. RunInv(r)' /\ Others(r)
      BY <2>2, EndsCovers, EndsEffect DEF Outcomes
    <3> QED
      BY <2>2, <3>1 DEF NoWork
  <2>3. CASE R.batch = {} /\ GoesOn(r, R)
    <3>1. /\ Reached(stored, R.source, R.marker) /\ R.todo \union R.batch = R.todo
          /\ \A g \in R.todo : stored[g] > 0 /\ Origin[g] = R.source
      BY <1>2, <1>3, <1>4, <1>7, <2>3
    <3>2. RunInv(r)'
      BY <1>3, <1>9, <2>3, <3>1, GoesOnCovers
    <3> QED
      BY <2>3, <3>2, GoesOnEffect
  <2> QED
    BY <1>2, <2>1, <2>2, <2>3
<1>12. \A q \in Runs : RunInv(q)'
  BY <1>3, <1>11, OthersKept
<1> QED
  BY <1>5, <1>6, <1>12 DEF CoverInv

LEMMA FailRunCovers ==
  ASSUME TypeOK, DocsInv, CoverInv, NEW r \in Runs, FailRun(r)
  PROVE  CoverInv'
<1>1. Ends(r, "failed") /\ NoWork(r) /\ UNCHANGED <<fileVars, docs, checkpoint>>
  BY DEF FailRun
<1>2. RunInv(r)' /\ Others(r) /\ KeepsReading /\ SameFiles
  BY <1>1, EndsCovers, EndsEffect, SameDocuments DEF Outcomes, fileVars, SameFiles
<1>3. \A w \in Slots : w[1] # r => step'[w] = step[w]
  BY <1>1 DEF NoWork
<1>4. \A q \in Runs : RunInv(q)'
  BY <1>2, <1>3, OthersKept
<1> QED
  BY <1>1, <1>2, <1>4, KeptCover

\* Whatever becomes done has read its file.
ReadsWhatIsDone ==
    \A q \in Runs, g \in Files :
        step'[<<q, g>>] = "done" => step[<<q, g>>] = "done" \/ IdRead(g)'

LEMMA WorkReads ==
  ASSUME TypeOK, DocsInv, NEW r \in Runs, NEW f \in Files, Work(r, f) \/ FailUpsert(r, f)
  PROVE  ReadsWhatIsDone
<1> USE IngestionAssumption
<1>1. ASSUME NEW from, NEW to \in Steps \ {"done"}, Works(r, f, from, to)
      PROVE  ReadsWhatIsDone
  BY <1>1 DEF Works, ReadsWhatIsDone, TypeOK, Slots
<1>2. ASSUME NEW from, Finishes(r, f, from), IdRead(f)'
      PROVE  ReadsWhatIsDone
  <2>1. ASSUME NEW q \in Runs, NEW g \in Files, step'[<<q, g>>] # step[<<q, g>>]
        PROVE  g = f
    BY <1>2, <2>1 DEF Finishes, TypeOK, Slots
  <2> QED
    BY <1>2, <2>1 DEF ReadsWhatIsDone
<1>3. KeepsReading
  BY WorkKeepsReading
<1>4. IdRead(f) => IdRead(f)'
  <2>1. unseen' = unseen
    BY WorkStepType DEF fileVars
  <2> QED
    BY <1>3, <2>1, ReadStaysRead
<1>5. ASSUME NEW d \in Matching(f) PROVE IdRead(f)
  BY <1>5, DocumentFields DEF Matching, Matches, IdRead
<1>6. ASSUME NEW d \in DOMAIN docs, BearsMessage(docs[d], f)
      PROVE  IdRead(f)
  <2>1. PICK g \in docs[d].message : DocumentId[f] = DocumentId[g]
    BY <1>6 DEF BearsMessage, SameMessage
  <2>2. DocumentId[docs[d].name] = DocumentId[f] /\ docs[d].content # {}
    BY <2>1, DocumentFields
  <2> QED
    BY <2>2 DEF IdRead
<1>7. CASE CheckMessage(r, f) \/ CheckProtected(r, f)
  <2>1. \/ (\E from : Finishes(r, f, from)) /\ IdRead(f)'
        \/ \E from : \E to \in Steps \ {"done"} : Works(r, f, from, to)
    BY <1>4, <1>5, <1>6, <1>7 DEF CheckMessage, CheckProtected, Steps
  <2> QED
    BY <1>1, <1>2, <2>1
<1>8. CASE Overwrite(r, f)
  <2>1. ASSUME NEW d \in Matching(f) PROVE IdRead(f)'
    BY <1>4, <1>5, <2>1
  <2> QED
    BY <1>1, <1>2, <1>8, <2>1 DEF Overwrite, Steps
<1>9. CASE Create(r, f)
  <2>1. MessageClashes(f, NoOrg, {}) => IdRead(f)
    BY <1>6 DEF MessageClashes
  <2> DEFINE doc == Ingested(r, f)
  <2>2. ASSUME docs' = Append(docs, doc)
        PROVE  IdRead(f)'
    <3>1. Len(docs) \in Nat /\ DOMAIN docs = 1 .. Len(docs)
      BY LenProperties DEF DocsInv
    <3>2. /\ Len(docs') = Len(docs) + 1 /\ docs'[Len(docs) + 1] = doc
          /\ docs' \in Seq(SoundDocuments)
      <4>1. docs' \in Seq(SoundDocuments)
        BY <1>3 DEF KeepsReading, DocsInv
      <4> HIDE DEF doc
      <4> QED
        BY <2>2, <4>1 DEF DocsInv
    <3>3. Len(docs) + 1 \in DOMAIN docs'
      BY <3>1, <3>2, LenProperties
    <3>4. docs'[Len(docs) + 1].name = f /\ docs'[Len(docs) + 1].content # {}
      BY <3>2 DEF Ingested
    <3> QED
      BY <3>3, <3>4 DEF IdRead
  <2> QED
    BY <1>2, <1>4, <1>9, <2>1, <2>2 DEF Create
<1>10. CASE FailUpsert(r, f) \/ RejectWork(r, f)
  BY <1>10 DEF FailUpsert, RejectWork, ReadsWhatIsDone, TypeOK, Slots
<1> QED
  BY <1>7, <1>8, <1>9, <1>10 DEF Work

LEMMA WorkCovers ==
  ASSUME TypeOK, DocsInv, CoverInv, NEW r \in Runs, NEW f \in Files,
         Work(r, f) \/ FailUpsert(r, f)
  PROVE  CoverInv'
<1>1. KeepsReading /\ ReadsWhatIsDone /\ SameFiles /\ UNCHANGED checkpoint
  BY WorkKeepsReading, WorkReads, WorkStepType DEF fileVars, SameFiles
<1>2. ASSUME NEW q \in Runs, run'[q] = run[q] PROVE RunInv(q)'
  <2>1. RunInv(q) /\ run[q].batch \subseteq Files
    BY RunFields DEF CoverInv
  <2> QED
    BY <1>1, <1>2, <2>1, KeptRun DEF ReadsWhatIsDone
<1>3. CASE UNCHANGED run
  BY <1>1, <1>2, <1>3, KeptCover
<1>4. CASE Ends(r, "failed")
  <2>1. RunInv(r)' /\ Others(r)
    BY <1>4, EndsCovers, EndsEffect DEF Outcomes
  <2>2. \A q \in Runs : RunInv(q)'
    BY <1>2, <2>1 DEF Others
  <2> QED
    BY <1>1, <2>2, KeptCover
<1>5. UNCHANGED run \/ Ends(r, "failed")
  BY RejectEffect
     DEF Work, CheckMessage, Overwrite, CheckProtected, Create, FailUpsert, Works, Finishes
<1> QED
  BY <1>3, <1>4, <1>5

\* A file is stored after every stored file of its source, or is missed.
LEMMA StoringCovers ==
  ASSUME TypeOK, DocsInv, CoverInv, NEW f \in Files, Put(f) \/ Deliver(f)
  PROVE  CoverInv'
<1>1. /\ stored \in [Files -> Nat] /\ clock \in Nat /\ unseen \subseteq Files
      /\ ClockInv /\ DocumentId \in [Files -> Nat] /\ Origin \in [Files -> Sources]
  BY IngestionAssumption DEF TypeOK, CoverInv
<1>2. /\ UNCHANGED <<docs, checkpoint, run, step>>
      /\ clock' \in Nat /\ clock' >= clock /\ clock' > 0 /\ unseen \subseteq unseen'
      /\ \A g \in Files : stored'[g] = stored[g] \/ (stored[g] = 0 /\ stored'[g] = clock')
      /\ \A g \in Files : stored[g] = 0 /\ stored'[g] > 0 =>
            \A h \in Files : Origin[h] = Origin[g] /\ stored[h] = clock' =>
                DocumentId[g] > DocumentId[h] \/ g \in unseen'
      /\ \A g, h \in Mail : SameMessage(g, h) => stored'[g] = stored'[h]
  <2>1. CASE Put(f)
    <3>1. /\ stored[f] = 0 /\ f \notin Mail /\ stored' = [stored EXCEPT ![f] = clock']
          /\ UNCHANGED <<docs, checkpoint, run, step>>
      BY <2>1 DEF Put, workVars
    <3>2. clock' \in Nat /\ clock' >= clock /\ clock' > 0
      BY <1>1, <2>1 DEF Put
    <3>3. \A g \in Files : stored'[g] = IF g = f THEN clock' ELSE stored[g]
      BY <1>1, <3>1
    <3>4. unseen' = IF \E g \in Files : /\ Origin[g] = Origin[f] /\ stored[g] = clock'
                                        /\ DocumentId[g] >= DocumentId[f]
                    THEN unseen \union {f} ELSE unseen
      BY <2>1 DEF Put
    <3>5. ASSUME NEW h \in Files, Origin[h] = Origin[f], stored[h] = clock'
          PROVE  DocumentId[f] > DocumentId[h] \/ f \in unseen'
      <4>1. DocumentId[f] \in Nat /\ DocumentId[h] \in Nat
        BY <1>1
      <4> QED
        BY <3>4, <3>5, <4>1
    <3>6. unseen \subseteq unseen'
      BY <3>4
    <3>7. \A g, h \in Mail : SameMessage(g, h) => stored'[g] = stored'[h]
      BY <1>1, <3>1, <3>3, IngestionAssumption DEF ClockInv
    <3>8. \A g \in Files : stored[g] = 0 /\ stored'[g] > 0 => g = f
      BY <3>3
    <3> QED
      BY <3>1, <3>2, <3>3, <3>5, <3>6, <3>7, <3>8
  <2>2. CASE Deliver(f)
    <3>1. /\ stored[f] = 0 /\ f \in Mail /\ clock' = clock + 1
          /\ \A g \in Files : stored'[g] = IF g \in Mail /\ SameMessage(g, f)
                                           THEN clock' ELSE stored[g]
          /\ UNCHANGED <<unseen, docs, checkpoint, run, step>>
      BY <2>2 DEF Deliver, workVars
    <3>2. \A g \in Mail : SameMessage(g, f) => stored[g] = 0
      BY <1>1, <3>1 DEF ClockInv
    <3>3. \A h \in Files : stored[h] # clock'
      BY <1>1, <3>1 DEF ClockInv
    <3>4. \A g, h \in Mail : SameMessage(g, h) => stored'[g] = stored'[h]
      <4>1. ASSUME NEW g \in Mail, NEW h \in Mail, SameMessage(g, h)
            PROVE  stored'[g] = stored'[h]
        <5>1. SameMessage(g, f) <=> SameMessage(h, f)
          BY <4>1 DEF SameMessage
        <5>2. g \in Files /\ h \in Files /\ stored[g] = stored[h]
          BY <1>1, <4>1, IngestionAssumption DEF ClockInv
        <5> QED
          BY <3>1, <5>1, <5>2
      <4> QED
        BY <4>1
    <3> QED
      BY <1>1, <3>1, <3>2, <3>3, <3>4
  <2> QED
    BY <2>1, <2>2
<1>3. /\ \A g \in Files : stored[g] > 0 => MarkerOf(g)' = MarkerOf(g) /\ stored'[g] = stored[g]
      /\ \A g \in Files : IdRead(g)' <=> IdRead(g)
      /\ \A g \in Files : Settled(g) => Settled(g)'
      /\ \A g \in Files : stored[g] \in Nat /\ stored[g] <= clock
  BY <1>1, <1>2 DEF MarkerOf, IdRead, Settled, ClockInv
<1>4. ASSUME NEW g \in Files, stored[g] = 0, stored'[g] > 0, g \notin unseen',
             NEW m, Reached(stored, Origin[g], m)
      PROVE  After(MarkerOf(g)', m)
  <2>1. stored'[g] = clock' /\ MarkerOf(g)' = <<clock', DocumentId[g]>>
    BY <1>2, <1>4 DEF MarkerOf
  <2>2. CASE m = NoMarker
    BY <1>2, <2>1, <2>2 DEF After, NoMarker
  <2>3. ASSUME NEW h \in Files, Origin[h] = Origin[g], stored[h] > 0,
               m = <<stored[h], DocumentId[h]>>
        PROVE  After(MarkerOf(g)', m)
    <3>1. stored[h] <= clock' /\ stored[h] \in Nat
      BY <1>2, <1>3, <1>1
    <3>2. CASE stored[h] = clock'
      <4>1. DocumentId[g] > DocumentId[h]
        BY <1>2, <1>4, <2>3, <3>2
      <4> QED
        BY <2>1, <2>3, <3>2, <4>1 DEF After
    <3>3. CASE stored[h] # clock'
      <4>1. clock' > stored[h]
        BY <1>2, <3>1, <3>3
      <4> QED
        BY <2>1, <2>3, <4>1 DEF After
    <3> QED
      BY <3>2, <3>3
  <2> QED
    BY <1>4, <2>2, <2>3 DEF Reached
<1>5. ASSUME NEW s, NEW m, Reached(stored, s, m) PROVE Reached(stored', s, m)
  BY <1>3, <1>5 DEF Reached
<1>6. ClockInv'
  <2>1. \A g \in Files : stored'[g] <= clock'
    BY <1>1, <1>2, <1>3
  <2>2. \A s \in Sources, t \in Tenants : Reached(stored', s, checkpoint'[<<s, t>>])
    BY <1>1, <1>2, <1>5 DEF ClockInv
  <2> QED
    BY <1>2, <2>1, <2>2 DEF ClockInv
<1>7. ASSUME NEW g \in Files, NEW t \in Tenants, stored'[g] > 0,
             ~After(MarkerOf(g)', checkpoint[<<Origin[g], t>>])
      PROVE  Settled(g)'
  <2>1. CASE stored[g] > 0
    BY <1>3, <1>7, <2>1 DEF CoverInv, Covered
  <2>2. CASE stored[g] = 0
    <3>1. Reached(stored, Origin[g], checkpoint[<<Origin[g], t>>])
      BY <1>1 DEF ClockInv
    <3>2. g \in unseen'
      BY <1>4, <1>7, <2>2, <3>1
    <3> QED
      BY <3>2 DEF Settled
  <2> QED
    BY <1>3, <2>1, <2>2
<1>8. Covered'
  BY <1>2, <1>7 DEF Covered
<1>9. ASSUME NEW r \in Runs PROVE RunInv(r)'
  <2>1. /\ RunInv(r) /\ run'[r] = run[r]
        /\ run[r].todo \subseteq Files /\ run[r].batch \subseteq Files
    BY <1>2, RunFields DEF CoverInv
  <2>2. \A g \in run[r].todo \union run[r].batch :
           /\ g \in Files /\ stored[g] > 0 /\ stored'[g] > 0 /\ MarkerOf(g)' = MarkerOf(g)
           /\ Origin[g] = run[r].source /\ Reached(stored, run[r].source, MarkerOf(g))
    <3>1. ASSUME NEW g \in run[r].todo \union run[r].batch
          PROVE  /\ g \in Files /\ stored[g] > 0 /\ Origin[g] = run[r].source
                 /\ Reached(stored, run[r].source, MarkerOf(g))
      <4>1. g \in Files /\ stored[g] > 0 /\ Origin[g] = run[r].source
        BY <2>1 DEF RunInv, Held
      <4> QED
        BY <4>1 DEF Reached, MarkerOf
    <3> QED
      BY <1>3, <3>1
  <2>3. Held(r)'
    <3>1. \A g \in run[r].todo \union run[r].batch : stored'[g] > 0 /\ Origin[g] = run[r].source
      BY <2>2
    <3>2. \A b \in run[r].batch, g \in run[r].todo : ~After(MarkerOf(b)', MarkerOf(g)')
      BY <2>1, <2>2 DEF RunInv, Held
    <3>3. run[r].stage \in {"list", "batch"} => Reached(stored', run[r].source, run[r].marker)
      BY <1>5, <2>1 DEF RunInv, Held
    <3> QED
      BY <2>1, <3>1, <3>2, <3>3 DEF Held
  <2>4. DoneIsRead(r)'
    BY <1>2, <1>3, <2>1 DEF RunInv, DoneIsRead
  <2>5. ASSUME NEW g \in Files, Origin[g] = run[r].source, stored'[g] > 0
        PROVE  Passed(r, g)'
    <3>1. CASE stored[g] > 0
      <4>1. Passed(r, g) /\ MarkerOf(g)' = MarkerOf(g)
        BY <1>3, <2>1, <2>5, <3>1 DEF RunInv
      <4> QED
        BY <1>3, <2>1, <2>2, <4>1 DEF Passed
    <3>2. CASE stored[g] = 0 /\ g \notin unseen'
      <4>1. run[r].stage = "list" => After(MarkerOf(g)', run[r].marker)
        BY <1>4, <2>1, <2>5, <3>2 DEF RunInv, Held
      <4>2. \A h \in run[r].todo \union run[r].batch : After(MarkerOf(g)', MarkerOf(h)')
        BY <1>4, <2>2, <2>5, <3>2
      <4> QED
        BY <2>1, <4>1, <4>2 DEF Passed
    <3>3. CASE g \in unseen'
      BY <3>3 DEF Passed, Settled
    <3> QED
      BY <1>3, <3>1, <3>2, <3>3
  <2> QED
    BY <2>1, <2>3, <2>4, <2>5 DEF RunInv
<1> QED
  BY <1>6, <1>8, <1>9 DEF CoverInv

LEMMA RequestCovers ==
  ASSUME TypeOK, DocsInv, CoverInv, Request
  PROVE  CoverInv'
<1> USE IngestionAssumption
<1>1. KeepsReading
  BY RequestKeepsReading
<1>2. ASSUME UNCHANGED <<fileVars, checkpoint, run, step>>
      PROVE  CoverInv'
  <2>1. SameFiles
    BY <1>2 DEF fileVars, SameFiles
  <2>2. \A r \in Runs : RunInv(r)'
    BY <1>1, <1>2, <2>1, KeptRun DEF CoverInv
  <2> QED
    BY <1>1, <1>2, <2>1, <2>2, KeptCover
<1>3. ASSUME NEW r \in Runs, NEW t \in Tenants, NEW isJob \in BOOLEAN, Begins(r, t, isJob, 0),
             UNCHANGED <<fileVars, checkpoint, step>>
      PROVE  CoverInv'
  <2>1. /\ Others(r) /\ run'[r].stage = "scan"
        /\ run'[r].todo = {} /\ run'[r].batch = {}
    BY <1>3, BeginsEffect
  <2>2. SameFiles
    BY <1>3 DEF fileVars, SameFiles
  <2>3. RunInv(r)'
    BY <2>1, FreedRun
  <2>4. \A q \in Runs : RunInv(q)'
    BY <1>1, <1>3, <2>1, <2>2, <2>3, OthersKept
  <2> QED
    BY <1>1, <1>3, <2>2, <2>4, KeptCover
<1>4. ASSUME NEW t \in Tenants, StartJob(t) \/ Poll(t) \/ PauseJob(t)
      PROVE  CoverInv'
  BY <1>2, <1>3, <1>4 DEF StartJob, Poll, PauseJob, workVars
<1>5. ASSUME NEW f \in Files, Put(f) \/ Deliver(f)
      PROVE  CoverInv'
  BY <1>5, StoringCovers
<1>6. ASSUME NEW f \in Files, NEW renamed \in BOOLEAN, NEW org \in Orgs, Register(f, renamed, org)
      PROVE  CoverInv'
  BY <1>2, <1>6 DEF Register, workVars
<1>7. ASSUME NEW c \in Clerks, NEW d \in DOMAIN docs, NEW org \in Orgs \union {NoOrg},
             TakeUp(c, d, org)
      PROVE  CoverInv'
  BY <1>2, <1>7 DEF TakeUp, workVars
<1>8. ASSUME NEW d \in DOMAIN docs, RetryDocument(d)
      PROVE  CoverInv'
  BY <1>2, <1>8 DEF RetryDocument, workVars
<1> QED
  BY <1>4, <1>5, <1>6, <1>7, <1>8 DEF Request

LEMMA CoverStep ==
  ASSUME TypeOK, DocsInv, JobInv, CoverInv, [Next]_vars
  PROVE  CoverInv'
<1>1. CASE Request
  BY <1>1, RequestCovers
<1>2. ASSUME NEW r \in Runs, RunStep(r) \/ FailRun(r)
      PROVE  CoverInv'
  BY <1>2, ReadCheckpointCovers, ListCovers, MarkCovers, FailRunCovers DEF RunStep
<1>3. ASSUME NEW r \in Runs, NEW f \in Files, Work(r, f) \/ FailUpsert(r, f)
      PROVE  CoverInv'
  BY <1>3, WorkCovers
<1>4. ASSUME UNCHANGED <<fileVars, checkpoint, run, step>>, KeepsReading
      PROVE  CoverInv'
  <2>1. SameFiles
    BY <1>4 DEF fileVars, SameFiles
  <2>2. \A r \in Runs : RunInv(r)'
    BY <1>4, <2>1, KeptRun DEF CoverInv
  <2> QED
    BY <1>4, <2>1, <2>2, KeptCover
<1>5. ASSUME NEW c \in Clerks, Decide(c)
      PROVE  CoverInv'
  BY <1>4, <1>5, DecideKeepsReading DEF Decide, workVars
<1>6. CASE Crash
  <2>1. \A r \in Runs : run'[r] = NoRun
    BY <1>6 DEF Crash
  <2>2. KeepsReading /\ SameFiles /\ UNCHANGED checkpoint
    BY <1>6, SameDocuments DEF Crash, fileVars, SameFiles
  <2>3. \A r \in Runs : RunInv(r)'
    BY <2>1, NoRunIsRun, FreedRun
  <2> QED
    BY <2>2, <2>3, KeptCover
<1>7. CASE UNCHANGED vars
  BY <1>4, <1>7, SameDocuments DEF vars, workVars
<1> QED
  BY <1>1, <1>2, <1>3, <1>5, <1>6, <1>7 DEF Next

LEMMA CoverInit ==
  Init => CoverInv
<1>1. ASSUME Init
      PROVE  /\ \A f \in Files : stored[f] = 0
             /\ clock = 0
             /\ \A s \in Sources, t \in Tenants : checkpoint[<<s, t>>] = NoMarker
             /\ \A r \in Runs : run[r] = NoRun
  BY <1>1 DEF Init
<1>2. ASSUME Init PROVE ClockInv /\ Covered
  BY <1>1, <1>2, IngestionAssumption DEF ClockInv, Covered, Reached
<1>3. ASSUME Init, NEW r \in Runs PROVE RunInv(r)
  <2>1. run[r] = NoRun
    BY <1>1, <1>3
  <2> QED
    BY <2>1, NoRunIsRun DEF RunInv, Held, DoneIsRead, Passed
<1> QED
  BY <1>2, <1>3 DEF CoverInv

\* However runs overlap, fail, pause or die, for whichever tenant they scan a
\* source, and in whatever order batches settle, no checkpoint passes a file that
\* was not read, but for what the source skips: an extension it does not know,
\* an object it could not read, and one stored at the instant of an object that
\* sorts after it.
THEOREM CheckpointsCoverWhatWasRead == Spec => []CheckpointCovers
<1>1. Init => TypeOK /\ DocsInv /\ JobInv /\ CoverInv
  BY TypeInit, JobInit, CoverInit
<1>2. TypeOK /\ DocsInv /\ JobInv /\ CoverInv /\ [Next]_vars
        => (TypeOK /\ DocsInv /\ JobInv /\ CoverInv)'
  BY TypeStep, JobStep, CoverStep
<1>3. DocsInv /\ CoverInv => CheckpointCovers
  BY SettledIsKnown DEF CoverInv, Covered, CheckpointCovers
<1> QED
  BY <1>1, <1>2, <1>3, PTL DEF Spec

(***************************************************************************)
(* Announcements.  An upload that raised the rerun flag was read or missed, *)
(* or the flag is still up, or the job has the file ahead of it.           *)
(***************************************************************************)
WillRead(r, f) ==
    \/ Origin[f] \in run[r].left
    \/ Origin[f] = run[r].source /\ run[r].stage = "list" /\ After(MarkerOf(f), run[r].marker)
    \/ f \in run[r].todo \union run[r].batch

Awaits(t, f) ==
    \/ Settled(f)
    \/ job[t].running /\ pendingRerun[t]
    \/ \E r \in Runs : JobRun(r, t) /\ WillRead(r, f)

AnnouncedInv ==
    \A t \in Tenants : \A f \in announced[t] :
        /\ stored[f] > 0 /\ Owner[Origin[f]] = t
        /\ Awaits(t, f)

LEMMA KeptAnnounced ==
  ASSUME TypeOK, DocsInv, KeepsReading, AnnouncedInv, unseen \subseteq unseen',
         \A f \in Files : stored[f] > 0 => stored'[f] = stored[f],
         NEW t \in Tenants, announced'[t] \subseteq announced[t],
         NEW f \in announced'[t],
         job[t].running /\ pendingRerun[t] => Awaits(t, f)',
         \A r \in Runs : JobRun(r, t) /\ WillRead(r, f) => Awaits(t, f)'
  PROVE  stored'[f] > 0 /\ Owner[Origin[f]] = t /\ Awaits(t, f)'
<1>1. f \in Files /\ stored[f] > 0 /\ Owner[Origin[f]] = t /\ Awaits(t, f)
  BY DEF AnnouncedInv, TypeOK
<1>2. Settled(f) => Awaits(t, f)'
  BY <1>1, ReadStaysRead DEF Awaits
<1> QED
  BY <1>1, <1>2 DEF Awaits

LEMMA KeptWill ==
  ASSUME NEW r \in Runs, run'[r] = run[r], NEW f \in Files, stored'[f] = stored[f]
  PROVE  /\ WillRead(r, f) => WillRead(r, f)'
         /\ \A t \in Tenants : JobRun(r, t)' <=> JobRun(r, t)
  BY DEF WillRead, MarkerOf, JobRun, Live

\* Steps that leave the runs alone and withdraw no announcement.
LEMMA SameRunsAnnounced ==
  ASSUME TypeOK, DocsInv, KeepsReading, AnnouncedInv, UNCHANGED <<run, job>>,
         unseen \subseteq unseen',
         \A f \in Files : stored[f] > 0 => stored'[f] = stored[f],
         \A t \in Tenants : announced'[t] # {} =>
            announced'[t] = announced[t] /\ (pendingRerun[t] => pendingRerun'[t])
  PROVE  AnnouncedInv'
<1>1. ASSUME NEW t \in Tenants, NEW f \in announced'[t]
      PROVE  stored'[f] > 0 /\ Owner[Origin[f]] = t /\ Awaits(t, f)'
  <2>1. announced'[t] = announced[t] /\ (pendingRerun[t] => pendingRerun'[t])
    BY <1>1
  <2>2. f \in Files /\ stored'[f] = stored[f]
    BY <1>1, <2>1 DEF AnnouncedInv, TypeOK
  <2>3. job[t].running /\ pendingRerun[t] => Awaits(t, f)'
    BY <2>1 DEF Awaits
  <2>4. \A r \in Runs : JobRun(r, t) /\ WillRead(r, f) => Awaits(t, f)'
    BY <2>2, KeptWill DEF Awaits
  <2> QED
    BY <1>1, <2>1, <2>3, <2>4, KeptAnnounced
<1> QED
  BY <1>1 DEF AnnouncedInv

\* A run goes on: what it had ahead is ahead of it still, or was read.
LEMMA LiveAnnounced ==
  ASSUME TypeOK, DocsInv, KeepsReading, JobInv, AnnouncedInv,
         SameFiles, UNCHANGED <<pendingRerun, announced>>,
         NEW r \in Runs, Live(r), Others(r), Reports(r) \/ UNCHANGED job,
         run'[r].stage # "idle", run'[r].isJob = run[r].isJob, run'[r].tenant = run[r].tenant,
         \A f \in Files : stored[f] > 0 /\ WillRead(r, f) => WillRead(r, f)' \/ Settled(f)'
  PROVE  AnnouncedInv'
<1>1. ASSUME NEW t \in Tenants, NEW f \in announced'[t]
      PROVE  stored'[f] > 0 /\ Owner[Origin[f]] = t /\ Awaits(t, f)'
  <2>1. /\ f \in announced[t] /\ f \in Files /\ stored[f] > 0
        /\ stored' = stored /\ unseen \subseteq unseen'
    BY <1>1 DEF AnnouncedInv, TypeOK, SameFiles
  <2>2. job[t].running => job'[t].running
    BY ReportsEffect
  <2>3. job[t].running /\ pendingRerun[t] => Awaits(t, f)'
    BY <2>2 DEF Awaits
  <2>4. ASSUME NEW q \in Runs, q # r, JobRun(q, t), WillRead(q, f)
        PROVE  Awaits(t, f)'
    BY <2>1, <2>4, KeptWill DEF Awaits, Others
  <2>5. ASSUME JobRun(r, t), WillRead(r, f)
        PROVE  Awaits(t, f)'
    <3>1. JobRun(r, t)'
      BY <2>5 DEF JobRun, Live
    <3>2. WillRead(r, f)' \/ Settled(f)'
      BY <2>1, <2>5
    <3> QED
      BY <3>1, <3>2 DEF Awaits
  <2> QED
    BY <1>1, <2>1, <2>3, <2>4, <2>5, KeptAnnounced
<1> QED
  BY <1>1 DEF AnnouncedInv

\* A run ends: when it has completed, all it had ahead was read.
LEMMA EndsAnnounced ==
  ASSUME TypeOK, DocsInv, KeepsReading, JobInv, AnnouncedInv, SameFiles,
         NEW r \in Runs, Live(r), NEW how \in Outcomes, Ends(r, how),
         how = "completed" =>
            \A f \in Files : stored[f] > 0 /\ WillRead(r, f) => Settled(f)'
  PROVE  AnnouncedInv'
<1>1. Others(r)
  BY EndsEffect
<1>2. ASSUME NEW t \in Tenants, NEW f \in announced'[t]
      PROVE  stored'[f] > 0 /\ Owner[Origin[f]] = t /\ Awaits(t, f)'
  <2>1. announced'[t] \subseteq announced[t]
    <3>1. announced \in [Tenants -> SUBSET Files]
      BY DEF TypeOK
    <3> QED
      BY <3>1 DEF Ends
  <2>2. /\ f \in announced[t] /\ f \in Files /\ stored[f] > 0 /\ Owner[Origin[f]] = t
        /\ stored' = stored /\ unseen \subseteq unseen'
    BY <1>2, <2>1 DEF AnnouncedInv, TypeOK, SameFiles
  <2>3. ASSUME NEW q \in Runs, q # r, JobRun(q, t), WillRead(q, f)
        PROVE  Awaits(t, f)'
    BY <1>1, <2>2, <2>3, KeptWill DEF Awaits, Others
  <2>4. CASE ~run[r].isJob \/ run[r].tenant # t
    <3>1. ~JobRun(r, t)
      BY <2>4 DEF JobRun
    <3>2. pendingRerun'[t] = pendingRerun[t]
      BY <2>4 DEF Ends, TypeOK
    <3>3. job[t].running => job'[t].running
      BY <2>4, RunFields, RunningType DEF Ends, Outcomes, JobStates
    <3>4. job[t].running /\ pendingRerun[t] => Awaits(t, f)'
      BY <3>2, <3>3 DEF Awaits
    <3> QED
      BY <1>2, <2>1, <2>2, <2>3, <3>1, <3>4, KeptAnnounced
  <2>5. CASE run[r].isJob /\ run[r].tenant = t
    <3>1. /\ how = "completed"
          /\ pendingRerun[t] => run[r].isJob /\ pendingRerun[run[r].tenant]
                                /\ ~(run[r].reruns >= MaxReruns)
      <4> DEFINE drops == how # "completed" \/ (pendingRerun[t] /\ run[r].reruns >= MaxReruns)
      <4>1. announced' = [announced EXCEPT ![t] = IF drops THEN {} ELSE @]
        BY <2>5 DEF Ends
      <4>2. ~drops
        BY <1>2, <4>1 DEF TypeOK
      <4> QED
        BY <2>5, <4>2
    <3>2. pendingRerun[t] => WantsRerun(r)
      <4>1. run[r].reruns \in Nat /\ MaxReruns \in Nat
        BY RunFields, IngestionAssumption
      <4> QED
        BY <3>1, <4>1 DEF WantsRerun
    <3>3. pendingRerun[t] => Awaits(t, f)'
      <4>1. ASSUME pendingRerun[t]
            PROVE  /\ run'[r].stage = "scan" /\ run'[r].isJob = TRUE /\ run'[r].tenant = t
                   /\ run'[r].left = Scanned(t)
        <5>1. WantsRerun(r) /\ how = "completed"
          BY <3>1, <3>2, <4>1
        <5> QED
          BY <2>5, <5>1, EndsEffect
      <4>2. Origin[f] \in Scanned(t)
        BY <2>2, ScannedSources, IngestionAssumption
      <4>3. ASSUME pendingRerun[t] PROVE JobRun(r, t)' /\ WillRead(r, f)'
        BY <4>1, <4>2, <4>3 DEF JobRun, Live, WillRead
      <4> QED
        BY <4>3 DEF Awaits
    <3>4. JobRun(r, t) /\ WillRead(r, f) => Awaits(t, f)'
      BY <2>2, <3>1 DEF Awaits
    <3> QED
      BY <1>2, <2>1, <2>2, <2>3, <3>3, <3>4, KeptAnnounced
  <2> QED
    BY <2>4, <2>5
<1> QED
  BY <1>2 DEF AnnouncedInv

LEMMA GoesOnAnnounced ==
  ASSUME TypeOK, DocsInv, JobInv, AnnouncedInv, SameFiles, UNCHANGED docs,
         NEW r \in Runs, Live(r), NEW R \in Run, SameRun(r, R), R.batch = {},
         \A f \in Files : stored[f] > 0 /\ WillRead(r, f) =>
            Settled(f)' \/ f \in R.todo \/ Origin[f] \in R.left,
         GoesOn(r, R)
  PROVE  AnnouncedInv'
<1>1. Continues(r, R) /\ Others(r) /\ KeepsReading
  BY GoesOnEffect, SameDocuments
<1>2. ASSUME NEW B \in Firsts(R.todo), run' = [run EXCEPT ![r] = Takes(R, B)], Reports(r),
             UNCHANGED <<pendingRerun, announced>>
      PROVE  AnnouncedInv'
  <2>1. run'[r] = Takes(R, B)
    BY <1>2 DEF TypeOK
  <2>2. /\ run'[r].stage # "idle"
        /\ run'[r].isJob = run[r].isJob /\ run'[r].tenant = run[r].tenant
        /\ run'[r].left = R.left /\ run'[r].todo \union run'[r].batch = R.todo
    BY <2>1, TakesEffect DEF SameRun
  <2>3. \A f \in Files : stored[f] > 0 /\ WillRead(r, f) => WillRead(r, f)' \/ Settled(f)'
    BY <2>2 DEF WillRead
  <2> QED
    BY <1>1, <1>2, <2>2, <2>3, LiveAnnounced
<1>3. ASSUME R.todo = {}, run' = [run EXCEPT ![r] = [R EXCEPT !.stage = "scan"]], Reports(r),
             UNCHANGED <<pendingRerun, announced>>
      PROVE  AnnouncedInv'
  <2>1. run'[r] = [R EXCEPT !.stage = "scan"]
    BY <1>3 DEF TypeOK
  <2>2. /\ run'[r].stage # "idle"
        /\ run'[r].isJob = run[r].isJob /\ run'[r].tenant = run[r].tenant
        /\ run'[r].left = R.left
    BY <1>3, <2>1 DEF SameRun, Run
  <2>3. \A f \in Files : stored[f] > 0 /\ WillRead(r, f) => WillRead(r, f)' \/ Settled(f)'
    BY <1>3, <2>2 DEF WillRead
  <2> QED
    BY <1>1, <1>3, <2>2, <2>3, LiveAnnounced
<1>4. ASSUME R.todo = {}, R.left = {}, Ends(r, "completed")
      PROVE  AnnouncedInv'
  <2>1. \A f \in Files : stored[f] > 0 /\ WillRead(r, f) => Settled(f)'
    BY <1>4
  <2> QED
    BY <1>1, <1>4, <2>1, EndsAnnounced DEF Outcomes
<1> QED
  BY <1>1, <1>2, <1>3, <1>4 DEF Continues

LEMMA RunStepAnnounced ==
  ASSUME TypeOK, DocsInv, JobInv, CoverInv, AnnouncedInv,
         NEW r \in Runs, RunStep(r) \/ FailRun(r)
  PROVE  AnnouncedInv'
<1>1. CASE ReadCheckpoint(r)
  <2>1. PICK s \in run[r].left :
          /\ s \in Sources /\ run[r].stage = "scan" /\ run'[r].stage = "list"
          /\ run'[r].source = s /\ run'[r].marker = checkpoint[<<s, run[r].tenant>>]
          /\ run'[r].left = run[r].left \ {s}
          /\ run'[r].todo = run[r].todo /\ run'[r].batch = run[r].batch
          /\ run'[r].tenant = run[r].tenant /\ run'[r].isJob = run[r].isJob
          /\ Others(r)
          /\ UNCHANGED <<fileVars, docs, jobVars>>
    BY <1>1, ReadCheckpointEffect
  <2>2. /\ Live(r) /\ run'[r].stage # "idle" /\ KeepsReading /\ SameFiles
        /\ UNCHANGED <<job, pendingRerun, announced>>
    BY <2>1, SameDocuments DEF Live, jobVars, fileVars, SameFiles
  <2>3. ASSUME NEW f \in Files, stored[f] > 0, WillRead(r, f)
        PROVE  WillRead(r, f)' \/ Settled(f)'
    <3>1. Origin[f] \in run[r].left
      BY <2>1, <2>3 DEF WillRead, JobInv, RunShape, Shape
    <3>2. MarkerOf(f)' = MarkerOf(f) /\ run[r].tenant \in Tenants
      BY <2>2, SameMarkers, RunFields DEF SameFiles
    <3>3. ~After(MarkerOf(f), checkpoint[<<Origin[f], run[r].tenant>>]) => Settled(f)
      BY <2>3, <3>2 DEF CoverInv, Covered
    <3>4. Settled(f) => Settled(f)'
      BY <2>2, ReadStaysRead DEF SameFiles
    <3> QED
      BY <2>1, <3>1, <3>2, <3>3, <3>4 DEF WillRead
  <2> QED
    BY <2>1, <2>2, <2>3, LiveAnnounced
<1>2. CASE List(r)
  <2>1. PICK R \in Run :
          /\ SameRun(r, R)
          /\ R.batch = run[r].batch /\ R.marker = run[r].marker
          /\ New(run[r].source, run[r].marker) \ R.todo \subseteq Unsupported \union unseen'
          /\ GoesOn(r, R)
          /\ run[r].stage = "list"
          /\ SameFiles /\ UNCHANGED docs
    BY <1>2, ListEffect
  <2>2. Live(r) /\ R.batch = {} /\ run[r].todo = {} /\ run[r].batch = {}
    BY <2>1 DEF JobInv, RunShape, Shape, Live
  <2>3. ASSUME NEW f \in Files, stored[f] > 0, WillRead(r, f)
        PROVE  Settled(f)' \/ f \in R.todo \/ Origin[f] \in R.left
    <3>1. f \in New(run[r].source, run[r].marker) \/ Origin[f] \in R.left
      BY <2>1, <2>2, <2>3 DEF WillRead, New, SameRun
    <3> QED
      BY <2>1, <3>1 DEF Settled
  <2> QED
    BY <2>1, <2>2, <2>3, GoesOnAnnounced
<1>3. CASE Mark(r)
  <2>1. /\ run[r].stage = "batch" /\ UNCHANGED <<fileVars, docs>>
        /\ \A g \in run[r].batch : step[<<r, g>>] = "done"
    BY <1>3, MarkEffect
  <2>2. PICK f \in run[r].batch, R \in Run :
          /\ SameRun(r, R)
          /\ R.stage = "batch" /\ R.todo = run[r].todo
          /\ R.batch = run[r].batch \ {f}
          /\ \/ /\ run' = [run EXCEPT ![r] = R]
                /\ Reports(r)
                /\ UNCHANGED <<step, data, pauseRequested, pendingRerun, announced>>
             \/ R.batch = {} /\ Ends(r, "paused") /\ NoWork(r)
             \/ R.batch = {} /\ GoesOn(r, R)
    BY <1>3, MarkEffect
  <2>3. Live(r) /\ KeepsReading /\ SameFiles /\ \A g \in run[r].batch : Settled(g)'
    <3>1. Live(r) /\ KeepsReading /\ SameFiles
      BY <2>1, SameDocuments DEF Live, fileVars, SameFiles
    <3>2. \A g \in run[r].batch : g \in Files /\ Settled(g)
      BY <2>1, RunFields DEF CoverInv, RunInv, DoneIsRead, Settled
    <3> QED
      BY <3>1, <3>2, ReadStaysRead DEF SameFiles
  <2>4. ASSUME NEW g \in Files, WillRead(r, g)
        PROVE  Settled(g)' \/ g \in R.todo \/ Origin[g] \in R.left
    BY <2>1, <2>2, <2>3, <2>4 DEF WillRead, SameRun
  <2>5. CASE run' = [run EXCEPT ![r] = R] /\ Reports(r)
             /\ UNCHANGED <<step, data, pauseRequested, pendingRerun, announced>>
    <3>1. run'[r] = R /\ Others(r)
      BY <2>5 DEF TypeOK, Others
    <3>2. \A g \in Files : stored[g] > 0 /\ WillRead(r, g) => WillRead(r, g)' \/ Settled(g)'
      BY <2>4, <3>1 DEF WillRead
    <3>3. /\ run'[r].stage # "idle"
          /\ run'[r].isJob = run[r].isJob /\ run'[r].tenant = run[r].tenant
      BY <2>2, <3>1 DEF SameRun
    <3> QED
      BY <2>1, <2>3, <2>5, <3>1, <3>2, <3>3, LiveAnnounced
  <2>6. CASE Ends(r, "paused")
    BY <2>1, <2>3, <2>6, EndsAnnounced DEF Outcomes
  <2>7. CASE R.batch = {} /\ GoesOn(r, R)
    BY <2>1, <2>2, <2>3, <2>4, <2>7, GoesOnAnnounced
  <2> QED
    BY <2>2, <2>5, <2>6, <2>7
<1>4. CASE FailRun(r)
  <2>1. Live(r) /\ Ends(r, "failed") /\ SameFiles /\ UNCHANGED docs
    BY <1>4 DEF FailRun, BatchIsDone, Live, fileVars, SameFiles
  <2> QED
    BY <2>1, SameDocuments, EndsAnnounced DEF Outcomes
<1> QED
  BY <1>1, <1>2, <1>3, <1>4 DEF RunStep

LEMMA RequestAnnounced ==
  ASSUME TypeOK, DocsInv, JobInv, CoverInv, AnnouncedInv, Request
  PROVE  AnnouncedInv'
<1>1. KeepsReading
  BY RequestKeepsReading
<1>2. ASSUME NEW t \in Tenants, NEW r \in Runs, NEW isJob \in BOOLEAN, IsIdle(r),
             Begins(r, t, isJob, 0), job' = IF isJob THEN Running(t) ELSE job,
             UNCHANGED <<fileVars, pendingRerun, announced>>
      PROVE  AnnouncedInv'
  <2>1. Others(r)
    BY <1>2, BeginsEffect
  <2>2. \A u \in Tenants : ~JobRun(r, u) /\ (job[u].running => job'[u].running)
    BY <1>2, RunningType DEF JobRun, IsIdle, JobStates
  <2>3. ASSUME NEW u \in Tenants, NEW f \in announced'[u]
        PROVE  stored'[f] > 0 /\ Owner[Origin[f]] = u /\ Awaits(u, f)'
    <3>1. f \in Files /\ stored' = stored /\ unseen' = unseen /\ announced' = announced
      BY <1>2, <2>3 DEF TypeOK, fileVars
    <3>2. job[u].running /\ pendingRerun[u] => Awaits(u, f)'
      BY <1>2, <2>2 DEF Awaits
    <3>3. ASSUME NEW q \in Runs, JobRun(q, u), WillRead(q, f)
          PROVE  Awaits(u, f)'
      <4>1. q # r
        BY <2>2, <3>3
      <4>2. run'[q] = run[q]
        BY <2>1, <4>1 DEF Others
      <4> QED
        BY <3>1, <3>3, <4>2, KeptWill DEF Awaits
    <3> QED
      BY <1>1, <2>3, <3>1, <3>2, <3>3, KeptAnnounced
  <2> QED
    BY <2>3 DEF AnnouncedInv
<1>3. ASSUME UNCHANGED <<stored, unseen, run, job, pendingRerun, announced>>
      PROVE  AnnouncedInv'
  BY <1>1, <1>3, SameRunsAnnounced
<1>4. ASSUME NEW t \in Tenants, StartJob(t)
      PROVE  AnnouncedInv'
  <2>1. CASE UNCHANGED <<run, pauseRequested, job>>
             /\ pendingRerun' = [pendingRerun EXCEPT ![t] = TRUE]
    <3>1. \A u \in Tenants : pendingRerun[u] => pendingRerun'[u]
      BY <2>1 DEF TypeOK
    <3> QED
      BY <1>1, <1>4, <2>1, <3>1, SameRunsAnnounced DEF StartJob, fileVars
  <2>2. CASE /\ \E r \in Runs : IsIdle(r) /\ Begins(r, t, TRUE, 0)
             /\ job' = Running(t) /\ UNCHANGED pendingRerun
    BY <1>2, <1>4, <2>2 DEF StartJob
  <2> QED
    BY <1>4, <2>1, <2>2 DEF StartJob
<1>5. ASSUME NEW t \in Tenants, Poll(t)
      PROVE  AnnouncedInv'
  BY <1>2, <1>5 DEF Poll
<1>6. ASSUME NEW t \in Tenants, PauseJob(t)
      PROVE  AnnouncedInv'
  <2>1. /\ announced' = [announced EXCEPT ![t] = {}]
        /\ pendingRerun' = [pendingRerun EXCEPT ![t] = FALSE]
        /\ job' = Paused(t) /\ UNCHANGED <<stored, unseen, run>>
    BY <1>6 DEF PauseJob, fileVars, workVars
  <2>2. /\ announced'[t] = {}
        /\ \A u \in Tenants : u # t => /\ announced'[u] = announced[u]
                                       /\ pendingRerun'[u] = pendingRerun[u]
                                       /\ job'[u].running = job[u].running
    BY <2>1 DEF TypeOK, Paused
  <2>3. ASSUME NEW u \in Tenants, u # t, NEW f \in announced'[u]
        PROVE  stored'[f] > 0 /\ Owner[Origin[f]] = u /\ Awaits(u, f)'
    <3>1. f \in Files /\ announced'[u] = announced[u]
      BY <2>2, <2>3 DEF TypeOK
    <3>2. job[u].running /\ pendingRerun[u] => Awaits(u, f)'
      BY <2>2, <2>3 DEF Awaits
    <3>3. \A q \in Runs : JobRun(q, u) /\ WillRead(q, f) => Awaits(u, f)'
      BY <2>1, <3>1, KeptWill DEF Awaits
    <3> QED
      BY <1>1, <2>1, <2>3, <3>1, <3>2, <3>3, KeptAnnounced
  <2> QED
    BY <2>2, <2>3 DEF AnnouncedInv
<1>7. ASSUME NEW f \in Files, Put(f) \/ Deliver(f)
      PROVE  AnnouncedInv'
  <2>1. UNCHANGED <<run, job, pendingRerun, announced>>
    BY <1>7 DEF Put, Deliver, jobVars, workVars
  <2>2. \A g \in Files : stored[g] > 0 => stored'[g] = stored[g]
    <3>1. CASE Put(f)
      BY <3>1 DEF Put, TypeOK
    <3>2. CASE Deliver(f)
      BY <3>2 DEF Deliver, CoverInv, ClockInv
    <3> QED
      BY <1>7, <3>1, <3>2
  <2>3. unseen \subseteq unseen'
    BY <1>7 DEF Put, Deliver
  <2> QED
    BY <1>1, <2>1, <2>2, <2>3, SameRunsAnnounced
<1>8. ASSUME NEW f \in Files, NEW renamed \in BOOLEAN, NEW org \in Orgs, Register(f, renamed, org)
      PROVE  AnnouncedInv'
  <2>1. UNCHANGED <<stored, unseen, run, job>> /\ stored[f] > 0
    BY <1>8 DEF Register, fileVars, workVars
  <2>2. CASE UNCHANGED <<pendingRerun, announced>>
    BY <1>3, <2>1, <2>2
  <2>3. ASSUME NEW t \in Tenants, t = Owner[Origin[f]], job[t].running,
               pendingRerun' = [pendingRerun EXCEPT ![t] = TRUE],
               announced' = [announced EXCEPT ![t] = @ \union {f}]
        PROVE  AnnouncedInv'
    <3>1. /\ announced'[t] = announced[t] \union {f} /\ pendingRerun'[t] = TRUE
          /\ \A u \in Tenants : u # t => /\ announced'[u] = announced[u]
                                         /\ pendingRerun'[u] = pendingRerun[u]
      BY <2>3 DEF TypeOK
    <3>2. ASSUME NEW u \in Tenants, u # t, NEW g \in announced'[u]
          PROVE  stored'[g] > 0 /\ Owner[Origin[g]] = u /\ Awaits(u, g)'
      <4>1. g \in Files /\ announced'[u] = announced[u]
        BY <3>1, <3>2 DEF TypeOK
      <4>2. job[u].running /\ pendingRerun[u] => Awaits(u, g)'
        BY <2>1, <3>1, <3>2 DEF Awaits
      <4>3. \A q \in Runs : JobRun(q, u) /\ WillRead(q, g) => Awaits(u, g)'
        BY <2>1, <4>1, KeptWill DEF Awaits
      <4> QED
        BY <1>1, <2>1, <3>2, <4>1, <4>2, <4>3, KeptAnnounced
    <3>3. ASSUME NEW g \in announced'[t]
          PROVE  stored'[g] > 0 /\ Owner[Origin[g]] = t /\ Awaits(t, g)'
      <4>1. stored[g] > 0 /\ Owner[Origin[g]] = t
        BY <2>1, <2>3, <3>1, <3>3 DEF AnnouncedInv
      <4>2. Awaits(t, g)'
        BY <2>1, <2>3, <3>1 DEF Awaits
      <4> QED
        BY <2>1, <4>1, <4>2
    <3> QED
      BY <3>2, <3>3 DEF AnnouncedInv
  <2>4. Owner[Origin[f]] \in Tenants
    BY IngestionAssumption
  <2> QED
    BY <1>8, <2>2, <2>3, <2>4 DEF Register
<1>9. ASSUME NEW c \in Clerks, NEW d \in DOMAIN docs, NEW org \in Orgs \union {NoOrg},
             TakeUp(c, d, org)
      PROVE  AnnouncedInv'
  BY <1>3, <1>9 DEF TakeUp, fileVars, jobVars, workVars
<1>10. ASSUME NEW d \in DOMAIN docs, RetryDocument(d)
       PROVE  AnnouncedInv'
  BY <1>3, <1>10 DEF RetryDocument, fileVars, jobVars, workVars
<1> QED
  BY <1>4, <1>5, <1>6, <1>7, <1>8, <1>9, <1>10 DEF Request

LEMMA AnnouncedStep ==
  ASSUME TypeOK, DocsInv, JobInv, CoverInv, AnnouncedInv, [Next]_vars
  PROVE  AnnouncedInv'
<1>1. CASE Request
  BY <1>1, RequestAnnounced
<1>2. ASSUME NEW r \in Runs, RunStep(r) \/ FailRun(r)
      PROVE  AnnouncedInv'
  BY <1>2, RunStepAnnounced
<1>3. ASSUME NEW r \in Runs, NEW f \in Files, Work(r, f) \/ FailUpsert(r, f)
      PROVE  AnnouncedInv'
  <2>1. KeepsReading /\ SameFiles /\ UNCHANGED <<stored, unseen>>
    BY <1>3, WorkKeepsReading, WorkStepType DEF fileVars, SameFiles
  <2>2. CASE UNCHANGED <<run, jobVars>>
    BY <2>1, <2>2, SameRunsAnnounced DEF jobVars
  <2>3. CASE f \in run[r].batch /\ Ends(r, "failed")
    <3>1. Live(r)
      BY <2>3 DEF JobInv, RunShape, Shape, Live
    <3> QED
      BY <2>1, <2>3, <3>1, EndsAnnounced DEF Outcomes
  <2>4. UNCHANGED <<run, jobVars>> \/ (f \in run[r].batch /\ Ends(r, "failed"))
    BY <1>3, RejectEffect
       DEF Work, CheckMessage, Overwrite, CheckProtected, Create, FailUpsert, Works, Finishes
  <2> QED
    BY <2>2, <2>3, <2>4
<1>4. ASSUME NEW c \in Clerks, Decide(c)
      PROVE  AnnouncedInv'
  <2>1. KeepsReading
    BY <1>4, DecideKeepsReading
  <2> QED
    BY <1>4, <2>1, SameRunsAnnounced DEF Decide, fileVars, jobVars, workVars
<1>5. CASE Crash
  BY <1>5 DEF Crash, AnnouncedInv
<1>6. CASE UNCHANGED vars
  BY <1>6, SameDocuments, SameRunsAnnounced DEF vars, fileVars, jobVars, workVars
<1> QED
  BY <1>1, <1>2, <1>3, <1>4, <1>5, <1>6 DEF Next

\* An upload announced to a running job was read when the job is over: what the
\* job's listing missed, its rerun lists, but for what the source skips.
THEOREM AnnouncedUploadsAreRead == Spec => []AnnouncedIsRead
<1> DEFINE Inv == TypeOK /\ DocsInv /\ JobInv /\ CoverInv /\ AnnouncedInv
<1>1. Init => Inv
  <2>1. Init => AnnouncedInv
    BY DEF Init, AnnouncedInv
  <2> QED
    BY <2>1, TypeInit, JobInit, CoverInit
<1>2. Inv /\ [Next]_vars => Inv'
  BY TypeStep, JobStep, CoverStep, AnnouncedStep
<1>3. Inv => AnnouncedIsRead
  <2>1. ASSUME Inv, NEW t \in Tenants, ~job[t].running, NEW f \in announced[t]
        PROVE  HasBeenRead(f) \/ Missed(f)
    <3>1. f \in Files /\ Awaits(t, f)
      BY <2>1 DEF AnnouncedInv, TypeOK
    <3>2. \A r \in Runs : ~JobRun(r, t)
      BY <2>1 DEF JobInv, RunningJobIsOne
    <3>3. Settled(f)
      BY <2>1, <3>1, <3>2 DEF Awaits
    <3> QED
      BY <2>1, <3>1, <3>3, SettledIsKnown
  <2> QED
    BY <2>1 DEF AnnouncedIsRead
<1> QED
  BY <1>1, <1>2, <1>3, PTL DEF Spec
=============================================================================
