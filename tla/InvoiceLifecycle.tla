-------------------------- MODULE InvoiceLifecycle --------------------------
(***************************************************************************)
(* The life of an invoice between ingestion and export: the status changes *)
(* of invoiceService.ts, the approval workflow of                          *)
(* approvalWorkflowService.ts, and the requests that race with each other  *)
(* for the same document.                                                  *)
(*                                                                         *)
(* A request is one HTTP request being served.  Handlers that load a       *)
(* Mongoose document, change it and save() it hold a copy (seen) across    *)
(* their awaits; save() sends what the handler changed, field by field,    *)
(* and elements pushed onto an array as a $push.  Only the edit, which     *)
(* assigns a whole array (processingIssues), has Mongoose compare the      *)
(* document version; every save() that touches an array increments it.     *)
(* The updateOne and updateMany calls neither compare nor increment it.    *)
(*                                                                         *)
(* A bulk request over several ids is a set of requests over one id each.  *)
(***************************************************************************)
EXTENDS Naturals, Sequences, FiniteSets, SequencesExt

CONSTANTS
    Invoices,    \* invoices of one client org
    Users,       \* members of the tenant who may approve
    NoUser,      \* no user: the system, or a request whose user is immaterial
    Requests,    \* slots for requests served at the same time
    NoInvoice,   \* the request works on no invoice
    Amounts,     \* values of parsed.totalAmountMinor
    Limit,       \* capabilities.approvalLimitMinor of each user
    Plans,       \* lists of steps an administrator may configure
    MaxRuns      \* bound: how many requests are made

\* A workflow step: its number, which nobody validates, who may sign it, how
\* many signatures rule "all" asks for, and the amount above which it applies
\* (its condition, totalAmountMinor gt).  required is counted apart from who may
\* sign: named users or holders of a role are counted as such, but a step for
\* any member or for a capability counts all members, and no count regards the
\* capability that a compliance sign-off needs.
Step == [order : Nat, approvers : SUBSET Users, rule : {"any", "all"},
         required : Nat, above : Nat]

ASSUME LifecycleAssumption ==
    /\ IsFiniteSet(Users)
    /\ NoUser \notin Users
    /\ NoInvoice \notin Invoices
    /\ Amounts \subseteq Nat
    /\ Limit \in [Users -> Nat]
    /\ Plans \subseteq Seq(Step)
    /\ MaxRuns \in Nat

VARIABLES
    status,    \* Invoice.status; FAILED_PARSE stands for FAILED_OCR too
    amount,    \* Invoice.parsed.totalAmountMinor
    wf,        \* Invoice.workflowState
    approval,  \* Invoice.approval: none, or which path recorded it last
    config,    \* the ApprovalWorkflow document
    pc,        \* where the handler of a request is
    inv,       \* the invoice it works on
    user,      \* who sent it
    seen,      \* the document it loaded
    plan,      \* the steps it read
    current,   \* an edit: no save() has moved the version since it loaded
    runs       \* requests made so far, at most MaxRuns

docVars == <<status, amount, wf, approval>>
reqVars == <<pc, inv, user, seen, plan>>
vars == <<docVars, config, reqVars, current, runs>>

Statuses == {"PENDING", "PARSED", "NEEDS_REVIEW", "AWAITING_APPROVAL",
             "APPROVED", "EXPORTED", "FAILED_PARSE", "DELETED"}
Stages   == {"idle", "approve", "read", "initiate", "initiated", "sign",
             "signing", "rejecting", "editing", "exporting", "revert"}
Result   == [step : Nat, user : Users \union {NoUser},
             action : {"approved", "rejected", "skipped"}]
Workflow == [st : {"none", "in_progress", "approved", "rejected"},
             step : Nat, results : Seq(Result)]
Document == [status : Statuses, amount : Nat, wf : Workflow]
Config   == [enabled : BOOLEAN, steps : Plans]

NoWorkflow == [st |-> "none", step |-> 0, results |-> <<>>]
NoDocument == [status |-> "PENDING", amount |-> 0, wf |-> NoWorkflow]

Init ==
    /\ status   = [i \in Invoices |-> "PENDING"]
    /\ amount   \in [Invoices -> Amounts]
    /\ wf       = [i \in Invoices |-> NoWorkflow]
    /\ approval = [i \in Invoices |-> "none"]
    /\ config   \in Config
    /\ pc       = [r \in Requests |-> "idle"]
    /\ inv      = [r \in Requests |-> NoInvoice]
    /\ user     = [r \in Requests |-> NoUser]
    /\ seen     = [r \in Requests |-> NoDocument]
    /\ plan     = [r \in Requests |-> <<>>]
    /\ current  = [r \in Requests |-> FALSE]
    /\ runs     = 0

Exists(i)   == status[i] # "DELETED"
Doc(i)      == [status |-> status[i], amount |-> amount[i], wf |-> wf[i]]
Approvable  == {"PARSED", "NEEDS_REVIEW"}

(***************************************************************************)
(* How a request begins, goes on and ends.                                 *)
(***************************************************************************)
Begin(r, stage, i, u) ==
    /\ pc[r] = "idle"
    /\ runs < MaxRuns
    /\ runs' = runs + 1
    /\ pc'   = [pc EXCEPT ![r] = stage]
    /\ inv'  = [inv EXCEPT ![r] = i]
    /\ user' = [user EXCEPT ![r] = u]

Moves(r, from, to) ==
    /\ pc[r] = from
    /\ pc' = [pc EXCEPT ![r] = to]
    /\ UNCHANGED <<inv, user, runs>>

Loads(r, document, steps) ==
    /\ seen' = [seen EXCEPT ![r] = document]
    /\ plan' = [plan EXCEPT ![r] = steps]

Finish(r) ==
    /\ pc'   = [pc EXCEPT ![r] = "idle"]
    /\ inv'  = [inv EXCEPT ![r] = NoInvoice]
    /\ user' = [user EXCEPT ![r] = NoUser]
    /\ Loads(r, NoDocument, <<>>)
    /\ UNCHANGED runs

\* A save() that touches an array: edits that loaded i earlier will conflict.
MovesVersion(r, i) ==
    current' = [q \in Requests |-> q # r /\ current[q] /\ inv[q] # i]

KeepsVersion(r) == current' = [current EXCEPT ![r] = FALSE]

\* An error answer, an early return or a failed database call ends the
\* handler where it is.
GiveUp(r) ==
    /\ pc[r] # "idle"
    /\ Finish(r)
    /\ KeepsVersion(r)
    /\ UNCHANGED <<docVars, config>>

(***************************************************************************)
(* The steps of a workflow.                                                *)
(***************************************************************************)

\* evaluateCondition
Applies(step, a) == a > step.above

\* The numbers of the steps of a plan; some may be missing or used twice.
Orders(steps) == {steps[n].order : n \in DOMAIN steps}

\* The first step with number k.
StepAt(steps, k) ==
    steps[CHOOSE n \in DOMAIN steps :
            steps[n].order = k /\ \A m \in 1 .. n - 1 : steps[m].order # k]

Beyond(steps, k)     == {m \in Orders(steps) : m > k}
Between(steps, k, n) == {m \in Orders(steps) : k < m /\ m < n}

\* Step n is the first one after step k that applies to amount a.
Follows(steps, k, a, n) ==
    /\ Applies(StepAt(steps, n), a)
    /\ \A m \in Between(steps, k, n) : ~Applies(StepAt(steps, m), a)

\* No step after step k applies.
Completes(steps, k, a) == \A n \in Beyond(steps, k) : ~Applies(StepAt(steps, n), a)

\* Mutant: the rejection is recorded under an action the schema does not list.
RejectedUnlisted(k, u) == [step |-> k, user |-> u, action |-> "reject"]

Signed(k, u)   == [step |-> k, user |-> u, action |-> "approved"]
Rejected(k, u) == [step |-> k, user |-> u, action |-> "rejected"]
Skipped(k)     == [step |-> k, user |-> NoUser, action |-> "skipped"]

\* Mutant: the skipped steps leave no trace.
NoSkips(orders) == <<>>

\* A result for each step passed over; their order is immaterial.
Skips(orders) == SetToSeq({Skipped(m) : m \in orders})

Signatures(results, k) ==
    {n \in DOMAIN results : results[n].step = k /\ results[n].action = "approved"}

\* rule "all" counts the signatures of the step, this one included.
Enough(step, results, k) ==
    step.rule = "all" =>
        Cardinality(Signatures(results, k)) + 1 >= step.required

\* The checks rejectStep makes, and approveStep first.
MayReject(document, steps, u) ==
    /\ document.status = "AWAITING_APPROVAL"
    /\ document.wf.st = "in_progress"
    /\ document.wf.step \in Orders(steps)
    /\ u \in StepAt(steps, document.wf.step).approvers

\* The checks of approveStep.
MaySign(document, steps, u) ==
    /\ MayReject(document, steps, u)
    /\ document.amount <= Limit[u]
    /\ \A n \in Signatures(document.wf.results, document.wf.step) :
        document.wf.results[n].user # u

(***************************************************************************)
(* Approving: approveInvoices, approveWithWorkflow.                        *)
(***************************************************************************)

\* isWorkflowEnabled decides the branch.
RequestApprove(r, i, u) ==
    /\ Begin(r, IF config.enabled THEN "read" ELSE "approve", i, u)
    /\ UNCHANGED <<docVars, config, seen, plan, current>>

\* Without a workflow, or when initiateWorkflow returned false: one
\* conditional update.
ApproveDirectly(r) ==
    LET i == inv[r] IN
    /\ pc[r] = "approve"
    /\ \/ /\ status[i] \in Approvable
          /\ status'   = [status EXCEPT ![i] = "APPROVED"]
          /\ approval' = [approval EXCEPT ![i] = "direct"]
       \/ /\ status[i] \notin Approvable
          /\ UNCHANGED <<status, approval>>
    /\ Finish(r)
    /\ KeepsVersion(r)
    /\ UNCHANGED <<amount, wf, config>>

\* approveWithWorkflow reads the status (anything else: GiveUp) ...
ReadStatus(r) ==
    /\ \/ Moves(r, "read", "initiate") /\ status[inv[r]] \in Approvable
       \/ Moves(r, "read", "sign") /\ status[inv[r]] = "AWAITING_APPROVAL"
    /\ UNCHANGED <<docVars, config, seen, plan, current>>

\* initiateWorkflow, where it does not return false.
Starts(i) ==
    /\ config.enabled
    /\ status[i] \in Approvable
    /\ 1 \in Orders(config.steps)
    /\ Applies(StepAt(config.steps, 1), amount[i]) \/ Len(config.steps) # 1

\* ... and initiateWorkflow reads the workflow and the invoice again.
Initiate(r) ==
    /\ \/ /\ Moves(r, "initiate", "initiated")
          /\ Starts(inv[r])
          /\ Loads(r, Doc(inv[r]), config.steps)
       \/ /\ Moves(r, "initiate", "approve")
          /\ ~Starts(inv[r])
          /\ UNCHANGED <<seen, plan>>
    /\ UNCHANGED <<docVars, config, current>>

\* When step 1 is skipped the workflow stands at step 2, whether it applies,
\* or exists, or not.
NewWorkflow(steps, a) ==
    IF Applies(StepAt(steps, 1), a)
    THEN [st |-> "in_progress", step |-> 1, results |-> <<>>]
    ELSE [st |-> "in_progress", step |-> 2, results |-> Skips({1})]

SaveInitiated(r) ==
    LET i == inv[r] IN
    /\ Moves(r, "initiated", "sign")
    /\ Exists(i)
    /\ status' = [status EXCEPT ![i] = "AWAITING_APPROVAL"]
    /\ wf'     = [wf EXCEPT ![i] = NewWorkflow(plan[r], seen[r].amount)]
    /\ Loads(r, NoDocument, <<>>)
    /\ MovesVersion(r, i)
    /\ UNCHANGED <<amount, approval, config>>

\* POST /invoices/:id/workflow-approve
RequestSign(r, i, u) ==
    /\ Begin(r, "sign", i, u)
    /\ UNCHANGED <<docVars, config, seen, plan, current>>

\* approveStep up to its save.
LoadSign(r) ==
    /\ Moves(r, "sign", "signing")
    /\ MaySign(Doc(inv[r]), config.steps, user[r])
    /\ Loads(r, Doc(inv[r]), config.steps)
    /\ UNCHANGED <<docVars, config, current>>

\* approveStep's save: a signature that is not enough yet ...
SavePartial(r) ==
    LET i == inv[r]
        k == seen[r].wf.step
    IN
    /\ pc[r] = "signing"
    /\ Exists(i)
    /\ ~Enough(StepAt(plan[r], k), seen[r].wf.results, k)
    /\ wf' = [wf EXCEPT ![i].results = Append(@, Signed(k, user[r]))]
    /\ Finish(r)
    /\ MovesVersion(r, i)
    /\ UNCHANGED <<status, amount, approval, config>>

\* ... or one that moves the invoice to the next step that applies ...
SaveAdvance(r) ==
    LET i == inv[r]
        k == seen[r].wf.step
    IN
    /\ pc[r] = "signing"
    /\ Exists(i)
    /\ Enough(StepAt(plan[r], k), seen[r].wf.results, k)
    /\ \E next \in Beyond(plan[r], k) :
        /\ Follows(plan[r], k, seen[r].amount, next)
        /\ wf' = [wf EXCEPT ![i].step = next,
                            ![i].results = Append(@, Signed(k, user[r]))
                                               \o Skips(Between(plan[r], k, next))]
    /\ Finish(r)
    /\ MovesVersion(r, i)
    /\ UNCHANGED <<status, amount, approval, config>>

\* ... or the one that completes the workflow.
SaveFinal(r) ==
    LET i == inv[r]
        k == seen[r].wf.step
    IN
    /\ pc[r] = "signing"
    /\ Exists(i)
    /\ Enough(StepAt(plan[r], k), seen[r].wf.results, k)
    /\ Completes(plan[r], k, seen[r].amount)
    /\ wf' = [wf EXCEPT ![i].st = "approved", ![i].step = 0,
                        ![i].results = Append(@, Signed(k, user[r]))
                                           \o Skips(Beyond(plan[r], k))]
    /\ status'   = [status EXCEPT ![i] = "APPROVED"]
    /\ approval' = [approval EXCEPT ![i] = "workflow"]
    /\ Finish(r)
    /\ MovesVersion(r, i)
    /\ UNCHANGED <<amount, config>>

\* rejectStep up to its save.
RequestReject(r, i, u) ==
    /\ MayReject(Doc(i), config.steps, u)
    /\ Begin(r, "rejecting", i, u)
    /\ Loads(r, Doc(i), config.steps)
    /\ UNCHANGED <<docVars, config, current>>

SaveRejection(r) ==
    LET i == inv[r] IN
    /\ pc[r] = "rejecting"
    /\ Exists(i)
    /\ wf' = [wf EXCEPT ![i].st = "rejected",
                        ![i].results = Append(@, Rejected(seen[r].wf.step, user[r]))]
    /\ status' = [status EXCEPT ![i] = "NEEDS_REVIEW"]
    /\ Finish(r)
    /\ MovesVersion(r, i)
    /\ UNCHANGED <<amount, approval, config>>

(***************************************************************************)
(* Editing: updateInvoiceParsedFields.                                     *)
(***************************************************************************)
RequestEdit(r, i) ==
    /\ status[i] \notin {"EXPORTED", "DELETED"}
    /\ Begin(r, "editing", i, NoUser)
    /\ Loads(r, Doc(i), <<>>)
    /\ current' = [current EXCEPT ![r] = TRUE]
    /\ UNCHANGED <<docVars, config>>

\* save() sends a field that differs from the loaded one.
Sent(new, loaded, stored) == IF new = loaded THEN stored ELSE new

\* Mutant: an edited invoice stays in the queue of its approvers.
StatusAfterEditKept(loaded) ==
    IF loaded \in {"APPROVED", "AWAITING_APPROVAL"} THEN {loaded} ELSE Approvable

\* determineStatusAfterEdit: complete data and no open risk signal is PARSED.
StatusAfterEdit(loaded) ==
    IF loaded = "AWAITING_APPROVAL" THEN {"NEEDS_REVIEW"}
    ELSE IF loaded = "APPROVED" THEN {"APPROVED"}
    ELSE Approvable

\* Mutant: no version check.
MaySaveStaleEdit(r) == Exists(inv[r])

\* The version check of save(): a conflict is a VersionError (GiveUp).
MaySaveEdit(r) == Exists(inv[r]) /\ current[r]

SaveEdit(r) ==
    LET i == inv[r] IN
    /\ pc[r] = "editing"
    /\ MaySaveEdit(r)
    /\ \E a \in Amounts :
        amount' = [amount EXCEPT ![i] = Sent(a, seen[r].amount, @)]
    /\ \E s \in StatusAfterEdit(seen[r].status) :
        status' = [status EXCEPT ![i] = Sent(s, seen[r].status, @)]
    /\ wf' = [wf EXCEPT ![i] =
                IF seen[r].status = "AWAITING_APPROVAL" THEN NoWorkflow ELSE @]
    /\ Finish(r)
    /\ MovesVersion(r, i)
    /\ UNCHANGED <<approval, config>>

(***************************************************************************)
(* Exporting: the query for approved invoices, and the mark (an updateOne  *)
(* by id) that follows when the invoice has reached Tally or the file.     *)
(***************************************************************************)

\* Mutant: invoices that only passed extraction are exported too.
ExportableParsed(i) == status[i] \in {"APPROVED", "PARSED"}

Exportable(i) == status[i] = "APPROVED"

RequestExport(r, i) ==
    /\ Exportable(i)
    /\ Begin(r, "exporting", i, NoUser)
    /\ UNCHANGED <<docVars, config, seen, plan, current>>

MarkExported(r) ==
    LET i == inv[r] IN
    /\ pc[r] = "exporting"
    /\ Exists(i)
    /\ status' = [status EXCEPT ![i] = "EXPORTED"]
    /\ Finish(r)
    /\ KeepsVersion(r)
    /\ UNCHANGED <<amount, wf, approval, config>>

(***************************************************************************)
(* Configuring: saveWorkflowConfig writes the workflow, then, if it is     *)
(* disabled, returns the invoices that await approval.                     *)
(***************************************************************************)
SaveConfig(r) ==
    /\ \E new \in Config \ {config} :
        /\ config' = new
        /\ Begin(r, IF new.enabled THEN "idle" ELSE "revert", NoInvoice, NoUser)
    /\ UNCHANGED <<docVars, seen, plan, current>>

MustReturn(i) == status[i] = "AWAITING_APPROVAL"

Revert(r) ==
    /\ pc[r] = "revert"
    /\ status' = [i \in Invoices |-> IF MustReturn(i) THEN "NEEDS_REVIEW" ELSE status[i]]
    /\ wf'     = [i \in Invoices |-> IF MustReturn(i) THEN NoWorkflow ELSE wf[i]]
    /\ Finish(r)
    /\ KeepsVersion(r)
    /\ UNCHANGED <<amount, approval, config>>

(***************************************************************************)
(* What happens to the document in one atomic update.                      *)
(***************************************************************************)

\* upsertFromPending: extraction writes its result over a document that is
\* still safe to overwrite.
Extract(i) ==
    /\ status[i] \in {"PENDING", "FAILED_PARSE"}
    /\ \/ \E s \in Approvable, a \in Amounts :
            /\ status' = [status EXCEPT ![i] = s]
            /\ amount' = [amount EXCEPT ![i] = a]
       \/ /\ status' = [status EXCEPT ![i] = "FAILED_PARSE"]
          /\ UNCHANGED amount
    /\ UNCHANGED <<wf, approval, config, reqVars, current, runs>>

RetryExtraction(i) ==
    /\ status[i] \in {"PENDING", "FAILED_PARSE", "NEEDS_REVIEW", "PARSED"}
    /\ status' = [status EXCEPT ![i] = "PENDING"]
    /\ UNCHANGED <<amount, wf, approval, config, reqVars, current, runs>>

Delete(i) ==
    /\ status[i] \notin {"EXPORTED", "DELETED"}
    /\ status' = [status EXCEPT ![i] = "DELETED"]
    /\ UNCHANGED <<amount, wf, approval, config, reqVars, current, runs>>

Next ==
    \/ \E r \in Requests, i \in Invoices, u \in Users :
        RequestApprove(r, i, u) \/ RequestSign(r, i, u) \/ RequestReject(r, i, u)
    \/ \E r \in Requests, i \in Invoices : RequestEdit(r, i) \/ RequestExport(r, i)
    \/ \E r \in Requests :
        \/ GiveUp(r) \/ ApproveDirectly(r) \/ ReadStatus(r) \/ Initiate(r)
        \/ SaveInitiated(r) \/ LoadSign(r) \/ SavePartial(r) \/ SaveAdvance(r)
        \/ SaveFinal(r) \/ SaveRejection(r) \/ SaveEdit(r) \/ MarkExported(r)
        \/ SaveConfig(r) \/ Revert(r)
    \/ \E i \in Invoices : Extract(i) \/ RetryExtraction(i) \/ Delete(i)

Spec == Init /\ [][Next]_vars

(***************************************************************************)
(* Properties that hold whatever requests race.                            *)
(***************************************************************************)

\* Every variable keeps its type.
TypeOK ==
    /\ status   \in [Invoices -> Statuses]
    /\ amount   \in [Invoices -> Nat]
    /\ wf       \in [Invoices -> Workflow]
    /\ approval \in [Invoices -> {"none", "direct", "workflow"}]
    /\ config   \in Config
    /\ pc       \in [Requests -> Stages]
    /\ inv      \in [Requests -> Invoices \union {NoInvoice}]
    /\ user     \in [Requests -> Users \union {NoUser}]
    /\ seen     \in [Requests -> Document]
    /\ plan     \in [Requests -> Plans \union {<<>>}]
    /\ current  \in [Requests -> BOOLEAN]
    /\ runs     \in 0..MaxRuns

\* An invoice that awaits approval has a workflow in progress, at a step above
\* 0: a handler that takes the workflow away or ends it also moves the status,
\* and a stale save never separates the two (approveStep and rejectStep answer
\* no_active_workflow otherwise, and nothing would move the invoice on).
AwaitingHasActiveWorkflow ==
    \A i \in Invoices :
        status[i] = "AWAITING_APPROVAL" =>
            wf[i].st = "in_progress" /\ wf[i].step >= 1

\* A completed workflow is never contradicted by the status of its invoice:
\* it stays approved until it is exported or deleted, and the approval it
\* records is the workflow's, however late the edits, rejections and direct
\* approvals that were already on their way arrive.
WorkflowApprovalStands ==
    \A i \in Invoices :
        wf[i].st = "approved" =>
            /\ status[i] \in {"APPROVED", "EXPORTED", "DELETED"}
            /\ approval[i] = "workflow"

\* Nothing is exported, or waits to be, that nobody approved: exports mark by
\* id, whatever the invoice has become since their query.
ExportedWasApproved ==
    \A i \in Invoices :
        status[i] \in {"APPROVED", "EXPORTED"} => approval[i] # "none"

Settled(results, m) ==
    \E n \in DOMAIN results : results[n].step = m /\ results[n].action # "rejected"

\* Workflow w got to its step from a step of a plan that has both (or from a
\* skipped step 1), and each step this plan has from there on was settled.
Placed(w) ==
    \E p \in Plans :
        /\ w.step \in Orders(p) \/ w.step = 2
        /\ \E k \in Orders(p) :
            /\ k < w.step
            /\ \A m \in Orders(p) : k <= m /\ m < w.step => Settled(w.results, m)

\* No step is jumped: on the way to the step a workflow stands at, each step
\* there was to pass was signed or recorded as skipped, whatever numbers are
\* missing, and even when a late save moved it there after a restart or under
\* another plan.
NoStepIsJumped ==
    \A i \in Invoices : wf[i].st = "in_progress" /\ wf[i].step > 1 => Placed(wf[i])

\* An edit loaded before a workflow was completed never takes the invoice out
\* of APPROVED: the version check of its save() sees the signature.
EditKeepsWorkflowApproval ==
    [][\A r \in Requests :
        SaveEdit(r) /\ status[inv[r]] = "APPROVED" /\ wf[inv[r]].st = "approved" =>
            status'[inv[r]] = "APPROVED"]_vars

\* Signatures are given for an amount: no edit or extraction changes the amount
\* of an invoice and leaves a workflow in progress on it, whatever signatures
\* or restarts came after the edit was loaded.
NewAmountRestarts ==
    [][\A i \in Invoices :
        amount'[i] # amount[i] => wf'[i].st # "in_progress"]_vars

\* An edit that takes a workflow away takes no result it did not see: a
\* signature or rejection given meanwhile is not dropped by a restart that
\* knows nothing of it.
EditDropsOnlyWhatItSaw ==
    [][\A r \in Requests :
        SaveEdit(r) /\ wf' # wf =>
            wf[inv[r]].results \in {<<>>, seen[r].wf.results}]_vars

(***************************************************************************)
(* What makes these invariants inductive: what a handler still knows of    *)
(* the document it loaded.                                                 *)
(***************************************************************************)
Bound == Stages \ {"idle", "revert"}

\* A workflow in progress is that of an invoice that awaits approval, unless
\* an export marked it or somebody deleted it meanwhile.
ActiveIsAwaiting ==
    \A i \in Invoices :
        wf[i].st = "in_progress" => status[i] \in {"AWAITING_APPROVAL", "EXPORTED", "DELETED"}

\* A handler between its query and its write has an invoice; one that initiates
\* or signs holds the step of the plan it read.
HandlersHoldTheirStep ==
    \A r \in Requests :
        /\ pc[r] \in Bound => inv[r] \in Invoices
        /\ pc[r] = "initiated" => plan[r] \in Plans /\ 1 \in Orders(plan[r])
        /\ pc[r] = "signing" => plan[r] \in Plans /\ seen[r].wf.step \in Orders(plan[r])

\* While its version is current, an edit has seen the workflow, unless it was
\* taken away, and knows of its state; an export that has begun works on an
\* invoice somebody approved.
HandlersKnowTheWorkflow ==
    \A r \in Requests :
        /\ pc[r] = "editing" /\ current[r] =>
            /\ wf[inv[r]] \in {seen[r].wf, NoWorkflow}
            /\ wf[inv[r]].st = "approved" => seen[r].status = "APPROVED"
            /\ wf[inv[r]].st = "in_progress" => seen[r].status = "AWAITING_APPROVAL"
        /\ pc[r] = "exporting" => approval[inv[r]] # "none"

\* The inductive invariant.
IndInv ==
    /\ TypeOK
    /\ AwaitingHasActiveWorkflow
    /\ WorkflowApprovalStands
    /\ ExportedWasApproved
    /\ NoStepIsJumped
    /\ ActiveIsAwaiting
    /\ HandlersHoldTheirStep
    /\ HandlersKnowTheWorkflow

(***************************************************************************)
(* Properties of the approval rules.                                       *)
(***************************************************************************)
SignedBy(i, k) == {wf[i].results[n].user : n \in Signatures(wf[i].results, k)}

\* An invoice does not wait at a step all its approvers have signed: none of
\* them may sign again, so nobody could move it on.
SignedStepMovesOn ==
    \A i \in Invoices :
        LET k == wf[i].step IN
        /\ status[i] = "AWAITING_APPROVAL"
        /\ k \in Orders(config.steps)
        => ~(StepAt(config.steps, k).approvers \subseteq SignedBy(i, k))

\* When a workflow completes, the amount approved is within the limit of all
\* who signed.
SignedAmountIsCovered ==
    [][\A i \in Invoices :
        wf[i].st # "approved" /\ wf'[i].st = "approved" =>
            \A n \in DOMAIN wf'[i].results :
                wf'[i].results[n].action = "approved" =>
                    amount'[i] <= Limit[wf'[i].results[n].user]]_vars
=============================================================================
