---------------------- MODULE InvoiceLifecycle_proofs ----------------------
(***************************************************************************)
(* Proofs about InvoiceLifecycle, for any users, limits, plans, amounts    *)
(* and number of requests: the inductive invariant and the properties that *)
(* follow from it.                                                         *)
(***************************************************************************)
EXTENDS InvoiceLifecycle, TLAPS, SequenceTheorems, FiniteSetTheorems

\* The fields of the entries a signature pushes.
LEMMA EntryFields ==
  ASSUME NEW k, NEW u
  PROVE  /\ Signed(k, u).step = k /\ Signed(k, u).action = "approved"
         /\ Skipped(k).step = k /\ Skipped(k).action = "skipped"
  BY DEF Signed, Skipped

\* SetToSeq lists each element of a finite set.
LEMMA ListsAll ==
  ASSUME NEW S, IsFiniteSet(S)
  PROVE  /\ Cardinality(S) \in Nat
         /\ SetToSeq(S) \in [1 .. Cardinality(S) -> S]
         /\ \A x \in S : \E n \in 1 .. Cardinality(S) : SetToSeq(S)[n] = x
  <1> DEFINE D == 1 .. Cardinality(S)
             f == SetToSeq(S)
  <1>1. Cardinality(S) \in Nat /\ ExistsBijection(D, S)
    BY FS_CardinalityType
  <1>2. \E g \in [D -> S] : IsInjective(g)
    BY <1>1 DEF ExistsBijection, Bijection, Injection
  <1>3. f \in [D -> S] /\ IsInjective(f)
    BY <1>2 DEF SetToSeq
  <1>4. f \in Injection(D, S)
    BY <1>3 DEF Injection
  <1>5. IsFiniteSet(D) /\ Cardinality(D) = Cardinality(S)
    <2>1. Cardinality(D) = IF 1 > Cardinality(S) THEN 0 ELSE Cardinality(S) - 1 + 1
      BY <1>1, FS_Interval
    <2>2. IsFiniteSet(D)
      BY <1>1, FS_Interval
    <2> QED
      BY <1>1, <2>1, <2>2
  <1> HIDE DEF D, f
  <1>6. f \in Surjection(D, S)
    BY <1>4, <1>5, FS_Injection
  <1>7. \A x \in S : \E n \in D : f[n] = x
    BY <1>6 DEF Surjection
  <1> QED
    BY <1>1, <1>3, <1>7 DEF D, f

\* The entries of skipped steps are results, one for each of these steps.
LEMMA SkipsAreResults ==
  ASSUME NEW orders \in SUBSET Nat, IsFiniteSet(orders)
  PROVE  /\ Skips(orders) \in Seq(Result)
         /\ \A m \in orders : \E n \in DOMAIN Skips(orders) : Skips(orders)[n] = Skipped(m)
  <1> DEFINE S == {Skipped(m) : m \in orders}
  <1>1. IsFiniteSet(S)
    <2> DEFINE g == [m \in orders |-> Skipped(m)]
    <2>1. g \in Surjection(orders, S)
      BY DEF Surjection
    <2> HIDE DEF g, S
    <2> QED
      BY <2>1, FS_Surjection
  <1>2. S \subseteq Result
    <2>1. \A m \in Nat : Skipped(m) \in Result
      BY DEF Skipped, Result
    <2> QED
      BY <2>1
  <1>3. \A m \in orders : Skipped(m) \in S
    OBVIOUS
  <1>4. Skips(orders) = SetToSeq(S)
    BY DEF Skips
  <1> HIDE DEF S
  <1>5. /\ Cardinality(S) \in Nat
        /\ SetToSeq(S) \in [1 .. Cardinality(S) -> S]
        /\ \A x \in S : \E n \in 1 .. Cardinality(S) : SetToSeq(S)[n] = x
    BY <1>1, ListsAll
  <1>6. SetToSeq(S) \in [1 .. Cardinality(S) -> Result]
    BY <1>2, <1>5
  <1>7. SetToSeq(S) \in Seq(Result)
    BY <1>5, <1>6
  <1>8. DOMAIN SetToSeq(S) = 1 .. Cardinality(S)
    BY <1>5
  <1> QED
    BY <1>3, <1>4, <1>5, <1>7, <1>8

\* The steps of a plan have finitely many numbers.
LEMMA OrdersOfPlan ==
  ASSUME NEW p \in Plans
  PROVE  /\ Orders(p) \in SUBSET Nat
         /\ IsFiniteSet(Orders(p))
         /\ \A k \in Nat : IsFiniteSet(Beyond(p, k)) /\ Beyond(p, k) \in SUBSET Nat
         /\ \A k, n \in Nat : IsFiniteSet(Between(p, k, n)) /\ Between(p, k, n) \in SUBSET Nat
  <1>1. p \in Seq(Step)
    BY LifecycleAssumption
  <1>2. Len(p) \in Nat /\ DOMAIN p = 1 .. Len(p) /\ p \in [1 .. Len(p) -> Step]
    BY <1>1, LenProperties
  <1>3. \A n \in DOMAIN p : p[n].order \in Nat
    BY <1>2 DEF Step
  <1>4. Orders(p) \in SUBSET Nat
    BY <1>3 DEF Orders
  <1>5. IsFiniteSet(Orders(p))
    <2> DEFINE g == [n \in DOMAIN p |-> p[n].order]
    <2>1. g \in Surjection(DOMAIN p, Orders(p))
      BY DEF Surjection, Orders
    <2>2. IsFiniteSet(DOMAIN p)
      BY <1>2, FS_Interval
    <2> HIDE DEF g
    <2> QED
      BY <2>1, <2>2, FS_Surjection
  <1>6. /\ \A k \in Nat : Beyond(p, k) \subseteq Orders(p)
        /\ \A k, n \in Nat : Between(p, k, n) \subseteq Orders(p)
    BY DEF Beyond, Between
  <1>7. \A T \in SUBSET Orders(p) : IsFiniteSet(T)
    BY <1>5, FS_Subset
  <1> QED
    BY <1>4, <1>5, <1>6, <1>7

\* What a save pushes onto a list of results leaves a list of results in which
\* the signed step and the skipped ones are settled.
LEMMA PushedResults ==
  ASSUME NEW res \in Seq(Result), NEW k \in Nat, NEW u \in Users \union {NoUser},
         NEW orders \in SUBSET Nat, IsFiniteSet(orders)
  PROVE  LET new == Append(res, Signed(k, u)) \o Skips(orders) IN
         /\ new \in Seq(Result)
         /\ \A m \in orders \union {k} : Settled(new, m)
  <1> DEFINE one == Append(res, Signed(k, u))
             skips == Skips(orders)
             new == one \o skips
  <1>1. Signed(k, u) \in Result
    BY DEF Signed, Result
  <1>2. one \in Seq(Result) /\ Len(one) = Len(res) + 1 /\ one[Len(res) + 1] = Signed(k, u)
    BY <1>1, AppendProperties
  <1>3. /\ skips \in Seq(Result)
        /\ \A m \in orders : \E n \in DOMAIN skips : skips[n] = Skipped(m)
    BY SkipsAreResults
  <1>4. Len(res) \in Nat /\ Len(one) \in Nat /\ Len(skips) \in Nat
        /\ DOMAIN skips = 1 .. Len(skips)
    BY <1>2, <1>3, LenProperties
  <1> HIDE DEF one, skips
  <1>5. /\ new \in Seq(Result)
        /\ Len(new) = Len(one) + Len(skips)
        /\ \A j \in 1 .. Len(one) + Len(skips) :
             new[j] = IF j <= Len(one) THEN one[j] ELSE skips[j - Len(one)]
    BY <1>2, <1>3, ConcatProperties
  <1> HIDE DEF new
  <1>6. DOMAIN new = 1 .. Len(one) + Len(skips)
    BY <1>5, LenProperties
  <1>7. Settled(new, k)
    <2>1. Len(one) \in DOMAIN new /\ new[Len(one)] = Signed(k, u)
      BY <1>2, <1>4, <1>5, <1>6
    <2>2. new[Len(one)].step = k /\ new[Len(one)].action # "rejected"
      BY <2>1, EntryFields
    <2> QED
      BY <2>1, <2>2 DEF Settled
  <1>8. ASSUME NEW m \in orders PROVE Settled(new, m)
    <2>1. PICK n \in DOMAIN skips : skips[n] = Skipped(m)
      BY <1>3
    <2>2. Len(one) + n \in DOMAIN new /\ new[Len(one) + n] = skips[n]
      <3>1. n \in 1 .. Len(skips) /\ ~(Len(one) + n <= Len(one)) /\ Len(one) + n - Len(one) = n
        BY <1>4
      <3>2. Len(one) + n \in 1 .. Len(one) + Len(skips)
        BY <1>4, <3>1
      <3> QED
        BY <1>5, <1>6, <3>1, <3>2
    <2>3. new[Len(one) + n].step = m /\ new[Len(one) + n].action # "rejected"
      BY <2>1, <2>2, EntryFields
    <2> QED
      BY <2>2, <2>3 DEF Settled
  <1> QED
    BY <1>5, <1>7, <1>8 DEF new, one, skips

\* Appending an entry keeps the earlier ones.
LEMMA AppendKeeps ==
  ASSUME NEW res \in Seq(Result), NEW e \in Result
  PROVE  /\ Append(res, e) \in Seq(Result)
         /\ \A j \in DOMAIN res : j \in DOMAIN Append(res, e) /\ Append(res, e)[j] = res[j]
  <1>1. /\ Append(res, e) \in Seq(Result)
        /\ Len(Append(res, e)) = Len(res) + 1
        /\ \A j \in 1 .. Len(res) : Append(res, e)[j] = res[j]
    BY AppendProperties
  <1>2. DOMAIN res = 1 .. Len(res) /\ Len(res) \in Nat
    BY LenProperties
  <1>3. DOMAIN Append(res, e) = 1 .. Len(res) + 1
    BY <1>1, LenProperties
  <1> QED
    BY <1>1, <1>2, <1>3

----------------------------------------------------------------------------
\* The initial state satisfies every part of IndInv.
LEMMA InitInv == Init => IndInv
  <1> SUFFICES ASSUME Init PROVE IndInv
    OBVIOUS
  <1> USE LifecycleAssumption
  <1>1. NoWorkflow \in Workflow
    BY EmptySeq DEF NoWorkflow, Workflow
  <1>2. NoDocument \in Document
    BY <1>1 DEF NoDocument, Document, Statuses
  <1>3. TypeOK
    <2>1. amount \in [Invoices -> Nat] /\ config \in Config
      BY DEF Init
    <2>2. wf \in [Invoices -> Workflow] /\ seen \in [Requests -> Document]
      BY <1>1, <1>2 DEF Init
    <2>3. /\ status   \in [Invoices -> Statuses]
          /\ approval \in [Invoices -> {"none", "direct", "workflow"}]
      BY DEF Init, Statuses
    <2>4. /\ pc      \in [Requests -> Stages]
          /\ inv     \in [Requests -> Invoices \union {NoInvoice}]
          /\ user    \in [Requests -> Users \union {NoUser}]
          /\ plan    \in [Requests -> Plans \union {<<>>}]
          /\ current \in [Requests -> BOOLEAN]
          /\ runs    \in 0..MaxRuns
      BY DEF Init, Stages
    <2> QED
      BY <2>1, <2>2, <2>3, <2>4 DEF TypeOK
  <1>4. AwaitingHasActiveWorkflow /\ WorkflowApprovalStands /\ ExportedWasApproved
        /\ NoStepIsJumped /\ ActiveIsAwaiting
    BY DEF Init, AwaitingHasActiveWorkflow, WorkflowApprovalStands, ExportedWasApproved,
       NoStepIsJumped, ActiveIsAwaiting, NoWorkflow
  <1>5. HandlersHoldTheirStep /\ HandlersKnowTheWorkflow
    BY DEF Init, HandlersHoldTheirStep, HandlersKnowTheWorkflow, Bound
  <1> QED
    BY <1>3, <1>4, <1>5 DEF IndInv

----------------------------------------------------------------------------
(***************************************************************************)
(* Types: how a handler begins, goes on and ends, then each action.        *)
(***************************************************************************)

\* The variables a request is described by, apart from its documents.
RequestTyped ==
    /\ pc   \in [Requests -> Stages]
    /\ inv  \in [Requests -> Invoices \union {NoInvoice}]
    /\ user \in [Requests -> Users \union {NoUser}]
    /\ runs \in 0..MaxRuns

CopiesTyped ==
    /\ seen \in [Requests -> Document]
    /\ plan \in [Requests -> Plans \union {<<>>}]

DocumentsTyped ==
    /\ status   \in [Invoices -> Statuses]
    /\ amount   \in [Invoices -> Nat]
    /\ wf       \in [Invoices -> Workflow]
    /\ approval \in [Invoices -> {"none", "direct", "workflow"}]

\* The type invariant in four parts.
LEMMA TypeParts ==
  TypeOK <=> /\ DocumentsTyped /\ config \in Config
             /\ RequestTyped /\ CopiesTyped /\ current \in [Requests -> BOOLEAN]
  BY DEF TypeOK, DocumentsTyped, RequestTyped, CopiesTyped

\* The same for the next state.
LEMMA TypePartsNext ==
  ASSUME DocumentsTyped', (config \in Config)', RequestTyped', CopiesTyped',
         (current \in [Requests -> BOOLEAN])'
  PROVE  TypeOK'
  BY DEF TypeOK, DocumentsTyped, RequestTyped, CopiesTyped

\* A request that begins describes itself by the right types.
LEMMA BeginType ==
  ASSUME TypeOK, NEW r \in Requests, NEW stage \in Stages,
         NEW i \in Invoices \union {NoInvoice}, NEW u \in Users \union {NoUser},
         Begin(r, stage, i, u)
  PROVE  RequestTyped'
  <1>1. runs' \in 0..MaxRuns
    BY LifecycleAssumption DEF TypeOK, Begin
  <1> QED
    BY <1>1 DEF TypeOK, Begin, RequestTyped

\* So does a handler that goes on,
LEMMA MovesType ==
  ASSUME TypeOK, NEW r \in Requests, NEW from, NEW to \in Stages, Moves(r, from, to)
  PROVE  RequestTyped'
  BY DEF TypeOK, Moves, RequestTyped

\* and the document and the steps it loads have theirs.
LEMMA LoadsType ==
  ASSUME TypeOK, NEW r \in Requests, NEW document \in Document,
         NEW steps \in Plans \union {<<>>}, Loads(r, document, steps)
  PROVE  CopiesTyped'
  BY DEF TypeOK, Loads, CopiesTyped

\* The empty workflow and the empty copy have their types.
LEMMA NoDocumentType == NoWorkflow \in Workflow /\ NoDocument \in Document
  <1>1. NoWorkflow \in Workflow
    BY EmptySeq, LifecycleAssumption DEF NoWorkflow, Workflow
  <1> QED
    BY <1>1 DEF NoDocument, Document, Statuses

\* A handler that ends keeps nothing that is untyped.
LEMMA FinishType ==
  ASSUME TypeOK, NEW r \in Requests, Finish(r)
  PROVE  RequestTyped' /\ CopiesTyped'
  <1>1. CopiesTyped'
    BY LoadsType, NoDocumentType DEF Finish
  <1>2. RequestTyped'
    BY DEF TypeOK, Finish, RequestTyped, Stages
  <1> QED
    BY <1>1, <1>2

\* The version flags stay Boolean.
LEMMA VersionType ==
  ASSUME TypeOK, NEW r \in Requests, NEW i,
         KeepsVersion(r) \/ MovesVersion(r, i) \/ current' = current
         \/ current' = [current EXCEPT ![r] = TRUE]
  PROVE  (current \in [Requests -> BOOLEAN])'
  <1>1. CASE MovesVersion(r, i)
    <2>1. \A q \in Requests : (q # r /\ current[q] /\ inv[q] # i) \in BOOLEAN
      OBVIOUS
    <2> QED
      BY <1>1, <2>1 DEF MovesVersion
  <1>2. CASE KeepsVersion(r) \/ current' = current \/ current' = [current EXCEPT ![r] = TRUE]
    BY <1>2 DEF TypeOK, KeepsVersion
  <1> QED
    BY <1>1, <1>2

\* A loaded document is one.
LEMMA DocType ==
  ASSUME TypeOK, NEW i \in Invoices
  PROVE  Doc(i) \in Document
  BY DEF TypeOK, Doc, Document

\* A new workflow stands at step 1, or at step 2 over a settled step 1.
LEMMA NewWorkflowType ==
  ASSUME NEW p \in Plans, NEW a \in Nat, 1 \in Orders(p)
  PROVE  /\ NewWorkflow(p, a) \in Workflow
         /\ NewWorkflow(p, a).st = "in_progress"
         /\ NewWorkflow(p, a).step \in {1, 2}
         /\ NewWorkflow(p, a).step = 2 => Placed(NewWorkflow(p, a))
  <1> DEFINE x == [st |-> "in_progress", step |-> 1, results |-> <<>>]
             y == [st |-> "in_progress", step |-> 2, results |-> Skips({1})]
  <1>1. x \in Workflow
    BY EmptySeq DEF Workflow
  <1>2. /\ Skips({1}) \in Seq(Result)
        /\ \E n \in DOMAIN Skips({1}) : Skips({1})[n] = Skipped(1)
    <2>1. {1} \in SUBSET Nat /\ IsFiniteSet({1}) /\ 1 \in {1}
      <3>1. \A z : IsFiniteSet({z})
        BY FS_Singleton, Zenon
      <3>2. {1} \in SUBSET Nat /\ 1 \in {1}
        OBVIOUS
      <3> QED
        BY <3>1, <3>2, Zenon
    <2>2. ASSUME NEW orders \in SUBSET Nat, IsFiniteSet(orders), 1 \in orders
          PROVE  /\ Skips(orders) \in Seq(Result)
                 /\ \E n \in DOMAIN Skips(orders) : Skips(orders)[n] = Skipped(1)
      BY <2>2, SkipsAreResults
    <2> DEFINE first == {1}
    <2>3. first \in SUBSET Nat /\ IsFiniteSet(first) /\ 1 \in first
      BY <2>1
    <2> HIDE DEF first
    <2>4. /\ Skips(first) \in Seq(Result)
          /\ \E n \in DOMAIN Skips(first) : Skips(first)[n] = Skipped(1)
      BY <2>2, <2>3
    <2> QED
      BY <2>4 DEF first
  <1>3. y \in Workflow
    BY <1>2 DEF Workflow
  <1>4. Settled(Skips({1}), 1)
    BY <1>2, EntryFields DEF Settled
  <1>5. Placed(y)
    <2>1. \A m \in Nat : 1 <= m /\ m < 2 => m = 1
      OBVIOUS
    <2>2. \A m \in Orders(p) : 1 <= m /\ m < 2 => Settled(Skips({1}), m)
      BY <1>4, <2>1, OrdersOfPlan
    <2> QED
      BY <2>2 DEF Placed
  <1>6. NewWorkflow(p, a) = x \/ NewWorkflow(p, a) = y
    BY DEF NewWorkflow
  <1>7. x.st = "in_progress" /\ x.step = 1 /\ y.st = "in_progress" /\ y.step = 2
    OBVIOUS
  <1> HIDE DEF x, y
  <1> QED
    BY <1>1, <1>3, <1>5, <1>6, <1>7

\* What a signer holds: an invoice, its workflow, and a step of a plan.
LEMMA SignerHolds ==
  ASSUME TypeOK, HandlersHoldTheirStep, NEW r \in Requests, pc[r] = "signing"
  PROVE  /\ inv[r] \in Invoices
         /\ plan[r] \in Plans
         /\ seen[r].wf.step \in Nat
         /\ seen[r].wf.step \in Orders(plan[r])
         /\ user[r] \in Users \union {NoUser}
         /\ wf[inv[r]] \in Workflow
         /\ wf[inv[r]].results \in Seq(Result)
  <1>1. /\ inv[r] \in Invoices /\ plan[r] \in Plans
        /\ seen[r].wf.step \in Orders(plan[r])
    BY DEF HandlersHoldTheirStep, Bound, Stages
  <1>2. Orders(plan[r]) \in SUBSET Nat
    BY <1>1, OrdersOfPlan
  <1>3. wf[inv[r]] \in Workflow /\ wf[inv[r]].results \in Seq(Result)
    BY <1>1 DEF TypeOK, Workflow
  <1> QED
    BY <1>1, <1>2, <1>3 DEF TypeOK

\* A partial signature appends to the results and leaves the rest.
LEMMA PartialWorkflow ==
  ASSUME TypeOK, HandlersHoldTheirStep, NEW r \in Requests, SavePartial(r)
  PROVE  /\ wf' = [wf EXCEPT ![inv[r]] = wf'[inv[r]]]
         /\ wf'[inv[r]] \in Workflow
         /\ wf'[inv[r]].st = wf[inv[r]].st /\ wf'[inv[r]].step = wf[inv[r]].step
         /\ \A j \in DOMAIN wf[inv[r]].results :
                /\ j \in DOMAIN wf'[inv[r]].results
                /\ wf'[inv[r]].results[j] = wf[inv[r]].results[j]
  <1> DEFINE i == inv[r]
             e == Signed(seen[r].wf.step, user[r])
  <1>1. /\ i \in Invoices /\ wf[i] \in Workflow /\ wf[i].results \in Seq(Result)
        /\ e \in Result
    <2>1. pc[r] = "signing"
      BY DEF SavePartial
    <2> QED
      BY <2>1, SignerHolds DEF Signed, Result
  <1>2. wf' = [wf EXCEPT ![i].results = Append(@, e)]
    BY DEF SavePartial
  <1> HIDE DEF i, e
  <1>3. wf'[i] = [wf[i] EXCEPT !.results = Append(@, e)]
    BY <1>1, <1>2 DEF TypeOK
  <1>4. /\ Append(wf[i].results, e) \in Seq(Result)
        /\ \A j \in DOMAIN wf[i].results :
            /\ j \in DOMAIN Append(wf[i].results, e)
            /\ Append(wf[i].results, e)[j] = wf[i].results[j]
    BY <1>1, AppendKeeps
  <1>5. wf' = [wf EXCEPT ![i] = wf'[i]]
    BY <1>1, <1>2, <1>3 DEF TypeOK
  <1>6. wf'[i] \in Workflow /\ wf'[i].st = wf[i].st /\ wf'[i].step = wf[i].step
        /\ wf'[i].results = Append(wf[i].results, e)
    BY <1>1, <1>3, <1>4 DEF Workflow
  <1> QED
    BY <1>4, <1>5, <1>6 DEF i

\* A signature that advances leaves the workflow at a step it may stand at.
LEMMA AdvanceWorkflow ==
  ASSUME TypeOK, HandlersHoldTheirStep, NEW r \in Requests, SaveAdvance(r)
  PROVE  /\ wf' = [wf EXCEPT ![inv[r]] = wf'[inv[r]]]
         /\ wf'[inv[r]] \in Workflow
         /\ wf'[inv[r]].st = wf[inv[r]].st /\ wf'[inv[r]].step >= 1
         /\ Placed(wf'[inv[r]])
  <1> DEFINE i == inv[r]
             k == seen[r].wf.step
             p == plan[r]
             u == user[r]
  <1>1. /\ i \in Invoices /\ wf[i] \in Workflow /\ wf[i].results \in Seq(Result)
        /\ p \in Plans /\ k \in Nat /\ k \in Orders(p) /\ u \in Users \union {NoUser}
    <2>1. pc[r] = "signing"
      BY DEF SaveAdvance
    <2> QED
      BY <2>1, SignerHolds
  <1>2. PICK next \in Beyond(p, k) :
            wf' = [wf EXCEPT ![i].step = next,
                             ![i].results = Append(@, Signed(k, u)) \o Skips(Between(p, k, next))]
    BY DEF SaveAdvance
  <1> HIDE DEF i, k, p, u
  <1>3. next \in Nat /\ next \in Orders(p) /\ next > k
    BY <1>1, OrdersOfPlan DEF Beyond
  <1>4. IsFiniteSet(Between(p, k, next)) /\ Between(p, k, next) \in SUBSET Nat
    BY <1>1, <1>3, OrdersOfPlan
  <1> DEFINE new == Append(wf[i].results, Signed(k, u)) \o Skips(Between(p, k, next))
             x   == [st |-> wf[i].st, step |-> next, results |-> new]
  <1>5. wf'[i] = x
    BY <1>1, <1>2 DEF TypeOK, Workflow
  <1>6. wf' = [wf EXCEPT ![i] = wf'[i]]
    BY <1>1, <1>2, <1>5 DEF TypeOK
  <1>7. new \in Seq(Result) /\ \A m \in Between(p, k, next) \union {k} : Settled(new, m)
    BY <1>1, <1>4, PushedResults
  <1> HIDE DEF new
  <1>8. x \in Workflow
    BY <1>1, <1>3, <1>7 DEF Workflow
  <1>9. Placed(x)
    <2>1. ASSUME NEW m \in Orders(p), k <= m, m < next PROVE Settled(new, m)
      <3>1. m \in Nat
        BY <1>1, OrdersOfPlan
      <3>2. m = k \/ (k < m /\ m < next)
        BY <1>1, <2>1, <3>1
      <3> QED
        BY <1>7, <3>2 DEF Between
    <2>2. k < next
      BY <1>1, <1>3
    <2>3. x.step = next /\ x.results = new
      OBVIOUS
    <2> HIDE DEF x
    <2> QED
      BY <1>1, <1>3, <2>1, <2>2, <2>3 DEF Placed
  <1>10. x.st = wf[i].st /\ x.step >= 1
    BY <1>1, <1>3
  <1> HIDE DEF x
  <1> QED
    BY <1>5, <1>6, <1>8, <1>9, <1>10 DEF i

\* A completing signature leaves an approved workflow.
LEMMA FinalWorkflow ==
  ASSUME TypeOK, HandlersHoldTheirStep, NEW r \in Requests, SaveFinal(r)
  PROVE  /\ wf' = [wf EXCEPT ![inv[r]] = wf'[inv[r]]]
         /\ wf'[inv[r]] \in Workflow
         /\ wf'[inv[r]].st = "approved"
  <1> DEFINE i == inv[r]
             k == seen[r].wf.step
             u == user[r]
             over == Beyond(plan[r], k)
  <1>1. /\ i \in Invoices /\ wf[i] \in Workflow /\ wf[i].results \in Seq(Result)
        /\ k \in Nat /\ u \in Users \union {NoUser}
        /\ over \in SUBSET Nat /\ IsFiniteSet(over)
    <2>1. pc[r] = "signing"
      BY DEF SaveFinal
    <2> QED
      BY <2>1, SignerHolds, OrdersOfPlan
  <1>2. wf' = [wf EXCEPT ![i].st = "approved", ![i].step = 0,
                         ![i].results = Append(@, Signed(k, u)) \o Skips(over)]
    BY DEF SaveFinal
  <1> HIDE DEF i, k, u, over
  <1> DEFINE new == Append(wf[i].results, Signed(k, u)) \o Skips(over)
             x   == [st |-> "approved", step |-> 0, results |-> new]
  <1>3. wf'[i] = x
    BY <1>1, <1>2 DEF TypeOK, Workflow
  <1>4. wf' = [wf EXCEPT ![i] = wf'[i]]
    BY <1>1, <1>2, <1>3 DEF TypeOK
  <1>5. new \in Seq(Result)
    BY <1>1, PushedResults
  <1>6. x \in Workflow
    <2> HIDE DEF new
    <2> QED
      BY <1>5 DEF Workflow
  <1>7. wf'[i].st = "approved"
    BY <1>3
  <1> HIDE DEF x
  <1> QED
    BY <1>3, <1>4, <1>6, <1>7 DEF i

\* A rejection leaves a rejected workflow.
LEMMA RejectedWorkflow ==
  ASSUME TypeOK, HandlersHoldTheirStep, NEW r \in Requests, SaveRejection(r)
  PROVE  /\ inv[r] \in Invoices
         /\ wf' = [wf EXCEPT ![inv[r]] = wf'[inv[r]]]
         /\ wf'[inv[r]] \in Workflow
         /\ wf'[inv[r]].st = "rejected"
  <1> DEFINE i == inv[r]
             e == Rejected(seen[r].wf.step, user[r])
  <1>1. i \in Invoices /\ wf[i] \in Workflow /\ wf[i].results \in Seq(Result)
    <2>1. i \in Invoices
      BY DEF SaveRejection, HandlersHoldTheirStep, Bound, Stages
    <2> QED
      BY <2>1 DEF TypeOK, Workflow
  <1>2. e \in Result
    <2>1. seen[r].wf.step \in Nat /\ user[r] \in Users \union {NoUser}
      BY LifecycleAssumption DEF TypeOK, Document, Workflow
    <2> QED
      BY <2>1 DEF Rejected, Result
  <1>3. wf' = [wf EXCEPT ![i].st = "rejected", ![i].results = Append(@, e)]
    BY DEF SaveRejection
  <1> HIDE DEF i, e
  <1>4. wf'[i] = [wf[i] EXCEPT !.st = "rejected", !.results = Append(@, e)]
    BY <1>1, <1>3 DEF TypeOK
  <1>5. Append(wf[i].results, e) \in Seq(Result)
    BY <1>1, <1>2, AppendKeeps
  <1>6. wf' = [wf EXCEPT ![i] = wf'[i]]
    BY <1>1, <1>3, <1>4 DEF TypeOK
  <1>7. wf'[i] \in Workflow /\ wf'[i].st = "rejected"
    BY <1>1, <1>4, <1>5 DEF Workflow
  <1> QED
    BY <1>1, <1>6, <1>7 DEF i

\* Actions that leave the documents, or the copies of them, alone.
LEMMA KeptTypes ==
  ASSUME TypeOK
  PROVE  /\ UNCHANGED docVars => DocumentsTyped'
         /\ UNCHANGED <<seen, plan>> => CopiesTyped'
         /\ UNCHANGED config => (config \in Config)'
         /\ UNCHANGED <<pc, inv, user, runs>> => RequestTyped'
  BY DEF TypeOK, docVars, DocumentsTyped, CopiesTyped, RequestTyped

\* A request that arrives with a user keeps the types.
LEMMA ArrivalType ==
  ASSUME TypeOK, NEW r \in Requests, NEW i \in Invoices, NEW u \in Users,
         RequestApprove(r, i, u) \/ RequestSign(r, i, u) \/ RequestReject(r, i, u)
  PROVE  TypeOK'
  <1>1. CASE RequestApprove(r, i, u)
    <2>1. RequestTyped'
      BY <1>1, BeginType DEF RequestApprove, Stages
    <2> QED
      BY <1>1, <2>1, KeptTypes, VersionType, TypePartsNext DEF RequestApprove
  <1>2. CASE RequestSign(r, i, u)
    <2>1. RequestTyped'
      BY <1>2, BeginType DEF RequestSign, Stages
    <2> QED
      BY <1>2, <2>1, KeptTypes, VersionType, TypePartsNext DEF RequestSign
  <1>3. CASE RequestReject(r, i, u)
    <2>1. RequestTyped'
      BY <1>3, BeginType DEF RequestReject, Stages
    <2>2. CopiesTyped'
      <3>1. config.steps \in Plans
        BY DEF TypeOK, Config
      <3> QED
        BY <1>3, <3>1, LoadsType, DocType DEF RequestReject
    <2> QED
      BY <1>3, <2>1, <2>2, KeptTypes, VersionType, TypePartsNext DEF RequestReject
  <1> QED
    BY <1>1, <1>2, <1>3

\* A configuration request keeps the types.
LEMMA ConfigType ==
  ASSUME TypeOK, NEW r \in Requests, SaveConfig(r)
  PROVE  TypeOK'
  <1>1. PICK new \in Config \ {config} :
          /\ config' = new
          /\ Begin(r, IF new.enabled THEN "idle" ELSE "revert", NoInvoice, NoUser)
    BY DEF SaveConfig
  <1>2. RequestTyped'
    BY <1>1, BeginType DEF Stages
  <1>3. config' \in Config
    BY <1>1
  <1>4. UNCHANGED <<docVars, seen, plan, current>>
    BY DEF SaveConfig
  <1>5. DocumentsTyped' /\ CopiesTyped' /\ (current \in [Requests -> BOOLEAN])'
    BY <1>4, KeptTypes, VersionType
  <1> QED
    BY <1>2, <1>3, <1>5, TypePartsNext

\* A handler that goes on without touching the documents keeps the types.
LEMMA ReadType ==
  ASSUME TypeOK, HandlersHoldTheirStep, NEW r \in Requests,
         ReadStatus(r) \/ Initiate(r) \/ LoadSign(r)
  PROVE  TypeOK'
  <1>1. CASE ReadStatus(r)
    <2>1. RequestTyped'
      BY <1>1, MovesType DEF ReadStatus, Stages
    <2> QED
      BY <1>1, <2>1, KeptTypes, VersionType, TypePartsNext DEF ReadStatus
  <1>2. inv[r] \in Invoices
    BY DEF HandlersHoldTheirStep, Bound, Stages, ReadStatus, Initiate, LoadSign, Moves
  <1>3. Doc(inv[r]) \in Document /\ config.steps \in Plans
    BY <1>2, DocType DEF TypeOK, Config
  <1>4. CASE Initiate(r)
    <2>1. RequestTyped'
      BY <1>4, MovesType DEF Initiate, Stages
    <2>2. CopiesTyped'
      <3>1. CASE Loads(r, Doc(inv[r]), config.steps)
        BY <1>3, <3>1, LoadsType
      <3>2. CASE UNCHANGED <<seen, plan>>
        BY <3>2, KeptTypes
      <3> QED
        BY <1>4, <3>1, <3>2 DEF Initiate
    <2> QED
      BY <1>4, <2>1, <2>2, KeptTypes, VersionType, TypePartsNext DEF Initiate
  <1>5. CASE LoadSign(r)
    <2>1. RequestTyped'
      BY <1>5, MovesType DEF LoadSign, Stages
    <2>2. CopiesTyped'
      BY <1>3, <1>5, LoadsType DEF LoadSign
    <2> QED
      BY <1>5, <2>1, <2>2, KeptTypes, VersionType, TypePartsNext DEF LoadSign
  <1> QED
    BY <1>1, <1>4, <1>5

\* What SaveInitiated writes.
LEMMA InitiatedWorkflow ==
  ASSUME TypeOK, HandlersHoldTheirStep, NEW r \in Requests, SaveInitiated(r)
  PROVE  /\ inv[r] \in Invoices
         /\ wf' = [wf EXCEPT ![inv[r]] = wf'[inv[r]]]
         /\ wf'[inv[r]] \in Workflow
         /\ wf'[inv[r]].st = "in_progress"
         /\ wf'[inv[r]].step \in {1, 2}
         /\ wf'[inv[r]].step = 2 => Placed(wf'[inv[r]])
  <1> DEFINE w == NewWorkflow(plan[r], seen[r].amount)
  <1>1. inv[r] \in Invoices /\ plan[r] \in Plans /\ 1 \in Orders(plan[r])
    BY DEF SaveInitiated, Moves, HandlersHoldTheirStep, Bound, Stages
  <1>2. seen[r].amount \in Nat
    BY DEF TypeOK, Document
  <1>3. /\ w \in Workflow
        /\ w.st = "in_progress"
        /\ w.step \in {1, 2}
        /\ w.step = 2 => Placed(w)
    BY <1>1, <1>2, NewWorkflowType
  <1>4. wf' = [wf EXCEPT ![inv[r]] = w]
    BY DEF SaveInitiated
  <1> HIDE DEF w
  <1>5. wf'[inv[r]] = w
    BY <1>1, <1>4 DEF TypeOK
  <1> QED
    BY <1>1, <1>3, <1>4, <1>5

\* A save keeps the types.
LEMMA SaveType ==
  ASSUME TypeOK, HandlersHoldTheirStep, NEW r \in Requests,
         \/ SaveInitiated(r) \/ SavePartial(r) \/ SaveAdvance(r) \/ SaveFinal(r)
         \/ SaveRejection(r) \/ SaveEdit(r)
  PROVE  TypeOK'
  <1>1. inv[r] \in Invoices
    BY DEF HandlersHoldTheirStep, Bound, Stages, SaveInitiated, SavePartial, SaveAdvance,
       SaveFinal, SaveRejection, SaveEdit, Moves
  <1>2. CASE SaveInitiated(r)
    <2>1. RequestTyped' /\ CopiesTyped'
      BY <1>2, MovesType, LoadsType, NoDocumentType DEF SaveInitiated, Stages
    <2>2. wf' \in [Invoices -> Workflow]
      BY <1>2, InitiatedWorkflow DEF TypeOK
    <2>3. status' \in [Invoices -> Statuses]
      BY <1>2 DEF TypeOK, SaveInitiated, Statuses
    <2>4. DocumentsTyped'
      BY <1>2, <2>2, <2>3 DEF DocumentsTyped, TypeOK, SaveInitiated
    <2> QED
      BY <1>2, <2>1, <2>4, KeptTypes, VersionType, TypePartsNext DEF SaveInitiated
  <1>3. CASE SavePartial(r)
    <2>1. wf' \in [Invoices -> Workflow]
      BY <1>3, PartialWorkflow DEF TypeOK
    <2>2. DocumentsTyped'
      BY <1>3, <2>1 DEF DocumentsTyped, TypeOK, SavePartial
    <2> QED
      BY <1>3, <2>2, FinishType, KeptTypes, VersionType, TypePartsNext DEF SavePartial
  <1>4. CASE SaveAdvance(r)
    <2>1. wf' \in [Invoices -> Workflow]
      BY <1>4, AdvanceWorkflow DEF TypeOK
    <2>2. DocumentsTyped'
      BY <1>4, <2>1 DEF DocumentsTyped, TypeOK, SaveAdvance
    <2> QED
      BY <1>4, <2>2, FinishType, KeptTypes, VersionType, TypePartsNext DEF SaveAdvance
  <1>5. CASE SaveFinal(r)
    <2>1. wf' \in [Invoices -> Workflow]
      BY <1>5, FinalWorkflow DEF TypeOK
    <2>2. /\ status'   \in [Invoices -> Statuses]
          /\ approval' \in [Invoices -> {"none", "direct", "workflow"}]
      BY <1>5 DEF TypeOK, SaveFinal, Statuses
    <2>3. DocumentsTyped'
      BY <1>5, <2>1, <2>2 DEF DocumentsTyped, TypeOK, SaveFinal
    <2> QED
      BY <1>5, <2>3, FinishType, KeptTypes, VersionType, TypePartsNext DEF SaveFinal
  <1>6. CASE SaveRejection(r)
    <2>1. wf' \in [Invoices -> Workflow]
      BY <1>6, RejectedWorkflow DEF TypeOK
    <2>2. status' \in [Invoices -> Statuses]
      BY <1>6 DEF TypeOK, SaveRejection, Statuses
    <2>3. DocumentsTyped'
      BY <1>6, <2>1, <2>2 DEF DocumentsTyped, TypeOK, SaveRejection
    <2> QED
      BY <1>6, <2>3, FinishType, KeptTypes, VersionType, TypePartsNext DEF SaveRejection
  <1>7. CASE SaveEdit(r)
    <2>1. wf' \in [Invoices -> Workflow]
      BY <1>7, NoDocumentType DEF TypeOK, SaveEdit
    <2>2. amount' \in [Invoices -> Nat]
      BY <1>7, LifecycleAssumption DEF TypeOK, SaveEdit, Sent
    <2>3. status' \in [Invoices -> Statuses]
      <3>1. \A loaded : StatusAfterEdit(loaded) \subseteq Statuses
        BY DEF StatusAfterEdit, Statuses, Approvable
      <3> QED
        BY <1>1, <1>7, <3>1 DEF TypeOK, SaveEdit, Sent
    <2>4. DocumentsTyped'
      BY <1>7, <2>1, <2>2, <2>3 DEF DocumentsTyped, TypeOK, SaveEdit
    <2> QED
      BY <1>7, <2>4, FinishType, KeptTypes, VersionType, TypePartsNext DEF SaveEdit
  <1> QED
    BY <1>2, <1>3, <1>4, <1>5, <1>6, <1>7

\* The other handlers' ends keep the types.
LEMMA EndType ==
  ASSUME TypeOK, NEW r \in Requests,
         GiveUp(r) \/ ApproveDirectly(r) \/ MarkExported(r) \/ Revert(r)
  PROVE  TypeOK'
  <1>1. RequestTyped' /\ CopiesTyped' /\ (current \in [Requests -> BOOLEAN])'
    BY FinishType, VersionType DEF GiveUp, ApproveDirectly, MarkExported, Revert
  <1>2. (config \in Config)'
    BY KeptTypes DEF GiveUp, ApproveDirectly, MarkExported, Revert
  <1>3. DocumentsTyped'
    <2>1. CASE GiveUp(r)
      BY <2>1, KeptTypes DEF GiveUp
    <2>2. CASE ApproveDirectly(r)
      BY <2>2 DEF DocumentsTyped, TypeOK, ApproveDirectly, Statuses
    <2>3. CASE MarkExported(r)
      BY <2>3 DEF DocumentsTyped, TypeOK, MarkExported, Statuses
    <2>4. CASE Revert(r)
      <3>1. status' \in [Invoices -> Statuses]
        BY <2>4 DEF TypeOK, Revert, Statuses
      <3>2. wf' \in [Invoices -> Workflow]
        BY <2>4, NoDocumentType DEF TypeOK, Revert
      <3> QED
        BY <2>4, <3>1, <3>2 DEF DocumentsTyped, TypeOK, Revert
    <2> QED
      BY <2>1, <2>2, <2>3, <2>4
  <1> QED
    BY <1>1, <1>2, <1>3, TypePartsNext

\* Extraction, retry and deletion keep the types.
LEMMA AtomicType ==
  ASSUME TypeOK, NEW i \in Invoices, Extract(i) \/ RetryExtraction(i) \/ Delete(i)
  PROVE  TypeOK'
  <1>1. /\ UNCHANGED <<wf, approval, config, pc, inv, user, seen, plan, current, runs>>
    BY DEF Extract, RetryExtraction, Delete, reqVars
  <1>2. status' \in [Invoices -> Statuses]
    BY DEF TypeOK, Extract, RetryExtraction, Delete, Statuses, Approvable
  <1>3. amount' \in [Invoices -> Nat]
    BY LifecycleAssumption DEF TypeOK, Extract, RetryExtraction, Delete
  <1> QED
    BY <1>1, <1>2, <1>3 DEF TypeOK

\* Every step keeps the types.
LEMMA TypeStep ==
  ASSUME TypeOK, HandlersHoldTheirStep, [Next]_vars
  PROVE  TypeOK'
  <1>1. ASSUME NEW r \in Requests, NEW i \in Invoices, NEW u \in Users,
               RequestApprove(r, i, u) \/ RequestSign(r, i, u) \/ RequestReject(r, i, u)
        PROVE  TypeOK'
    BY <1>1, ArrivalType
  <1>2. ASSUME NEW r \in Requests, NEW i \in Invoices, RequestEdit(r, i) \/ RequestExport(r, i)
        PROVE  TypeOK'
    <2>1. RequestTyped'
      BY <1>2, BeginType DEF RequestEdit, RequestExport, Stages
    <2>2. CopiesTyped'
      BY <1>2, LoadsType, DocType, KeptTypes DEF RequestEdit, RequestExport
    <2> QED
      BY <1>2, <2>1, <2>2, KeptTypes, VersionType, TypePartsNext
         DEF RequestEdit, RequestExport
  <1>3. ASSUME NEW r \in Requests, SaveConfig(r) PROVE TypeOK'
    BY <1>3, ConfigType
  <1>4. ASSUME NEW r \in Requests, ReadStatus(r) \/ Initiate(r) \/ LoadSign(r)
        PROVE  TypeOK'
    BY <1>4, ReadType
  <1>5. ASSUME NEW r \in Requests,
               \/ SaveInitiated(r) \/ SavePartial(r) \/ SaveAdvance(r) \/ SaveFinal(r)
               \/ SaveRejection(r) \/ SaveEdit(r)
        PROVE  TypeOK'
    BY <1>5, SaveType
  <1>6. ASSUME NEW r \in Requests,
               GiveUp(r) \/ ApproveDirectly(r) \/ MarkExported(r) \/ Revert(r)
        PROVE  TypeOK'
    BY <1>6, EndType
  <1>7. ASSUME NEW i \in Invoices, Extract(i) \/ RetryExtraction(i) \/ Delete(i)
        PROVE  TypeOK'
    BY <1>7, AtomicType
  <1>8. CASE UNCHANGED vars
    BY <1>8 DEF TypeOK, vars, docVars, reqVars
  <1> QED
    BY <1>1, <1>2, <1>3, <1>4, <1>5, <1>6, <1>7, <1>8 DEF Next

----------------------------------------------------------------------------
(***************************************************************************)
(* The invariants of the documents, one document at a time.                *)
(***************************************************************************)
Sound(i) ==
    /\ status[i] = "AWAITING_APPROVAL" => wf[i].st = "in_progress" /\ wf[i].step >= 1
    /\ wf[i].st = "approved" =>
        /\ status[i] \in {"APPROVED", "EXPORTED", "DELETED"}
        /\ approval[i] = "workflow"
    /\ status[i] \in {"APPROVED", "EXPORTED"} => approval[i] # "none"
    /\ wf[i].st = "in_progress" /\ wf[i].step > 1 => Placed(wf[i])
    /\ wf[i].st = "in_progress" => status[i] \in {"AWAITING_APPROVAL", "EXPORTED", "DELETED"}

\* The five invariants of a document, for all documents.
LEMMA SoundDocuments ==
  (\A i \in Invoices : Sound(i)) <=>
    /\ AwaitingHasActiveWorkflow /\ WorkflowApprovalStands
    /\ ExportedWasApproved /\ NoStepIsJumped /\ ActiveIsAwaiting
  BY DEF Sound, AwaitingHasActiveWorkflow, WorkflowApprovalStands,
     ExportedWasApproved, NoStepIsJumped, ActiveIsAwaiting

\* A document a step does not touch stays sound.
LEMMA SoundKept ==
  ASSUME NEW i \in Invoices, Sound(i),
         status'[i] = status[i], wf'[i] = wf[i], approval'[i] = approval[i]
  PROVE  Sound(i)'
  <1>1. Placed(wf[i]) => Placed(wf'[i])
    OBVIOUS
  <1> QED
    BY <1>1 DEF Sound

\* A save leaves every document sound.
LEMMA SoundSave ==
  ASSUME IndInv, NEW i \in Invoices, NEW r \in Requests,
         \/ SaveInitiated(r) \/ SavePartial(r) \/ SaveAdvance(r) \/ SaveFinal(r)
         \/ SaveRejection(r) \/ SaveEdit(r)
  PROVE  Sound(i)'
  <1>1. TypeOK /\ HandlersHoldTheirStep /\ HandlersKnowTheWorkflow
    BY DEF IndInv
  <1>2. \A j \in Invoices : Sound(j)
    BY SoundDocuments DEF IndInv
  <1>3. inv[r] \in Invoices
    BY <1>1 DEF HandlersHoldTheirStep, Bound, Stages, SaveInitiated, SavePartial,
       SaveAdvance, SaveFinal, SaveRejection, SaveEdit, Moves
  <1>4. /\ status \in [Invoices -> Statuses] /\ wf \in [Invoices -> Workflow]
        /\ approval \in [Invoices -> {"none", "direct", "workflow"}]
    BY <1>1 DEF TypeOK
  <1>5. CASE i # inv[r]
    <2>1. status'[i] = status[i] /\ approval'[i] = approval[i]
      BY <1>3, <1>4, <1>5 DEF SaveInitiated, SavePartial, SaveAdvance, SaveFinal,
         SaveRejection, SaveEdit
    <2>2. wf'[i] = wf[i]
      BY <1>1, <1>3, <1>4, <1>5, InitiatedWorkflow, PartialWorkflow, AdvanceWorkflow,
         FinalWorkflow, RejectedWorkflow DEF SaveEdit
    <2> QED
      BY <1>2, <2>1, <2>2, SoundKept
  <1>6. CASE i = inv[r] /\ SaveInitiated(r)
    <2>1. status'[i] = "AWAITING_APPROVAL"
      BY <1>3, <1>4, <1>6 DEF SaveInitiated
    <2>2. /\ wf'[i].st = "in_progress"
          /\ wf'[i].step \in {1, 2}
          /\ wf'[i].step = 2 => Placed(wf'[i])
      BY <1>1, <1>6, InitiatedWorkflow
    <2>3. wf'[i].step > 1 => Placed(wf'[i])
      BY <2>2
    <2> QED
      BY <2>1, <2>2, <2>3 DEF Sound
  <1>7. CASE i = inv[r] /\ SavePartial(r)
    <2>1. status'[i] = status[i] /\ approval'[i] = approval[i]
      BY <1>7 DEF SavePartial
    <2>2. /\ wf'[i].st = wf[i].st /\ wf'[i].step = wf[i].step
          /\ \A j \in DOMAIN wf[i].results :
                j \in DOMAIN wf'[i].results /\ wf'[i].results[j] = wf[i].results[j]
      BY <1>1, <1>7, PartialWorkflow
    <2>3. \A m : Settled(wf[i].results, m) => Settled(wf'[i].results, m)
      BY <2>2 DEF Settled
    <2>4. Placed(wf[i]) => Placed(wf'[i])
      BY <2>2, <2>3 DEF Placed
    <2> QED
      BY <1>2, <2>1, <2>2, <2>4 DEF Sound
  <1>8. CASE i = inv[r] /\ SaveAdvance(r)
    <2>1. status'[i] = status[i] /\ approval'[i] = approval[i]
      BY <1>8 DEF SaveAdvance
    <2>2. wf'[i].st = wf[i].st /\ wf'[i].step >= 1 /\ Placed(wf'[i])
      BY <1>1, <1>8, AdvanceWorkflow
    <2> QED
      BY <1>2, <2>1, <2>2 DEF Sound
  <1>9. CASE i = inv[r] /\ SaveFinal(r)
    <2>1. status'[i] = "APPROVED" /\ approval'[i] = "workflow"
      BY <1>3, <1>4, <1>9 DEF SaveFinal
    <2>2. wf'[i].st = "approved"
      BY <1>1, <1>9, FinalWorkflow
    <2> QED
      BY <2>1, <2>2 DEF Sound
  <1>10. CASE i = inv[r] /\ SaveRejection(r)
    <2>1. status'[i] = "NEEDS_REVIEW"
      BY <1>3, <1>4, <1>10 DEF SaveRejection
    <2>2. wf'[i].st = "rejected"
      BY <1>1, <1>10, RejectedWorkflow
    <2> QED
      BY <2>1, <2>2 DEF Sound
  <1>11. CASE i = inv[r] /\ SaveEdit(r)
    <2>1. /\ wf[i].st = "approved" => seen[r].status = "APPROVED"
          /\ wf[i].st = "in_progress" => seen[r].status = "AWAITING_APPROVAL"
      BY <1>1, <1>11 DEF SaveEdit, MaySaveEdit, HandlersKnowTheWorkflow
    <2>2. approval'[i] = approval[i]
      BY <1>11 DEF SaveEdit
    <2>3. wf'[i] = IF seen[r].status = "AWAITING_APPROVAL" THEN NoWorkflow ELSE wf[i]
      BY <1>3, <1>4, <1>11 DEF SaveEdit
    <2>4. PICK s \in StatusAfterEdit(seen[r].status) :
            status'[i] = Sent(s, seen[r].status, status[i])
      BY <1>3, <1>4, <1>11 DEF SaveEdit
    <2>5. CASE seen[r].status = "AWAITING_APPROVAL"
      <3>1. status'[i] = "NEEDS_REVIEW"
        BY <2>4, <2>5 DEF StatusAfterEdit, Sent
      <3>2. wf'[i].st = "none"
        BY <2>3, <2>5 DEF NoWorkflow
      <3> QED
        BY <3>1, <3>2 DEF Sound
    <2>6. CASE seen[r].status = "APPROVED"
      <3>1. status'[i] = status[i] /\ wf'[i] = wf[i]
        BY <2>3, <2>4, <2>6 DEF StatusAfterEdit, Sent
      <3> QED
        BY <1>2, <2>2, <3>1, SoundKept
    <2>7. CASE seen[r].status \notin {"AWAITING_APPROVAL", "APPROVED"}
      <3>1. wf'[i] = wf[i] /\ wf[i].st \notin {"approved", "in_progress"}
        BY <2>1, <2>3, <2>7
      <3>2. status'[i] = status[i] \/ status'[i] \in Approvable
        BY <2>4, <2>7 DEF StatusAfterEdit, Sent
      <3> QED
        BY <1>2, <2>2, <3>1, <3>2 DEF Sound, Approvable
    <2> QED
      BY <2>5, <2>6, <2>7
  <1> QED
    BY <1>5, <1>6, <1>7, <1>8, <1>9, <1>10, <1>11

\* The steps that only read the documents.
Reads(r) ==
    \/ \E i \in Invoices, u \in Users :
        RequestApprove(r, i, u) \/ RequestSign(r, i, u) \/ RequestReject(r, i, u)
    \/ \E i \in Invoices : RequestEdit(r, i) \/ RequestExport(r, i)
    \/ GiveUp(r) \/ ReadStatus(r) \/ Initiate(r) \/ LoadSign(r) \/ SaveConfig(r)

Saves(r) ==
    \/ SaveInitiated(r) \/ SavePartial(r) \/ SaveAdvance(r) \/ SaveFinal(r)
    \/ SaveRejection(r) \/ SaveEdit(r)

Updates(r) == ApproveDirectly(r) \/ MarkExported(r) \/ Revert(r)

\* Every step is one of these.
LEMMA StepKinds ==
  [Next]_vars =>
    \/ \E r \in Requests : Reads(r) \/ Saves(r) \/ Updates(r)
    \/ \E i \in Invoices : Extract(i) \/ RetryExtraction(i) \/ Delete(i)
    \/ UNCHANGED vars
  BY DEF Next, Reads, Saves, Updates

\* These steps do not touch the documents.
LEMMA ReadsKeepDocuments ==
  ASSUME NEW r \in Requests, Reads(r)
  PROVE  UNCHANGED docVars
  BY DEF Reads, RequestApprove, RequestSign, RequestReject, RequestEdit, RequestExport,
     GiveUp, ReadStatus, Initiate, LoadSign, SaveConfig

\* An update leaves every document sound.
LEMMA SoundUpdate ==
  ASSUME IndInv, NEW i \in Invoices,
         \/ \E r \in Requests : Updates(r)
         \/ \E j \in Invoices : Extract(j) \/ RetryExtraction(j) \/ Delete(j)
  PROVE  Sound(i)'
  <1>1. TypeOK /\ HandlersHoldTheirStep /\ HandlersKnowTheWorkflow
    BY DEF IndInv
  <1>2. Sound(i)
    BY SoundDocuments DEF IndInv
  <1>3. /\ status \in [Invoices -> Statuses] /\ wf \in [Invoices -> Workflow]
        /\ approval \in [Invoices -> {"none", "direct", "workflow"}]
    BY <1>1 DEF TypeOK
  <1>4. ASSUME NEW r \in Requests, ApproveDirectly(r) PROVE Sound(i)'
    <2>1. wf' = wf /\ inv[r] \in Invoices
      BY <1>1, <1>4 DEF ApproveDirectly, HandlersHoldTheirStep, Bound, Stages
    <2>2. CASE status'[i] = status[i] /\ approval'[i] = approval[i]
      BY <1>2, <2>1, <2>2, SoundKept
    <2>3. CASE status[i] \in Approvable /\ status'[i] = "APPROVED" /\ approval'[i] = "direct"
      BY <1>2, <2>1, <2>3 DEF Sound, Approvable
    <2> QED
      BY <1>3, <1>4, <2>1, <2>2, <2>3 DEF ApproveDirectly
  <1>5. ASSUME NEW r \in Requests, MarkExported(r) PROVE Sound(i)'
    <2>1. UNCHANGED <<wf, approval>> /\ inv[r] \in Invoices /\ approval[inv[r]] # "none"
      BY <1>1, <1>5 DEF MarkExported, HandlersHoldTheirStep, HandlersKnowTheWorkflow,
         Bound, Stages
    <2>2. CASE i # inv[r]
      BY <1>2, <1>3, <1>5, <2>1, <2>2, SoundKept DEF MarkExported
    <2>3. CASE i = inv[r]
      <3>1. status'[i] = "EXPORTED"
        BY <1>3, <1>5, <2>3 DEF MarkExported
      <3> QED
        BY <1>2, <2>1, <2>3, <3>1 DEF Sound
    <2> QED
      BY <2>2, <2>3
  <1>6. ASSUME NEW r \in Requests, Revert(r) PROVE Sound(i)'
    <2>1. approval' = approval
      BY <1>6 DEF Revert
    <2>2. CASE MustReturn(i)
      <3>1. status'[i] = "NEEDS_REVIEW" /\ wf'[i].st = "none"
        BY <1>6, <2>2 DEF Revert, NoWorkflow
      <3> QED
        BY <3>1 DEF Sound
    <2>3. CASE ~MustReturn(i)
      BY <1>2, <1>6, <2>1, <2>3, SoundKept DEF Revert
    <2> QED
      BY <2>2, <2>3
  <1>7. ASSUME NEW j \in Invoices, Extract(j) \/ RetryExtraction(j) \/ Delete(j)
        PROVE  Sound(i)'
    <2>1. UNCHANGED <<wf, approval>>
      BY <1>7 DEF Extract, RetryExtraction, Delete
    <2>2. CASE status'[i] = status[i]
      BY <1>2, <2>1, <2>2, SoundKept
    <2>3. CASE /\ status[i] \notin {"APPROVED", "EXPORTED", "DELETED"}
               /\ status'[i] \in {"PARSED", "NEEDS_REVIEW", "FAILED_PARSE", "PENDING"}
      <3>1. wf[i].st # "approved" /\ wf'[i] = wf[i] /\ approval'[i] = approval[i]
        BY <1>2, <2>1, <2>3 DEF Sound
      <3>2. status[i] # "AWAITING_APPROVAL"
        BY <1>2, <1>3, <1>7, <2>3 DEF Extract, RetryExtraction, Delete, Approvable
      <3>3. wf[i].st # "in_progress"
        BY <1>2, <2>3, <3>2 DEF Sound
      <3> QED
        BY <2>3, <3>1, <3>3 DEF Sound
    <2>4. CASE status'[i] = "DELETED"
      BY <1>2, <2>1, <2>4 DEF Sound
    <2> QED
      BY <1>3, <1>7, <2>2, <2>3, <2>4 DEF Extract, RetryExtraction, Delete, Approvable
  <1> QED
    BY <1>4, <1>5, <1>6, <1>7 DEF Updates

\* Every step leaves every document sound.
LEMMA SoundStep ==
  ASSUME IndInv, [Next]_vars, NEW i \in Invoices
  PROVE  Sound(i)'
  <1>1. Sound(i)
    BY SoundDocuments DEF IndInv
  <1>2. CASE UNCHANGED docVars
    BY <1>1, <1>2, SoundKept DEF docVars
  <1>3. CASE \E r \in Requests : Reads(r)
    BY <1>2, <1>3, ReadsKeepDocuments
  <1>4. CASE \E r \in Requests : Saves(r)
    BY <1>4, SoundSave DEF Saves
  <1>5. CASE \/ \E r \in Requests : Updates(r)
             \/ \E j \in Invoices : Extract(j) \/ RetryExtraction(j) \/ Delete(j)
    BY <1>5, SoundUpdate
  <1>6. CASE UNCHANGED vars
    BY <1>2, <1>6 DEF vars
  <1> QED
    BY <1>3, <1>4, <1>5, <1>6, StepKinds

----------------------------------------------------------------------------
(***************************************************************************)
(* The invariants of the handlers.                                         *)
(***************************************************************************)
Holds(r) ==
    /\ pc[r] \in Bound => inv[r] \in Invoices
    /\ pc[r] = "initiated" =>
        /\ plan[r] \in Plans
        /\ 1 \in Orders(plan[r])
    /\ pc[r] = "signing" =>
        /\ plan[r] \in Plans
        /\ seen[r].wf.step \in Orders(plan[r])

\* A finished handler holds nothing.
LEMMA HoldsFinished ==
  ASSUME TypeOK, NEW r \in Requests, Finish(r)
  PROVE  Holds(r)'
  <1>1. pc'[r] = "idle"
    BY DEF Finish, TypeOK
  <1> QED
    BY <1>1 DEF Holds, Bound

\* A handler a step does not concern holds what it held.
LEMMA HoldsKept ==
  ASSUME NEW q \in Requests, Holds(q),
         pc'[q] = pc[q], inv'[q] = inv[q], plan'[q] = plan[q], seen'[q] = seen[q]
  PROVE  Holds(q)'
  BY DEF Holds

\* The handler that moves holds what its next stage needs.
LEMMA HoldsMoved ==
  ASSUME TypeOK, NEW r \in Requests, Holds(r), Reads(r) \/ Saves(r) \/ Updates(r)
  PROVE  Holds(r)'
  <1>1. CASE Finish(r)
    BY <1>1, HoldsFinished
  <1>2. ASSUME NEW stage \in {"read", "approve", "sign", "rejecting", "editing", "exporting"},
               NEW i \in Invoices, NEW u, Begin(r, stage, i, u)
        PROVE  Holds(r)'
    <2>1. pc'[r] = stage /\ inv'[r] = i
      BY <1>2 DEF Begin, TypeOK
    <2> QED
      BY <2>1 DEF Holds
  <1>3. CASE SaveConfig(r)
    <2>1. pc'[r] \in {"idle", "revert"}
      BY <1>3 DEF SaveConfig, Begin, TypeOK
    <2> QED
      BY <2>1 DEF Holds, Bound
  <1>4. ASSUME NEW from \in Bound, NEW to \in {"initiate", "sign", "approve"},
               Moves(r, from, to)
        PROVE  Holds(r)'
    <2>1. pc'[r] = to /\ inv'[r] = inv[r] /\ inv[r] \in Invoices
      BY <1>4 DEF Moves, TypeOK, Holds
    <2> QED
      BY <2>1 DEF Holds
  <1>5. CASE Initiate(r)
    <2>1. CASE Moves(r, "initiate", "approve")
      BY <1>4, <2>1 DEF Bound, Stages
    <2>2. CASE /\ Moves(r, "initiate", "initiated") /\ Starts(inv[r])
               /\ Loads(r, Doc(inv[r]), config.steps)
      <3>1. /\ pc'[r] = "initiated" /\ inv'[r] = inv[r] /\ inv[r] \in Invoices
            /\ plan'[r] = config.steps
        BY <2>2 DEF Moves, Loads, Doc, TypeOK, Holds, Bound, Stages
      <3>2. config.steps \in Plans /\ 1 \in Orders(config.steps)
        BY <2>2 DEF Starts, TypeOK, Config
      <3> QED
        BY <3>1, <3>2 DEF Holds
    <2> QED
      BY <1>5, <2>1, <2>2 DEF Initiate
  <1>6. CASE LoadSign(r)
    <2>1. /\ pc'[r] = "signing" /\ inv'[r] = inv[r] /\ inv[r] \in Invoices
          /\ plan'[r] = config.steps /\ seen'[r].wf.step = wf[inv[r]].step
      BY <1>6 DEF LoadSign, Moves, Loads, Doc, TypeOK, Holds, Bound, Stages
    <2>2. config.steps \in Plans /\ wf[inv[r]].step \in Orders(config.steps)
      BY <1>6 DEF LoadSign, MaySign, MayReject, Doc, TypeOK, Config
    <2> QED
      BY <2>1, <2>2 DEF Holds
  <1>7. CASE Reads(r)
    BY <1>1, <1>2, <1>3, <1>4, <1>5, <1>6, <1>7 DEF Reads, RequestApprove, RequestSign,
       RequestReject, RequestEdit, RequestExport, GiveUp, ReadStatus, Bound, Stages
  <1>8. CASE Saves(r) \/ Updates(r)
    BY <1>1, <1>4, <1>8 DEF Saves, Updates, SaveInitiated, SavePartial, SaveAdvance,
       SaveFinal, SaveRejection, SaveEdit, ApproveDirectly, MarkExported, Revert, Bound,
       Stages
  <1> QED
    BY <1>7, <1>8

\* Of the handlers, a step changes at most the one that takes it.
LEMMA OthersKept ==
  ASSUME TypeOK, NEW r \in Requests, NEW q \in Requests, q # r,
         Reads(r) \/ Saves(r) \/ Updates(r)
  PROVE  pc'[q] = pc[q] /\ inv'[q] = inv[q] /\ plan'[q] = plan[q] /\ seen'[q] = seen[q]
  <1>1. CASE Finish(r)
    BY <1>1 DEF Finish, Loads, TypeOK
  <1>2. ASSUME NEW stage, NEW i, NEW u, Begin(r, stage, i, u)
        PROVE  pc'[q] = pc[q] /\ inv'[q] = inv[q]
    BY <1>2 DEF Begin, TypeOK
  <1>3. ASSUME NEW from, NEW to, Moves(r, from, to)
        PROVE  pc'[q] = pc[q] /\ inv'[q] = inv[q]
    BY <1>3 DEF Moves, TypeOK
  <1>4. ASSUME NEW document, NEW steps, Loads(r, document, steps)
        PROVE  plan'[q] = plan[q] /\ seen'[q] = seen[q]
    BY <1>4 DEF Loads, TypeOK
  <1>5. CASE Reads(r)
    BY <1>1, <1>2, <1>3, <1>4, <1>5 DEF Reads, RequestApprove, RequestSign, RequestReject,
       RequestEdit, RequestExport, GiveUp, ReadStatus, Initiate, LoadSign, SaveConfig
  <1>6. CASE Saves(r) \/ Updates(r)
    BY <1>1, <1>3, <1>4, <1>6 DEF Saves, Updates, SaveInitiated, SavePartial, SaveAdvance,
       SaveFinal, SaveRejection, SaveEdit, ApproveDirectly, MarkExported, Revert
  <1> QED
    BY <1>5, <1>6

\* Every step leaves every handler with what its stage needs.
LEMMA HoldStep ==
  ASSUME TypeOK, HandlersHoldTheirStep, [Next]_vars
  PROVE  HandlersHoldTheirStep'
  <1>1. \A q \in Requests : Holds(q)
    BY DEF HandlersHoldTheirStep, Holds
  <1>2. ASSUME NEW q \in Requests PROVE Holds(q)'
    <2>1. ASSUME NEW r \in Requests, Reads(r) \/ Saves(r) \/ Updates(r) PROVE Holds(q)'
      <3>1. CASE q = r
        BY <1>1, <2>1, <3>1, HoldsMoved
      <3>2. CASE q # r
        BY <1>1, <2>1, <3>2, OthersKept, HoldsKept
      <3> QED
        BY <3>1, <3>2
    <2>2. CASE UNCHANGED reqVars
      BY <1>1, <2>2, HoldsKept DEF reqVars
    <2>3. CASE \E i \in Invoices : Extract(i) \/ RetryExtraction(i) \/ Delete(i)
      BY <2>2, <2>3 DEF Extract, RetryExtraction, Delete
    <2>4. CASE UNCHANGED vars
      BY <2>2, <2>4 DEF vars
    <2> QED
      BY <2>1, <2>3, <2>4, StepKinds
  <1> QED
    BY <1>2 DEF HandlersHoldTheirStep, Holds

\* No step takes back the record of an approval.
LEMMA ApprovalStays ==
  ASSUME TypeOK, [Next]_vars, NEW i \in Invoices, approval[i] # "none"
  PROVE  approval'[i] # "none"
  <1>1. ASSUME NEW r \in Requests, Reads(r) PROVE approval'[i] # "none"
    BY <1>1, ReadsKeepDocuments DEF docVars
  <1>2. ASSUME NEW r \in Requests, Saves(r) PROVE approval'[i] # "none"
    BY <1>2 DEF TypeOK, Saves, SaveInitiated, SavePartial, SaveAdvance, SaveFinal,
       SaveRejection, SaveEdit
  <1>3. ASSUME NEW r \in Requests, Updates(r) PROVE approval'[i] # "none"
    BY <1>3 DEF TypeOK, Updates, ApproveDirectly, MarkExported, Revert
  <1>4. CASE \E j \in Invoices : Extract(j) \/ RetryExtraction(j) \/ Delete(j)
    BY <1>4 DEF Extract, RetryExtraction, Delete
  <1>5. CASE UNCHANGED vars
    BY <1>5 DEF vars, docVars
  <1> QED
    BY <1>1, <1>2, <1>3, <1>4, <1>5, StepKinds

\* An edit stays current only through steps that keep the workflow of its
\* invoice or take it away.
LEMMA CurrentStays ==
  ASSUME TypeOK, HandlersHoldTheirStep, NEW r \in Requests, NEW q \in Requests, q # r,
         Reads(r) \/ Saves(r) \/ Updates(r), inv[q] \in Invoices, current'[q]
  PROVE  current[q] /\ wf'[inv[q]] \in {wf[inv[q]], NoWorkflow}
  <1>1. CASE Reads(r)
    <2>1. wf' = wf
      BY <1>1, ReadsKeepDocuments DEF docVars
    <2>2. current'[q] = current[q]
      BY <1>1 DEF Reads, RequestApprove, RequestSign, RequestReject, RequestEdit,
         RequestExport, GiveUp, ReadStatus, Initiate, LoadSign, SaveConfig, KeepsVersion,
         TypeOK
    <2> QED
      BY <2>1, <2>2
  <1>2. CASE Saves(r)
    <2>1. MovesVersion(r, inv[r])
      BY <1>2 DEF Saves, SaveInitiated, SavePartial, SaveAdvance, SaveFinal,
         SaveRejection, SaveEdit
    <2>2. current[q] /\ inv[q] # inv[r]
      BY <2>1 DEF MovesVersion
    <2>3. wf'[inv[q]] = wf[inv[q]]
      <3>1. CASE SaveEdit(r)
        BY <2>2, <3>1 DEF SaveEdit, TypeOK
      <3>2. CASE ~SaveEdit(r)
        <4>1. wf' = [wf EXCEPT ![inv[r]] = wf'[inv[r]]]
          BY <1>2, <3>2, InitiatedWorkflow, PartialWorkflow, AdvanceWorkflow,
             FinalWorkflow, RejectedWorkflow DEF Saves
        <4> QED
          BY <2>2, <4>1 DEF TypeOK
      <3> QED
        BY <3>1, <3>2
    <2> QED
      BY <2>2, <2>3
  <1>3. CASE Updates(r)
    <2>1. current'[q] = current[q]
      BY <1>3 DEF Updates, ApproveDirectly, MarkExported, Revert, KeepsVersion, TypeOK
    <2>2. wf'[inv[q]] \in {wf[inv[q]], NoWorkflow}
      BY <1>3 DEF Updates, ApproveDirectly, MarkExported, Revert
    <2> QED
      BY <2>1, <2>2
  <1> QED
    BY <1>1, <1>2, <1>3

Knows(q) ==
    /\ pc[q] = "editing" /\ current[q] =>
        /\ wf[inv[q]] \in {seen[q].wf, NoWorkflow}
        /\ wf[inv[q]].st = "approved" => seen[q].status = "APPROVED"
        /\ wf[inv[q]].st = "in_progress" => seen[q].status = "AWAITING_APPROVAL"
    /\ pc[q] = "exporting" => approval[inv[q]] # "none"

\* A handler begins to edit or export with the right knowledge.
LEMMA KnowsMoved ==
  ASSUME IndInv, NEW r \in Requests, Reads(r) \/ Saves(r) \/ Updates(r)
  PROVE  Knows(r)'
  <1>1. TypeOK
    BY DEF IndInv
  <1>2. CASE Finish(r)
    <2>1. pc'[r] = "idle"
      BY <1>1, <1>2 DEF Finish, TypeOK
    <2> QED
      BY <2>1 DEF Knows
  <1>3. ASSUME NEW stage \in Stages \ {"editing", "exporting"}, NEW i, NEW u,
               Begin(r, stage, i, u)
        PROVE  Knows(r)'
    BY <1>1, <1>3 DEF Begin, TypeOK, Knows
  <1>4. ASSUME NEW from, NEW to \in Stages \ {"editing", "exporting"}, Moves(r, from, to)
        PROVE  Knows(r)'
    BY <1>1, <1>4 DEF Moves, TypeOK, Knows
  <1>5. ASSUME NEW i \in Invoices, RequestEdit(r, i) PROVE Knows(r)'
    <2>1. /\ pc'[r] = "editing" /\ inv'[r] = i /\ wf' = wf
          /\ seen'[r].status = status[i] /\ seen'[r].wf = wf[i]
      BY <1>1, <1>5 DEF RequestEdit, Begin, Loads, Doc, docVars, TypeOK
    <2>2. /\ wf[i].st = "approved" => status[i] = "APPROVED"
          /\ wf[i].st = "in_progress" => status[i] = "AWAITING_APPROVAL"
      BY <1>5 DEF IndInv, WorkflowApprovalStands, ActiveIsAwaiting, RequestEdit
    <2> QED
      BY <2>1, <2>2 DEF Knows
  <1>6. ASSUME NEW i \in Invoices, RequestExport(r, i) PROVE Knows(r)'
    <2>1. pc'[r] = "exporting" /\ inv'[r] = i /\ approval' = approval
      BY <1>1, <1>6 DEF RequestExport, Begin, docVars, TypeOK
    <2>2. approval[i] # "none"
      BY <1>6 DEF IndInv, ExportedWasApproved, RequestExport, Exportable
    <2> QED
      BY <2>1, <2>2 DEF Knows
  <1>7. CASE Reads(r)
    BY <1>2, <1>3, <1>4, <1>5, <1>6, <1>7 DEF Reads, RequestApprove, RequestSign,
       RequestReject, GiveUp, ReadStatus, Initiate, LoadSign, SaveConfig, Stages
  <1>8. CASE Saves(r) \/ Updates(r)
    BY <1>2, <1>4, <1>8 DEF Saves, Updates, SaveInitiated, SavePartial, SaveAdvance,
       SaveFinal, SaveRejection, SaveEdit, ApproveDirectly, MarkExported, Revert, Stages
  <1> QED
    BY <1>7, <1>8

\* Every step leaves the handlers with the right knowledge.
LEMMA KnowStep ==
  ASSUME IndInv, [Next]_vars
  PROVE  HandlersKnowTheWorkflow'
  <1>1. TypeOK /\ HandlersHoldTheirStep
    BY DEF IndInv
  <1>2. ASSUME NEW q \in Requests PROVE Knows(q)'
    <2>1. Knows(q)
      BY DEF IndInv, HandlersKnowTheWorkflow, Knows
    <2>2. pc[q] \in {"editing", "exporting"} => inv[q] \in Invoices
      BY <1>1 DEF HandlersHoldTheirStep, Bound, Stages
    <2>3. ASSUME NEW r \in Requests, Reads(r) \/ Saves(r) \/ Updates(r) PROVE Knows(q)'
      <3>1. CASE q = r
        BY <2>3, <3>1, KnowsMoved
      <3>2. CASE q # r
        <4>1. pc'[q] = pc[q] /\ inv'[q] = inv[q] /\ seen'[q] = seen[q]
          BY <1>1, <2>3, <3>2, OthersKept
        <4>2. ASSUME pc[q] = "editing", current'[q]
              PROVE  /\ wf'[inv[q]] \in {seen[q].wf, NoWorkflow}
                     /\ wf'[inv[q]].st = "approved" => seen[q].status = "APPROVED"
                     /\ wf'[inv[q]].st = "in_progress" => seen[q].status = "AWAITING_APPROVAL"
          <5>1. current[q] /\ wf'[inv[q]] \in {wf[inv[q]], NoWorkflow}
            BY <1>1, <2>2, <2>3, <3>2, <4>2, CurrentStays
          <5>2. NoWorkflow.st = "none"
            BY DEF NoWorkflow
          <5> QED
            BY <2>1, <4>2, <5>1, <5>2 DEF Knows
        <4>3. pc[q] = "exporting" => approval'[inv[q]] # "none"
          BY <1>1, <2>1, <2>2, ApprovalStays DEF Knows
        <4> QED
          BY <4>1, <4>2, <4>3 DEF Knows
      <3> QED
        BY <3>1, <3>2
    <2>4. CASE UNCHANGED <<wf, approval, reqVars, current>>
      BY <2>1, <2>4 DEF Knows, reqVars
    <2>5. CASE \E i \in Invoices : Extract(i) \/ RetryExtraction(i) \/ Delete(i)
      BY <2>4, <2>5 DEF Extract, RetryExtraction, Delete
    <2>6. CASE UNCHANGED vars
      BY <2>4, <2>6 DEF vars, docVars
    <2> QED
      BY <2>3, <2>5, <2>6, StepKinds
  <1> QED
    BY <1>2 DEF HandlersKnowTheWorkflow, Knows

----------------------------------------------------------------------------
\* The conjunction IndInv holds in every reachable state: each of its parts
\* is preserved by every step.
THEOREM Invariance == Spec => []IndInv
  <1>1. Init => IndInv
    BY InitInv
  <1>2. IndInv /\ [Next]_vars => IndInv'
    <2> SUFFICES ASSUME IndInv, [Next]_vars PROVE IndInv'
      OBVIOUS
    <2>1. TypeOK'
      BY TypeStep DEF IndInv
    <2>2. HandlersHoldTheirStep'
      BY HoldStep DEF IndInv
    <2>3. HandlersKnowTheWorkflow'
      BY KnowStep
    <2>4. /\ AwaitingHasActiveWorkflow' /\ WorkflowApprovalStands'
          /\ ExportedWasApproved' /\ NoStepIsJumped' /\ ActiveIsAwaiting'
      <3>1. \A i \in Invoices : Sound(i)'
        BY SoundStep
      <3> QED
        BY <3>1 DEF Sound, AwaitingHasActiveWorkflow, WorkflowApprovalStands,
           ExportedWasApproved, NoStepIsJumped, ActiveIsAwaiting
    <2> QED
      BY <2>1, <2>2, <2>3, <2>4 DEF IndInv
  <1> QED
    BY <1>1, <1>2, PTL DEF Spec

\* Every variable keeps its type, whatever requests race.
THEOREM TypeCorrect == Spec => []TypeOK
  <1>1. IndInv => TypeOK
    BY DEF IndInv
  <1> QED
    BY <1>1, Invariance, PTL

\* An invoice that awaits approval can be signed or rejected.
THEOREM AwaitingIsActive == Spec => []AwaitingHasActiveWorkflow
  <1>1. IndInv => AwaitingHasActiveWorkflow
    BY DEF IndInv
  <1> QED
    BY <1>1, Invariance, PTL

\* A completed workflow is never contradicted by the status.
THEOREM CompletionStands == Spec => []WorkflowApprovalStands
  <1>1. IndInv => WorkflowApprovalStands
    BY DEF IndInv
  <1> QED
    BY <1>1, Invariance, PTL

\* Nothing is exported that nobody approved.
THEOREM ExportsAreApproved == Spec => []ExportedWasApproved
  <1>1. IndInv => ExportedWasApproved
    BY DEF IndInv
  <1> QED
    BY <1>1, Invariance, PTL

\* A workflow gets to no step over one that was neither signed nor skipped.
THEOREM StepsInOrder == Spec => []NoStepIsJumped
  <1>1. IndInv => NoStepIsJumped
    BY DEF IndInv
  <1> QED
    BY <1>1, Invariance, PTL

\* An edit never takes an invoice its workflow approved out of APPROVED.
THEOREM EditsRespectApproval == Spec => EditKeepsWorkflowApproval
  <1>1. ASSUME IndInv, [Next]_vars, NEW r \in Requests, SaveEdit(r),
               status[inv[r]] = "APPROVED", wf[inv[r]].st = "approved"
        PROVE  status'[inv[r]] = "APPROVED"
    <2>1. seen[r].status = "APPROVED"
      BY <1>1 DEF IndInv, HandlersKnowTheWorkflow, SaveEdit, MaySaveEdit
    <2>2. inv[r] \in Invoices /\ status \in [Invoices -> Statuses]
      BY <1>1 DEF IndInv, HandlersHoldTheirStep, Bound, Stages, SaveEdit, TypeOK
    <2> QED
      BY <1>1, <2>1, <2>2 DEF SaveEdit, StatusAfterEdit, Sent
  <1>2. IndInv /\ [Next]_vars =>
          [\A r \in Requests :
            SaveEdit(r) /\ status[inv[r]] = "APPROVED" /\ wf[inv[r]].st = "approved" =>
                status'[inv[r]] = "APPROVED"]_vars
    BY <1>1
  <1> QED
    BY <1>2, Invariance, PTL DEF Spec, EditKeepsWorkflowApproval

\* What a step that saves an edit knows of the workflow it may take away.
LEMMA EditKnows ==
  ASSUME IndInv, NEW r \in Requests, SaveEdit(r)
  PROVE  /\ inv[r] \in Invoices
         /\ wf[inv[r]] \in {seen[r].wf, NoWorkflow}
         /\ wf[inv[r]].st = "in_progress" => seen[r].status = "AWAITING_APPROVAL"
  BY DEF IndInv, HandlersKnowTheWorkflow, HandlersHoldTheirStep, Bound, Stages, SaveEdit,
     MaySaveEdit

\* No change of an amount leaves a workflow in progress.
THEOREM AmountsRestart == Spec => NewAmountRestarts
  <1>1. ASSUME IndInv, [Next]_vars, NEW i \in Invoices, amount'[i] # amount[i]
        PROVE  wf'[i].st # "in_progress"
    <2> USE <1>1
    <2>1. TypeOK /\ ActiveIsAwaiting
      BY DEF IndInv
    <2>2. CASE \E j \in Invoices : Extract(j) \/ RetryExtraction(j) \/ Delete(j)
      <3>1. PICK j \in Invoices : Extract(j)
        BY <2>2 DEF RetryExtraction, Delete
      <3>2. i = j /\ wf' = wf /\ status[i] \in {"PENDING", "FAILED_PARSE"}
        BY <2>1, <3>1 DEF Extract, TypeOK
      <3> QED
        BY <2>1, <3>2 DEF ActiveIsAwaiting
    <2>3. CASE \E r \in Requests : Reads(r)
      BY <2>3, ReadsKeepDocuments DEF docVars
    <2>4. CASE \E r \in Requests : Updates(r)
      BY <2>4 DEF Updates, ApproveDirectly, MarkExported, Revert
    <2>5. ASSUME NEW r \in Requests, Saves(r) PROVE wf'[i].st # "in_progress"
      <3>1. SaveEdit(r)
        BY <2>5 DEF Saves, SaveInitiated, SavePartial, SaveAdvance, SaveFinal, SaveRejection
      <3>2. i = inv[r]
        BY <2>1, <3>1, EditKnows DEF SaveEdit, TypeOK
      <3>3. wf'[i] = IF seen[r].status = "AWAITING_APPROVAL" THEN NoWorkflow ELSE wf[i]
        BY <2>1, <3>1, <3>2 DEF SaveEdit, TypeOK
      <3> QED
        BY <3>1, <3>2, <3>3, EditKnows DEF NoWorkflow
    <2>6. CASE UNCHANGED vars
      BY <2>6 DEF vars, docVars
    <2> QED
      BY <2>2, <2>3, <2>4, <2>5, <2>6, StepKinds
  <1>2. IndInv /\ [Next]_vars =>
          [\A i \in Invoices : amount'[i] # amount[i] => wf'[i].st # "in_progress"]_vars
    BY <1>1
  <1> QED
    BY <1>2, Invariance, PTL DEF Spec, NewAmountRestarts

\* An edit takes away no result it has not seen.
THEOREM EditsDropWhatTheySaw == Spec => EditDropsOnlyWhatItSaw
  <1>1. ASSUME IndInv, NEW r \in Requests, SaveEdit(r)
        PROVE  wf[inv[r]].results \in {<<>>, seen[r].wf.results}
    BY <1>1, EditKnows DEF NoWorkflow
  <1>2. IndInv /\ [Next]_vars =>
          [\A r \in Requests :
            SaveEdit(r) /\ wf' # wf => wf[inv[r]].results \in {<<>>, seen[r].wf.results}]_vars
    BY <1>1
  <1> QED
    BY <1>2, Invariance, PTL DEF Spec, EditDropsOnlyWhatItSaw
=============================================================================
