-------------------------- MODULE TdsLedger_proofs --------------------------
(***************************************************************************)
(* Proofs about TdsLedger, for any vendors, invoices, amounts, thresholds, *)
(* rate and cap, and any number of handlers.                               *)
(***************************************************************************)
EXTENDS TdsLedger, TLAPS, SequenceTheorems, Sums_proofs

\* A ledger that does not exist is a ledger of no entries.
LEMMA NoLedgerType == NoLedger \in Ledger
  <1>1. <<>> \in Seq(Entry)
    BY EmptySeq
  <1> QED
    BY <1>1 DEF NoLedger, Ledger

\* The tax due on a base is a natural number.
LEMMA DueType == ASSUME NEW base \in Nat PROVE Due(base) \in Nat
  <1>1. base * RateBps \in Nat
    BY LedgerAssumption
  <1>2. \A n \in Nat : (n + 5000) \div 10000 \in Nat
    OBVIOUS
  <1> QED
    BY <1>1, <1>2 DEF Due

\* The deduction is an amount; a catch-up may be negative.
LEMMA DeductionType ==
  ASSUME NEW before \in View, NEW amount \in Nat
  PROVE  Deduction(before, amount) \in Int
  <1>1. before.base \in Nat /\ before.tds \in Int
    BY DEF View
  <1>2. Due(before.base + amount) \in Nat /\ Due(amount) \in Nat
    BY <1>1, DueType
  <1> QED
    BY <1>1, <1>2 DEF Deduction

\* A recording leaves a ledger.
LEMMA RecordedType ==
  ASSUME NEW doc \in Ledger, NEW entry \in Entry, NEW crosses \in BOOLEAN
  PROVE  Recorded(doc, entry, crosses) \in Ledger
  <1>1. Append(doc.entries, entry) \in Seq(Entry)
    BY AppendProperties DEF Ledger
  <1> QED
    BY <1>1 DEF Recorded, Ledger, Entry

\* A merge leaves a ledger.
LEMMA ConsolidatedType ==
  ASSUME NEW target \in Ledger, NEW source \in Ledger
  PROVE  Consolidated(target, source) \in Ledger
  <1>1. target.entries \o source.entries \in Seq(Entry)
    BY ConcatProperties DEF Ledger
  <1> QED
    BY <1>1 DEF Consolidated, Ledger

\* A split cuts a list of entries into two.
LEMMA SplitType ==
  ASSUME NEW s \in Seq(Entry), Len(s) > Cap
  PROVE  Kept(s) \in Seq(Entry) /\ Overflow(s) \in Seq(Entry)
  <1>1. Cap \in Nat /\ Cap >= 1 /\ Len(s) \in Nat
    BY LedgerAssumption, LenProperties
  <1>2. SubSeq(s, 1, Cap) \in Seq(Entry)
    BY <1>1, SubSeqProperties
  <1>3. SubSeq(s, Cap + 1, Len(s)) \in Seq(Entry)
    BY <1>1, SubSeqProperties
  <1> QED
    BY <1>2, <1>3 DEF Kept, Overflow

\* The initial state satisfies every part of the invariant.
LEMMA InitInv == Init => IndInv
  <1> SUFFICES ASSUME Init PROVE IndInv
    OBVIOUS
  <1>1. TypeOK
    <2>1. <<>> \in Seq(Entry) /\ ZeroView \in View
      BY EmptySeq DEF ZeroView, View
    <2> QED
      BY <2>1, NoLedgerType, LedgerAssumption DEF Init, TypeOK, Stages
  <1>2. HandlersHoldTheirWork
    BY DEF Init, HandlersHoldTheirWork, NoLedger
  <1>3. ViewsAreOld
    BY DEF Init, ViewsAreOld, NoLedger
  <1>4. CrossedIsTrue
    BY DEF Init, CrossedIsTrue, NoLedger
  <1> QED
    BY <1>1, <1>2, <1>3, <1>4 DEF IndInv

----------------------------------------------------------------------------
\* The end of a handler keeps the types of what belongs to handlers.
LEMMA FinishType ==
  ASSUME TypeOK, NEW r \in Requests, Finish(r)
  PROVE  /\ pc'   \in [Requests -> Stages]
         /\ inv'  \in [Requests -> Invoices \union {NoInvoice}]
         /\ key'  \in [Requests -> Vendors \union {NoVendor}]
         /\ view' \in [Requests -> View]
         /\ held' \in [Requests -> Ledger]
         /\ runs' \in 0 .. MaxRuns
  <1>1. ZeroView \in View
    BY DEF ZeroView, View
  <1> QED
    BY <1>1, NoLedgerType DEF Finish, TypeOK, Stages

\* What is lost was an entry, and what vanished was counted.
LEMMA LosesType ==
  ASSUME TypeOK, NEW doc \in Ledger, Loses(doc)
  PROVE  /\ lost' \subseteq Entry
         /\ gone' \in [base : Nat, tds : Int, count : Nat]
  <1>1. \A n \in DOMAIN doc.entries : doc.entries[n] \in Entry
    BY ElementOfSeq DEF Ledger
  <1>2. lost' \subseteq Entry
    BY <1>1 DEF Loses, TypeOK
  <1>3. gone' \in [base : Nat, tds : Int, count : Nat]
    BY DEF Loses, TypeOK, Ledger
  <1> QED
    BY <1>2, <1>3

\* Every step of the specification preserves the types.
LEMMA TypeStep ==
  ASSUME TypeOK, HandlersHoldTheirWork, [Next]_vars
  PROVE  TypeOK'
  <1> USE LedgerAssumption
  <1>1. ASSUME NEW r \in Requests, ReadLedger(r)
        PROVE  TypeOK'
    <2>1. ViewOf(ledger[key[r]]) \in View
      BY <1>1 DEF ReadLedger, Moves, HandlersHoldTheirWork, TypeOK, ViewOf, View, Ledger
    <2>2. pc' \in [Requests -> Stages] /\ UNCHANGED <<inv, key, runs>>
      BY <1>1 DEF ReadLedger, Moves, TypeOK, Stages
    <2> QED
      BY <1>1, <2>1, <2>2 DEF ReadLedger, TypeOK, docVars, auxVars
  <1>2. ASSUME NEW r \in Requests, ReadArchive(r)
        PROVE  TypeOK'
    <2>1. ViewOf(archive[key[r]]) \in View
      BY <1>2 DEF ReadArchive, Moves, HandlersHoldTheirWork, TypeOK, ViewOf, View, Ledger
    <2>2. pc' \in [Requests -> Stages] /\ UNCHANGED <<inv, key, runs>>
      BY <1>2 DEF ReadArchive, Moves, TypeOK, Stages
    <2> QED
      BY <1>2, <2>1, <2>2 DEF ReadArchive, TypeOK, docVars, auxVars
  <1>3. ASSUME NEW r \in Requests, Record(r)
        PROVE  TypeOK'
    <2> DEFINE a == Amount[inv[r]]
               e == [id |-> recorded + 1, base |-> a, tds |-> Deduction(view[r], a)]
    <2>1. key[r] \in Vendors /\ a \in Nat /\ view[r] \in View
      BY <1>3 DEF Record, HandlersHoldTheirWork, TypeOK
    <2>2. e \in Entry
      BY <2>1, DeductionType DEF Entry, TypeOK
    <2>3. Crosses(view[r], a) \in BOOLEAN
      BY DEF Crosses
    <2>4. Recorded(ledger[key[r]], e, Crosses(view[r], a)) \in Ledger
      BY <2>1, <2>2, <2>3, RecordedType DEF TypeOK
    <2>5. ledger' \in [Vendors -> Ledger] /\ recorded' \in Nat
      BY <1>3, <2>1, <2>4 DEF Record, TypeOK
    <2>6. /\ pc'   \in [Requests -> Stages]
          /\ inv'  \in [Requests -> Invoices \union {NoInvoice}]
          /\ key'  \in [Requests -> Vendors \union {NoVendor}]
          /\ view' \in [Requests -> View]
          /\ held' \in [Requests -> Ledger]
          /\ runs' \in 0 .. MaxRuns
      <3>1. CASE Finish(r)
        BY <3>1, FinishType
      <3>2. CASE Moves(r, "record", "cut") /\ UNCHANGED <<view, held>>
        BY <3>2 DEF Moves, TypeOK, Stages
      <3> QED
        BY <1>3, <3>1, <3>2 DEF Record
    <2> QED
      BY <1>3, <2>5, <2>6 DEF Record, TypeOK
  <1>4. ASSUME NEW r \in Requests, CutEntries(r)
        PROVE  TypeOK'
    <2>1. CASE Finish(r) /\ UNCHANGED ledger
      BY <1>4, <2>1, FinishType DEF CutEntries, TypeOK, auxVars
    <2>2. CASE /\ Moves(r, "cut", "page")
               /\ Len(ledger[key[r]].entries) > Cap
               /\ held' = [held EXCEPT ![r].entries = Overflow(ledger[key[r]].entries)]
               /\ ledger' = [ledger EXCEPT ![key[r]].entries = Kept(@)]
               /\ UNCHANGED view
      <3>1. key[r] \in Vendors
        BY <2>2 DEF Moves, HandlersHoldTheirWork
      <3>2. ledger[key[r]] \in Ledger /\ held[r] \in Ledger
        BY <3>1 DEF TypeOK
      <3>3. /\ Kept(ledger[key[r]].entries) \in Seq(Entry)
            /\ Overflow(ledger[key[r]].entries) \in Seq(Entry)
        BY <2>2, <3>2, SplitType DEF Ledger
      <3>4. ledger' \in [Vendors -> Ledger]
        BY <2>2, <3>1, <3>2, <3>3 DEF TypeOK, Ledger
      <3>5. held' \in [Requests -> Ledger]
        BY <2>2, <3>2, <3>3 DEF TypeOK, Ledger
      <3> QED
        BY <1>4, <2>2, <3>4, <3>5 DEF CutEntries, Moves, TypeOK, Stages, auxVars
    <2> QED
      BY <1>4, <2>1, <2>2 DEF CutEntries
  <1>5. ASSUME NEW r \in Requests, SavePage(r)
        PROVE  TypeOK'
    <2>1. key[r] \in Vendors
      BY <1>5 DEF SavePage, HandlersHoldTheirWork
    <2>2. pages[key[r]] \o held[r].entries \in Seq(Entry)
      BY <2>1, ConcatProperties DEF TypeOK, Ledger
    <2>3. pages' \in [Vendors -> Seq(Entry)]
      BY <1>5, <2>1, <2>2 DEF SavePage, TypeOK
    <2> QED
      BY <1>5, <2>3, FinishType DEF SavePage, TypeOK, auxVars
  <1>6. ASSUME NEW r \in Requests, SaveArchive(r)
        PROVE  TypeOK'
    <2>1. key[r] \in Vendors /\ held[r] \in Ledger
      BY <1>6 DEF SaveArchive, HandlersHoldTheirWork, TypeOK
    <2>2. archive' \in [Vendors -> Ledger]
      BY <1>6, <2>1 DEF SaveArchive, TypeOK
    <2>3. Finish(r) /\ Loses(archive[key[r]])
      BY <1>6 DEF SaveArchive
    <2> QED
      BY <1>6, <2>1, <2>2, <2>3, FinishType, LosesType DEF SaveArchive, TypeOK
  <1>7. ASSUME NEW r \in Requests, GiveUp(r)
        PROVE  TypeOK'
    <2>1. held[r] \in Ledger
      BY DEF TypeOK
    <2>2. Finish(r) /\ Loses(held[r])
      BY <1>7 DEF GiveUp
    <2> QED
      BY <1>7, <2>1, <2>2, FinishType, LosesType DEF GiveUp, TypeOK, docVars
  <1>8. ASSUME NEW r \in Requests, NEW i \in Invoices, RequestTds(r, i)
        PROVE  TypeOK'
    BY <1>8 DEF RequestTds, Begin, TypeOK, Stages, docVars, auxVars
  <1>9. ASSUME NEW r \in Requests, NEW v \in Vendors, TakeLedger(r, v)
        PROVE  TypeOK'
    BY <1>9, NoLedgerType DEF TakeLedger, Begin, TypeOK, Stages, auxVars
  <1>10. ASSUME NEW source \in Vendors, NEW target \in Vendors,
                MergeVendors(source, target)
         PROVE  TypeOK'
    <2>1. Consolidated(ledger[target], ledger[source]) \in Ledger
      BY ConsolidatedType DEF TypeOK
    <2>2. ledger' \in [Vendors -> Ledger]
      BY <1>10, <2>1, NoLedgerType DEF MergeVendors, TypeOK
    <2>3. vendor' \in [Invoices -> Vendors] /\ merged' \subseteq Vendors
      BY <1>10 DEF MergeVendors, TypeOK
    <2> QED
      BY <1>10, <2>2, <2>3 DEF MergeVendors, TypeOK, reqVars, auxVars
  <1>11. CASE UNCHANGED vars
    BY <1>11 DEF vars, docVars, reqVars, auxVars, TypeOK
  <1> QED
    BY <1>1, <1>2, <1>3, <1>4, <1>5, <1>6, <1>7, <1>8, <1>9, <1>10, <1>11
       DEF Next, Handler

----------------------------------------------------------------------------
\* A handler that ends holds nothing, and the others hold what they held.
LEMMA FinishHandlers ==
  ASSUME TypeOK, HandlersHoldTheirWork, NEW r \in Requests, Finish(r)
  PROVE  HandlersHoldTheirWork'
  BY DEF Finish, HandlersHoldTheirWork, TypeOK, NoLedger

\* Every step keeps what handlers know of their own work.
LEMMA HandlersStep ==
  ASSUME TypeOK, HandlersHoldTheirWork, [Next]_vars
  PROVE  HandlersHoldTheirWork'
  <1>1. ASSUME NEW r \in Requests, ReadLedger(r)
        PROVE  HandlersHoldTheirWork'
    BY <1>1 DEF ReadLedger, Moves, HandlersHoldTheirWork, TypeOK
  <1>2. ASSUME NEW r \in Requests, ReadArchive(r)
        PROVE  HandlersHoldTheirWork'
    BY <1>2 DEF ReadArchive, Moves, HandlersHoldTheirWork, TypeOK
  <1>3. ASSUME NEW r \in Requests, Record(r)
        PROVE  HandlersHoldTheirWork'
    <2>1. CASE Finish(r)
      BY <2>1, FinishHandlers
    <2>2. CASE Moves(r, "record", "cut") /\ UNCHANGED <<view, held>>
      BY <2>2 DEF Moves, HandlersHoldTheirWork, TypeOK
    <2> QED
      BY <1>3, <2>1, <2>2 DEF Record
  <1>4. ASSUME NEW r \in Requests, CutEntries(r)
        PROVE  HandlersHoldTheirWork'
    <2>1. CASE Finish(r)
      BY <2>1, FinishHandlers
    <2>2. CASE /\ Moves(r, "cut", "page")
               /\ held' = [held EXCEPT ![r].entries = Overflow(ledger[key[r]].entries)]
      BY <2>2 DEF Moves, HandlersHoldTheirWork, TypeOK
    <2> QED
      BY <1>4, <2>1, <2>2 DEF CutEntries
  <1>5. ASSUME NEW r \in Requests, SavePage(r) \/ SaveArchive(r) \/ GiveUp(r)
        PROVE  HandlersHoldTheirWork'
    BY <1>5, FinishHandlers DEF SavePage, SaveArchive, GiveUp
  <1>6. ASSUME NEW r \in Requests, NEW i \in Invoices, RequestTds(r, i)
        PROVE  HandlersHoldTheirWork'
    BY <1>6 DEF RequestTds, Begin, HandlersHoldTheirWork, TypeOK
  <1>7. ASSUME NEW r \in Requests, NEW v \in Vendors, TakeLedger(r, v)
        PROVE  HandlersHoldTheirWork'
    BY <1>7 DEF TakeLedger, Begin, HandlersHoldTheirWork, TypeOK
  <1>8. CASE UNCHANGED reqVars
    BY <1>8 DEF reqVars, HandlersHoldTheirWork
  <1> QED
    BY <1>1, <1>2, <1>3, <1>4, <1>5, <1>6, <1>7, <1>8
       DEF Next, Handler, MergeVendors, vars

----------------------------------------------------------------------------
\* Only a handler that archives holds a ledger.
LEMMA HoldsNoLedger ==
  ASSUME TypeOK, HandlersHoldTheirWork, NEW r \in Requests, pc[r] # "archive"
  PROVE  held[r].count = 0
  <1>1. ~(held[r].count > 0)
    BY DEF HandlersHoldTheirWork
  <1>2. held[r].count \in Nat
    BY DEF TypeOK, Ledger
  <1> QED
    BY <1>1, <1>2

\* A step that neither records nor touches archives, and starts no recording,
\* keeps crossings true.
LEMMA KeepsCrossings ==
  ASSUME TypeOK, TypeOK', HandlersHoldTheirWork, ViewsAreOld, CrossedIsTrue,
         Untouched' => Untouched, archive' = archive,
         \A v \in Vendors : /\ ledger'[v].base = ledger[v].base
                            /\ ledger'[v].crossed = ledger[v].crossed,
         \A r \in Requests : pc'[r] = "record" => /\ pc[r] = "record"
                                                  /\ view'[r] = view[r]
                                                  /\ key'[r] = key[r]
  PROVE  ViewsAreOld' /\ CrossedIsTrue'
  <1>1. CrossedIsTrue'
    BY DEF CrossedIsTrue
  <1>2. ASSUME NEW r \in Requests, pc'[r] = "record", Untouched'
        PROVE  view'[r].base <= ledger'[key'[r]].base
    <2>1. key[r] \in Vendors /\ pc[r] = "record"
      BY <1>2 DEF HandlersHoldTheirWork
    <2> QED
      BY <1>2, <2>1 DEF ViewsAreOld
  <1> QED
    BY <1>1, <1>2 DEF ViewsAreOld

\* A handler that ends without having held a ledger touched nothing.
LEMMA FinishTouchesNothing ==
  ASSUME TypeOK, NEW r \in Requests, held[r].count = 0, Finish(r),
         merged' = merged, archive' = archive, gone'.count = gone.count
  PROVE  Untouched' => Untouched
  BY DEF Finish, Untouched, TypeOK

\* Every step keeps crossings true.
LEMMA CrossingStep ==
  ASSUME TypeOK, TypeOK', HandlersHoldTheirWork, ViewsAreOld, CrossedIsTrue, [Next]_vars
  PROVE  ViewsAreOld' /\ CrossedIsTrue'
  <1>1. ASSUME NEW r \in Requests, ReadLedger(r)
        PROVE  ViewsAreOld' /\ CrossedIsTrue'
    <2>1. Untouched' <=> Untouched
      BY <1>1 DEF ReadLedger, docVars, auxVars, Untouched
    <2>2. CrossedIsTrue'
      BY <1>1, <2>1 DEF ReadLedger, docVars, CrossedIsTrue
    <2>3. ASSUME NEW q \in Requests, pc'[q] = "record", Untouched'
          PROVE  view'[q].base <= ledger'[key'[q]].base
      <3>1. key'[q] = key[q] /\ ledger' = ledger /\ ledger[key[r]].base \in Nat
        BY <1>1 DEF ReadLedger, Moves, docVars, HandlersHoldTheirWork, TypeOK, Ledger
      <3>2. CASE q = r
        BY <1>1, <3>1, <3>2 DEF ReadLedger, ViewOf, TypeOK
      <3>3. CASE q # r
        BY <1>1, <2>1, <2>3, <3>1, <3>3 DEF ReadLedger, Moves, TypeOK, ViewsAreOld
      <3> QED
        BY <3>2, <3>3
    <2> QED
      BY <1>1, <2>2, <2>3 DEF ReadLedger, docVars, ViewsAreOld
  <1>2. ASSUME NEW r \in Requests, ReadArchive(r)
        PROVE  ViewsAreOld' /\ CrossedIsTrue'
    <2>1. Untouched' <=> Untouched
      BY <1>2 DEF ReadArchive, docVars, auxVars, Untouched
    <2>2. CrossedIsTrue'
      BY <1>2, <2>1 DEF ReadArchive, docVars, CrossedIsTrue
    <2>3. ASSUME NEW q \in Requests, pc'[q] = "record", Untouched'
          PROVE  view'[q].base <= ledger'[key'[q]].base
      <3>1. key'[q] = key[q] /\ ledger' = ledger /\ key[r] \in Vendors
        BY <1>2 DEF ReadArchive, Moves, docVars, HandlersHoldTheirWork
      <3>2. CASE q = r
        <4>1. archive[key[r]].base = 0
          BY <2>1, <2>3, <3>1 DEF Untouched, ViewsAreOld
        <4>2. ledger[key[r]].base \in Nat
          BY <3>1 DEF TypeOK, Ledger
        <4> QED
          BY <1>2, <3>1, <3>2, <4>1, <4>2 DEF ReadArchive, ViewOf, TypeOK
      <3>3. CASE q # r
        BY <1>2, <2>1, <2>3, <3>1, <3>3 DEF ReadArchive, Moves, TypeOK, ViewsAreOld
      <3> QED
        BY <3>2, <3>3
    <2> QED
      BY <1>2, <2>2, <2>3 DEF ReadArchive, docVars, ViewsAreOld
  <1>3. ASSUME NEW r \in Requests, Record(r)
        PROVE  ViewsAreOld' /\ CrossedIsTrue'
    <2> DEFINE v == key[r]
               a == Amount[inv[r]]
    <2>1. /\ v \in Vendors /\ a \in Nat /\ view[r].base \in Nat
          /\ ledger[v].base \in Nat /\ ledger[v].crossed \in BOOLEAN /\ held[r].count = 0
      <3>1. pc[r] = "record"
        BY <1>3 DEF Record
      <3>2. v \in Vendors /\ inv[r] \in Invoices
        BY <3>1 DEF HandlersHoldTheirWork
      <3>3. ledger[v] \in Ledger /\ view[r] \in View
        BY <3>2 DEF TypeOK
      <3>4. a \in Nat
        BY <3>2, LedgerAssumption
      <3> QED
        BY <3>1, <3>2, <3>3, <3>4, HoldsNoLedger DEF Ledger, View
    <2>2. Untouched' => Untouched
      <3>1. CASE Finish(r)
        BY <1>3, <2>1, <3>1, FinishTouchesNothing DEF Record
      <3>2. CASE UNCHANGED held
        BY <1>3, <3>2 DEF Record, Untouched
      <3> QED
        BY <1>3, <3>1, <3>2 DEF Record
    <2>3. /\ ledger'[v].base = ledger[v].base + a
          /\ ledger'[v].crossed = (ledger[v].crossed \/ Crosses(view[r], a))
          /\ \A w \in Vendors \ {v} : ledger'[w] = ledger[w]
      BY <1>3, <2>1 DEF Record, Recorded, TypeOK
    <2>4. Untouched' => view[r].base <= ledger[v].base
      BY <1>3, <2>2 DEF Record, ViewsAreOld
    <2>5. Untouched' => (ledger'[v].crossed => ledger'[v].base > Threshold)
      <3>1. Crosses(view[r], a) => view[r].base + a > Threshold
        BY DEF Crosses
      <3> QED
        BY <2>1, <2>2, <2>3, <2>4, <3>1, LedgerAssumption DEF CrossedIsTrue
    <2>6. CrossedIsTrue'
      BY <2>2, <2>3, <2>5 DEF CrossedIsTrue
    <2>7. ASSUME NEW q \in Requests, pc'[q] = "record", Untouched'
          PROVE  view'[q].base <= ledger'[key'[q]].base
      <3>1. q # r /\ pc[q] = "record" /\ key'[q] = key[q] /\ view'[q] = view[q]
        BY <1>3, <2>7 DEF Record, Finish, Moves, TypeOK
      <3>2. key[q] \in Vendors
        BY <3>1 DEF HandlersHoldTheirWork
      <3>3. view[q].base \in Nat /\ ledger[key[q]].base \in Nat
        BY <3>2 DEF TypeOK, View, Ledger
      <3>4. view[q].base <= ledger[key[q]].base
        BY <2>2, <2>7, <3>1 DEF ViewsAreOld
      <3> QED
        BY <2>1, <2>3, <3>1, <3>2, <3>3, <3>4
    <2> QED
      BY <1>3, <2>6, <2>7 DEF Record, ViewsAreOld
  <1>4. ASSUME NEW r \in Requests, CutEntries(r)
        PROVE  ViewsAreOld' /\ CrossedIsTrue'
    <2>1. pc[r] = "cut" /\ key[r] \in Vendors /\ held[r].count = 0
      <3>1. pc[r] = "cut"
        BY <1>4 DEF CutEntries, Moves
      <3> QED
        BY <3>1, HoldsNoLedger DEF HandlersHoldTheirWork
    <2>2. archive' = archive /\ merged' = merged /\ gone' = gone
      BY <1>4 DEF CutEntries, auxVars
    <2>3. \A v \in Vendors : /\ ledger'[v].base = ledger[v].base
                             /\ ledger'[v].crossed = ledger[v].crossed
      <3>1. CASE ledger' = ledger
        BY <3>1
      <3>2. CASE ledger' = [ledger EXCEPT ![key[r]].entries = Kept(@)]
        <4>1. ledger[key[r]] \in Ledger
          BY <2>1 DEF TypeOK
        <4>2. /\ ledger'[key[r]].base = ledger[key[r]].base
              /\ ledger'[key[r]].crossed = ledger[key[r]].crossed
          BY <2>1, <3>2, <4>1 DEF TypeOK, Ledger
        <4> QED
          BY <2>1, <3>2, <4>2 DEF TypeOK
      <3> QED
        BY <1>4, <3>1, <3>2 DEF CutEntries
    <2>4. \A q \in Requests : pc'[q] = "record" => /\ pc[q] = "record"
                                                   /\ view'[q] = view[q]
                                                   /\ key'[q] = key[q]
      BY <1>4 DEF CutEntries, Moves, Finish, TypeOK
    <2>5. Untouched' => Untouched
      <3>1. CASE Finish(r)
        BY <2>1, <2>2, <3>1, FinishTouchesNothing
      <3>2. CASE held' = [held EXCEPT ![r].entries = Overflow(ledger[key[r]].entries)]
        BY <2>2, <3>2 DEF Untouched, TypeOK
      <3> QED
        BY <1>4, <3>1, <3>2 DEF CutEntries
    <2> QED
      BY <2>2, <2>3, <2>4, <2>5, KeepsCrossings
  <1>5. ASSUME NEW r \in Requests, SavePage(r)
        PROVE  ViewsAreOld' /\ CrossedIsTrue'
    <2>1. held[r].count = 0
      BY <1>5, HoldsNoLedger DEF SavePage
    <2>2. Untouched' => Untouched
      BY <1>5, <2>1, FinishTouchesNothing DEF SavePage, auxVars
    <2>3. \A q \in Requests : pc'[q] = "record" => /\ pc[q] = "record"
                                                   /\ view'[q] = view[q]
                                                   /\ key'[q] = key[q]
      BY <1>5 DEF SavePage, Finish, TypeOK
    <2> QED
      BY <1>5, <2>2, <2>3, KeepsCrossings DEF SavePage
  <1>6. ASSUME NEW r \in Requests, SaveArchive(r)
        PROVE  ViewsAreOld' /\ CrossedIsTrue'
    <2>1. key[r] \in Vendors /\ held[r].count > 0
      BY <1>6 DEF SaveArchive, HandlersHoldTheirWork
    <2>2. archive' = [archive EXCEPT ![key[r]] = held[r]]
      BY <1>6 DEF SaveArchive
    <2>3. archive'[key[r]].count # 0
      BY <2>1, <2>2 DEF TypeOK
    <2>4. ~Untouched'
      BY <2>1, <2>3 DEF Untouched
    <2> QED
      BY <2>2, <2>3, <2>4 DEF ViewsAreOld, CrossedIsTrue, TypeOK
  <1>7. ASSUME NEW r \in Requests, GiveUp(r)
        PROVE  ViewsAreOld' /\ CrossedIsTrue'
    <2>1. Finish(r) /\ UNCHANGED docVars /\ gone'.count = gone.count + held[r].count
      BY <1>7 DEF GiveUp, Loses
    <2>2. Untouched' => Untouched
      <3>1. Untouched' => gone.count = 0 /\ held[r].count = 0
        BY <2>1 DEF Untouched, TypeOK, Ledger
      <3>2. ~Untouched' \/ gone'.count = gone.count
        BY <2>1, <3>1
      <3> QED
        BY <2>1, <3>1, <3>2, FinishTouchesNothing DEF docVars
    <2>3. \A q \in Requests : pc'[q] = "record" => /\ pc[q] = "record"
                                                   /\ view'[q] = view[q]
                                                   /\ key'[q] = key[q]
      BY <2>1 DEF Finish, TypeOK
    <2> QED
      BY <2>1, <2>2, <2>3, KeepsCrossings DEF docVars
  <1>8. ASSUME NEW r \in Requests, NEW i \in Invoices, RequestTds(r, i)
        PROVE  ViewsAreOld' /\ CrossedIsTrue'
    <2>1. Untouched' => Untouched
      BY <1>8 DEF RequestTds, Untouched, docVars, auxVars
    <2>2. \A q \in Requests : pc'[q] = "record" => /\ pc[q] = "record"
                                                   /\ view'[q] = view[q]
                                                   /\ key'[q] = key[q]
      BY <1>8 DEF RequestTds, Begin, TypeOK
    <2> QED
      BY <1>8, <2>1, <2>2, KeepsCrossings DEF RequestTds, docVars
  <1>9. ASSUME NEW r \in Requests, NEW v \in Vendors, TakeLedger(r, v)
        PROVE  ViewsAreOld' /\ CrossedIsTrue'
    <2>1. held'[r].count # 0 /\ archive' = archive
      BY <1>9 DEF TakeLedger, TypeOK
    <2>2. ~Untouched'
      BY <2>1 DEF Untouched
    <2> QED
      BY <2>1, <2>2 DEF ViewsAreOld, CrossedIsTrue
  <1>10. ASSUME NEW source \in Vendors, NEW target \in Vendors,
                MergeVendors(source, target)
         PROVE  ViewsAreOld' /\ CrossedIsTrue'
    <2>1. ~Untouched' /\ archive' = archive
      BY <1>10 DEF MergeVendors, Untouched
    <2> QED
      BY <2>1 DEF ViewsAreOld, CrossedIsTrue
  <1>11. CASE UNCHANGED vars
    BY <1>11 DEF vars, docVars, reqVars, auxVars, Untouched, ViewsAreOld, CrossedIsTrue
  <1> QED
    BY <1>1, <1>2, <1>3, <1>4, <1>5, <1>6, <1>7, <1>8, <1>9, <1>10, <1>11
       DEF Next, Handler

----------------------------------------------------------------------------
\* Every step keeps the inductive invariant.
LEMMA InvStep == IndInv /\ [Next]_vars => IndInv'
  <1> SUFFICES ASSUME IndInv, [Next]_vars PROVE IndInv'
    OBVIOUS
  <1>1. TypeOK /\ HandlersHoldTheirWork /\ ViewsAreOld /\ CrossedIsTrue
    BY DEF IndInv
  <1>2. TypeOK'
    BY <1>1, TypeStep
  <1>3. HandlersHoldTheirWork'
    BY <1>1, HandlersStep
  <1>4. ViewsAreOld' /\ CrossedIsTrue'
    BY <1>1, <1>2, CrossingStep
  <1> QED
    BY <1>2, <1>3, <1>4 DEF IndInv

\* Every behaviour keeps the inductive invariant: records, splits, archives and
\* merges may overlap in any number and order.
THEOREM Invariance == Spec => []IndInv
  BY InitInv, InvStep, PTL DEF Spec

\* Ledgers, archives, pages and handlers keep their types.
THEOREM TypeCorrect == Spec => []TypeOK
  <1>1. IndInv => TypeOK
    BY DEF IndInv
  <1> QED
    BY <1>1, Invariance, PTL

\* Until a vendor is merged or a ledger archived, a ledger marked as over the
\* threshold is over it, whatever recordTdsToLedger calls overlap.
THEOREM CrossingsAreTrue == Spec => []CrossedIsTrue
  <1>1. IndInv => CrossedIsTrue
    BY DEF IndInv
  <1> QED
    BY <1>1, Invariance, PTL

----------------------------------------------------------------------------
\* The entries of the lists L and those of X are the recordings 1 .. n, each
\* at one place.
Once(L, X, n) ==
    /\ \A k, l \in DOMAIN L : \A i \in DOMAIN L[k], j \in DOMAIN L[l] :
           L[k][i].id = L[l][j].id => k = l /\ i = j
    /\ \A l \in DOMAIN L : \A i \in DOMAIN L[l] : \A e \in X : L[l][i].id # e.id
    /\ \A m \in 1 .. n : \/ \E l \in DOMAIN L : \E i \in DOMAIN L[l] : L[l][i].id = m
                         \/ \E e \in X : e.id = m
    /\ \A l \in DOMAIN L : \A i \in DOMAIN L[l] : L[l][i].id \in 1 .. n
    /\ \A e \in X : e.id \in 1 .. n

\* The entries of the lists L and those of X.
Entries(L, X) ==
    X \union {e \in Entry : \E l \in DOMAIN L : \E i \in DOMAIN L[l] : e = L[l][i]}

\* ... are the same.
SameEntries(L, X, M, Y) == Entries(M, Y) = Entries(L, X)
\* ... or the same and one more.
Gains(L, M, X, e) == Entries(M, X) = Entries(L, X) \union {e}

\* What Once says of lists indexed by S, one fact at a time.
LEMMA OnceFacts ==
  ASSUME NEW S, NEW L \in [S -> Seq(Entry)], NEW X, NEW n, Once(L, X, n)
  PROVE  /\ \A k, l \in S : \A i \in DOMAIN L[k], j \in DOMAIN L[l] :
                L[k][i].id = L[l][j].id => k = l /\ i = j
         /\ \A l \in S : \A i \in DOMAIN L[l] : \A e \in X : L[l][i].id # e.id
         /\ \A m \in 1 .. n : \/ \E l \in S : \E i \in DOMAIN L[l] : L[l][i].id = m
                              \/ \E e \in X : e.id = m
         /\ \A l \in S : \A i \in DOMAIN L[l] : L[l][i].id \in 1 .. n
         /\ \A e \in X : e.id \in 1 .. n
  BY Zenon DEF Once

\* ... and what shows it.
LEMMA OnceIf ==
  ASSUME NEW S, NEW L \in [S -> Seq(Entry)], NEW X, NEW n,
         \A k, l \in S : \A i \in DOMAIN L[k], j \in DOMAIN L[l] :
             L[k][i].id = L[l][j].id => k = l /\ i = j,
         \A l \in S : \A i \in DOMAIN L[l] : \A e \in X : L[l][i].id # e.id,
         \A m \in 1 .. n : \/ \E l \in S : \E i \in DOMAIN L[l] : L[l][i].id = m
                          \/ \E e \in X : e.id = m,
         \A l \in S : \A i \in DOMAIN L[l] : L[l][i].id \in 1 .. n,
         \A e \in X : e.id \in 1 .. n
  PROVE  Once(L, X, n)
  BY Zenon DEF Once

\* Lists and sets of the same entries.
LEMMA EntriesSame ==
  ASSUME NEW S, NEW L \in [S -> Seq(Entry)], NEW M \in [S -> Seq(Entry)],
         NEW X \in SUBSET Entry, NEW Y \in SUBSET Entry,
         \A l \in S : \A i \in DOMAIN M[l] :
             (\E a \in S : \E j \in DOMAIN L[a] : M[l][i] = L[a][j]) \/ M[l][i] \in X,
         \A a \in S : \A j \in DOMAIN L[a] :
             (\E l \in S : \E i \in DOMAIN M[l] : M[l][i] = L[a][j]) \/ L[a][j] \in Y,
         \A y \in Y : y \in X \/ \E a \in S : \E j \in DOMAIN L[a] : y = L[a][j],
         X \subseteq Y
  PROVE  SameEntries(L, X, M, Y)
  <1>1. DOMAIN L = S /\ DOMAIN M = S
    OBVIOUS
  <1>2. ASSUME NEW e \in Entries(M, Y) PROVE e \in Entries(L, X)
    BY <1>1 DEF Entries
  <1>3. ASSUME NEW e \in Entries(L, X) PROVE e \in Entries(M, Y)
    BY <1>1 DEF Entries
  <1> QED
    BY <1>2, <1>3 DEF SameEntries

\* The lists M are those of L except for the places in D.
OnlyAt(D, S, L, M) == \A o \in S \ D : M[o] = L[o]

\* An entry is added at the end of a list.
Appended(S, L, M, l, e) == M[l] = Append(L[l], e) /\ OnlyAt({l}, S, L, M)

\* A list is cut after its first c entries; the others are a list of their own.
CutOff(S, L, M, k, l, c) ==
    /\ k # l /\ L[k] = <<>> /\ c <= Len(L[l])
    /\ M[l] = SubSeq(L[l], 1, c)
    /\ M[k] = SubSeq(L[l], c + 1, Len(L[l]))
    /\ OnlyAt({k, l}, S, L, M)

\* A list moves to the end of another.
Joined(S, L, M, k, l) ==
    k # l /\ M[l] = L[l] \o L[k] /\ M[k] = <<>> /\ OnlyAt({k, l}, S, L, M)

\* A list is emptied; its entries join those of X.
Emptied(S, L, M, k, X, Y) ==
    /\ M[k] = <<>> /\ OnlyAt({k}, S, L, M)
    /\ Y = X \union {L[k][i] : i \in DOMAIN L[k]}

\* A new recording at the end of a list is listed once.
LEMMA AppendOnce ==
  ASSUME NEW S, NEW L \in [S -> Seq(Entry)], NEW M \in [S -> Seq(Entry)],
         NEW X \in SUBSET Entry, NEW n \in Nat, Once(L, X, n),
         NEW l \in S, NEW e \in Entry, e.id = n + 1, Appended(S, L, M, l, e)
  PROVE  Once(M, X, n + 1) /\ Gains(L, M, X, e)
  <1>q. M[l] = Append(L[l], e) /\ \A o \in S \ {l} : M[o] = L[o]
    BY DEF Appended, OnlyAt
  <1> USE <1>q
  <1>o. /\ \A a, b \in S : \A i \in DOMAIN L[a], j \in DOMAIN L[b] :
               L[a][i].id = L[b][j].id => a = b /\ i = j
        /\ \A a \in S : \A i \in DOMAIN L[a] : \A x \in X : L[a][i].id # x.id
        /\ \A m \in 1 .. n : \/ \E a \in S : \E i \in DOMAIN L[a] : L[a][i].id = m
                             \/ \E x \in X : x.id = m
        /\ \A a \in S : \A i \in DOMAIN L[a] : L[a][i].id \in 1 .. n
        /\ \A x \in X : x.id \in 1 .. n
    BY OnceFacts
  <1>1. \A o \in S : L[o] \in Seq(Entry) /\ Len(L[o]) \in Nat /\ DOMAIN L[o] = 1 .. Len(L[o])
    BY LenProperties
  <1>2. /\ DOMAIN M[l] = DOMAIN L[l] \union {Len(L[l]) + 1}
        /\ \A i \in DOMAIN L[l] : M[l][i] = L[l][i]
        /\ M[l][Len(L[l]) + 1] = e
        /\ Len(L[l]) + 1 \notin DOMAIN L[l]
    <2>1. /\ Len(M[l]) = Len(L[l]) + 1
          /\ \A i \in 1 .. Len(L[l]) : M[l][i] = L[l][i]
          /\ M[l][Len(L[l]) + 1] = e
      BY <1>1, AppendProperties
    <2>2. DOMAIN M[l] = 1 .. Len(L[l]) + 1
      BY <2>1, LenProperties
    <2> QED
      BY <1>1, <2>1, <2>2
  <1>3. \A o \in S : \A i \in DOMAIN M[o] :
            \/ i \in DOMAIN L[o] /\ M[o][i] = L[o][i]
            \/ o = l /\ i = Len(L[l]) + 1 /\ M[o][i] = e
    BY <1>2
  <1>4. \A o \in S : \A i \in DOMAIN L[o] : i \in DOMAIN M[o] /\ M[o][i] = L[o][i]
    BY <1>2
  <1>5. \A m \in 1 .. n : m \in 1 .. n + 1 /\ m # n + 1
    OBVIOUS
  <1>6. n + 1 \in 1 .. n + 1
    OBVIOUS
  <1>7. DOMAIN L = S /\ DOMAIN M = S
    OBVIOUS
  <1>8. \A k, o \in S : \A i \in DOMAIN M[k], j \in DOMAIN M[o] :
            M[k][i].id = M[o][j].id => k = o /\ i = j
    <2> SUFFICES ASSUME NEW k \in S, NEW o \in S, NEW i \in DOMAIN M[k], NEW j \in DOMAIN M[o],
                        M[k][i].id = M[o][j].id
                 PROVE  k = o /\ i = j
      OBVIOUS
    <2>1. CASE i \in DOMAIN L[k] /\ j \in DOMAIN L[o] /\ M[k][i] = L[k][i] /\ M[o][j] = L[o][j]
      BY <1>o, <2>1
    <2>2. CASE i \in DOMAIN L[k] /\ M[k][i] = L[k][i] /\ M[o][j] = e
      BY <1>5, <1>o, <2>2
    <2>3. CASE M[k][i] = e /\ j \in DOMAIN L[o] /\ M[o][j] = L[o][j]
      BY <1>5, <1>o, <2>3
    <2> QED
      BY <1>3, <2>1, <2>2, <2>3
  <1>9. \A o \in S : \A i \in DOMAIN M[o] : \A x \in X : M[o][i].id # x.id
    BY <1>3, <1>5, <1>7, <1>o
  <1>10. \A m \in 1 .. n + 1 : m \in 1 .. n \/ m = n + 1
    OBVIOUS
  <1>11. \A m \in 1 .. n + 1 : \/ \E o \in S : \E i \in DOMAIN M[o] : M[o][i].id = m
                               \/ \E x \in X : x.id = m
    <2>1. ASSUME NEW m \in 1 .. n
          PROVE  \/ \E o \in S : \E i \in DOMAIN M[o] : M[o][i].id = m
                 \/ \E x \in X : x.id = m
      <3>1. CASE \E x \in X : x.id = m
        BY <3>1
      <3>2. CASE \E o \in S : \E i \in DOMAIN L[o] : L[o][i].id = m
        BY <1>4, <3>2
      <3> QED
        BY <1>o, <3>1, <3>2
    <2>2. \E o \in S : \E i \in DOMAIN M[o] : M[o][i].id = n + 1
      BY <1>2
    <2> QED
      BY <1>10, <2>1, <2>2
  <1>12. \A o \in S : \A i \in DOMAIN M[o] : M[o][i].id \in 1 .. n + 1
    BY <1>3, <1>5, <1>6, <1>7, <1>o
  <1>13. \A x \in X : x.id \in 1 .. n + 1
    BY <1>5, <1>o
  <1>14. Once(M, X, n + 1)
    BY <1>8, <1>9, <1>11, <1>12, <1>13, OnceIf
  <1>15. ASSUME NEW x \in Entries(M, X) PROVE x \in Entries(L, X) \union {e}
    BY <1>3, <1>7 DEF Entries
  <1>16. ASSUME NEW x \in Entries(L, X) PROVE x \in Entries(M, X)
    BY <1>4, <1>7 DEF Entries
  <1>17. e \in Entries(M, X)
    BY <1>2, <1>7 DEF Entries
  <1> QED
    BY <1>14, <1>15, <1>16, <1>17 DEF Gains

\* The lists M, indexed by S, hold the entries of L, each at one place.
Rearranged(S, L, M) ==
    /\ \A o \in S : \A i \in DOMAIN M[o] :
           \E a \in S : \E j \in DOMAIN L[a] : M[o][i] = L[a][j]
    /\ \A a \in S : \A j \in DOMAIN L[a] :
           \E o \in S : \E i \in DOMAIN M[o] : M[o][i] = L[a][j]
    /\ \A a, o \in S : \A i \in DOMAIN M[a], j \in DOMAIN M[o] :
           M[a][i].id = M[o][j].id => a = o /\ i = j

\* Lists of the same entries, each at one place again.
LEMMA MovedOnce ==
  ASSUME NEW S, NEW L \in [S -> Seq(Entry)], NEW M \in [S -> Seq(Entry)],
         NEW X \in SUBSET Entry, NEW n \in Nat, Once(L, X, n),
         Rearranged(S, L, M)
  PROVE  Once(M, X, n) /\ SameEntries(L, X, M, X)
  <1>o. /\ \A a, b \in S : \A i \in DOMAIN L[a], j \in DOMAIN L[b] :
               L[a][i].id = L[b][j].id => a = b /\ i = j
        /\ \A a \in S : \A i \in DOMAIN L[a] : \A x \in X : L[a][i].id # x.id
        /\ \A m \in 1 .. n : \/ \E a \in S : \E i \in DOMAIN L[a] : L[a][i].id = m
                             \/ \E x \in X : x.id = m
        /\ \A a \in S : \A i \in DOMAIN L[a] : L[a][i].id \in 1 .. n
        /\ \A x \in X : x.id \in 1 .. n
    BY OnceFacts
  <1>p. /\ \A o \in S : \A i \in DOMAIN M[o] :
               \E a \in S : \E j \in DOMAIN L[a] : M[o][i] = L[a][j]
        /\ \A a \in S : \A j \in DOMAIN L[a] :
               \E o \in S : \E i \in DOMAIN M[o] : M[o][i] = L[a][j]
        /\ \A a, o \in S : \A i \in DOMAIN M[a], j \in DOMAIN M[o] :
               M[a][i].id = M[o][j].id => a = o /\ i = j
    BY Zenon DEF Rearranged
  <1>1. \A o \in S : \A i \in DOMAIN M[o] : \A x \in X : M[o][i].id # x.id
    BY <1>o, <1>p
  <1>2. \A o \in S : \A i \in DOMAIN M[o] : M[o][i].id \in 1 .. n
    BY <1>o, <1>p
  <1>3. \A m \in 1 .. n : \/ \E o \in S : \E i \in DOMAIN M[o] : M[o][i].id = m
                          \/ \E x \in X : x.id = m
    <2> SUFFICES ASSUME NEW m \in 1 .. n, ~\E x \in X : x.id = m
                 PROVE  \E o \in S : \E i \in DOMAIN M[o] : M[o][i].id = m
      OBVIOUS
    <2>1. PICK a \in S : \E j \in DOMAIN L[a] : L[a][j].id = m
      BY <1>o, <1>p
    <2>2. PICK j \in DOMAIN L[a] : L[a][j].id = m
      BY <2>1
    <2> QED
      BY <1>p, <2>2
  <1>4. Once(M, X, n)
    BY <1>o, <1>p, <1>1, <1>2, <1>3, OnceIf
  <1>5. SameEntries(L, X, M, X)
    <2>1. /\ \A l \in S : \A i \in DOMAIN M[l] :
                 (\E a \in S : \E j \in DOMAIN L[a] : M[l][i] = L[a][j]) \/ M[l][i] \in X
          /\ \A a \in S : \A j \in DOMAIN L[a] :
                 (\E l \in S : \E i \in DOMAIN M[l] : M[l][i] = L[a][j]) \/ L[a][j] \in X
      BY <1>p
    <2> QED
      BY <2>1, EntriesSame
  <1> QED
    BY <1>4, <1>5

\* A list whose end moves to an empty list lists what it listed.
LEMMA SplitOnce ==
  ASSUME NEW S, NEW L \in [S -> Seq(Entry)], NEW M \in [S -> Seq(Entry)],
         NEW X \in SUBSET Entry, NEW n \in Nat, Once(L, X, n),
         NEW k \in S, NEW l \in S, NEW c \in Nat, CutOff(S, L, M, k, l, c)
  PROVE  Once(M, X, n) /\ SameEntries(L, X, M, X)
  <1>q. /\ k # l /\ L[k] = <<>> /\ c <= Len(L[l])
        /\ M[l] = SubSeq(L[l], 1, c) /\ M[k] = SubSeq(L[l], c + 1, Len(L[l]))
        /\ \A o \in S \ {k, l} : M[o] = L[o]
    BY DEF CutOff, OnlyAt
  <1> USE <1>q
  <1>o. /\ \A a, b \in S : \A i \in DOMAIN L[a], j \in DOMAIN L[b] :
               L[a][i].id = L[b][j].id => a = b /\ i = j
        /\ \A a \in S : \A i \in DOMAIN L[a] : \A x \in X : L[a][i].id # x.id
        /\ \A m \in 1 .. n : \/ \E a \in S : \E i \in DOMAIN L[a] : L[a][i].id = m
                             \/ \E x \in X : x.id = m
        /\ \A a \in S : \A i \in DOMAIN L[a] : L[a][i].id \in 1 .. n
        /\ \A x \in X : x.id \in 1 .. n
    BY OnceFacts
  <1>1. L[l] \in Seq(Entry) /\ Len(L[l]) \in Nat /\ DOMAIN L[l] = 1 .. Len(L[l])
    BY LenProperties
  <1>2. DOMAIN L = S /\ DOMAIN M = S /\ DOMAIN L[k] = {}
    BY EmptySeq
  <1>3. DOMAIN M[l] = 1 .. c /\ \A i \in 1 .. c : M[l][i] = L[l][i] /\ i \in DOMAIN L[l]
    <2>1. Len(M[l]) = c /\ \A i \in 1 .. c : M[l][i] = L[l][i]
      BY <1>1, SubSeqProperties
    <2> QED
      BY <1>1, <2>1, LenProperties
  <1>4. /\ DOMAIN M[k] = 1 .. Len(L[l]) - c
        /\ \A i \in 1 .. Len(L[l]) - c : M[k][i] = L[l][i + c] /\ i + c \in DOMAIN L[l]
    <2> DEFINE d == Len(L[l])
    <2>1. \A i \in c + 1 .. d : L[l][i] \in Entry
      BY <1>1, ElementOfSeq
    <2>2. Len(M[k]) = IF c + 1 <= d THEN d - (c + 1) + 1 ELSE 0
      BY <1>1, <2>1, SubSeqProperties
    <2>3. \A i \in 1 .. d - (c + 1) + 1 : M[k][i] = L[l][c + 1 + i - 1]
      BY <1>1, <2>1, SubSeqProperties
    <2>4. DOMAIN M[k] = 1 .. Len(M[k])
      BY LenProperties
    <2>5. d - (c + 1) + 1 = d - c /\ \A i \in 1 .. d - c : c + 1 + i - 1 = i + c /\ i + c \in 1 .. d
      <3>1. d \in Nat /\ c \in Nat
        BY <1>1
      <3> HIDE DEF d
      <3> QED
        BY <3>1
    <2>6. Len(M[k]) = d - c
      <3>1. d \in Nat /\ c <= d
        BY <1>1
      <3> HIDE DEF d
      <3>2. CASE c + 1 <= d
        BY <2>2, <3>1, <3>2
      <3>3. CASE c = d
        BY <2>2, <3>1, <3>3
      <3> QED
        BY <3>1, <3>2, <3>3
    <2>7. \A i \in 1 .. d - c : M[k][i] = L[l][i + c]
      BY <2>3, <2>5
    <2> QED
      BY <1>1, <2>4, <2>5, <2>6, <2>7
  <1>5. \A o \in S : \A i \in DOMAIN M[o] :
            \/ o = k /\ i + c \in DOMAIN L[l] /\ i \in 1 .. Len(L[l]) - c
               /\ M[o][i] = L[l][i + c]
            \/ o = l /\ i \in 1 .. c /\ i \in DOMAIN L[o] /\ M[o][i] = L[o][i]
            \/ o # k /\ o # l /\ i \in DOMAIN L[o] /\ M[o][i] = L[o][i]
    BY <1>3, <1>4
  <1>6. \A i, j \in 1 .. Len(L[l]) - c : i + c = j + c => i = j
    BY <1>1
  <1>7. \A i \in 1 .. Len(L[l]) - c, j \in 1 .. c : i + c # j
    BY <1>1
  <1>8. \A a, o \in S : \A i \in DOMAIN M[a], j \in DOMAIN M[o] :
            M[a][i].id = M[o][j].id => a = o /\ i = j
    <2> SUFFICES ASSUME NEW a \in S, NEW o \in S, NEW i \in DOMAIN M[a], NEW j \in DOMAIN M[o],
                        M[a][i].id = M[o][j].id
                 PROVE  a = o /\ i = j
      OBVIOUS
    <2>1. CASE /\ i \in DOMAIN L[a] /\ M[a][i] = L[a][i] /\ j \in DOMAIN L[o] /\ M[o][j] = L[o][j]
      BY <1>o, <2>1
    <2>2. CASE /\ a = k /\ i + c \in DOMAIN L[l] /\ i \in 1 .. Len(L[l]) - c /\ M[a][i] = L[l][i + c]
               /\ o = k /\ j + c \in DOMAIN L[l] /\ j \in 1 .. Len(L[l]) - c /\ M[o][j] = L[l][j + c]
      <3>1. i + c = j + c
        BY <1>o, <2>2
      <3> QED
        BY <1>6, <2>2, <3>1
    <2>3. CASE /\ a = k /\ i + c \in DOMAIN L[l] /\ i \in 1 .. Len(L[l]) - c /\ M[a][i] = L[l][i + c]
               /\ o # k /\ j \in DOMAIN L[o] /\ M[o][j] = L[o][j] /\ (o = l => j \in 1 .. c)
      <3>1. o = l /\ i + c = j
        <4>1. L[l][i + c].id = L[o][j].id
          BY <2>3
        <4>2. j \in DOMAIN L[o] /\ i + c \in DOMAIN L[l]
          BY <2>3
        <4>3. \A x \in DOMAIN L[l] : L[l][x].id = L[o][j].id => l = o /\ x = j
          BY <1>o, <4>2
        <4> QED
          BY <4>1, <4>2, <4>3
      <3> QED
        BY <1>7, <2>3, <3>1
    <2>4. CASE /\ o = k /\ j + c \in DOMAIN L[l] /\ j \in 1 .. Len(L[l]) - c /\ M[o][j] = L[l][j + c]
               /\ a # k /\ i \in DOMAIN L[a] /\ M[a][i] = L[a][i] /\ (a = l => i \in 1 .. c)
      <3>1. a = l /\ j + c = i
        <4>1. L[l][j + c].id = L[a][i].id
          BY <2>4
        <4>2. i \in DOMAIN L[a] /\ j + c \in DOMAIN L[l]
          BY <2>4
        <4>3. \A x \in DOMAIN L[l] : L[l][x].id = L[a][i].id => l = a /\ x = i
          BY <1>o, <4>2
        <4> QED
          BY <4>1, <4>2, <4>3
      <3> QED
        BY <1>7, <2>4, <3>1
    <2> QED
      BY <1>5, <2>1, <2>2, <2>3, <2>4
  <1>9. \A o \in S : \A i \in DOMAIN M[o] :
            \E a \in S : \E j \in DOMAIN L[a] : M[o][i] = L[a][j]
    BY <1>5
  <1>10. \A o \in S : \A i \in DOMAIN L[o] : \E a \in S : \E j \in DOMAIN M[a] : M[a][j] = L[o][i]
    <2> SUFFICES ASSUME NEW o \in S, NEW i \in DOMAIN L[o]
                 PROVE  \E a \in S : \E j \in DOMAIN M[a] : M[a][j] = L[o][i]
      OBVIOUS
    <2>1. CASE o # l
      BY <1>2, <2>1
    <2>2. CASE o = l /\ i <= c
      <3>1. i \in 1 .. c
        BY <1>1, <2>2
      <3> QED
        BY <1>3, <2>2, <3>1
    <2>3. CASE o = l /\ ~(i <= c)
      <3>1. i - c \in 1 .. Len(L[l]) - c /\ (i - c) + c = i
        BY <1>1, <2>3
      <3> QED
        BY <1>4, <2>3, <3>1
    <2> QED
      BY <2>1, <2>2, <2>3
  <1> QED
    <2>1. Rearranged(S, L, M)
      BY <1>8, <1>9, <1>10, Zenon DEF Rearranged
    <2> QED
      BY <2>1, MovedOnce

\* A list put at the end of another lists what it listed.
LEMMA JoinOnce ==
  ASSUME NEW S, NEW L \in [S -> Seq(Entry)], NEW M \in [S -> Seq(Entry)],
         NEW X \in SUBSET Entry, NEW n \in Nat, Once(L, X, n),
         NEW k \in S, NEW l \in S, Joined(S, L, M, k, l)
  PROVE  Once(M, X, n) /\ SameEntries(L, X, M, X)
  <1>q. /\ k # l /\ M[l] = L[l] \o L[k] /\ M[k] = <<>>
        /\ \A o \in S \ {k, l} : M[o] = L[o]
    BY DEF Joined, OnlyAt
  <1> USE <1>q
  <1>o. /\ \A a, b \in S : \A i \in DOMAIN L[a], j \in DOMAIN L[b] :
               L[a][i].id = L[b][j].id => a = b /\ i = j
        /\ \A a \in S : \A i \in DOMAIN L[a] : \A x \in X : L[a][i].id # x.id
        /\ \A m \in 1 .. n : \/ \E a \in S : \E i \in DOMAIN L[a] : L[a][i].id = m
                             \/ \E x \in X : x.id = m
        /\ \A a \in S : \A i \in DOMAIN L[a] : L[a][i].id \in 1 .. n
        /\ \A x \in X : x.id \in 1 .. n
    BY OnceFacts
  <1> DEFINE c == Len(L[l])
  <1>1. /\ L[l] \in Seq(Entry) /\ c \in Nat /\ DOMAIN L[l] = 1 .. c
        /\ L[k] \in Seq(Entry) /\ Len(L[k]) \in Nat /\ DOMAIN L[k] = 1 .. Len(L[k])
    BY LenProperties
  <1>2. DOMAIN L = S /\ DOMAIN M = S /\ DOMAIN M[k] = {}
    BY EmptySeq
  <1>3. DOMAIN M[l] = 1 .. c + Len(L[k])
    BY <1>1, ConcatProperties, LenProperties
  <1>4. \A i \in 1 .. c + Len(L[k]) :
            \/ i \in DOMAIN L[l] /\ M[l][i] = L[l][i]
            \/ i \notin DOMAIN L[l] /\ i - c \in DOMAIN L[k] /\ M[l][i] = L[k][i - c]
    BY <1>1, ConcatProperties
  <1>5. \A o \in S : \A i \in DOMAIN M[o] :
            \/ i \in DOMAIN L[o] /\ M[o][i] = L[o][i] /\ o # k
            \/ o = l /\ i \in 1 .. c + Len(L[k]) /\ i - c \in DOMAIN L[k] /\ M[o][i] = L[k][i - c]
    BY <1>2, <1>3, <1>4
  <1>6. \A i, j \in 1 .. c + Len(L[k]) : i - c = j - c => i = j
    BY <1>1
  <1> HIDE DEF c
  <1>8. \A a, o \in S : \A i \in DOMAIN M[a], j \in DOMAIN M[o] :
            M[a][i].id = M[o][j].id => a = o /\ i = j
    <2> SUFFICES ASSUME NEW a \in S, NEW o \in S, NEW i \in DOMAIN M[a], NEW j \in DOMAIN M[o],
                        M[a][i].id = M[o][j].id
                 PROVE  a = o /\ i = j
      OBVIOUS
    <2>1. a # k /\ o # k
      BY <1>2
    <2>2. CASE i \in DOMAIN L[a] /\ j \in DOMAIN L[o] /\ M[a][i] = L[a][i] /\ M[o][j] = L[o][j]
      BY <1>o, <2>2
    <2>3. CASE i \in DOMAIN L[a] /\ M[a][i] = L[a][i] /\ o = l /\ j - c \in DOMAIN L[k] /\ M[o][j] = L[k][j - c]
      BY <1>o, <2>1, <2>3
    <2>4. CASE j \in DOMAIN L[o] /\ M[o][j] = L[o][j] /\ a = l /\ i - c \in DOMAIN L[k] /\ M[a][i] = L[k][i - c]
      BY <1>o, <2>1, <2>4
    <2>5. CASE /\ a = l /\ i \in 1 .. c + Len(L[k]) /\ i - c \in DOMAIN L[k] /\ M[a][i] = L[k][i - c]
               /\ o = l /\ j \in 1 .. c + Len(L[k]) /\ j - c \in DOMAIN L[k] /\ M[o][j] = L[k][j - c]
      <3>1. i - c = j - c
        BY <1>o, <2>5
      <3> QED
        BY <1>6, <2>5, <3>1
    <2> QED
      BY <1>5, <2>2, <2>3, <2>4, <2>5
  <1>9. \A o \in S : \A i \in DOMAIN M[o] :
            \E a \in S : \E j \in DOMAIN L[a] : M[o][i] = L[a][j]
    BY <1>5
  <1>10. \A o \in S : \A i \in DOMAIN L[o] : \E a \in S : \E j \in DOMAIN M[a] : M[a][j] = L[o][i]
    <2> SUFFICES ASSUME NEW o \in S, NEW i \in DOMAIN L[o]
                 PROVE  \E a \in S : \E j \in DOMAIN M[a] : M[a][j] = L[o][i]
      OBVIOUS
    <2>1. CASE o # l /\ o # k
      BY <1>2, <2>1
    <2>2. CASE o = l
      <3>1. i \in 1 .. c + Len(L[k]) /\ i \in 1 .. c
        BY <1>1, <2>2
      <3>2. M[l][i] = L[l][i]
        BY <1>1, <3>1, ConcatProperties DEF c
      <3> QED
        BY <1>3, <2>2, <3>1, <3>2
    <2>3. CASE o = k
      <3>1. i + c \in 1 .. c + Len(L[k]) /\ ~(i + c <= c) /\ (i + c) - c = i
        BY <1>1, <2>3
      <3>2. M[l][i + c] = L[k][i]
        BY <1>1, <3>1, ConcatProperties DEF c
      <3> QED
        BY <1>3, <2>3, <3>1, <3>2
    <2> QED
      BY <2>1, <2>2, <2>3
  <1> QED
    <2>1. Rearranged(S, L, M)
      BY <1>8, <1>9, <1>10, Zenon DEF Rearranged
    <2> QED
      BY <2>1, MovedOnce

\* What a list listed is listed nowhere any more.
LEMMA DropOnce ==
  ASSUME NEW S, NEW L \in [S -> Seq(Entry)], NEW M \in [S -> Seq(Entry)],
         NEW X \in SUBSET Entry, NEW n \in Nat, Once(L, X, n),
         NEW k \in S, NEW Y, Emptied(S, L, M, k, X, Y)
  PROVE  Once(M, Y, n) /\ SameEntries(L, X, M, Y)
  <1>q. /\ M[k] = <<>> /\ \A o \in S \ {k} : M[o] = L[o]
        /\ Y = X \union {L[k][i] : i \in DOMAIN L[k]}
    BY DEF Emptied, OnlyAt
  <1> USE <1>q
  <1>o. /\ \A a, b \in S : \A i \in DOMAIN L[a], j \in DOMAIN L[b] :
               L[a][i].id = L[b][j].id => a = b /\ i = j
        /\ \A a \in S : \A i \in DOMAIN L[a] : \A x \in X : L[a][i].id # x.id
        /\ \A m \in 1 .. n : \/ \E a \in S : \E i \in DOMAIN L[a] : L[a][i].id = m
                             \/ \E x \in X : x.id = m
        /\ \A a \in S : \A i \in DOMAIN L[a] : L[a][i].id \in 1 .. n
        /\ \A x \in X : x.id \in 1 .. n
    BY OnceFacts
  <1>1. DOMAIN L = S /\ DOMAIN M = S /\ DOMAIN M[k] = {}
    BY EmptySeq
  <1>2. \A o \in S : \A i \in DOMAIN M[o] : o # k /\ i \in DOMAIN L[o] /\ M[o][i] = L[o][i]
    BY <1>1
  <1>3. \A o \in S : \A i \in DOMAIN L[o] :
            \/ i \in DOMAIN M[o] /\ M[o][i] = L[o][i]
            \/ L[o][i] \in Y
    BY <1>1
  <1>4. \A y \in Y : y \in X \/ \E i \in DOMAIN L[k] : y = L[k][i]
    OBVIOUS
  <1>5. X \subseteq Y
    OBVIOUS
  <1>6. \A a, o \in S : \A i \in DOMAIN M[a], j \in DOMAIN M[o] :
            M[a][i].id = M[o][j].id => a = o /\ i = j
    BY <1>1, <1>2, <1>o
  <1>7. \A o \in S : \A i \in DOMAIN M[o] : \A y \in Y : M[o][i].id # y.id
    BY <1>1, <1>2, <1>4, <1>o
  <1>8. \A m \in 1 .. n : \/ \E o \in S : \E i \in DOMAIN M[o] : M[o][i].id = m
                          \/ \E y \in Y : y.id = m
    <2> SUFFICES ASSUME NEW m \in 1 .. n
                 PROVE  \/ \E o \in S : \E i \in DOMAIN M[o] : M[o][i].id = m
                        \/ \E y \in Y : y.id = m
      OBVIOUS
    <2>1. CASE \E y \in X : y.id = m
      BY <1>5, <2>1
    <2>2. CASE \E o \in S : \E i \in DOMAIN L[o] : L[o][i].id = m
      BY <1>3, <2>2
    <2> QED
      BY <1>1, <2>1, <2>2, <1>o
  <1>9. \A o \in S : \A i \in DOMAIN M[o] : M[o][i].id \in 1 .. n
    BY <1>1, <1>2, <1>o
  <1>10. \A y \in Y : y.id \in 1 .. n
    BY <1>1, <1>4, <1>o
  <1>11. Once(M, Y, n)
    BY <1>6, <1>7, <1>8, <1>9, <1>10, OnceIf
  <1>12. SameEntries(L, X, M, Y)
    <2>1. L[k] \in Seq(Entry)
      OBVIOUS
    <2>2. Y \in SUBSET Entry
      BY <1>4, <2>1, ElementOfSeq
    <2>3. \A l \in S : \A i \in DOMAIN M[l] :
              (\E a \in S : \E j \in DOMAIN L[a] : M[l][i] = L[a][j]) \/ M[l][i] \in X
      BY <1>2
    <2>4. \A a \in S : \A j \in DOMAIN L[a] :
              (\E l \in S : \E i \in DOMAIN M[l] : M[l][i] = L[a][j]) \/ L[a][j] \in Y
      BY <1>3
    <2>5. \A y \in Y : y \in X \/ \E a \in S : \E j \in DOMAIN L[a] : y = L[a][j]
      BY <1>4
    <2> QED
      BY <1>5, <2>2, <2>3, <2>4, <2>5, EntriesSame
  <1> QED
    BY <1>11, <1>12

----------------------------------------------------------------------------
\* The lists of the documents le, ar, he and pages pa, each at its place.
Placed(le, ar, he, pa) ==
    [l \in Lists |-> CASE l[1] = "ledger"  -> le[l[2]].entries
                       [] l[1] = "archive" -> ar[l[2]].entries
                       [] l[1] = "held"    -> he[l[2]].entries
                       [] l[1] = "pages"   -> pa[l[2]]]

\* The entries of all lists and the lost ones are the recordings, each once.
ListedOnce == Once(Placed(ledger, archive, held, pages), lost, recorded)

\* The entries of all lists and the lost ones.
Listed == Entries(Placed(ledger, archive, held, pages), lost)

\* A handler holds entries only between the two writes of a split or of an
\* archiving.
HoldsWhatItMoves ==
    \A r \in Requests : pc[r] \notin {"page", "archive"} => held[r].entries = <<>>

\* The places there are.
LEMMA PlacesAre ==
  /\ \A v \in Vendors : <<"ledger", v>> \in Lists
  /\ \A v \in Vendors : <<"archive", v>> \in Lists
  /\ \A v \in Vendors : <<"pages", v>> \in Lists
  /\ \A r \in Requests : <<"held", r>> \in Lists
  /\ \A l \in Lists : \/ \E v \in Vendors : l = <<"ledger", v>> \/ l = <<"archive", v>> \/ l = <<"pages", v>>
                      \/ \E r \in Requests : l = <<"held", r>>
  BY DEF Lists, Docs

\* What is at each place.
LEMMA PlacedAt ==
  ASSUME NEW le, NEW ar, NEW he, NEW pa
  PROVE  /\ \A v \in Vendors : Placed(le, ar, he, pa)[<<"ledger", v>>] = le[v].entries
         /\ \A v \in Vendors : Placed(le, ar, he, pa)[<<"archive", v>>] = ar[v].entries
         /\ \A v \in Vendors : Placed(le, ar, he, pa)[<<"pages", v>>] = pa[v]
         /\ \A r \in Requests : Placed(le, ar, he, pa)[<<"held", r>>] = he[r].entries
  BY PlacesAre DEF Placed

\* At each place there is a list of entries.
LEMMA PlacedType ==
  ASSUME NEW le \in [Vendors -> Ledger], NEW ar \in [Vendors -> Ledger],
         NEW he \in [Requests -> Ledger], NEW pa \in [Vendors -> Seq(Entry)]
  PROVE  Placed(le, ar, he, pa) \in [Lists -> Seq(Entry)]
  <1>1. \A l \in Lists : Placed(le, ar, he, pa)[l] \in Seq(Entry)
    <2> SUFFICES ASSUME NEW l \in Lists PROVE Placed(le, ar, he, pa)[l] \in Seq(Entry)
      OBVIOUS
    <2>1. CASE \E v \in Vendors : l = <<"ledger", v>> \/ l = <<"archive", v>> \/ l = <<"pages", v>>
      <3>1. PICK v \in Vendors : l = <<"ledger", v>> \/ l = <<"archive", v>> \/ l = <<"pages", v>>
        BY <2>1
      <3>2. CASE l = <<"ledger", v>>
        BY <3>1, PlacedAt, <3>2 DEF Ledger
      <3>3. CASE l = <<"archive", v>>
        BY <3>1, PlacedAt, <3>3 DEF Ledger
      <3>4. CASE l = <<"pages", v>>
        BY <3>1, PlacedAt, <3>4 DEF Ledger
      <3> QED
        BY <3>1, <3>2, <3>3, <3>4
    <2>2. CASE \E r \in Requests : l = <<"held", r>>
      BY <2>2, PlacedAt DEF Ledger
    <2> QED
      BY <2>1, <2>2, PlacesAre
  <1> QED
    BY <1>1 DEF Placed

\* Two states of the documents that list the same at every place outside D.
SameOutside(D, le, ar, he, pa, le2, ar2, he2, pa2) ==
    /\ \A v \in Vendors : <<"ledger", v>> \notin D => le2[v].entries = le[v].entries
    /\ \A v \in Vendors : <<"archive", v>> \notin D => ar2[v].entries = ar[v].entries
    /\ \A v \in Vendors : <<"pages", v>> \notin D => pa2[v] = pa[v]
    /\ \A r \in Requests : <<"held", r>> \notin D => he2[r].entries = he[r].entries

\* They do.
LEMMA PlacedElsewhere ==
  ASSUME NEW D, NEW le, NEW ar, NEW he, NEW pa, NEW le2, NEW ar2, NEW he2, NEW pa2,
         SameOutside(D, le, ar, he, pa, le2, ar2, he2, pa2)
  PROVE  \A o \in Lists \ D : Placed(le2, ar2, he2, pa2)[o] = Placed(le, ar, he, pa)[o]
  <1> SUFFICES ASSUME NEW o \in Lists, o \notin D
               PROVE  Placed(le2, ar2, he2, pa2)[o] = Placed(le, ar, he, pa)[o]
    OBVIOUS
  <1>1. CASE \E v \in Vendors : o = <<"ledger", v>>
    <2>1. PICK v \in Vendors : o = <<"ledger", v>>
      BY <1>1
    <2>2. Placed(le, ar, he, pa)[o] = le[v].entries /\ Placed(le2, ar2, he2, pa2)[o] = le2[v].entries
      BY <2>1, PlacedAt
    <2> QED
      BY <2>1, <2>2 DEF SameOutside
  <1>2. CASE \E v \in Vendors : o = <<"archive", v>>
    <2>1. PICK v \in Vendors : o = <<"archive", v>>
      BY <1>2
    <2>2. Placed(le, ar, he, pa)[o] = ar[v].entries /\ Placed(le2, ar2, he2, pa2)[o] = ar2[v].entries
      BY <2>1, PlacedAt
    <2> QED
      BY <2>1, <2>2 DEF SameOutside
  <1>3. CASE \E v \in Vendors : o = <<"pages", v>>
    <2>1. PICK v \in Vendors : o = <<"pages", v>>
      BY <1>3
    <2>2. Placed(le, ar, he, pa)[o] = pa[v] /\ Placed(le2, ar2, he2, pa2)[o] = pa2[v]
      BY <2>1, PlacedAt
    <2> QED
      BY <2>1, <2>2 DEF SameOutside
  <1>4. CASE \E r \in Requests : o = <<"held", r>>
    <2>1. PICK r \in Requests : o = <<"held", r>>
      BY <1>4
    <2>2. Placed(le, ar, he, pa)[o] = he[r].entries /\ Placed(le2, ar2, he2, pa2)[o] = he2[r].entries
      BY <2>1, PlacedAt
    <2> QED
      BY <2>1, <2>2 DEF SameOutside
  <1> QED
    BY <1>1, <1>2, <1>3, <1>4, PlacesAre

\* Documents that list the same at every place.
LEMMA PlacedTheSame ==
  ASSUME NEW le, NEW ar, NEW he, NEW pa, NEW le2, NEW ar2, NEW he2, NEW pa2,
         SameOutside({}, le, ar, he, pa, le2, ar2, he2, pa2)
  PROVE  Placed(le2, ar2, he2, pa2) = Placed(le, ar, he, pa)
  <1>1. \A o \in Lists \ {} : Placed(le2, ar2, he2, pa2)[o] = Placed(le, ar, he, pa)[o]
    BY PlacedElsewhere
  <1> QED
    BY <1>1 DEF Placed

\* At the start nothing is listed.
LEMMA InitListed == Init => HoldsWhatItMoves /\ ListedOnce
  <1> SUFFICES ASSUME Init PROVE HoldsWhatItMoves /\ ListedOnce
    OBVIOUS
  <1>1. HoldsWhatItMoves
    BY DEF Init, HoldsWhatItMoves, NoLedger
  <1> DEFINE L == Placed(ledger, archive, held, pages)
  <1>2. \A l \in Lists : L[l] = <<>>
    <2> SUFFICES ASSUME NEW l \in Lists PROVE L[l] = <<>>
      OBVIOUS
    <2>1. CASE \E v \in Vendors : l = <<"ledger", v>> \/ l = <<"archive", v>> \/ l = <<"pages", v>>
      <3>1. PICK v \in Vendors : l = <<"ledger", v>> \/ l = <<"archive", v>> \/ l = <<"pages", v>>
        BY <2>1
      <3>2. CASE l = <<"ledger", v>>
        BY <3>1, PlacedAt, <3>2 DEF Init, NoLedger
      <3>3. CASE l = <<"archive", v>>
        BY <3>1, PlacedAt, <3>3 DEF Init, NoLedger
      <3>4. CASE l = <<"pages", v>>
        BY <3>1, PlacedAt, <3>4 DEF Init, NoLedger
      <3> QED
        BY <3>1, <3>2, <3>3, <3>4
    <2>2. CASE \E r \in Requests : l = <<"held", r>>
      BY <2>2, PlacedAt DEF Init, NoLedger
    <2> QED
      BY <2>1, <2>2, PlacesAre
  <1>3. DOMAIN L = Lists
    BY DEF Placed
  <1>4. \A l \in DOMAIN L : DOMAIN L[l] = {}
    BY <1>2, <1>3
  <1>5. lost = {} /\ recorded = 0
    BY DEF Init
  <1> HIDE DEF L
  <1>6. Once(L, lost, recorded)
    BY <1>4, <1>5 DEF Once
  <1> QED
    BY <1>1, <1>6 DEF ListedOnce, L

\* The listings are the places in the lists that are placed.
LEMMA ListingsAre ==
  ASSUME NEW L, L = Placed(ledger, archive, held, pages)
  PROVE  /\ \A a : a \in Listings <=> \E l \in Lists : \E n \in DOMAIN L[l] : a = <<l, n>>
         /\ \A l \in Lists : \A n \in DOMAIN L[l] : <<l, n>> \in Listings /\ EntryAt(<<l, n>>) = L[l][n]
  <1>3. \A l \in Lists : List(l) = L[l]
    <2> SUFFICES ASSUME NEW l \in Lists PROVE List(l) = L[l]
      OBVIOUS
    <2>1. CASE \E v \in Vendors : l = <<"ledger", v>> \/ l = <<"archive", v>> \/ l = <<"pages", v>>
      <3>1. PICK v \in Vendors : l = <<"ledger", v>> \/ l = <<"archive", v>> \/ l = <<"pages", v>>
        BY <2>1
      <3>2. CASE l = <<"ledger", v>>
        BY <3>1, PlacedAt, <3>2 DEF List, Doc
      <3>3. CASE l = <<"archive", v>>
        BY <3>1, PlacedAt, <3>3 DEF List, Doc
      <3>4. CASE l = <<"pages", v>>
        BY <3>1, PlacedAt, <3>4 DEF List, Doc
      <3> QED
        BY <3>1, <3>2, <3>3, <3>4
    <2>2. CASE \E r \in Requests : l = <<"held", r>>
      BY <2>2, PlacedAt DEF List, Doc
    <2> QED
      BY <2>1, <2>2, PlacesAre
  <1>4. \A a : a \in Listings <=> \E l \in Lists : \E n \in DOMAIN L[l] : a = <<l, n>>
    BY <1>3 DEF Listings
  <1>5. \A l \in Lists : \A n \in DOMAIN L[l] : <<l, n>> \in Listings /\ EntryAt(<<l, n>>) = L[l][n]
    BY <1>3, <1>4 DEF EntryAt
  <1> QED
    BY <1>4, <1>5

\* Each recording is listed once when the places say so.
LEMMA ListedOnceShows == TypeOK /\ ListedOnce => RecordingsListedOnce
  <1> SUFFICES ASSUME TypeOK, ListedOnce PROVE RecordingsListedOnce
    OBVIOUS
  <1>1. PICK L : L = Placed(ledger, archive, held, pages)
    OBVIOUS
  <1>2. L \in [Lists -> Seq(Entry)]
    BY <1>1, PlacedType DEF TypeOK
  <1>3. /\ \A a : a \in Listings <=> \E l \in Lists : \E n \in DOMAIN L[l] : a = <<l, n>>
        /\ \A l \in Lists : \A n \in DOMAIN L[l] : <<l, n>> \in Listings /\ EntryAt(<<l, n>>) = L[l][n]
    BY <1>1, ListingsAre
  <1>4. \A a : a \in Listings <=> \E l \in Lists : \E n \in DOMAIN L[l] : a = <<l, n>>
    BY <1>3
  <1>5. \A l \in Lists : \A n \in DOMAIN L[l] : <<l, n>> \in Listings /\ EntryAt(<<l, n>>) = L[l][n]
    BY <1>3
  <1>6. Once(L, lost, recorded)
    BY <1>1 DEF ListedOnce
  <1>7. /\ \A k, l \in Lists : \A i \in DOMAIN L[k], j \in DOMAIN L[l] :
               L[k][i].id = L[l][j].id => k = l /\ i = j
        /\ \A l \in Lists : \A i \in DOMAIN L[l] : \A e \in lost : L[l][i].id # e.id
        /\ \A m \in 1 .. recorded : \/ \E l \in Lists : \E i \in DOMAIN L[l] : L[l][i].id = m
                                    \/ \E e \in lost : e.id = m
        /\ \A l \in Lists : \A i \in DOMAIN L[l] : L[l][i].id \in 1 .. recorded
        /\ \A e \in lost : e.id \in 1 .. recorded
    BY <1>2, <1>6, OnceFacts
  <1>8. ASSUME NEW a \in Listings, NEW b \in Listings, EntryAt(a).id = EntryAt(b).id
        PROVE  a = b
    <2>1. PICK k \in Lists : \E i \in DOMAIN L[k] : a = <<k, i>>
      BY <1>4
    <2>2. PICK i \in DOMAIN L[k] : a = <<k, i>>
      BY <2>1
    <2>3. PICK l \in Lists : \E j \in DOMAIN L[l] : b = <<l, j>>
      BY <1>4
    <2>4. PICK j \in DOMAIN L[l] : b = <<l, j>>
      BY <2>3
    <2>5. L[k][i].id = L[l][j].id
      BY <1>5, <1>8, <2>2, <2>4
    <2> QED
      BY <1>7, <2>2, <2>4, <2>5
  <1>9. ASSUME NEW a \in Listings, NEW e \in lost
        PROVE  EntryAt(a).id # e.id
    BY <1>4, <1>5, <1>7
  <1>10. ASSUME NEW m \in 1 .. recorded
         PROVE  m \in {EntryAt(a).id : a \in Listings} \union {e.id : e \in lost}
    <2>1. CASE \E e \in lost : e.id = m
      BY <2>1
    <2>2. CASE \E l \in Lists : \E i \in DOMAIN L[l] : L[l][i].id = m
      <3>1. PICK l \in Lists : \E i \in DOMAIN L[l] : L[l][i].id = m
        BY <2>2
      <3>2. PICK i \in DOMAIN L[l] : L[l][i].id = m
        BY <3>1
      <3>3. <<l, i>> \in Listings /\ EntryAt(<<l, i>>).id = m
        BY <1>5, <3>2
      <3> QED
        BY <3>3
    <2> QED
      BY <1>7, <2>1, <2>2
  <1>11. ASSUME NEW m \in {EntryAt(a).id : a \in Listings} \union {e.id : e \in lost}
         PROVE  m \in 1 .. recorded
    BY <1>4, <1>5, <1>7
  <1>12. EntryListedOnce
    BY <1>8, <1>9 DEF EntryListedOnce
  <1>13. EveryRecordingListed
    BY <1>10, <1>11 DEF EveryRecordingListed
  <1> QED
    BY <1>12, <1>13 DEF RecordingsListedOnce

----------------------------------------------------------------------------
\* A handler that ends leaves nothing held; the others hold what they held.
LEMMA FinishHolds ==
  ASSUME TypeOK, HoldsWhatItMoves, NEW r \in Requests, Finish(r)
  PROVE  /\ HoldsWhatItMoves'
         /\ held'[r].entries = <<>>
         /\ \A q \in Requests \ {r} : held'[q] = held[q]
  <1>1. held'[r].entries = <<>> /\ \A q \in Requests \ {r} : held'[q] = held[q] /\ pc'[q] = pc[q]
    BY DEF Finish, TypeOK, NoLedger
  <1> QED
    BY <1>1 DEF HoldsWhatItMoves

\* A step that leaves every list alone.
LEMMA ListsStay ==
  ASSUME ListedOnce, SameOutside({}, ledger, archive, held, pages, ledger', archive', held', pages'),
         lost' = lost, recorded' = recorded
  PROVE  ListedOnce' /\ Listed' = Listed
  <1>1. Placed(ledger', archive', held', pages') = Placed(ledger, archive, held, pages)
    BY PlacedTheSame
  <1> QED
    BY <1>1 DEF ListedOnce, Listed

\* What a handler records.
NewEntry(r) ==
    [id |-> recorded + 1, base |-> Amount[inv[r]], tds |-> Deduction(view[r], Amount[inv[r]])]

\* A recording is the last entry of its ledger, and listed nowhere before.
LEMMA RecordListed ==
  ASSUME TypeOK, TypeOK', HandlersHoldTheirWork, HoldsWhatItMoves, ListedOnce,
         NEW r \in Requests, Record(r)
  PROVE  /\ HoldsWhatItMoves' /\ ListedOnce'
         /\ NewEntry(r) \in Entry \ Listed
         /\ Listed' = Listed \union {NewEntry(r)}
  <1> DEFINE v == key[r]
  <1>1. pc[r] = "record" /\ v \in Vendors /\ held[r].entries = <<>>
    BY DEF Record, HandlersHoldTheirWork, HoldsWhatItMoves
  <1>2. HoldsWhatItMoves' /\ \A q \in Requests : held'[q].entries = held[q].entries
    <2>1. CASE Finish(r)
      BY <1>1, <2>1, FinishHolds
    <2>2. CASE Moves(r, "record", "cut") /\ UNCHANGED <<view, held>>
      BY <1>1, <2>2 DEF Moves, HoldsWhatItMoves, TypeOK
    <2> QED
      BY <2>1, <2>2 DEF Record
  <1>3. PICK e \in Entry : /\ e = NewEntry(r) /\ e.id = recorded + 1
                          /\ ledger'[v].entries = Append(ledger[v].entries, e)
    <2>1. NewEntry(r) \in Entry
      <3>1. PICK a : a = Amount[inv[r]]
        OBVIOUS
      <3>2. a \in Nat /\ view[r] \in View
        BY <1>1, <3>1, LedgerAssumption DEF HandlersHoldTheirWork, TypeOK
      <3>3. Deduction(view[r], a) \in Int
        BY <3>2, DeductionType
      <3>4. recorded + 1 \in Nat
        BY DEF TypeOK
      <3>5. NewEntry(r) = [id |-> recorded + 1, base |-> a, tds |-> Deduction(view[r], a)]
        BY <3>1 DEF NewEntry
      <3> QED
        BY <3>2, <3>3, <3>4, <3>5 DEF Entry
    <2>2. ledger'[v].entries = Append(ledger[v].entries, NewEntry(r))
      BY <1>1 DEF Record, Recorded, NewEntry, TypeOK
    <2> QED
      BY <2>1, <2>2 DEF NewEntry
  <1>4. PICK L, M : /\ L = Placed(ledger, archive, held, pages)
                    /\ M = Placed(ledger', archive', held', pages')
    OBVIOUS
  <1>5. L \in [Lists -> Seq(Entry)] /\ M \in [Lists -> Seq(Entry)]
    BY <1>4, PlacedType DEF TypeOK
  <1>6. PICK l : l = <<"ledger", v>>
    OBVIOUS
  <1>6a. l \in Lists /\ L[l] = ledger[v].entries /\ M[l] = ledger'[v].entries
    BY <1>6, <1>1, <1>4, PlacedAt, PlacesAre
  <1>7. SameOutside({l}, ledger, archive, held, pages, ledger', archive', held', pages')
    <2>1. \A w \in Vendors \ {v} : ledger'[w] = ledger[w]
      BY <1>1 DEF Record, TypeOK
    <2> QED
      BY <1>2, <1>6, <1>6a, <2>1 DEF Record, SameOutside
  <1>8. \A o \in Lists \ {l} : M[o] = L[o]
    BY <1>4, <1>7, PlacedElsewhere
  <1>9. Once(L, lost, recorded) /\ lost \in SUBSET Entry /\ recorded \in Nat
    BY <1>4 DEF ListedOnce, TypeOK
  <1>10. Once(M, lost, recorded + 1) /\ Gains(L, M, lost, e)
    <2>1. Appended(Lists, L, M, l, e)
      BY <1>3, <1>6a, <1>8 DEF Appended, OnlyAt
    <2> QED
      BY <1>3, <1>5, <1>6a, <1>9, <2>1, AppendOnce
  <1>11. e \notin Entries(L, lost)
    <2>1. /\ \A o \in Lists : \A i \in DOMAIN L[o] : L[o][i].id \in 1 .. recorded
          /\ \A x \in lost : x.id \in 1 .. recorded
      BY <1>5, <1>9, OnceFacts
    <2>2. DOMAIN L = Lists
      BY <1>5
    <2>3. recorded + 1 \notin 1 .. recorded
      BY <1>9
    <2> QED
      BY <1>3, <2>1, <2>2, <2>3 DEF Entries
  <1>12. lost' = lost /\ recorded' = recorded + 1
    BY DEF Record
  <1> QED
    BY <1>2, <1>3, <1>4, <1>10, <1>11, <1>12 DEF ListedOnce, Listed, Gains

\* A split moves the end of a ledger's list to the handler.
LEMMA CutListed ==
  ASSUME TypeOK, TypeOK', HandlersHoldTheirWork, HoldsWhatItMoves, ListedOnce,
         NEW r \in Requests, CutEntries(r)
  PROVE  HoldsWhatItMoves' /\ ListedOnce' /\ Listed' = Listed
  <1> DEFINE v == key[r]
  <1>1. pc[r] = "cut" /\ v \in Vendors /\ held[r].entries = <<>>
    BY DEF CutEntries, Moves, HandlersHoldTheirWork, HoldsWhatItMoves
  <1>2. CASE Finish(r) /\ UNCHANGED ledger
    <2>1. HoldsWhatItMoves' /\ \A q \in Requests : held'[q].entries = held[q].entries
      BY <1>1, <1>2, FinishHolds
    <2>2. SameOutside({}, ledger, archive, held, pages, ledger', archive', held', pages')
      BY <1>2, <2>1 DEF CutEntries, SameOutside
    <2> QED
      BY <2>1, <2>2, ListsStay DEF CutEntries, auxVars
  <1>3. CASE /\ Moves(r, "cut", "page")
             /\ Len(ledger[v].entries) > Cap
             /\ held' = [held EXCEPT ![r].entries = Overflow(ledger[v].entries)]
             /\ ledger' = [ledger EXCEPT ![v].entries = Kept(@)]
    <2>1. ledger[v] \in Ledger /\ held[r] \in Ledger
      BY <1>1 DEF TypeOK
    <2>2. /\ held'[r].entries = SubSeq(ledger[v].entries, Cap + 1, Len(ledger[v].entries))
          /\ \A q \in Requests \ {r} : held'[q] = held[q]
      BY <1>3, <2>1 DEF TypeOK, Ledger, Overflow
    <2>3. /\ ledger'[v].entries = SubSeq(ledger[v].entries, 1, Cap)
          /\ \A w \in Vendors \ {v} : ledger'[w] = ledger[w]
      BY <1>1, <1>3, <2>1 DEF TypeOK, Ledger, Kept
    <2>4. HoldsWhatItMoves'
      BY <1>3, <2>2 DEF Moves, HoldsWhatItMoves, TypeOK
    <2>5. PICK L, M : /\ L = Placed(ledger, archive, held, pages)
                      /\ M = Placed(ledger', archive', held', pages')
      OBVIOUS
    <2>6. L \in [Lists -> Seq(Entry)] /\ M \in [Lists -> Seq(Entry)]
      BY <2>5, PlacedType DEF TypeOK
    <2>7. PICK l : l = <<"ledger", v>>
      OBVIOUS
    <2>7a. l \in Lists /\ L[l] = ledger[v].entries /\ M[l] = ledger'[v].entries
      BY <2>7, <1>1, <2>5, PlacedAt, PlacesAre
    <2>8. PICK k : k = <<"held", r>>
      OBVIOUS
    <2>8a. k \in Lists /\ L[k] = held[r].entries /\ M[k] = held'[r].entries
      BY <2>8, <2>5, PlacedAt, PlacesAre
    <2>9. k # l
      BY <2>7, <2>7a, <2>8, <2>8a
    <2>10. SameOutside({k, l}, ledger, archive, held, pages, ledger', archive', held', pages')
      BY <2>2, <2>3, <2>7, <2>7a, <2>8, <2>8a DEF CutEntries, SameOutside
    <2>11. \A o \in Lists \ {k, l} : M[o] = L[o]
      BY <2>5, <2>10, PlacedElsewhere
    <2>12. Once(L, lost, recorded) /\ lost \in SUBSET Entry /\ recorded \in Nat
      BY <2>5 DEF ListedOnce, TypeOK
    <2>13. Cap \in Nat /\ Cap <= Len(L[l])
      <3>1. Len(L[l]) \in Nat
        BY <2>6, LenProperties
      <3> QED
        BY <1>3, <2>7, <2>7a, <3>1, LedgerAssumption
    <2>14. Once(M, lost, recorded) /\ SameEntries(L, lost, M, lost)
      <3>1. CutOff(Lists, L, M, k, l, Cap)
        BY <1>1, <2>2, <2>3, <2>7a, <2>8a, <2>9, <2>11, <2>13 DEF CutOff, OnlyAt
      <3> QED
        BY <2>6, <2>7a, <2>8a, <2>12, <2>13, <3>1, SplitOnce
    <2> QED
      BY <2>4, <2>5, <2>14 DEF ListedOnce, Listed, SameEntries, CutEntries, auxVars
  <1> QED
    BY <1>2, <1>3 DEF CutEntries

\* A page takes over what the handler of a split held.
LEMMA PageListed ==
  ASSUME TypeOK, TypeOK', HandlersHoldTheirWork, HoldsWhatItMoves, ListedOnce,
         NEW r \in Requests, SavePage(r)
  PROVE  HoldsWhatItMoves' /\ ListedOnce' /\ Listed' = Listed
  <1> DEFINE v == key[r]
  <1>1. v \in Vendors /\ Finish(r)
    BY DEF SavePage, HandlersHoldTheirWork
  <1>2. /\ HoldsWhatItMoves'
        /\ held'[r].entries = <<>>
        /\ \A q \in Requests \ {r} : held'[q] = held[q]
    BY <1>1, FinishHolds
  <1>3. /\ pages'[v] = pages[v] \o held[r].entries
        /\ \A w \in Vendors \ {v} : pages'[w] = pages[w]
    BY <1>1 DEF SavePage, TypeOK
  <1>4. PICK L, M : /\ L = Placed(ledger, archive, held, pages)
                    /\ M = Placed(ledger', archive', held', pages')
    OBVIOUS
  <1>5. L \in [Lists -> Seq(Entry)] /\ M \in [Lists -> Seq(Entry)]
    BY <1>4, PlacedType DEF TypeOK
  <1>6. PICK l : l = <<"pages", v>>
    OBVIOUS
  <1>6a. l \in Lists /\ L[l] = pages[v] /\ M[l] = pages'[v]
    BY <1>6, <1>1, <1>4, PlacedAt, PlacesAre
  <1>7. PICK k : k = <<"held", r>>
    OBVIOUS
  <1>7a. k \in Lists /\ L[k] = held[r].entries /\ M[k] = held'[r].entries
    BY <1>7, <1>4, PlacedAt, PlacesAre
  <1>8. k # l
    BY <1>6, <1>6a, <1>7, <1>7a
  <1>9. SameOutside({k, l}, ledger, archive, held, pages, ledger', archive', held', pages')
    BY <1>2, <1>3, <1>6, <1>6a, <1>7, <1>7a DEF SavePage, SameOutside
  <1>10. \A o \in Lists \ {k, l} : M[o] = L[o]
    BY <1>4, <1>9, PlacedElsewhere
  <1>11. Once(L, lost, recorded) /\ lost \in SUBSET Entry /\ recorded \in Nat
    BY <1>4 DEF ListedOnce, TypeOK
  <1>12. Once(M, lost, recorded) /\ SameEntries(L, lost, M, lost)
    <2>1. Joined(Lists, L, M, k, l)
      BY <1>2, <1>3, <1>6a, <1>7a, <1>8, <1>10 DEF Joined, OnlyAt
    <2> QED
      BY <1>5, <1>6a, <1>7a, <1>11, <2>1, JoinOnce
  <1> QED
    BY <1>2, <1>4, <1>12 DEF ListedOnce, Listed, SameEntries, SavePage, auxVars

\* A ledger that is taken to be archived is held with its entries.
LEMMA TakeListed ==
  ASSUME TypeOK, TypeOK', HandlersHoldTheirWork, HoldsWhatItMoves, ListedOnce,
         NEW r \in Requests, NEW v \in Vendors, TakeLedger(r, v)
  PROVE  HoldsWhatItMoves' /\ ListedOnce' /\ Listed' = Listed
  <1>1. held[r].entries = <<>>
    BY DEF TakeLedger, Begin, HoldsWhatItMoves
  <1>2. /\ held'[r] = ledger[v]
        /\ \A q \in Requests \ {r} : held'[q] = held[q]
        /\ ledger'[v].entries = <<>>
        /\ \A w \in Vendors \ {v} : ledger'[w] = ledger[w]
    BY DEF TakeLedger, TypeOK, NoLedger
  <1>3. HoldsWhatItMoves'
    BY <1>2 DEF TakeLedger, Begin, HoldsWhatItMoves, TypeOK
  <1>4. PICK L, M : /\ L = Placed(ledger, archive, held, pages)
                    /\ M = Placed(ledger', archive', held', pages')
    OBVIOUS
  <1>5. L \in [Lists -> Seq(Entry)] /\ M \in [Lists -> Seq(Entry)]
    BY <1>4, PlacedType DEF TypeOK
  <1>6. PICK k : k = <<"ledger", v>>
    OBVIOUS
  <1>6a. k \in Lists /\ L[k] = ledger[v].entries /\ M[k] = ledger'[v].entries
    BY <1>6, <1>4, PlacedAt, PlacesAre
  <1>7. PICK l : l = <<"held", r>>
    OBVIOUS
  <1>7a. l \in Lists /\ L[l] = held[r].entries /\ M[l] = held'[r].entries
    BY <1>7, <1>4, PlacedAt, PlacesAre
  <1>8. k # l
    BY <1>6, <1>6a, <1>7, <1>7a
  <1>9. SameOutside({k, l}, ledger, archive, held, pages, ledger', archive', held', pages')
    BY <1>2, <1>6, <1>6a, <1>7, <1>7a DEF TakeLedger, SameOutside
  <1>10. \A o \in Lists \ {k, l} : M[o] = L[o]
    BY <1>4, <1>9, PlacedElsewhere
  <1>11. Once(L, lost, recorded) /\ lost \in SUBSET Entry /\ recorded \in Nat
    BY <1>4 DEF ListedOnce, TypeOK
  <1>12. M[l] = L[l] \o L[k]
    BY <1>1, <1>2, <1>5, <1>6, <1>6a, <1>7, <1>7a, ConcatEmptySeq
  <1>13. Once(M, lost, recorded) /\ SameEntries(L, lost, M, lost)
    <2>1. Joined(Lists, L, M, k, l)
      BY <1>2, <1>6a, <1>7a, <1>8, <1>10, <1>12 DEF Joined, OnlyAt
    <2> QED
      BY <1>5, <1>6a, <1>7a, <1>11, <2>1, JoinOnce
  <1> QED
    BY <1>3, <1>4, <1>13 DEF ListedOnce, Listed, SameEntries, TakeLedger, auxVars

\* A merge moves the entries of one ledger to another.
LEMMA MergeListed ==
  ASSUME TypeOK, TypeOK', HoldsWhatItMoves, ListedOnce,
         NEW source \in Vendors, NEW target \in Vendors, MergeVendors(source, target)
  PROVE  HoldsWhatItMoves' /\ ListedOnce' /\ Listed' = Listed
  <1>1. HoldsWhatItMoves'
    BY DEF MergeVendors, reqVars, HoldsWhatItMoves
  <1>2. /\ source # target
        /\ ledger'[target].entries = ledger[target].entries \o ledger[source].entries
        /\ ledger'[source].entries = <<>>
        /\ \A w \in Vendors \ {source, target} : ledger'[w] = ledger[w]
    BY DEF MergeVendors, Consolidated, NoLedger, TypeOK
  <1>3. PICK L, M : /\ L = Placed(ledger, archive, held, pages)
                    /\ M = Placed(ledger', archive', held', pages')
    OBVIOUS
  <1>4. L \in [Lists -> Seq(Entry)] /\ M \in [Lists -> Seq(Entry)]
    BY <1>3, PlacedType DEF TypeOK
  <1>5. PICK k : k = <<"ledger", source>>
    OBVIOUS
  <1>5a. k \in Lists /\ L[k] = ledger[source].entries /\ M[k] = ledger'[source].entries
    BY <1>5, <1>3, PlacedAt, PlacesAre
  <1>6. PICK l : l = <<"ledger", target>>
    OBVIOUS
  <1>6a. l \in Lists /\ L[l] = ledger[target].entries /\ M[l] = ledger'[target].entries
    BY <1>6, <1>3, PlacedAt, PlacesAre
  <1>7. k # l
    BY <1>2, <1>5, <1>5a, <1>6, <1>6a
  <1>8. SameOutside({k, l}, ledger, archive, held, pages, ledger', archive', held', pages')
    BY <1>2, <1>5, <1>5a, <1>6, <1>6a DEF MergeVendors, reqVars, SameOutside
  <1>9. \A o \in Lists \ {k, l} : M[o] = L[o]
    BY <1>3, <1>8, PlacedElsewhere
  <1>10. Once(L, lost, recorded) /\ lost \in SUBSET Entry /\ recorded \in Nat
    BY <1>3 DEF ListedOnce, TypeOK
  <1>11. Once(M, lost, recorded) /\ SameEntries(L, lost, M, lost)
    <2>1. Joined(Lists, L, M, k, l)
      BY <1>2, <1>5a, <1>6a, <1>7, <1>9 DEF Joined, OnlyAt
    <2> QED
      BY <1>4, <1>5a, <1>6a, <1>10, <2>1, JoinOnce
  <1> QED
    BY <1>1, <1>3, <1>11 DEF ListedOnce, Listed, SameEntries, MergeVendors, auxVars

\* An archive takes over a ledger; the entries of the one it replaces are lost.
LEMMA ArchiveListed ==
  ASSUME TypeOK, TypeOK', HandlersHoldTheirWork, HoldsWhatItMoves, ListedOnce,
         NEW r \in Requests, SaveArchive(r)
  PROVE  HoldsWhatItMoves' /\ ListedOnce' /\ Listed' = Listed
  <1> DEFINE v == key[r]
  <1>1. v \in Vendors /\ Finish(r)
    BY DEF SaveArchive, HandlersHoldTheirWork
  <1>2. /\ HoldsWhatItMoves'
        /\ held'[r].entries = <<>>
        /\ \A q \in Requests \ {r} : held'[q] = held[q]
    BY <1>1, FinishHolds
  <1>3. /\ archive'[v] = held[r]
        /\ \A w \in Vendors \ {v} : archive'[w] = archive[w]
    BY <1>1 DEF SaveArchive, TypeOK
  <1>4. PICK emptied : emptied = [archive EXCEPT ![v] = NoLedger]
    OBVIOUS
  <1>5. /\ emptied \in [Vendors -> Ledger]
        /\ emptied[v].entries = <<>>
        /\ \A w \in Vendors \ {v} : emptied[w] = archive[w]
    BY <1>1, <1>4, NoLedgerType DEF TypeOK, NoLedger
  <1>6. PICK L, N, M : /\ L = Placed(ledger, archive, held, pages)
                       /\ N = Placed(ledger, emptied, held, pages)
                       /\ M = Placed(ledger', archive', held', pages')
    OBVIOUS
  <1>7. L \in [Lists -> Seq(Entry)] /\ N \in [Lists -> Seq(Entry)] /\ M \in [Lists -> Seq(Entry)]
    BY <1>5, <1>6, PlacedType DEF TypeOK
  <1>8. PICK l : l = <<"archive", v>>
    OBVIOUS
  <1>8a. l \in Lists /\ L[l] = archive[v].entries /\ N[l] = emptied[v].entries /\ M[l] = archive'[v].entries
    BY <1>8, <1>1, <1>6, PlacedAt, PlacesAre
  <1>9. PICK k : k = <<"held", r>>
    OBVIOUS
  <1>9a. k \in Lists /\ N[k] = held[r].entries /\ M[k] = held'[r].entries
    BY <1>9, <1>6, PlacedAt, PlacesAre
  <1>10. k # l
    BY <1>8, <1>8a, <1>9, <1>9a
  <1>11. \A o \in Lists \ {l} : N[o] = L[o]
    <2>1. SameOutside({l}, ledger, archive, held, pages, ledger, emptied, held, pages)
      BY <1>5, <1>8, <1>8a DEF SameOutside
    <2> QED
      BY <1>6, <2>1, PlacedElsewhere
  <1>12. \A o \in Lists \ {k, l} : M[o] = N[o]
    <2>1. SameOutside({k, l}, ledger, emptied, held, pages, ledger', archive', held', pages')
      BY <1>2, <1>3, <1>5, <1>8, <1>8a, <1>9, <1>9a DEF SaveArchive, SameOutside
    <2> QED
      BY <1>6, <2>1, PlacedElsewhere
  <1>13. Once(L, lost, recorded) /\ lost \in SUBSET Entry /\ recorded \in Nat
    BY <1>6 DEF ListedOnce, TypeOK
  <1>14. lost' = lost \union {L[l][i] : i \in DOMAIN L[l]} /\ lost' \in SUBSET Entry
    BY <1>8, <1>8a DEF SaveArchive, Loses, TypeOK
  <1>15. Once(N, lost', recorded) /\ SameEntries(L, lost, N, lost')
    <2>1. Emptied(Lists, L, N, l, lost, lost')
      BY <1>5, <1>8a, <1>11, <1>14 DEF Emptied, OnlyAt
    <2> QED
      BY <1>7, <1>8a, <1>13, <2>1, DropOnce
  <1>16. M[l] = N[l] \o N[k]
    BY <1>3, <1>5, <1>7, <1>8, <1>8a, <1>9, <1>9a, ConcatEmptySeq
  <1>17. Once(M, lost', recorded) /\ SameEntries(N, lost', M, lost')
    <2>1. Joined(Lists, N, M, k, l)
      BY <1>2, <1>9a, <1>10, <1>12, <1>16 DEF Joined, OnlyAt
    <2> QED
      BY <1>7, <1>8a, <1>9a, <1>13, <1>14, <1>15, <2>1, JoinOnce
  <1> QED
    BY <1>2, <1>6, <1>15, <1>17 DEF ListedOnce, Listed, SameEntries, SaveArchive

\* What a handler held when it stops is lost.
LEMMA GiveUpListed ==
  ASSUME TypeOK, TypeOK', HoldsWhatItMoves, ListedOnce, NEW r \in Requests, GiveUp(r)
  PROVE  HoldsWhatItMoves' /\ ListedOnce' /\ Listed' = Listed
  <1>1. /\ HoldsWhatItMoves'
        /\ held'[r].entries = <<>>
        /\ \A q \in Requests \ {r} : held'[q] = held[q]
    BY FinishHolds DEF GiveUp
  <1>2. PICK L, M : /\ L = Placed(ledger, archive, held, pages)
                    /\ M = Placed(ledger', archive', held', pages')
    OBVIOUS
  <1>3. L \in [Lists -> Seq(Entry)] /\ M \in [Lists -> Seq(Entry)]
    BY <1>2, PlacedType DEF TypeOK
  <1>4. PICK k : k = <<"held", r>>
    OBVIOUS
  <1>4a. k \in Lists /\ L[k] = held[r].entries /\ M[k] = held'[r].entries
    BY <1>4, <1>2, PlacedAt, PlacesAre
  <1>5. \A o \in Lists \ {k} : M[o] = L[o]
    <2>1. SameOutside({k}, ledger, archive, held, pages, ledger', archive', held', pages')
      BY <1>1, <1>4, <1>4a DEF GiveUp, docVars, SameOutside
    <2> QED
      BY <1>2, <2>1, PlacedElsewhere
  <1>6. Once(L, lost, recorded) /\ lost \in SUBSET Entry /\ recorded \in Nat
    BY <1>2 DEF ListedOnce, TypeOK
  <1>7. lost' = lost \union {L[k][i] : i \in DOMAIN L[k]}
    BY <1>4, <1>4a DEF GiveUp, Loses
  <1>8. Once(M, lost', recorded) /\ SameEntries(L, lost, M, lost')
    <2>1. Emptied(Lists, L, M, k, lost, lost')
      BY <1>1, <1>4a, <1>5, <1>7 DEF Emptied, OnlyAt
    <2> QED
      BY <1>3, <1>4a, <1>6, <2>1, DropOnce
  <1> QED
    BY <1>1, <1>2, <1>8 DEF ListedOnce, Listed, SameEntries, GiveUp

\* Every step keeps each recording listed once.
LEMMA ListedStep ==
  ASSUME TypeOK, TypeOK', HandlersHoldTheirWork, HoldsWhatItMoves, ListedOnce, [Next]_vars
  PROVE  HoldsWhatItMoves' /\ ListedOnce'
  <1>1. ASSUME NEW r \in Requests, ReadLedger(r) \/ ReadArchive(r)
        PROVE  HoldsWhatItMoves' /\ ListedOnce'
    <2>1. HoldsWhatItMoves'
      BY <1>1 DEF ReadLedger, ReadArchive, Moves, HoldsWhatItMoves, TypeOK
    <2> QED
      BY <1>1, <2>1 DEF ReadLedger, ReadArchive, docVars, auxVars, ListedOnce
  <1>2. ASSUME NEW r \in Requests, NEW i \in Invoices, RequestTds(r, i)
        PROVE  HoldsWhatItMoves' /\ ListedOnce'
    <2>1. HoldsWhatItMoves'
      BY <1>2 DEF RequestTds, Begin, HoldsWhatItMoves, TypeOK
    <2> QED
      BY <1>2, <2>1 DEF RequestTds, docVars, auxVars, ListedOnce
  <1>3. CASE UNCHANGED vars
    BY <1>3 DEF vars, docVars, reqVars, auxVars, HoldsWhatItMoves, ListedOnce
  <1> QED
    BY <1>1, <1>2, <1>3, RecordListed, CutListed, PageListed, ArchiveListed,
       GiveUpListed, TakeListed, MergeListed DEF Next, Handler

\* Every behaviour keeps each recording listed once.
THEOREM EachRecordingListedOnce == Spec => []RecordingsListedOnce
  <1>1. Init => IndInv /\ HoldsWhatItMoves /\ ListedOnce
    BY InitInv, InitListed
  <1>2. IndInv /\ HoldsWhatItMoves /\ ListedOnce /\ [Next]_vars
            => (IndInv /\ HoldsWhatItMoves /\ ListedOnce)'
    <2> SUFFICES ASSUME IndInv, HoldsWhatItMoves, ListedOnce, [Next]_vars
                 PROVE  (IndInv /\ HoldsWhatItMoves /\ ListedOnce)'
      OBVIOUS
    <2>1. IndInv'
      BY InvStep
    <2>2. TypeOK /\ HandlersHoldTheirWork
      BY DEF IndInv
    <2>3. TypeOK'
      BY <2>1 DEF IndInv
    <2>4. HoldsWhatItMoves' /\ ListedOnce'
      BY <2>2, <2>3, ListedStep
    <2> QED
      BY <2>1, <2>4
  <1>3. IndInv /\ ListedOnce => RecordingsListedOnce
    BY ListedOnceShows DEF IndInv
  <1> QED
    BY <1>1, <1>2, <1>3, PTL DEF Spec

----------------------------------------------------------------------------
\* The tax due on two amounts together is the sum of the taxes due on each, but
\* for one unit of rounding.
LEMMA DueOfSum ==
  ASSUME NEW a \in Nat, NEW b \in Nat
  PROVE  Due(a + b) - Due(a) - Due(b) \in -1 .. 1
  <1> DEFINE x == a * RateBps
             y == b * RateBps
  <1>1. x \in Nat /\ y \in Nat /\ (a + b) * RateBps = x + y
    BY LedgerAssumption
  <1>2. \A m, n \in Nat :
            (m + n + 5000) \div 10000 - (m + 5000) \div 10000 - (n + 5000) \div 10000 \in -1 .. 1
    OBVIOUS
  <1>3. Due(a + b) = (x + y + 5000) \div 10000
    BY <1>1 DEF Due
  <1>4. Due(a) = (x + 5000) \div 10000 /\ Due(b) = (y + 5000) \div 10000
    BY DEF Due
  <1> HIDE DEF x, y
  <1> QED
    BY <1>1, <1>2, <1>3, <1>4

\* What a recording does to the base, the tax and the number of its ledger.
LEMMA RecordAmounts ==
  ASSUME TypeOK, HandlersHoldTheirWork, NEW r \in Requests, Record(r)
  PROVE  /\ key[r] \in Vendors /\ inv[r] \in Invoices
         /\ ledger'[key[r]].base = ledger[key[r]].base + Amount[inv[r]]
         /\ ledger'[key[r]].tds = ledger[key[r]].tds + Deduction(view[r], Amount[inv[r]])
         /\ ledger'[key[r]].count = ledger[key[r]].count + 1
  <1>1. key[r] \in Vendors /\ inv[r] \in Invoices
    BY DEF Record, HandlersHoldTheirWork
  <1> QED
    BY <1>1 DEF Record, Recorded, TypeOK

\* A recording that missed no crossing keeps up, whichever branch it takes.
LEMMA RecordIsDue ==
  ASSUME TypeOK, HandlersHoldTheirWork, NEW r \in Requests
  PROVE  RecordKeepsUp(r)
  <1> SUFFICES ASSUME Record(r), NoCrossingMissed(r), Amount[inv[r]] >= Single,
                      CaughtUp(ledger[key[r]])
               PROVE  CaughtUp(ledger'[key[r]])
    BY DEF RecordKeepsUp
  <1>1. PICK v, a, b, t, n, before :
            /\ v = key[r] /\ a = Amount[inv[r]] /\ before = view[r]
            /\ b = ledger[v].base /\ t = ledger[v].tds /\ n = ledger[v].count
    OBVIOUS
  <1>2. /\ v \in Vendors /\ inv[r] \in Invoices
        /\ ledger'[v].base = b + a
        /\ ledger'[v].tds = t + Deduction(before, a)
        /\ ledger'[v].count = n + 1
    BY <1>1, RecordAmounts
  <1>3. a \in Nat \ {0} /\ a >= Single
    BY <1>1, <1>2, LedgerAssumption
  <1>4. b \in Nat /\ t \in Int /\ n \in Nat /\ before.base \in Nat /\ before.tds \in Int
    BY <1>1, <1>2 DEF TypeOK, Ledger, View
  <1>5. \/ before.base = b /\ before.tds = t
        \/ Passed(before.base) /\ Passed(b)
    BY <1>1 DEF NoCrossingMissed, ViewOf
  <1>6. Passed(b) => t - Due(b) \in -n .. n
    BY <1>1 DEF CaughtUp
  <1>7. /\ Due(a) \in Nat /\ Due(b) \in Nat /\ Due(b + a) \in Nat
        /\ Due(b + a) - Due(b) - Due(a) \in -1 .. 1
    <2>1. a \in Nat /\ b + a \in Nat
      BY <1>3, <1>4
    <2> QED
      BY <1>4, <2>1, DueType, DueOfSum
  <1>8. Threshold \in Nat /\ Single \in Nat
    BY LedgerAssumption
  <1> SUFFICES ASSUME Passed(b + a)
               PROVE  (t + Deduction(before, a)) - Due(b + a) \in -(n + 1) .. n + 1
    <2>1. CaughtUp(ledger'[key[r]])
              <=> (Passed(ledger'[v].base)
                      => ledger'[v].tds - Due(ledger'[v].base)
                             \in -ledger'[v].count .. ledger'[v].count)
      BY <1>1 DEF CaughtUp
    <2>2. Passed(ledger'[v].base) <=> Passed(b + a)
      BY <1>2
    <2>3. Due(ledger'[v].base) = Due(b + a)
      BY <1>2
    <2> QED
      BY <1>2, <2>1, <2>2, <2>3
  <1>9. ~Below(before, a)
    BY <1>3, <1>4, <1>5, <1>8 DEF Below, Passed
  <1>10. CASE Crosses(before, a)
    <2>1. before.base = b /\ before.tds = t
      BY <1>4, <1>5, <1>8, <1>10 DEF Crosses, Passed
    <2>2. Deduction(before, a) = Due(b + a) - t
      BY <1>9, <1>10, <2>1 DEF Deduction
    <2> QED
      BY <1>4, <1>7, <2>2
  <1>11. CASE ~Crosses(before, a)
    <2>1. ~(a < Single)
      BY <1>3, <1>8
    <2>2. Deduction(before, a) = Due(a)
      BY <1>9, <1>11, <2>1 DEF Deduction
    <2>3. Passed(b)
      BY <1>4, <1>5, <1>8, <1>9, <1>11 DEF Crosses, Below, Passed
    <2>4. t - Due(b) \in -n .. n
      BY <1>6, <2>3
    <2> QED
      BY <1>4, <1>7, <2>2, <2>4
  <1> QED
    BY <1>10, <1>11

\* The tax of every ledger keeps up with its base, to the rounding, unless the
\* threshold was crossed between a handler's read and its recording.
THEOREM TaxesKeepUp == Spec => TaxKeepsUp
  <1>1. Init => IndInv
    BY InitInv
  <1>2. IndInv /\ [Next]_vars => IndInv'
    BY InvStep
  <1>3. IndInv /\ [Next]_vars => [\A r \in Requests : RecordKeepsUp(r)]_vars
    BY RecordIsDue DEF IndInv
  <1> QED
    BY <1>1, <1>2, <1>3, PTL DEF Spec, TaxKeepsUp

----------------------------------------------------------------------------
\* What a document counts, by field.
Fields == {"base", "tds", "count"}

\* The documents of ledgers le, archives ar and handlers he, each at its place.
Documents(le, ar, he) ==
    [d \in Docs |-> CASE d[1] = "ledger"  -> le[d[2]]
                      [] d[1] = "archive" -> ar[d[2]]
                      [] d[1] = "held"    -> he[d[2]]]

\* What the documents D say in field f.
Column(D, f) == [d \in Docs |-> D[d][f]]
\* ... and its sum.
ColumnSum(D, f) == SumFunctionOnSet(Column(D, f), Docs)

\* The documents there are.
LEMMA DocsAre ==
  /\ \A v \in Vendors : <<"ledger", v>> \in Docs /\ <<"archive", v>> \in Docs
  /\ \A r \in Requests : <<"held", r>> \in Docs
  /\ \A d \in Docs : \/ \E v \in Vendors : d = <<"ledger", v>> \/ d = <<"archive", v>>
                     \/ \E r \in Requests : d = <<"held", r>>
  BY DEF Docs

\* ... which are finitely many.
LEMMA DocsFinite == IsFiniteSet(Docs)
  <1>1. IsFiniteSet({"ledger"}) /\ IsFiniteSet({"archive"}) /\ IsFiniteSet({"held"})
    BY FS_Singleton
  <1>2. IsFiniteSet({"ledger"} \union {"archive"})
    BY <1>1, FS_Union
  <1>3. {"ledger"} \union {"archive"} = {"ledger", "archive"}
    OBVIOUS
  <1>4. IsFiniteSet({"ledger", "archive"} \X Vendors) /\ IsFiniteSet({"held"} \X Requests)
    BY <1>1, <1>2, <1>3, FS_Product, LedgerAssumption
  <1> QED
    BY <1>4, FS_Union DEF Docs

\* What is at each place.
LEMMA DocumentAt ==
  ASSUME NEW le, NEW ar, NEW he
  PROVE  /\ \A v \in Vendors : Documents(le, ar, he)[<<"ledger", v>>] = le[v]
         /\ \A v \in Vendors : Documents(le, ar, he)[<<"archive", v>>] = ar[v]
         /\ \A r \in Requests : Documents(le, ar, he)[<<"held", r>>] = he[r]
  BY DocsAre DEF Documents

\* At each place there is a document.
LEMMA DocumentsType ==
  ASSUME NEW le \in [Vendors -> Ledger], NEW ar \in [Vendors -> Ledger],
         NEW he \in [Requests -> Ledger]
  PROVE  Documents(le, ar, he) \in [Docs -> Ledger]
  <1>1. \A d \in Docs : Documents(le, ar, he)[d] \in Ledger
    <2> SUFFICES ASSUME NEW d \in Docs PROVE Documents(le, ar, he)[d] \in Ledger
      OBVIOUS
    <2>1. CASE \E v \in Vendors : d = <<"ledger", v>>
      BY <2>1, DocumentAt
    <2>2. CASE \E v \in Vendors : d = <<"archive", v>>
      BY <2>2, DocumentAt
    <2>3. CASE \E r \in Requests : d = <<"held", r>>
      BY <2>3, DocumentAt
    <2> QED
      BY <2>1, <2>2, <2>3, DocsAre
  <1> QED
    BY <1>1 DEF Documents

\* A document counts in integers.
LEMMA FieldType == ASSUME NEW x \in Ledger, NEW f \in Fields PROVE x[f] \in Int
  BY DEF Ledger, Fields

\* Documents count in integers.
LEMMA ColumnInts ==
  ASSUME NEW D \in [Docs -> Ledger], NEW f \in Fields
  PROVE  Ints(Column(D, f), Docs)
  BY FieldType DEF Column, Ints

\* One document that changes changes the sum by as much.
LEMMA OneChanges ==
  ASSUME NEW D \in [Docs -> Ledger], NEW E \in [Docs -> Ledger], NEW f \in Fields,
         NEW x \in Docs, \A y \in Docs \ {x} : E[y][f] = D[y][f]
  PROVE  ColumnSum(E, f) = ColumnSum(D, f) + (E[x][f] - D[x][f])
  <1>1. Ints(Column(D, f), Docs) /\ Ints(Column(E, f), Docs)
    BY ColumnInts
  <1>2. \A y \in Docs : y # x => Column(E, f)[y] = Column(D, f)[y]
    BY DEF Column
  <1>3. Column(E, f)[x] = E[x][f] /\ Column(D, f)[x] = D[x][f]
    BY DEF Column
  <1>4. ColumnSum(E, f) = ColumnSum(D, f) + (Column(E, f)[x] - Column(D, f)[x])
    BY <1>1, <1>2, DocsFinite, SumChangedAt DEF ColumnSum
  <1> QED
    BY <1>3, <1>4

\* What one document loses to another changes no sum.
LEMMA TwoExchange ==
  ASSUME NEW D \in [Docs -> Ledger], NEW E \in [Docs -> Ledger], NEW f \in Fields,
         NEW x \in Docs, NEW z \in Docs, x # z,
         \A y \in Docs \ {x, z} : E[y][f] = D[y][f],
         E[x][f] + E[z][f] = D[x][f] + D[z][f]
  PROVE  ColumnSum(E, f) = ColumnSum(D, f)
  <1>1. Ints(Column(D, f), Docs) /\ Ints(Column(E, f), Docs)
    BY ColumnInts
  <1>2. \A y \in Docs : y # x /\ y # z => Column(E, f)[y] = Column(D, f)[y]
    BY DEF Column
  <1>3. Column(E, f)[x] + Column(E, f)[z] = Column(D, f)[x] + Column(D, f)[z]
    BY DEF Column
  <1> QED
    BY <1>1, <1>2, <1>3, DocsFinite, SumMovedBetween DEF ColumnSum

\* Documents that say the same have the same sum.
LEMMA NoneChanges ==
  ASSUME NEW D \in [Docs -> Ledger], NEW E \in [Docs -> Ledger], NEW f \in Fields,
         \A y \in Docs : E[y][f] = D[y][f]
  PROVE  ColumnSum(E, f) = ColumnSum(D, f)
  <1>1. \A y \in Docs : Column(E, f)[y] = Column(D, f)[y]
    BY DEF Column
  <1> QED
    BY <1>1, DocsFinite, SumCongruent DEF ColumnSum

\* Two states of the documents that say the same in field f outside X.
AgreeOutside(X, f, le, ar, he, le2, ar2, he2) ==
    /\ \A v \in Vendors : <<"ledger", v>> \notin X => le2[v][f] = le[v][f]
    /\ \A v \in Vendors : <<"archive", v>> \notin X => ar2[v][f] = ar[v][f]
    /\ \A r \in Requests : <<"held", r>> \notin X => he2[r][f] = he[r][f]

\* They do.
LEMMA AgreeElsewhere ==
  ASSUME NEW X, NEW f, NEW le, NEW ar, NEW he, NEW le2, NEW ar2, NEW he2,
         AgreeOutside(X, f, le, ar, he, le2, ar2, he2)
  PROVE  \A y \in Docs \ X : Documents(le2, ar2, he2)[y][f] = Documents(le, ar, he)[y][f]
  <1> SUFFICES ASSUME NEW y \in Docs, y \notin X
               PROVE  Documents(le2, ar2, he2)[y][f] = Documents(le, ar, he)[y][f]
    OBVIOUS
  <1>1. CASE \E v \in Vendors : y = <<"ledger", v>>
    BY <1>1, DocumentAt DEF AgreeOutside
  <1>2. CASE \E v \in Vendors : y = <<"archive", v>>
    BY <1>2, DocumentAt DEF AgreeOutside
  <1>3. CASE \E r \in Requests : y = <<"held", r>>
    BY <1>3, DocumentAt DEF AgreeOutside
  <1> QED
    BY <1>1, <1>2, <1>3, DocsAre

----------------------------------------------------------------------------
\* What the documents and those that vanished count.
Counted(f) == ColumnSum(Documents(ledger, archive, held), f) + gone[f]

\* A handler holds a ledger only while it archives it.
HoldsNoAmounts ==
    \A r \in Requests : \A f \in Fields : pc[r] # "archive" => held[r][f] = 0

\* A sum is an integer.
LEMMA CountedType == ASSUME TypeOK, NEW f \in Fields PROVE Counted(f) \in Int
  <1>1. PICK D : D = Documents(ledger, archive, held)
    OBVIOUS
  <1>2. D \in [Docs -> Ledger]
    BY <1>1, DocumentsType DEF TypeOK
  <1>3. Ints(Column(D, f), Docs)
    BY <1>2, ColumnInts
  <1>4. ColumnSum(D, f) \in Int
    BY <1>3, DocsFinite, SumType DEF ColumnSum
  <1>5. gone[f] \in Int
    BY DEF TypeOK, Fields
  <1> QED
    BY <1>1, <1>4, <1>5 DEF Counted

\* A handler that ends, and did not archive, held nothing that counts.
LEMMA FinishCounts ==
  ASSUME TypeOK, NEW r \in Requests, Finish(r)
  PROVE  /\ \A f \in Fields : held'[r][f] = 0
         /\ \A q \in Requests \ {r} : held'[q] = held[q] /\ pc'[q] = pc[q]
  BY DEF Finish, TypeOK, NoLedger, Fields

\* A step that leaves what the documents say in a field.
LEMMA CountsStay ==
  ASSUME TypeOK, TypeOK', NEW f \in Fields, gone' = gone,
         AgreeOutside({}, f, ledger, archive, held, ledger', archive', held')
  PROVE  Counted(f)' = Counted(f)
  <1>1. PICK D, E : /\ D = Documents(ledger, archive, held)
                    /\ E = Documents(ledger', archive', held')
    OBVIOUS
  <1>2. D \in [Docs -> Ledger] /\ E \in [Docs -> Ledger]
    BY <1>1, DocumentsType DEF TypeOK
  <1>3. \A y \in Docs \ {} : E[y][f] = D[y][f]
    BY <1>1, AgreeElsewhere
  <1>4. ColumnSum(E, f) = ColumnSum(D, f)
    BY <1>2, <1>3, NoneChanges
  <1> QED
    BY <1>1, <1>4 DEF Counted

\* What a recording adds to a field.
Adds(r, f) == IF f = "count" THEN 1 ELSE NewEntry(r)[f]

\* A recording adds its amounts to one ledger.
LEMMA RecordCounts ==
  ASSUME TypeOK, TypeOK', HandlersHoldTheirWork, HoldsNoAmounts, NEW r \in Requests, Record(r)
  PROVE  HoldsNoAmounts' /\ \A f \in Fields : Counted(f)' = Counted(f) + Adds(r, f)
  <1>1. pc[r] = "record" /\ key[r] \in Vendors /\ \A f \in Fields : held[r][f] = 0
    BY DEF Record, HandlersHoldTheirWork, HoldsNoAmounts
  <1>2. HoldsNoAmounts' /\ \A f \in Fields : \A q \in Requests : held'[q][f] = held[q][f]
    <2>1. CASE Finish(r)
      BY <1>1, <2>1, FinishCounts DEF HoldsNoAmounts
    <2>2. CASE Moves(r, "record", "cut") /\ UNCHANGED <<view, held>>
      BY <1>1, <2>2 DEF Moves, HoldsNoAmounts, TypeOK
    <2> QED
      BY <2>1, <2>2 DEF Record
  <1>3. ASSUME NEW f \in Fields PROVE Counted(f)' = Counted(f) + Adds(r, f)
    <2>1. PICK D, E, x : /\ D = Documents(ledger, archive, held)
                         /\ E = Documents(ledger', archive', held')
                         /\ x = <<"ledger", key[r]>>
      OBVIOUS
    <2>2. D \in [Docs -> Ledger] /\ E \in [Docs -> Ledger]
      BY <2>1, DocumentsType DEF TypeOK
    <2>3. x \in Docs /\ D[x] = ledger[key[r]] /\ E[x] = ledger'[key[r]]
      <3>1. /\ Documents(ledger, archive, held)[<<"ledger", key[r]>>] = ledger[key[r]]
            /\ Documents(ledger', archive', held')[<<"ledger", key[r]>>] = ledger'[key[r]]
        BY <1>1, DocumentAt
      <3> QED
        BY <1>1, <2>1, <3>1, DocsAre
    <2>4. \A w \in Vendors \ {key[r]} : ledger'[w] = ledger[w]
      BY DEF Record, TypeOK
    <2>5. AgreeOutside({x}, f, ledger, archive, held, ledger', archive', held')
      <3>1. \A w \in Vendors : <<"ledger", w>> \notin {x} => ledger'[w] = ledger[w]
        BY <2>1, <2>4
      <3>2. archive' = archive
        BY DEF Record
      <3> QED
        BY <1>2, <3>1, <3>2 DEF AgreeOutside
    <2>6. \A y \in Docs \ {x} : E[y][f] = D[y][f]
      BY <2>1, <2>5, AgreeElsewhere
    <2>7. ColumnSum(E, f) = ColumnSum(D, f) + (E[x][f] - D[x][f])
      BY <2>2, <2>3, <2>6, OneChanges
    <2>8. E[x][f] = D[x][f] + Adds(r, f)
      <3>1. ledger'[key[r]] = Recorded(ledger[key[r]], NewEntry(r), Crosses(view[r], Amount[inv[r]]))
        BY <1>1 DEF Record, NewEntry, TypeOK
      <3>2. /\ ledger'[key[r]].base = ledger[key[r]].base + NewEntry(r).base
            /\ ledger'[key[r]].tds = ledger[key[r]].tds + NewEntry(r).tds
            /\ ledger'[key[r]].count = ledger[key[r]].count + 1
        BY <3>1 DEF Recorded
      <3> QED
        BY <2>3, <3>2 DEF Fields, Adds
    <2>9. E[x][f] \in Int /\ D[x][f] \in Int /\ \A z \in Ledger : z[f] \in Int
      BY <2>2, <2>3 DEF Ledger, Fields
    <2>10. ColumnSum(D, f) \in Int /\ gone[f] \in Int /\ Adds(r, f) \in Int
      <3>1. ColumnSum(D, f) \in Int
        BY <2>2, ColumnInts, DocsFinite, SumType DEF ColumnSum
      <3>2. gone[f] \in Int
        BY DEF TypeOK, Fields
      <3>3. NewEntry(r).base \in Int /\ NewEntry(r).tds \in Int
        <4>1. Amount[inv[r]] \in Nat /\ view[r] \in View
          BY <1>1, LedgerAssumption DEF HandlersHoldTheirWork, TypeOK
        <4>2. Deduction(view[r], Amount[inv[r]]) \in Int
          BY <4>1, DeductionType
        <4> QED
          BY <4>1, <4>2 DEF NewEntry
      <3>4. Adds(r, f) \in Int
        BY <3>3 DEF Adds, Fields
      <3> QED
        BY <3>1, <3>2, <3>4
    <2>11. ColumnSum(E, f) = ColumnSum(D, f) + Adds(r, f)
      BY <2>7, <2>8, <2>9, <2>10
    <2>12. gone' = gone
      BY DEF Record
    <2> QED
      BY <2>1, <2>10, <2>11, <2>12 DEF Counted
  <1> QED
    BY <1>2, <1>3

\* A split moves entries and no amounts.
LEMMA CutCounts ==
  ASSUME TypeOK, TypeOK', HandlersHoldTheirWork, HoldsNoAmounts, NEW r \in Requests, CutEntries(r)
  PROVE  HoldsNoAmounts' /\ \A f \in Fields : Counted(f)' = Counted(f)
  <1>1. pc[r] = "cut" /\ key[r] \in Vendors /\ \A f \in Fields : held[r][f] = 0
    BY DEF CutEntries, Moves, HandlersHoldTheirWork, HoldsNoAmounts
  <1>2. /\ HoldsNoAmounts'
        /\ \A f \in Fields : \A q \in Requests : held'[q][f] = held[q][f]
        /\ \A f \in Fields : \A w \in Vendors : ledger'[w][f] = ledger[w][f]
    <2>1. CASE Finish(r) /\ UNCHANGED ledger
      BY <1>1, <2>1, FinishCounts DEF HoldsNoAmounts
    <2>2. CASE /\ Moves(r, "cut", "page")
               /\ held' = [held EXCEPT ![r].entries = Overflow(ledger[key[r]].entries)]
               /\ ledger' = [ledger EXCEPT ![key[r]].entries = Kept(@)]
      <3>0. ledger[key[r]] \in Ledger /\ held[r] \in Ledger
        BY <1>1 DEF TypeOK
      <3>1. \A q \in Requests : held'[q].base = held[q].base /\ held'[q].tds = held[q].tds
                                  /\ held'[q].count = held[q].count
        BY <2>2, <3>0 DEF TypeOK, Ledger
      <3>2. \A w \in Vendors : ledger'[w].base = ledger[w].base /\ ledger'[w].tds = ledger[w].tds
                                  /\ ledger'[w].count = ledger[w].count
        BY <1>1, <2>2, <3>0 DEF TypeOK, Ledger
      <3>3. \A q \in Requests : pc'[q] # "archive" => pc[q] # "archive"
        BY <1>1, <2>2 DEF Moves, TypeOK
      <3> QED
        BY <3>1, <3>2, <3>3 DEF HoldsNoAmounts, Fields
    <2> QED
      BY <2>1, <2>2 DEF CutEntries
  <1>3. ASSUME NEW f \in Fields PROVE Counted(f)' = Counted(f)
    <2>1. AgreeOutside({}, f, ledger, archive, held, ledger', archive', held') /\ gone' = gone
      BY <1>2 DEF AgreeOutside, CutEntries, auxVars
    <2> QED
      BY <2>1, CountsStay
  <1> QED
    BY <1>2, <1>3

\* ... and so does its page.
LEMMA PageCounts ==
  ASSUME TypeOK, TypeOK', HoldsNoAmounts, NEW r \in Requests, SavePage(r)
  PROVE  HoldsNoAmounts' /\ \A f \in Fields : Counted(f)' = Counted(f)
  <1>1. \A f \in Fields : held[r][f] = 0
    BY DEF SavePage, HoldsNoAmounts
  <1>2. HoldsNoAmounts' /\ \A f \in Fields : \A q \in Requests : held'[q][f] = held[q][f]
    BY <1>1, FinishCounts DEF SavePage, HoldsNoAmounts
  <1>3. ASSUME NEW f \in Fields PROVE Counted(f)' = Counted(f)
    <2>1. AgreeOutside({}, f, ledger, archive, held, ledger', archive', held') /\ gone' = gone
      BY <1>2 DEF AgreeOutside, SavePage, auxVars
    <2> QED
      BY <2>1, CountsStay
  <1> QED
    BY <1>2, <1>3

\* A ledger that is taken counts with the handler that took it.
LEMMA TakeCounts ==
  ASSUME TypeOK, TypeOK', HoldsNoAmounts, NEW r \in Requests, NEW v \in Vendors, TakeLedger(r, v)
  PROVE  HoldsNoAmounts' /\ \A f \in Fields : Counted(f)' = Counted(f)
  <1>1. \A f \in Fields : held[r][f] = 0
    BY DEF TakeLedger, Begin, HoldsNoAmounts
  <1>2. /\ held'[r] = ledger[v]
        /\ \A q \in Requests \ {r} : held'[q] = held[q] /\ pc'[q] = pc[q]
        /\ pc'[r] = "archive"
        /\ \A f \in Fields : ledger'[v][f] = 0
        /\ \A w \in Vendors \ {v} : ledger'[w] = ledger[w]
    BY DEF TakeLedger, Begin, TypeOK, NoLedger, Fields
  <1>3. HoldsNoAmounts'
    BY <1>2 DEF HoldsNoAmounts
  <1>4. ASSUME NEW f \in Fields PROVE Counted(f)' = Counted(f)
    <2>1. PICK D, E, x, z : /\ D = Documents(ledger, archive, held)
                            /\ E = Documents(ledger', archive', held')
                            /\ x = <<"ledger", v>> /\ z = <<"held", r>>
      OBVIOUS
    <2>2. D \in [Docs -> Ledger] /\ E \in [Docs -> Ledger]
      BY <2>1, DocumentsType DEF TypeOK
    <2>3. /\ x \in Docs /\ D[x] = ledger[v] /\ E[x] = ledger'[v]
          /\ z \in Docs /\ D[z] = held[r] /\ E[z] = held'[r] /\ x # z
      <3>1. /\ Documents(ledger, archive, held)[<<"ledger", v>>] = ledger[v]
            /\ Documents(ledger', archive', held')[<<"ledger", v>>] = ledger'[v]
            /\ Documents(ledger, archive, held)[<<"held", r>>] = held[r]
            /\ Documents(ledger', archive', held')[<<"held", r>>] = held'[r]
        BY DocumentAt
      <3>2. <<"ledger", v>> # <<"held", r>>
        OBVIOUS
      <3> QED
        BY <2>1, <3>1, <3>2, DocsAre
    <2>4. AgreeOutside({x, z}, f, ledger, archive, held, ledger', archive', held')
      <3>1. \A w \in Vendors : <<"ledger", w>> \notin {x, z} => ledger'[w] = ledger[w]
        BY <1>2, <2>1
      <3>2. \A q \in Requests : <<"held", q>> \notin {x, z} => held'[q] = held[q]
        BY <1>2, <2>1
      <3>3. archive' = archive
        BY DEF TakeLedger
      <3> QED
        BY <3>1, <3>2, <3>3 DEF AgreeOutside
    <2>5. \A y \in Docs \ {x, z} : E[y][f] = D[y][f]
      BY <2>1, <2>4, AgreeElsewhere
    <2>6. E[x][f] + E[z][f] = D[x][f] + D[z][f]
      <3>1. ledger[v][f] \in Int
        BY FieldType DEF TypeOK
      <3>1a. PICK a \in Int : a = ledger[v][f]
        BY <3>1
      <3>2. D[x][f] = a /\ D[z][f] = 0 /\ E[x][f] = 0 /\ E[z][f] = a
        BY <1>1, <1>2, <2>3, <3>1a
      <3> QED
        BY <3>2
    <2>7. ColumnSum(E, f) = ColumnSum(D, f)
      BY <2>2, <2>3, <2>5, <2>6, TwoExchange
    <2>8. gone' = gone
      BY DEF TakeLedger, auxVars
    <2> QED
      BY <2>1, <2>7, <2>8 DEF Counted
  <1> QED
    BY <1>3, <1>4

\* A merge moves what one ledger counts to another.
LEMMA MergeCounts ==
  ASSUME TypeOK, TypeOK', HoldsNoAmounts, NEW source \in Vendors, NEW target \in Vendors,
         MergeVendors(source, target)
  PROVE  HoldsNoAmounts' /\ \A f \in Fields : Counted(f)' = Counted(f)
  <1>1. HoldsNoAmounts'
    BY DEF MergeVendors, reqVars, HoldsNoAmounts
  <1>2. /\ source # target
        /\ \A f \in Fields : ledger'[target][f] = ledger[target][f] + ledger[source][f]
        /\ \A f \in Fields : ledger'[source][f] = 0
        /\ \A w \in Vendors \ {source, target} : ledger'[w] = ledger[w]
    BY DEF MergeVendors, Consolidated, NoLedger, TypeOK, Fields
  <1>3. ASSUME NEW f \in Fields PROVE Counted(f)' = Counted(f)
    <2>1. PICK D, E, x, z : /\ D = Documents(ledger, archive, held)
                            /\ E = Documents(ledger', archive', held')
                            /\ x = <<"ledger", source>> /\ z = <<"ledger", target>>
      OBVIOUS
    <2>2. D \in [Docs -> Ledger] /\ E \in [Docs -> Ledger]
      BY <2>1, DocumentsType DEF TypeOK
    <2>3. /\ x \in Docs /\ D[x] = ledger[source] /\ E[x] = ledger'[source]
          /\ z \in Docs /\ D[z] = ledger[target] /\ E[z] = ledger'[target] /\ x # z
      <3>1. /\ Documents(ledger, archive, held)[<<"ledger", source>>] = ledger[source]
            /\ Documents(ledger', archive', held')[<<"ledger", source>>] = ledger'[source]
            /\ Documents(ledger, archive, held)[<<"ledger", target>>] = ledger[target]
            /\ Documents(ledger', archive', held')[<<"ledger", target>>] = ledger'[target]
        BY DocumentAt
      <3>2. <<"ledger", source>> # <<"ledger", target>>
        BY <1>2
      <3> QED
        BY <2>1, <3>1, <3>2, DocsAre
    <2>4. AgreeOutside({x, z}, f, ledger, archive, held, ledger', archive', held')
      <3>1. \A w \in Vendors : <<"ledger", w>> \notin {x, z} => ledger'[w] = ledger[w]
        BY <1>2, <2>1
      <3>2. archive' = archive /\ held' = held
        BY DEF MergeVendors, reqVars
      <3> QED
        BY <3>1, <3>2 DEF AgreeOutside
    <2>5. \A y \in Docs \ {x, z} : E[y][f] = D[y][f]
      BY <2>1, <2>4, AgreeElsewhere
    <2>6. E[x][f] + E[z][f] = D[x][f] + D[z][f]
      <3>1. ledger[source][f] \in Int /\ ledger[target][f] \in Int
        BY FieldType DEF TypeOK
      <3>2. PICK a \in Int, b \in Int : a = ledger[source][f] /\ b = ledger[target][f]
        BY <3>1
      <3>3. D[x][f] = a /\ D[z][f] = b /\ E[x][f] = 0 /\ E[z][f] = b + a
        BY <1>2, <2>3, <3>2
      <3> QED
        BY <3>3
    <2>7. ColumnSum(E, f) = ColumnSum(D, f)
      BY <2>2, <2>3, <2>5, <2>6, TwoExchange
    <2>8. gone' = gone
      BY DEF MergeVendors, auxVars
    <2> QED
      BY <2>1, <2>7, <2>8 DEF Counted
  <1> QED
    BY <1>1, <1>3

\* What vanishes counts as gone.
LEMMA LosesCounts ==
  ASSUME TypeOK, NEW doc \in Ledger, Loses(doc), NEW f \in Fields
  PROVE  gone'[f] = gone[f] + doc[f]
  BY DEF Loses, TypeOK, Fields

\* An archive counts what the handler held; the one it replaces is gone.
LEMMA ArchiveCounts ==
  ASSUME TypeOK, TypeOK', HandlersHoldTheirWork, HoldsNoAmounts, NEW r \in Requests, SaveArchive(r)
  PROVE  HoldsNoAmounts' /\ \A f \in Fields : Counted(f)' = Counted(f)
  <1>1. PICK v : v = key[r]
    OBVIOUS
  <1>2. v \in Vendors /\ Finish(r) /\ Loses(archive[v]) /\ ledger' = ledger
    BY <1>1 DEF SaveArchive, HandlersHoldTheirWork
  <1>3. /\ \A f \in Fields : held'[r][f] = 0
        /\ \A q \in Requests \ {r} : held'[q] = held[q] /\ pc'[q] = pc[q]
    BY <1>2, FinishCounts
  <1>4. HoldsNoAmounts'
    BY <1>3 DEF HoldsNoAmounts
  <1>5. archive'[v] = held[r] /\ \A w \in Vendors \ {v} : archive'[w] = archive[w]
    BY <1>1, <1>2 DEF SaveArchive, TypeOK
  <1>6. PICK emptied : emptied = [archive EXCEPT ![v] = NoLedger]
    OBVIOUS
  <1>7. /\ emptied \in [Vendors -> Ledger]
        /\ \A f \in Fields : emptied[v][f] = 0
        /\ \A w \in Vendors \ {v} : emptied[w] = archive[w]
    BY <1>2, <1>6, NoLedgerType DEF TypeOK, NoLedger, Fields
  <1>8. ASSUME NEW f \in Fields PROVE Counted(f)' = Counted(f)
    <2>1. PICK D, N, E, x, z : /\ D = Documents(ledger, archive, held)
                               /\ N = Documents(ledger, emptied, held)
                               /\ E = Documents(ledger', archive', held')
                               /\ x = <<"archive", v>> /\ z = <<"held", r>>
      OBVIOUS
    <2>2. D \in [Docs -> Ledger] /\ N \in [Docs -> Ledger] /\ E \in [Docs -> Ledger]
      BY <1>7, <2>1, DocumentsType DEF TypeOK
    <2>3. /\ x \in Docs /\ D[x] = archive[v] /\ N[x] = emptied[v] /\ E[x] = archive'[v]
          /\ z \in Docs /\ N[z] = held[r] /\ E[z] = held'[r] /\ x # z
      <3>1. /\ Documents(ledger, archive, held)[<<"archive", v>>] = archive[v]
            /\ Documents(ledger, emptied, held)[<<"archive", v>>] = emptied[v]
            /\ Documents(ledger', archive', held')[<<"archive", v>>] = archive'[v]
            /\ Documents(ledger, emptied, held)[<<"held", r>>] = held[r]
            /\ Documents(ledger', archive', held')[<<"held", r>>] = held'[r]
        BY <1>2, DocumentAt
      <3>2. <<"archive", v>> # <<"held", r>>
        OBVIOUS
      <3> QED
        BY <1>2, <2>1, <3>1, <3>2, DocsAre
    <2>4. \A y \in Docs \ {x} : N[y][f] = D[y][f]
      <3>1. \A w \in Vendors : <<"archive", w>> \notin {x} => emptied[w] = archive[w]
        BY <1>7, <2>1
      <3>2. AgreeOutside({x}, f, ledger, archive, held, ledger, emptied, held)
        BY <3>1 DEF AgreeOutside
      <3> QED
        BY <2>1, <3>2, AgreeElsewhere
    <2>5. \A y \in Docs \ {x, z} : E[y][f] = N[y][f]
      <3>1. \A w \in Vendors : <<"archive", w>> \notin {x, z} => archive'[w] = emptied[w]
        BY <1>5, <1>7, <2>1
      <3>2. \A q \in Requests : <<"held", q>> \notin {x, z} => held'[q] = held[q]
        BY <1>3, <2>1
      <3>3. AgreeOutside({x, z}, f, ledger, emptied, held, ledger', archive', held')
        BY <1>2, <3>1, <3>2 DEF AgreeOutside
      <3> QED
        BY <2>1, <3>3, AgreeElsewhere
    <2>6. archive[v][f] \in Int /\ held[r][f] \in Int
      BY <1>2, FieldType DEF TypeOK
    <2>7. N[x][f] = 0 /\ D[x][f] = archive[v][f]
      BY <1>7, <2>3
    <2>8. ColumnSum(N, f) = ColumnSum(D, f) + (0 - archive[v][f])
      <3>1. ColumnSum(N, f) = ColumnSum(D, f) + (N[x][f] - D[x][f])
        BY <2>2, <2>3, <2>4, OneChanges
      <3> QED
        BY <2>7, <3>1
    <2>9. ColumnSum(E, f) = ColumnSum(N, f)
      <3>1. PICK a \in Int : a = held[r][f]
        BY <2>6
      <3>2. N[x][f] = 0 /\ N[z][f] = a /\ E[x][f] = a /\ E[z][f] = 0
        BY <1>3, <1>5, <2>3, <2>7, <3>1
      <3>3. E[x][f] + E[z][f] = N[x][f] + N[z][f]
        BY <3>2
      <3> QED
        BY <2>2, <2>3, <2>5, <3>3, TwoExchange
    <2>10. gone'[f] = gone[f] + archive[v][f]
      BY <1>2, LosesCounts DEF TypeOK
    <2>11. ColumnSum(D, f) \in Int /\ gone[f] \in Int
      <3>1. ColumnSum(D, f) \in Int
        BY <2>2, ColumnInts, DocsFinite, SumType DEF ColumnSum
      <3> QED
        BY <3>1 DEF TypeOK, Fields
    <2>12. ColumnSum(E, f) + gone'[f] = ColumnSum(D, f) + gone[f]
      BY <2>6, <2>8, <2>9, <2>10, <2>11
    <2> QED
      BY <2>1, <2>12 DEF Counted
  <1> QED
    BY <1>4, <1>8

\* What a handler held when it stops is gone.
LEMMA GiveUpCounts ==
  ASSUME TypeOK, TypeOK', HoldsNoAmounts, NEW r \in Requests, GiveUp(r)
  PROVE  HoldsNoAmounts' /\ \A f \in Fields : Counted(f)' = Counted(f)
  <1>1. Finish(r) /\ Loses(held[r]) /\ ledger' = ledger /\ archive' = archive
    BY DEF GiveUp, docVars
  <1>2. /\ \A f \in Fields : held'[r][f] = 0
        /\ \A q \in Requests \ {r} : held'[q] = held[q] /\ pc'[q] = pc[q]
    BY <1>1, FinishCounts
  <1>3. HoldsNoAmounts'
    BY <1>2 DEF HoldsNoAmounts
  <1>4. ASSUME NEW f \in Fields PROVE Counted(f)' = Counted(f)
    <2>1. PICK D, E, z : /\ D = Documents(ledger, archive, held)
                         /\ E = Documents(ledger', archive', held')
                         /\ z = <<"held", r>>
      OBVIOUS
    <2>2. D \in [Docs -> Ledger] /\ E \in [Docs -> Ledger]
      BY <2>1, DocumentsType DEF TypeOK
    <2>3. z \in Docs /\ D[z] = held[r] /\ E[z] = held'[r]
      <3>1. /\ Documents(ledger, archive, held)[<<"held", r>>] = held[r]
            /\ Documents(ledger', archive', held')[<<"held", r>>] = held'[r]
        BY DocumentAt
      <3> QED
        BY <2>1, <3>1, DocsAre
    <2>4. \A y \in Docs \ {z} : E[y][f] = D[y][f]
      <3>1. \A q \in Requests : <<"held", q>> \notin {z} => held'[q] = held[q]
        BY <1>2, <2>1
      <3>2. AgreeOutside({z}, f, ledger, archive, held, ledger', archive', held')
        BY <1>1, <3>1 DEF AgreeOutside
      <3> QED
        BY <2>1, <3>2, AgreeElsewhere
    <2>5. held[r][f] \in Int /\ E[z][f] = 0 /\ D[z][f] = held[r][f]
      BY <1>2, <2>3, FieldType DEF TypeOK
    <2>6. ColumnSum(E, f) = ColumnSum(D, f) + (0 - held[r][f])
      <3>1. ColumnSum(E, f) = ColumnSum(D, f) + (E[z][f] - D[z][f])
        BY <2>2, <2>3, <2>4, OneChanges
      <3> QED
        BY <2>5, <3>1
    <2>7. gone'[f] = gone[f] + held[r][f]
      BY <1>1, LosesCounts DEF TypeOK
    <2>8. ColumnSum(D, f) \in Int /\ gone[f] \in Int
      <3>1. ColumnSum(D, f) \in Int
        BY <2>2, ColumnInts, DocsFinite, SumType DEF ColumnSum
      <3> QED
        BY <3>1 DEF TypeOK, Fields
    <2>9. ColumnSum(E, f) + gone'[f] = ColumnSum(D, f) + gone[f]
      BY <2>5, <2>6, <2>7, <2>8
    <2> QED
      BY <2>1, <2>9 DEF Counted
  <1> QED
    BY <1>3, <1>4

----------------------------------------------------------------------------
\* The base and the tax of an entry.
BaseOf == [e \in Entry |-> e.base]
TdsOf  == [e \in Entry |-> e.tds]

\* What documents count adds up to the entries that are listed or lost.
AddsUp ==
    /\ IsFiniteSet(Listed)
    /\ Counted("base") = SumFunctionOnSet(BaseOf, Listed)
    /\ Counted("tds") = SumFunctionOnSet(TdsOf, Listed)
    /\ Counted("count") = recorded

\* Only entries are listed.
LEMMA ListedType == ASSUME TypeOK PROVE Listed \subseteq Entry
  BY DEF TypeOK, Listed, Entries

\* Sets of entries have sums.
LEMMA EntryInts ==
  ASSUME NEW X \in SUBSET Entry
  PROVE  Ints(BaseOf, X) /\ Ints(TdsOf, X)
  BY DEF Ints, BaseOf, TdsOf, Entry

\* At the start there is nothing to add.
LEMMA InitAdds == Init => HoldsNoAmounts /\ AddsUp
  <1> SUFFICES ASSUME Init PROVE HoldsNoAmounts /\ AddsUp
    OBVIOUS
  <1>1. HoldsNoAmounts
    BY DEF Init, HoldsNoAmounts, NoLedger, Fields
  <1>2. Listed = {}
    <2>1. PICK L : L = Placed(ledger, archive, held, pages)
      OBVIOUS
    <2>2. TypeOK
      BY InitInv DEF IndInv
    <2>3. L \in [Lists -> Seq(Entry)]
      BY <2>1, <2>2, PlacedType DEF TypeOK
    <2>4. Once(L, lost, recorded) /\ lost = {} /\ recorded = 0
      BY <2>1, InitListed DEF ListedOnce, Init
    <2>5. \A l \in Lists : \A i \in DOMAIN L[l] : L[l][i].id \in 1 .. 0
      BY <2>3, <2>4, OnceFacts
    <2>6. DOMAIN L = Lists
      BY <2>3
    <2> QED
      BY <2>1, <2>4, <2>5, <2>6 DEF Listed, Entries
  <1>3. ASSUME NEW f \in Fields PROVE Counted(f) = 0
    <2>1. PICK D : D = Documents(ledger, archive, held)
      OBVIOUS
    <2>2. \A d \in Docs : D[d] = NoLedger
      <3> SUFFICES ASSUME NEW d \in Docs PROVE D[d] = NoLedger
        OBVIOUS
      <3>1. CASE \E v \in Vendors : d = <<"ledger", v>>
        BY <2>1, <3>1, DocumentAt DEF Init
      <3>2. CASE \E v \in Vendors : d = <<"archive", v>>
        BY <2>1, <3>2, DocumentAt DEF Init
      <3>3. CASE \E r \in Requests : d = <<"held", r>>
        BY <2>1, <3>3, DocumentAt DEF Init
      <3> QED
        BY <3>1, <3>2, <3>3, DocsAre
    <2>3. \A d \in Docs : Column(D, f)[d] = 0
      BY <2>2 DEF Column, NoLedger, Fields
    <2>4. ColumnSum(D, f) = 0
      BY <2>3, DocsFinite, SumOfZeros DEF ColumnSum
    <2>5. gone[f] = 0
      BY DEF Init, Fields
    <2> QED
      BY <2>1, <2>4, <2>5 DEF Counted
  <1>4. IsFiniteSet({}) /\ SumFunctionOnSet(BaseOf, {}) = 0 /\ SumFunctionOnSet(TdsOf, {}) = 0
    BY FS_EmptySet, SumOfNone
  <1>5. Counted("base") = 0 /\ Counted("tds") = 0 /\ Counted("count") = 0 /\ recorded = 0
    BY <1>3 DEF Fields, Init
  <1> QED
    BY <1>1, <1>2, <1>4, <1>5 DEF AddsUp

\* A step that keeps the entries and what is counted.
LEMMA AddsStay ==
  ASSUME AddsUp, Listed' = Listed, \A f \in Fields : Counted(f)' = Counted(f),
         recorded' = recorded
  PROVE  AddsUp'
  <1>1. /\ Counted("base")' = Counted("base")
        /\ Counted("tds")' = Counted("tds")
        /\ Counted("count")' = Counted("count")
    BY DEF Fields
  <1> QED
    BY <1>1 DEF AddsUp

\* A recording adds as much to the documents as to the entries.
LEMMA RecordAdds ==
  ASSUME TypeOK, TypeOK', HandlersHoldTheirWork, HoldsWhatItMoves, ListedOnce,
         HoldsNoAmounts, AddsUp, NEW r \in Requests, Record(r)
  PROVE  HoldsNoAmounts' /\ AddsUp'
  <1>1. HoldsNoAmounts' /\ \A f \in Fields : Counted(f)' = Counted(f) + Adds(r, f)
    BY RecordCounts
  <1>2. NewEntry(r) \in Entry \ Listed /\ Listed' = Listed \union {NewEntry(r)}
    BY RecordListed
  <1>3. PICK e, X : e = NewEntry(r) /\ X = Listed
    OBVIOUS
  <1>4. e \in Entry \ X /\ X \subseteq Entry /\ IsFiniteSet(X) /\ Listed' = X \union {e}
    BY <1>2, <1>3, ListedType DEF AddsUp
  <1>5. IsFiniteSet(X \union {e}) /\ (X \union {e}) \ {e} = X
    BY <1>4, FS_AddElement
  <1>6. X \union {e} \in SUBSET Entry
    BY <1>4
  <1>7. /\ SumFunctionOnSet(BaseOf, X \union {e}) = BaseOf[e] + SumFunctionOnSet(BaseOf, X)
        /\ SumFunctionOnSet(TdsOf, X \union {e}) = TdsOf[e] + SumFunctionOnSet(TdsOf, X)
    <2>1. Ints(BaseOf, X \union {e}) /\ Ints(TdsOf, X \union {e})
      BY <1>6, EntryInts
    <2>2. PICK Z : Z = X \union {e}
      OBVIOUS
    <2>3. /\ SumFunctionOnSet(BaseOf, Z) = BaseOf[e] + SumFunctionOnSet(BaseOf, Z \ {e})
          /\ SumFunctionOnSet(TdsOf, Z) = TdsOf[e] + SumFunctionOnSet(TdsOf, Z \ {e})
      BY <1>5, <2>1, <2>2, SumWithout
    <2> QED
      BY <1>5, <2>2, <2>3
  <1>8. BaseOf[e] = e.base /\ TdsOf[e] = e.tds /\ e.base \in Int /\ e.tds \in Int
    BY <1>4 DEF BaseOf, TdsOf, Entry
  <1>9. /\ Counted("base")' = Counted("base") + e.base
        /\ Counted("tds")' = Counted("tds") + e.tds
        /\ Counted("count")' = Counted("count") + 1
    BY <1>1, <1>3 DEF Adds, Fields
  <1>10. Counted("base") = SumFunctionOnSet(BaseOf, X) /\ Counted("tds") = SumFunctionOnSet(TdsOf, X)
    BY <1>3 DEF AddsUp
  <1>11. Counted("base") \in Int /\ Counted("tds") \in Int
    BY CountedType DEF Fields
  <1>12. /\ Counted("base")' = SumFunctionOnSet(BaseOf, Listed')
         /\ Counted("tds")' = SumFunctionOnSet(TdsOf, Listed')
    BY <1>4, <1>7, <1>8, <1>9, <1>10, <1>11
  <1>13. Counted("count")' = recorded'
    BY <1>9 DEF AddsUp, Record
  <1> QED
    BY <1>1, <1>4, <1>5, <1>12, <1>13 DEF AddsUp

\* Every step keeps the sums.
LEMMA AddsStep ==
  ASSUME TypeOK, TypeOK', HandlersHoldTheirWork, HoldsWhatItMoves, ListedOnce,
         HoldsNoAmounts, AddsUp, [Next]_vars
  PROVE  HoldsNoAmounts' /\ AddsUp'
  <1>1. ASSUME NEW r \in Requests, ReadLedger(r) \/ ReadArchive(r)
        PROVE  HoldsNoAmounts' /\ AddsUp'
    <2>1. HoldsNoAmounts'
      BY <1>1 DEF ReadLedger, ReadArchive, Moves, HoldsNoAmounts, TypeOK
    <2>2. /\ UNCHANGED <<ledger, archive, pages, held, recorded, lost, gone>>
      BY <1>1 DEF ReadLedger, ReadArchive, docVars, auxVars
    <2> QED
      BY <2>1, <2>2 DEF AddsUp, Counted, Listed
  <1>2. ASSUME NEW r \in Requests, NEW i \in Invoices, RequestTds(r, i)
        PROVE  HoldsNoAmounts' /\ AddsUp'
    <2>1. HoldsNoAmounts'
      BY <1>2 DEF RequestTds, Begin, HoldsNoAmounts, TypeOK
    <2>2. /\ UNCHANGED <<ledger, archive, pages, held, recorded, lost, gone>>
      BY <1>2 DEF RequestTds, docVars, auxVars
    <2> QED
      BY <2>1, <2>2 DEF AddsUp, Counted, Listed
  <1>3. ASSUME NEW r \in Requests, Record(r)
        PROVE  HoldsNoAmounts' /\ AddsUp'
    BY <1>3, RecordAdds
  <1>4. ASSUME NEW r \in Requests, CutEntries(r) \/ SavePage(r) \/ SaveArchive(r) \/ GiveUp(r)
        PROVE  HoldsNoAmounts' /\ AddsUp'
    <2>1. HoldsNoAmounts' /\ \A f \in Fields : Counted(f)' = Counted(f)
      BY <1>4, CutCounts, PageCounts, ArchiveCounts, GiveUpCounts
    <2>2. Listed' = Listed
      BY <1>4, CutListed, PageListed, ArchiveListed, GiveUpListed
    <2>3. recorded' = recorded
      BY <1>4 DEF CutEntries, SavePage, SaveArchive, GiveUp, auxVars
    <2> QED
      BY <2>1, <2>2, <2>3, AddsStay
  <1>5. ASSUME NEW r \in Requests, NEW v \in Vendors, TakeLedger(r, v)
        PROVE  HoldsNoAmounts' /\ AddsUp'
    <2>1. HoldsNoAmounts' /\ \A f \in Fields : Counted(f)' = Counted(f)
      BY <1>5, TakeCounts
    <2>2. Listed' = Listed
      BY <1>5, TakeListed
    <2>3. recorded' = recorded
      BY <1>5 DEF TakeLedger, auxVars
    <2> QED
      BY <2>1, <2>2, <2>3, AddsStay
  <1>6. ASSUME NEW source \in Vendors, NEW target \in Vendors, MergeVendors(source, target)
        PROVE  HoldsNoAmounts' /\ AddsUp'
    <2>1. HoldsNoAmounts' /\ \A f \in Fields : Counted(f)' = Counted(f)
      BY <1>6, MergeCounts
    <2>2. Listed' = Listed
      BY <1>6, MergeListed
    <2>3. recorded' = recorded
      BY <1>6 DEF MergeVendors, auxVars
    <2> QED
      BY <2>1, <2>2, <2>3, AddsStay
  <1>7. CASE UNCHANGED vars
    <2>1. UNCHANGED <<ledger, archive, pages, pc, held, recorded, lost, gone>>
      BY <1>7 DEF vars, docVars, reqVars, auxVars
    <2> QED
      BY <2>1 DEF HoldsNoAmounts, AddsUp, Counted, Listed
  <1> QED
    BY <1>1, <1>2, <1>3, <1>4, <1>5, <1>6, <1>7 DEF Next, Handler

----------------------------------------------------------------------------
\* What the documents count, as the property says it.
LEMMA TotalIs == ASSUME NEW f PROVE Total(f) = Counted(f)
  <1>1. PICK D : D = Documents(ledger, archive, held)
    OBVIOUS
  <1>2. \A d \in Docs : Doc(d) = D[d]
    <2> SUFFICES ASSUME NEW d \in Docs PROVE Doc(d) = D[d]
      OBVIOUS
    <2>1. CASE \E v \in Vendors : d = <<"ledger", v>>
      BY <1>1, <2>1, DocumentAt DEF Doc
    <2>2. CASE \E v \in Vendors : d = <<"archive", v>>
      BY <1>1, <2>2, DocumentAt DEF Doc
    <2>3. CASE \E r \in Requests : d = <<"held", r>>
      BY <1>1, <2>3, DocumentAt DEF Doc
    <2> QED
      BY <2>1, <2>2, <2>3, DocsAre
  <1>3. [d \in Docs |-> Doc(d)[f]] = Column(D, f)
    BY <1>2 DEF Column
  <1>4. DOMAIN Column(D, f) = Docs
    BY DEF Column
  <1>5. SumFunction(Column(D, f)) = ColumnSum(D, f)
    BY <1>4 DEF SumFunction, ColumnSum
  <1> QED
    BY <1>1, <1>3, <1>5 DEF Total, Counted

\* The entries of all lists, and the lost ones, are those that are listed.
LEMMA ListedAre ==
  ASSUME TypeOK
  PROVE  Listed = {EntryAt(a) : a \in Listings} \union lost
  <1>1. PICK L : L = Placed(ledger, archive, held, pages)
    OBVIOUS
  <1>2. L \in [Lists -> Seq(Entry)] /\ DOMAIN L = Lists
    BY <1>1, PlacedType DEF TypeOK
  <1>3. /\ \A a : a \in Listings <=> \E l \in Lists : \E n \in DOMAIN L[l] : a = <<l, n>>
        /\ \A l \in Lists : \A n \in DOMAIN L[l] : <<l, n>> \in Listings /\ EntryAt(<<l, n>>) = L[l][n]
    BY <1>1, ListingsAre
  <1>4. \A l \in Lists : \A n \in DOMAIN L[l] : L[l][n] \in Entry
    BY <1>2, ElementOfSeq
  <1>5. Listed = lost \union {e \in Entry : \E l \in Lists : \E i \in DOMAIN L[l] : e = L[l][i]}
    BY <1>1, <1>2 DEF Listed, Entries
  <1>6. ASSUME NEW e \in Entry, NEW l \in Lists, NEW i \in DOMAIN L[l], e = L[l][i]
        PROVE  e \in {EntryAt(a) : a \in Listings}
    BY <1>3, <1>6
  <1>7. ASSUME NEW a \in Listings
        PROVE  EntryAt(a) \in Entry /\ \E l \in Lists : \E i \in DOMAIN L[l] : EntryAt(a) = L[l][i]
    BY <1>3, <1>4
  <1> QED
    BY <1>5, <1>6, <1>7

\* A sum over the listings and the lost entries is one over the entries.
LEMMA EntryTotalIs ==
  ASSUME TypeOK, EntryListedOnce, IsFiniteSet(Listed), NEW f, NEW g,
         Ints(g, Listed), \A e \in Listed : g[e] = e[f]
  PROVE  EntryTotal(f) = SumFunctionOnSet(g, Listed)
  <1>1. PICK A, T, X : A = Listings /\ T = {EntryAt(a) : a \in Listings} /\ X = lost
    OBVIOUS
  <1>2. Listed = T \union X
    BY <1>1, ListedAre
  <1>3. IsFiniteSet(T) /\ IsFiniteSet(X) /\ Ints(g, T) /\ Ints(g, X)
    BY <1>2, FS_Subset DEF Ints
  <1>4. T \cap X = {}
    BY <1>1 DEF EntryListedOnce
  <1>5. PICK h : h = [a \in A |-> EntryAt(a)]
    OBVIOUS
  <1>6. h \in Bijection(A, T)
    <2>1. h \in [A -> T] /\ \A t \in T : \E a \in A : h[a] = t
      BY <1>1, <1>5
    <2>2. \A a, b \in A : h[a] = h[b] => a = b
      BY <1>1, <1>5 DEF EntryListedOnce
    <2> QED
      BY <2>1, <2>2 DEF Bijection, Injection, Surjection, IsInjective
  <1>7. IsFiniteSet(A)
    <2>1. h \in Injection(A, T)
      BY <1>6 DEF Bijection
    <2> QED
      BY <1>3, <2>1, FS_Injection
  <1>8. PICK c : c = [a \in A |-> EntryAt(a)[f]]
    OBVIOUS
  <1>9. \A a \in A : h[a] \in T /\ c[a] = g[h[a]]
    BY <1>1, <1>2, <1>5, <1>8
  <1>10. SumFunctionOnSet(c, A) = SumFunctionOnSet(g, T)
    <2>1. Ints(c, A)
      BY <1>3, <1>9 DEF Ints
    <2> QED
      BY <1>6, <1>7, <1>9, <2>1, SumRenamed
  <1>11. PICK d : d = [e \in X |-> e[f]]
    OBVIOUS
  <1>12. SumFunctionOnSet(d, X) = SumFunctionOnSet(g, X)
    <2>1. \A e \in X : d[e] = g[e]
      BY <1>2, <1>11
    <2> QED
      BY <1>3, <2>1, SumCongruent
  <1>13. EntryTotal(f) = SumFunctionOnSet(c, A) + SumFunctionOnSet(d, X)
    <2>1. DOMAIN c = A /\ DOMAIN d = X
      BY <1>8, <1>11
    <2>2. EntryTotal(f) = SumFunction(c) + SumFunction(d)
      BY <1>1, <1>8, <1>11 DEF EntryTotal
    <2> QED
      BY <2>1, <2>2 DEF SumFunction
  <1>14. SumFunctionOnSet(g, T \union X) = SumFunctionOnSet(g, T) + SumFunctionOnSet(g, X)
    BY <1>3, <1>4, SumOfUnion
  <1> QED
    BY <1>2, <1>10, <1>12, <1>13, <1>14

\* The cumulatives add up when the sums do.
LEMMA AddsUpShows ==
  ASSUME TypeOK, EntryListedOnce, AddsUp
  PROVE  CumulativesMatchEntries
  <1>1. Listed \in SUBSET Entry /\ IsFiniteSet(Listed)
    BY ListedType DEF AddsUp
  <1>2. Ints(BaseOf, Listed) /\ Ints(TdsOf, Listed)
    BY <1>1, EntryInts
  <1>3. \A e \in Listed : BaseOf[e] = e["base"] /\ TdsOf[e] = e["tds"]
    BY <1>1 DEF BaseOf, TdsOf
  <1>4. EntryTotal("base") = SumFunctionOnSet(BaseOf, Listed)
    BY <1>1, <1>2, <1>3, EntryTotalIs
  <1>5. EntryTotal("tds") = SumFunctionOnSet(TdsOf, Listed)
    BY <1>1, <1>2, <1>3, EntryTotalIs
  <1>6. Total("base") = Counted("base") /\ Total("tds") = Counted("tds") /\ Total("count") = Counted("count")
    BY TotalIs
  <1> QED
    BY <1>4, <1>5, <1>6 DEF AddsUp, CumulativesMatchEntries

\* What the ledgers, the archives and the handlers count is at any time the
\* sum of the entries that were recorded, in base, tax and number.
THEOREM CumulativesAddUp == Spec => []CumulativesMatchEntries
  <1> DEFINE J == IndInv /\ HoldsWhatItMoves /\ ListedOnce /\ HoldsNoAmounts /\ AddsUp
  <1>1. Init => J
    BY InitInv, InitListed, InitAdds
  <1>2. J /\ [Next]_vars => J'
    <2> SUFFICES ASSUME J, [Next]_vars PROVE J'
      OBVIOUS
    <2>1. IndInv'
      BY InvStep
    <2>2. TypeOK /\ HandlersHoldTheirWork
      BY DEF IndInv
    <2>3. TypeOK'
      BY <2>1 DEF IndInv
    <2>4. HoldsWhatItMoves' /\ ListedOnce'
      BY <2>2, <2>3, ListedStep
    <2>5. HoldsNoAmounts' /\ AddsUp'
      BY <2>2, <2>3, AddsStep
    <2> QED
      BY <2>1, <2>4, <2>5
  <1>3. J => CumulativesMatchEntries
    BY ListedOnceShows, AddsUpShows DEF IndInv, RecordingsListedOnce
  <1> QED
    BY <1>1, <1>2, <1>3, PTL DEF Spec

=============================================================================
