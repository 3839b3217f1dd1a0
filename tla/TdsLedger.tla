------------------------------ MODULE TdsLedger ------------------------------
(***************************************************************************)
(* The cumulative TDS ledgers of a tenant's vendors: a request computes    *)
(* the deduction of an invoice from the cumulative it read                 *)
(* (tdsOrchestrator.ts, TdsCalculationService.ts) and records it           *)
(* (TdsVendorLedgerService.ts); long ledgers are split and closed ones     *)
(* archived (TdsVendorLedgerArchivalService.ts); a vendor merge moves a    *)
(* ledger to another vendor (VendorMasterService.ts).                      *)
(*                                                                         *)
(* One financial year, one section, one rate; requests that record pass no *)
(* certificate.  Each database call is atomic; the merge is one            *)
(* transaction, repeated until it does not conflict.  hasOverflow          *)
(* and the reads that follow a recording are left out: they only choose    *)
(* which entries a warning looks at.  A ledger that does not exist is one  *)
(* of no invoices, since the first recording creates it.                   *)
(***************************************************************************)
EXTENDS Integers, Sequences, FiniteSets, FiniteSetsExt

CONSTANTS
    Vendors,      \* vendor fingerprints
    Invoices,     \* invoices of these vendors
    NoInvoice,    \* the handler works on no invoice
    NoVendor,     \* ... and for no vendor
    Requests,     \* slots for handlers that run at the same time
    Amount,       \* taxable amount of each invoice
    RateBps,      \* rateLookup.rateBps
    Threshold,    \* rateLookup.thresholdAnnualMinor, 0 for none
    Single,       \* rateLookup.thresholdSingleMinor, 0 for none
    Cap,          \* env.TDS_LEDGER_ENTRIES_CAP
    MaxRuns       \* bound: handlers started

ASSUME LedgerAssumption ==
    /\ IsFiniteSet(Vendors)
    /\ IsFiniteSet(Requests)
    /\ NoInvoice \notin Invoices
    /\ NoVendor \notin Vendors
    /\ Amount \in [Invoices -> Nat \ {0}]
    /\ RateBps \in Nat
    /\ Threshold \in Nat
    /\ Single \in Nat
    /\ Cap \in Nat \ {0}
    /\ MaxRuns \in Nat

VARIABLES
    vendor,      \* Invoice.metadata.vendorFingerprint
    merged,      \* vendors of status merged
    ledger,      \* TdsVendorLedger by fingerprint
    archive,     \* TdsVendorLedgerArchive by fingerprint
    pages,       \* TdsVendorLedgerEntryOverflow: the entries of its pages
    pc,          \* where a handler is
    inv,         \* the invoice it works on
    key,         \* the fingerprint it works on
    view,        \* the cumulative it read
    held,        \* the entries it cut, or the ledger it took to archive
    runs,        \* handlers started, at most MaxRuns
    recorded,    \* auxiliary: how many recordings were made
    lost,        \* auxiliary: entries that are listed nowhere any more
    gone         \* auxiliary: what the cumulatives of vanished ledgers held

docVars == <<vendor, merged, ledger, archive, pages>>
reqVars == <<pc, inv, key, view, held, runs>>
auxVars == <<recorded, lost, gone>>
vars    == <<docVars, reqVars, auxVars>>

Stages == {"idle", "read", "readArchive", "record", "cut", "page", "archive"}
Entry  == [id : Nat, base : Nat, tds : Int]
Ledger == [base : Nat, tds : Int, count : Nat, crossed : BOOLEAN, entries : Seq(Entry)]
View   == [base : Nat, tds : Int]

NoLedger == [base |-> 0, tds |-> 0, count |-> 0, crossed |-> FALSE, entries |-> <<>>]
ZeroView == [base |-> 0, tds |-> 0]

Init ==
    /\ vendor \in [Invoices -> Vendors]
    /\ merged   = {}
    /\ ledger   = [v \in Vendors |-> NoLedger]
    /\ archive  = [v \in Vendors |-> NoLedger]
    /\ pages    = [v \in Vendors |-> <<>>]
    /\ pc       = [r \in Requests |-> "idle"]
    /\ inv      = [r \in Requests |-> NoInvoice]
    /\ key      = [r \in Requests |-> NoVendor]
    /\ view     = [r \in Requests |-> ZeroView]
    /\ held     = [r \in Requests |-> NoLedger]
    /\ runs     = 0
    /\ recorded = 0
    /\ lost     = {}
    /\ gone     = [base |-> 0, tds |-> 0, count |-> 0]

(***************************************************************************)
(* How a handler begins, goes on and ends.                                 *)
(***************************************************************************)
Begin(r, stage, i, v) ==
    /\ pc[r] = "idle"
    /\ runs < MaxRuns
    /\ runs' = runs + 1
    /\ pc'   = [pc EXCEPT ![r] = stage]
    /\ inv'  = [inv EXCEPT ![r] = i]
    /\ key'  = [key EXCEPT ![r] = v]

Moves(r, from, to) ==
    /\ pc[r] = from
    /\ pc' = [pc EXCEPT ![r] = to]
    /\ UNCHANGED <<inv, key, runs>>

Finish(r) ==
    /\ pc'   = [pc EXCEPT ![r] = "idle"]
    /\ inv'  = [inv EXCEPT ![r] = NoInvoice]
    /\ key'  = [key EXCEPT ![r] = NoVendor]
    /\ view' = [view EXCEPT ![r] = ZeroView]
    /\ held' = [held EXCEPT ![r] = NoLedger]
    /\ UNCHANGED runs

Loses(doc) ==
    /\ lost' = lost \union {doc.entries[n] : n \in DOMAIN doc.entries}
    /\ gone' = [base |-> gone.base + doc.base, tds |-> gone.tds + doc.tds,
                count |-> gone.count + doc.count]

\* A failed call ends the handler where it is; what it held is nowhere else.
GiveUp(r) ==
    /\ pc[r] # "idle"
    /\ Finish(r)
    /\ Loses(held[r])
    /\ UNCHANGED <<docVars, recorded>>

(***************************************************************************)
(* The deduction: computeThresholdAndTds.                                  *)
(***************************************************************************)

\* Math.round(base * rateBps / 10000)
Due(base) == (base * RateBps + 5000) \div 10000

\* Mutant: an invoice that reaches the threshold crosses it.
CrossesAt(before, amount) ==
    /\ Threshold > 0
    /\ before.base < Threshold
    /\ before.base + amount >= Threshold

\* thresholdJustCrossed
Crosses(before, amount) ==
    /\ Threshold > 0
    /\ before.base <= Threshold
    /\ before.base + amount > Threshold

Below(before, amount) == Threshold > 0 /\ before.base + amount <= Threshold

\* Mutant: no catch-up for the invoices below the threshold.
DeductionOfThisOne(before, amount) ==
    IF Below(before, amount) \/ amount < Single THEN 0 ELSE Due(amount)

\* tdsAmountMinor
Deduction(before, amount) ==
    IF Below(before, amount) THEN 0
    ELSE IF Crosses(before, amount) THEN Due(before.base + amount) - before.tds
    ELSE IF amount < Single THEN 0
    ELSE Due(amount)

(***************************************************************************)
(* Computing and recording: runTdsOrchestrator from a change of the GL     *)
(* code.  Ingestion passes no invoice id, so it computes and never records.*)
(***************************************************************************)
RequestTds(r, i) ==
    /\ Begin(r, "read", i, vendor[i])
    /\ UNCHANGED <<docVars, view, held, auxVars>>

\* getCumulativeForVendor: the ledger, and if there is none the archive.
ViewOf(doc) == [base |-> doc.base, tds |-> doc.tds]

ReadLedger(r) ==
    LET doc == ledger[key[r]] IN
    /\ \/ Moves(r, "read", "record") /\ doc.count > 0
       \/ Moves(r, "read", "readArchive") /\ doc.count = 0
    /\ view' = [view EXCEPT ![r] = ViewOf(doc)]
    /\ UNCHANGED <<docVars, held, auxVars>>

ReadArchive(r) ==
    /\ Moves(r, "readArchive", "record")
    /\ view' = [view EXCEPT ![r] = ViewOf(archive[key[r]])]
    /\ UNCHANGED <<docVars, held, auxVars>>

\* Mutant: the amount is taken off as a reversal would.
RecordedAsReversal(doc, entry, crosses) ==
    [base    |-> doc.base - entry.base,
     tds     |-> doc.tds + entry.tds,
     count   |-> doc.count + 1,
     crossed |-> doc.crossed \/ crosses,
     entries |-> Append(doc.entries, entry)]

Recorded(doc, entry, crosses) ==
    [base    |-> doc.base + entry.base,
     tds     |-> doc.tds + entry.tds,
     count   |-> doc.count + 1,
     crossed |-> doc.crossed \/ crosses,
     entries |-> Append(doc.entries, entry)]

\* recordTdsToLedger: one findOneAndUpdate with upsert, $inc and $push.
Record(r) ==
    LET v == key[r]
        a == Amount[inv[r]]
        e == [id |-> recorded + 1, base |-> a, tds |-> Deduction(view[r], a)]
    IN
    /\ pc[r] = "record"
    /\ ledger' = [ledger EXCEPT ![v] = Recorded(@, e, Crosses(view[r], a))]
    /\ recorded' = recorded + 1
    /\ IF Len(ledger[v].entries) + 1 > Cap
       THEN Moves(r, "record", "cut") /\ UNCHANGED <<view, held>>
       ELSE Finish(r)
    /\ UNCHANGED <<vendor, merged, archive, pages, lost, gone>>

(***************************************************************************)
(* Splitting a long ledger: splitEntriesIfOverflow.                        *)
(***************************************************************************)

\* Mutant: the first entry beyond the cap stays behind in neither part.
OverflowAfterNext(entries) == SubSeq(entries, Cap + 2, Len(entries))

Overflow(entries) == SubSeq(entries, Cap + 1, Len(entries))

Kept(entries) == SubSeq(entries, 1, Cap)

\* The update that keeps the first entries, and answers with all of them ...
CutEntries(r) ==
    LET v == key[r] IN
    /\ \/ /\ Moves(r, "cut", "page")
          /\ Len(ledger[v].entries) > Cap
          /\ held' = [held EXCEPT ![r].entries = Overflow(ledger[v].entries)]
          /\ ledger' = [ledger EXCEPT ![v].entries = Kept(@)]
          /\ UNCHANGED view
       \/ /\ pc[r] = "cut"
          /\ Len(ledger[v].entries) <= Cap
          /\ Finish(r)
          /\ UNCHANGED ledger
    /\ UNCHANGED <<vendor, merged, archive, pages, auxVars>>

\* ... and the page of the others.
SavePage(r) ==
    /\ pc[r] = "page"
    /\ pages' = [pages EXCEPT ![key[r]] = @ \o held[r].entries]
    /\ Finish(r)
    /\ UNCHANGED <<vendor, merged, ledger, archive, auxVars>>

(***************************************************************************)
(* Archiving: archiveFyForVendor.                                          *)
(***************************************************************************)

\* findOneAndDelete ...
TakeLedger(r, v) ==
    /\ ledger[v].count > 0
    /\ Begin(r, "archive", NoInvoice, v)
    /\ held' = [held EXCEPT ![r] = ledger[v]]
    /\ ledger' = [ledger EXCEPT ![v] = NoLedger]
    /\ UNCHANGED <<vendor, merged, archive, pages, view, auxVars>>

\* ... and the upsert of the archive, which replaces an earlier one.
SaveArchive(r) ==
    LET v == key[r] IN
    /\ pc[r] = "archive"
    /\ archive' = [archive EXCEPT ![v] = held[r]]
    /\ Loses(archive[v])
    /\ Finish(r)
    /\ UNCHANGED <<vendor, merged, ledger, pages, recorded>>

(***************************************************************************)
(* Merging vendors: mergeVendors, consolidateTdsLedgers, repointInvoices.  *)
(* Pages and archives stay where they are.                                 *)
(***************************************************************************)

\* Mutant: the number of invoices is not carried over.
ConsolidatedAmounts(target, source) ==
    [base    |-> target.base + source.base,
     tds     |-> target.tds + source.tds,
     count   |-> target.count,
     crossed |-> target.crossed \/ source.crossed,
     entries |-> target.entries \o source.entries]

Consolidated(target, source) ==
    [base    |-> target.base + source.base,
     tds     |-> target.tds + source.tds,
     count   |-> target.count + source.count,
     crossed |-> target.crossed \/ source.crossed,
     entries |-> target.entries \o source.entries]

MergeVendors(source, target) ==
    /\ source # target
    /\ source \notin merged
    /\ merged' = merged \union {source}
    /\ ledger' = [ledger EXCEPT ![target] = Consolidated(@, ledger[source]),
                                ![source] = NoLedger]
    /\ vendor' = [i \in Invoices |-> IF vendor[i] = source THEN target ELSE vendor[i]]
    /\ UNCHANGED <<archive, pages, reqVars, auxVars>>

(***************************************************************************)
(* The specification.                                                      *)
(***************************************************************************)
Handler(r) ==
    \/ ReadLedger(r)
    \/ ReadArchive(r)
    \/ Record(r)
    \/ CutEntries(r)
    \/ SavePage(r)
    \/ SaveArchive(r)
    \/ GiveUp(r)

Next ==
    \/ \E r \in Requests : Handler(r)
    \/ \E r \in Requests, i \in Invoices : RequestTds(r, i)
    \/ \E r \in Requests, v \in Vendors : TakeLedger(r, v)
    \/ \E source, target \in Vendors : MergeVendors(source, target)

Spec == Init /\ [][Next]_vars

(***************************************************************************)
(* Where entries are listed, and what cumulatives add up to.               *)
(***************************************************************************)
Docs  == ({"ledger", "archive"} \X Vendors) \union ({"held"} \X Requests)
Lists == Docs \union ({"pages"} \X Vendors)

Doc(d) == CASE d[1] = "ledger"  -> ledger[d[2]]
            [] d[1] = "archive" -> archive[d[2]]
            [] d[1] = "held"    -> held[d[2]]

List(l) == IF l[1] = "pages" THEN pages[l[2]] ELSE Doc(l).entries

Listings == UNION {{<<l, n>> : n \in DOMAIN List(l)} : l \in Lists}

EntryAt(at) == List(at[1])[at[2]]

(***************************************************************************)
(* Properties.                                                             *)
(***************************************************************************)
TypeOK ==
    /\ vendor   \in [Invoices -> Vendors]
    /\ merged   \subseteq Vendors
    /\ ledger   \in [Vendors -> Ledger]
    /\ archive  \in [Vendors -> Ledger]
    /\ pages    \in [Vendors -> Seq(Entry)]
    /\ pc       \in [Requests -> Stages]
    /\ inv      \in [Requests -> Invoices \union {NoInvoice}]
    /\ key      \in [Requests -> Vendors \union {NoVendor}]
    /\ view     \in [Requests -> View]
    /\ held     \in [Requests -> Ledger]
    /\ runs     \in 0 .. MaxRuns
    /\ recorded \in Nat
    /\ lost     \subseteq Entry
    /\ gone     \in [base : Nat, tds : Int, count : Nat]

\* A recording is listed at one place only, and once: splits, archives and
\* merges that overlap never list an entry twice, in one document or in two.
EntryListedOnce ==
    /\ \A a, b \in Listings : EntryAt(a).id = EntryAt(b).id => a = b
    /\ \A a \in Listings, e \in lost : EntryAt(a).id # e.id

\* Every recording is listed in a ledger, a page, an archive or by a handler
\* that is moving it, unless it was lost on its way: when a handler stops
\* between the two writes of a split or of an archiving, or an archive is
\* replaced by a later one.
EveryRecordingListed ==
    1 .. recorded = {EntryAt(a).id : a \in Listings} \union {e.id : e \in lost}

\* So the lists hold exactly the recordings that were not lost, each once.
RecordingsListedOnce == EntryListedOnce /\ EveryRecordingListed

\* What the ledgers, the archives and the handlers count adds up to the
\* recorded entries, in base, tax and number: "concurrent writes produce
\* final cumulative = sum of inputs", with splits, archives and merges.
Total(f)      == SumFunction([d \in Docs |-> Doc(d)[f]]) + gone[f]
EntryTotal(f) == SumFunction([a \in Listings |-> EntryAt(a)[f]])
                     + SumFunction([e \in lost |-> e[f]])

CumulativesMatchEntries ==
    /\ Total("base") = EntryTotal("base")
    /\ Total("tds") = EntryTotal("tds")
    /\ Total("count") = recorded

\* No ledger was merged or archived yet.
Untouched ==
    /\ merged = {}
    /\ gone.count = 0
    /\ \A v \in Vendors : archive[v].count = 0
    /\ \A r \in Requests : held[r].count = 0

\* A ledger says that its threshold was crossed only when its cumulative is
\* above the threshold, though the handler that decided it had read an older
\* cumulative (until a ledger starts anew under a handler's feet).
CrossedIsTrue ==
    Untouched =>
        \A v \in Vendors : ledger[v].crossed => ledger[v].base > Threshold

\* What a handler knows of its own work.
HandlersHoldTheirWork ==
    \A r \in Requests :
        /\ pc[r] # "idle" => key[r] \in Vendors
        /\ pc[r] \in {"read", "readArchive", "record"} => inv[r] \in Invoices
        /\ pc[r] = "archive" <=> held[r].count > 0

\* The cumulative a handler computes from was the ledger's, and a ledger that
\* nobody merged or archived only grows.
ViewsAreOld ==
    /\ \A v \in Vendors : archive[v].count = 0 => archive[v].base = 0
    /\ Untouched =>
          \A r \in Requests :
              pc[r] = "record" => view[r].base <= ledger[key[r]].base

\* The inductive invariant: a crossing decided on a stale cumulative is true
\* because the cumulative it was decided on is no larger than the ledger's.
IndInv ==
    /\ TypeOK
    /\ HandlersHoldTheirWork
    /\ ViewsAreOld
    /\ CrossedIsTrue

\* The annual threshold lies behind a cumulative of base.
Passed(base) == Threshold = 0 \/ base > Threshold

\* The tax deducted is the one due on the whole cumulative, but for the
\* rounding of each deduction.
CaughtUp(doc) ==
    Passed(doc.base) => doc.tds - Due(doc.base) \in -doc.count .. doc.count

\* The cumulative a handler computes from is still the ledger's, or it is old
\* and the threshold lay behind it and lies behind the ledger's.
NoCrossingMissed(r) ==
    LET doc == ledger[key[r]] IN
    \/ view[r] = ViewOf(doc)
    \/ Passed(view[r].base) /\ Passed(doc.base)

RecordKeepsUp(r) ==
    Record(r) /\ NoCrossingMissed(r) /\ Amount[inv[r]] >= Single /\ CaughtUp(ledger[key[r]])
        => CaughtUp(ledger'[key[r]])

\* A recording never loses more than its own rounding: whichever branch of the
\* computation was taken (below the threshold, across it with a catch-up, above
\* it), the tax of a ledger that was the one due on all its invoices together
\* is so again.  A stale cumulative does no harm unless the ledger crossed the
\* threshold between the read and the recording (for amounts that the single
\* threshold lets through).
TaxKeepsUp == [][\A r \in Requests : RecordKeepsUp(r)]_vars
=============================================================================
