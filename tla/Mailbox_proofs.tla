--------------------------- MODULE Mailbox_proofs ---------------------------
(***************************************************************************)
(* Proofs about Mailbox, for any number of syncs, tokens, notices, retries *)
(* and faults.                                                             *)
(***************************************************************************)
EXTENDS Mailbox, TLAPS, SequenceTheorems, FiniteSetTheorems

(***************************************************************************)
(* The inductive invariant.                                                *)
(***************************************************************************)
\* A sync that has created notice n and not yet saved the outcome of its mail.
Owns(s, n) == sync[s].at \in {"send", "save"} /\ sync[s].notice = n

\* A notice has one owner at most.  Until the owner saves, no recipient is
\* stored, so the tick mails nothing and the notice has the owner's mail or none.
OwnerInv ==
    \A s \in Syncs : sync[s].at \in {"send", "save"} =>
        /\ sync[s].notice \in DOMAIN notices
        /\ ~notices[sync[s].notice].recipient
        /\ ~notices[sync[s].notice].delivered
        /\ mails[sync[s].notice] = IF At(s, "save") /\ sync[s].sent THEN 1 ELSE 0
        /\ \A q \in Syncs : Owns(q, sync[s].notice) => q = s

\* What the tick has loaded of a notice with a recipient is still so.
Loaded(c) ==
    /\ c.notice \in DOMAIN notices
    /\ c.recipient => /\ notices[c.notice].recipient
                      /\ ~notices[c.notice].delivered
                      /\ ~notices[c.notice].failed

\* The tick has loaded each notice once.
TickInv ==
    /\ \A c \in tick.todo : Loaded(c)
    /\ \A c, d \in tick.todo : c.notice = d.notice => c = d
    /\ TickAt("save") =>
          /\ Loaded(tick.copy) /\ tick.copy.recipient
          /\ \A c \in tick.todo : c.notice # tick.copy.notice
          /\ tick.sent => mails[tick.copy.notice] > 0

\* The tick has mailed notice n and not saved that yet.
Unsaved(n) == TickAt("save") /\ tick.sent /\ tick.copy.notice = n

\* A notice is mailed once, and once more for every fault.
CountInv ==
    \A n \in DOMAIN notices :
        /\ notices[n].delivered => notices[n].recipient /\ mails[n] > 0
        /\ ~notices[n].recipient => mails[n] <= 1
        /\ notices[n].recipient /\ ~notices[n].delivered /\ ~Unsaved(n) =>
              mails[n] <= faults
        /\ mails[n] <= faults + 1

\* Together, whatever the interleaving, they are preserved by every step.
MailInv == TypeOK /\ OwnerInv /\ TickInv /\ CountInv

----------------------------------------------------------------------------
\* The notices are numbered from 1, and each has its count of mails.
LEMMA Numbered ==
  ASSUME TypeOK
  PROVE  /\ DOMAIN notices = 1 .. Len(notices) /\ DOMAIN mails = DOMAIN notices
         /\ Len(notices) \in Nat
         /\ \A n \in DOMAIN notices : n \in Nat /\ notices[n] \in Notice /\ mails[n] \in Nat
  BY DEF TypeOK

\* A write of notice n leaves the other notices alone.
LEMMA WriteEffect ==
  ASSUME TypeOK, NEW n \in DOMAIN notices, NEW e \in Notice,
         notices' = [notices EXCEPT ![n] = e]
  PROVE  /\ notices' \in Seq(Notice) /\ Len(notices') = Len(notices)
         /\ DOMAIN notices' = DOMAIN notices
         /\ \A m \in DOMAIN notices : notices'[m] = IF m = n THEN e ELSE notices[m]
  <1>1. notices \in Seq(Notice) /\ n \in 1 .. Len(notices)
    BY DEF TypeOK
  <1>2. /\ notices' \in Seq(Notice) /\ Len(notices') = Len(notices)
        /\ \A m \in 1 .. Len(notices) : notices'[m] = IF m = n THEN e ELSE notices[m]
    BY <1>1, ExceptSeq
  <1> QED
    BY <1>1, <1>2

\* So does one more mail.
LEMMA MailedEffect ==
  ASSUME TypeOK, NEW n \in DOMAIN notices, Mailed(n)
  PROVE  /\ mails' \in Seq(Nat) /\ Len(mails') = Len(mails)
         /\ \A m \in DOMAIN notices : mails'[m] = IF m = n THEN mails[m] + 1 ELSE mails[m]
  <1>1. mails \in Seq(Nat) /\ n \in 1 .. Len(mails) /\ DOMAIN notices = 1 .. Len(mails)
    BY DEF TypeOK
  <1>2. mails[n] + 1 \in Nat
    BY <1>1
  <1> QED
    BY <1>1, <1>2, ExceptSeq DEF Mailed

\* A new notice has the next number.
LEMMA RecordEffect ==
  ASSUME TypeOK, notices' = Append(notices, NewNotice), mails' = Append(mails, 0)
  PROVE  /\ notices' \in Seq(Notice) /\ mails' \in Seq(Nat)
         /\ Len(notices') = Len(notices) + 1 /\ Len(mails') = Len(notices')
         /\ DOMAIN notices' = DOMAIN notices \union {Len(notices) + 1}
         /\ Len(notices) + 1 \notin DOMAIN notices
         /\ notices'[Len(notices) + 1] = NewNotice /\ mails'[Len(notices) + 1] = 0
         /\ \A m \in DOMAIN notices : notices'[m] = notices[m] /\ mails'[m] = mails[m]
  <1>1. NewNotice \in Notice
    BY DEF NewNotice, Notice
  <1>2. notices \in Seq(Notice) /\ mails \in Seq(Nat) /\ Len(mails) = Len(notices)
    BY DEF TypeOK
  <1>3. /\ notices' \in Seq(Notice) /\ Len(notices') = Len(notices) + 1
        /\ notices'[Len(notices) + 1] = NewNotice
        /\ \A m \in 1 .. Len(notices) : notices'[m] = notices[m]
    BY <1>1, <1>2, AppendProperties
  <1>4. /\ mails' \in Seq(Nat) /\ Len(mails') = Len(mails) + 1
        /\ mails'[Len(mails) + 1] = 0
        /\ \A m \in 1 .. Len(mails) : mails'[m] = mails[m]
    BY <1>2, AppendProperties
  <1> QED
    BY <1>2, <1>3, <1>4

----------------------------------------------------------------------------
(***************************************************************************)
(* What each write puts into its notice.                                   *)
(***************************************************************************)
\* A notice grows old.
LEMMA AgeWrites ==
  ASSUME TypeOK, NEW n \in DOMAIN notices, Age(n)
  PROVE  \E e \in Notice :
            /\ notices' = [notices EXCEPT ![n] = e]
            /\ e = [notices[n] EXCEPT !.recent = FALSE]
  BY Numbered DEF Age, Notice

\* The owner saves the recipient and whether the mail was sent.
LEMMA SaveFirstWrites ==
  ASSUME TypeOK, OwnerInv, NEW s \in Syncs, SaveFirst(s), notices' # notices
  PROVE  \E n \in DOMAIN notices, e \in Notice :
            /\ n = sync[s].notice
            /\ notices' = [notices EXCEPT ![n] = e]
            /\ e = [notices[n] EXCEPT !.recipient = TRUE, !.delivered = sync[s].sent]
  <1> DEFINE n == sync[s].notice
  <1>1. n \in DOMAIN notices /\ notices[n] \in Notice /\ sync[s].sent \in BOOLEAN
    BY Numbered DEF SaveFirst, At, OwnerInv, TypeOK, Sync
  <1>2. notices[n].delivered = FALSE
    BY <1>1 DEF SaveFirst, At, OwnerInv, Notice
  <1>3. notices' = [notices EXCEPT ![n].recipient = TRUE,
                                   ![n].delivered = @ \/ sync[s].sent]
    BY DEF SaveFirst
  <1>4. notices' = [notices EXCEPT ![n] = [notices[n] EXCEPT !.recipient = TRUE,
                                                           !.delivered = sync[s].sent]]
    BY <1>1, <1>2, <1>3 DEF Notice
  <1> QED
    BY <1>1, <1>4 DEF Notice

\* A notice without a recipient is given up.
LEMMA GiveUpWrites ==
  ASSUME TypeOK, TickInv, NEW c \in tick.todo,
         notices' = [notices EXCEPT ![c.notice].failed = TRUE]
  PROVE  \E n \in DOMAIN notices, e \in Notice :
            /\ n = c.notice
            /\ notices' = [notices EXCEPT ![n] = e]
            /\ e = [notices[n] EXCEPT !.failed = TRUE]
  <1>1. c.notice \in DOMAIN notices /\ notices[c.notice] \in Notice
    BY Numbered DEF TickInv, Loaded
  <1> QED
    BY <1>1 DEF Notice

\* An attempt that is saved says whether the mail was sent; it can only turn a
\* live notice into a delivered, a tried or a failed one.
LEMMA SaveAttemptWrites ==
  ASSUME TypeOK, TickInv, SaveAttempt
  PROVE  \/ notices' = notices /\ Fault
         \/ \E n \in DOMAIN notices, e \in Notice :
               /\ n = tick.copy.notice
               /\ notices' = [notices EXCEPT ![n] = e]
               /\ e.recipient = notices[n].recipient /\ e.recent = notices[n].recent
               /\ e.delivered = tick.sent
  <1> DEFINE n == tick.copy.notice
  <1>1. /\ n \in DOMAIN notices /\ notices[n] \in Notice /\ tick.sent \in BOOLEAN
        /\ tick.copy.retries \in Nat
        /\ notices[n].delivered = FALSE /\ notices[n].failed = FALSE
    BY Numbered DEF SaveAttempt, TickAt, TickInv, Loaded, TypeOK, Tick, Copy, Notice
  <1>2. ASSUME NEW sent \in BOOLEAN, NEW retries \in Nat
        PROVE  /\ Attempted(notices[n], sent, retries) \in Notice
               /\ Attempted(notices[n], sent, retries).delivered = sent
               /\ Attempted(notices[n], sent, retries).recipient = notices[n].recipient
               /\ Attempted(notices[n], sent, retries).recent = notices[n].recent
    BY <1>1 DEF Attempted, Notice
  <1>3. CASE notices' = [notices EXCEPT ![n] = Attempted(@, tick.sent, tick.copy.retries + 1)]
    <2>1. tick.copy.retries + 1 \in Nat
      BY <1>1
    <2>2. PICK e \in Notice : /\ e = Attempted(notices[n], tick.sent, tick.copy.retries + 1)
                             /\ e.delivered = tick.sent
                             /\ e.recipient = notices[n].recipient
                             /\ e.recent = notices[n].recent
      BY <1>1, <1>2, <2>1
    <2>3. notices' = [notices EXCEPT ![n] = e]
      BY <1>3, <2>2
    <2> QED
      BY <1>1, <2>2, <2>3
  <1>4. CASE /\ tick.sent
             /\ notices' = [notices EXCEPT ![n] =
                   [Attempted(@, FALSE, tick.copy.retries + 2) EXCEPT !.delivered = TRUE]]
    <2> tick.copy.retries + 2 \in Nat
      BY <1>1
    <2>1. PICK a \in Notice : /\ a = Attempted(notices[n], FALSE, tick.copy.retries + 2)
                             /\ a.recipient = notices[n].recipient
                             /\ a.recent = notices[n].recent
      BY <1>1, <1>2
    <2> tick.sent = TRUE
      BY <1>1, <1>4
    <2>2. notices' = [notices EXCEPT ![n] = [a EXCEPT !.delivered = TRUE]]
      BY <1>4, <2>1
    <2>3. /\ [a EXCEPT !.delivered = TRUE] \in Notice
          /\ [a EXCEPT !.delivered = TRUE].recipient = notices[n].recipient
          /\ [a EXCEPT !.delivered = TRUE].recent = notices[n].recent
          /\ [a EXCEPT !.delivered = TRUE].delivered = tick.sent
      BY <1>1, <1>4, <2>1 DEF Notice
    <2> QED
      BY <1>1, <2>2, <2>3
  <1> QED
    BY <1>3, <1>4 DEF SaveAttempt

----------------------------------------------------------------------------
\* Faults stay within their bound.
LEMMA FaultType ==
  ASSUME faults \in 0 .. MaxFaults, Fault \/ NoFault
  PROVE  faults' \in 0 .. MaxFaults
  BY MailboxAssumption DEF Fault, NoFault

\* A sync gets new local variables.
LEMMA SyncType ==
  ASSUME TypeOK, NEW s \in Syncs, NEW v \in Sync, sync' = [sync EXCEPT ![s] = v]
  PROVE  sync' \in [Syncs -> Sync]
  BY DEF TypeOK

\* A sync with no local variables but its stage.
LEMMA NoSyncType ==
  ASSUME NEW how \in Stages
  PROVE  [NoSync EXCEPT !.at = how] \in Sync /\ NoSync \in Sync /\ NoSync.at = "idle"
         /\ [NoSync EXCEPT !.at = how].at = how
  BY DEF NoSync, Sync, Stages

\* A sync that ends is idle, or tells the tick how it ended.
LEMMA EndsType ==
  ASSUME NEW s \in Syncs, NEW how \in Stages, Ends(s, how)
  PROVE  \E v \in Sync : v.at \in {"idle", how} /\ sync' = [sync EXCEPT ![s] = v]
  <1> DEFINE v == IF s = Poller THEN [NoSync EXCEPT !.at = how] ELSE NoSync
  <1>1. v \in Sync /\ v.at \in {"idle", how}
    BY NoSyncType
  <1>2. sync' = [sync EXCEPT ![s] = v]
    BY DEF Ends
  <1> QED
    BY <1>1, <1>2

\* A sync that loads its credentials goes on with them, or ends.
LEMMA LoadType ==
  ASSUME TypeOK, NEW s \in Syncs, NEW again \in BOOLEAN, Load(s, again)
  PROVE  \E v \in Sync : /\ v.at \in {"idle", "failed", "refresh"}
                         /\ sync' = [sync EXCEPT ![s] = v]
  <1>1. CASE Ends(s, "failed")
    BY <1>1, EndsType DEF Stages
  <1>2. CASE ~Ends(s, "failed")
    <2> DEFINE v == [NoSync EXCEPT !.at = "refresh", !.token = token, !.again = again]
    <2>1. NoSync \in Sync /\ token \in Nat /\ "refresh" \in Stages
      BY NoSyncType DEF TypeOK, Stages
    <2>3. v \in Sync /\ v.at = "refresh"
      BY <2>1 DEF Sync
    <2>2. sync' = [sync EXCEPT ![s] = v]
      BY <1>2 DEF Load
    <2> QED
      BY <2>2, <2>3
  <1> QED
    BY <1>1, <1>2

\* A sync that moves on keeps its other variables.
LEMMA GoesType ==
  ASSUME TypeOK, NEW s \in Syncs, NEW stage \in Stages, Goes(s, stage)
  PROVE  \E v \in Sync : /\ v = [sync[s] EXCEPT !.at = stage]
                         /\ sync' = [sync EXCEPT ![s] = v]
  <1>1. sync[s] \in Sync
    BY DEF TypeOK
  <1>2. [sync[s] EXCEPT !.at = stage] \in Sync
    BY <1>1 DEF Sync
  <1>3. sync' = [sync EXCEPT ![s] = [sync[s] EXCEPT !.at = stage]]
    BY DEF Goes
  <1> QED
    BY <1>2, <1>3

----------------------------------------------------------------------------
(***************************************************************************)
(* The steps of a sync, by what they do to the notices and their mails.    *)
(***************************************************************************)
\* The stages in which a sync has found no live notice and may still add one.
Adding == {"create", "send", "save"}

\* The local variables of sync s become v.
Becomes(s, v) == v \in Sync /\ sync' = [sync EXCEPT ![s] = v]

\* It has nothing to do with notices, or nothing any more.
Passes(s) == /\ UNCHANGED <<noticeVars, tick>>
             /\ \E v : Becomes(s, v) /\ v.at \notin Adding

\* It has found no live notice.
Opens(s) == /\ UNCHANGED <<noticeVars, tick>>
            /\ \A n \in DOMAIN notices : ~LiveNotice(n)
            /\ \E v : Becomes(s, v) /\ v.at = "create"

\* It creates its notice.
Creates(s) == /\ At(s, "create") /\ tick' = tick
              /\ notices' = Append(notices, NewNotice) /\ mails' = Append(mails, 0)
              /\ \E v : Becomes(s, v) /\ v.at = "send" /\ v.notice = Len(notices) + 1

\* It has mailed its notice, or the mail was refused.
Sends(s) == /\ At(s, "send") /\ UNCHANGED <<notices, tick>>
            /\ \E v : /\ Becomes(s, v) /\ v.at = "save" /\ v.notice = sync[s].notice
                      /\ IF v.sent THEN Mailed(v.notice) ELSE mails' = mails

\* It saves that, and is done.
Saves(s) == /\ At(s, "save") /\ UNCHANGED <<mails, tick>>
            /\ \E v : Becomes(s, v) /\ v.at \notin Adding
            /\ \E n \in DOMAIN notices, e \in Notice :
                  /\ n = sync[s].notice
                  /\ notices' = [notices EXCEPT ![n] = e]
                  /\ e = [notices[n] EXCEPT !.recipient = TRUE, !.delivered = sync[s].sent]

\* Every step of a sync is one of these.
LEMMA SyncKinds ==
  ASSUME TypeOK, OwnerInv, NEW s \in Syncs, StartSync(s) \/ SyncStep(s)
  PROVE  Passes(s) \/ Opens(s) \/ Creates(s) \/ Sends(s) \/ Saves(s)
  <1>1. ASSUME NEW how \in {"failed", "done"}, Ends(s, how)
        PROVE  \E v : Becomes(s, v) /\ v.at \notin Adding
    BY <1>1, EndsType DEF Becomes, Adding, Stages
  <1>2. ASSUME NEW again \in BOOLEAN, Load(s, again)
        PROVE  \E v : Becomes(s, v) /\ v.at \notin Adding
    BY <1>2, LoadType DEF Becomes, Adding
  <1>3. ASSUME NEW stage \in Stages, Goes(s, stage)
        PROVE  \E v : Becomes(s, v) /\ v.at = stage
    <2>1. PICK v \in Sync : /\ v = [sync[s] EXCEPT !.at = stage]
                            /\ sync' = [sync EXCEPT ![s] = v]
      BY <1>3, GoesType
    <2>2. v.at = stage
      BY <2>1 DEF TypeOK, Sync
    <2> QED
      BY <2>1, <2>2 DEF Becomes
  <1>4. CASE StartSync(s) \/ LoadPolled(s)
    BY <1>2, <1>4 DEF StartSync, LoadPolled, Passes
  <1>5. CASE Refresh(s)
    BY <1>1, <1>3, <1>5 DEF Refresh, Passes, Stages, Adding
  <1>6. CASE Fetch(s)
    BY <1>1, <1>2, <1>3, <1>6 DEF Fetch, Passes, Stages, Adding
  <1>7. CASE MarkSync(s)
    BY <1>1, <1>7 DEF MarkSync, Passes
  <1>8. CASE Lose(s)
    BY <1>1, <1>3, <1>8 DEF Lose, Passes, Stages, Adding
  <1>9. CASE Dedup(s)
    BY <1>1, <1>3, <1>9 DEF Dedup, Passes, Opens, Stages
  <1>10. CASE RecordNotice(s)
    <2>1. CASE Ends(s, "failed") /\ UNCHANGED noticeVars
      BY <1>1, <1>10, <2>1 DEF RecordNotice, Passes
    <2>2. CASE /\ sync' = [sync EXCEPT ![s].at = "send", ![s].notice = Len(notices) + 1]
               /\ notices' = Append(notices, NewNotice) /\ mails' = Append(mails, 0)
      <3> DEFINE v == [sync[s] EXCEPT !.at = "send", !.notice = Len(notices) + 1]
      <3>1. sync[s] \in Sync /\ Len(notices) + 1 \in Nat /\ "send" \in Stages
        BY Numbered DEF TypeOK, Stages
      <3>2. v \in Sync /\ v.at = "send" /\ v.notice = Len(notices) + 1
        BY <3>1 DEF Sync
      <3>3. sync' = [sync EXCEPT ![s] = v]
        BY <2>2
      <3> QED
        BY <1>10, <2>2, <3>2, <3>3 DEF RecordNotice, Creates, Becomes
    <2> QED
      BY <1>10, <2>1, <2>2 DEF RecordNotice
  <1>11. CASE SendFirst(s)
    <2>1. CASE Ends(s, "failed") /\ UNCHANGED mails
      BY <1>1, <1>11, <2>1 DEF SendFirst, Passes, noticeVars
    <2>2. ASSUME NEW sent \in BOOLEAN,
                 sync' = [sync EXCEPT ![s].at = "save", ![s].sent = sent],
                 IF sent THEN Mailed(sync[s].notice) ELSE UNCHANGED mails
          PROVE  Sends(s)
      <3> DEFINE v == [sync[s] EXCEPT !.at = "save", !.sent = sent]
      <3>1. sync[s] \in Sync /\ "save" \in Stages
        BY DEF TypeOK, Stages
      <3>2. v \in Sync /\ v.at = "save" /\ v.notice = sync[s].notice /\ v.sent = sent
        BY <3>1 DEF Sync
      <3>3. sync' = [sync EXCEPT ![s] = v]
        BY <2>2
      <3>4. IF v.sent THEN Mailed(v.notice) ELSE mails' = mails
        BY <2>2, <3>2
      <3> HIDE DEF v
      <3> QED
        BY <1>11, <3>2, <3>3, <3>4 DEF SendFirst, Sends, Becomes
    <2> QED
      BY <1>11, <2>1, <2>2 DEF SendFirst
  <1>12. CASE SaveFirst(s)
    <2>1. \E v : Becomes(s, v) /\ v.at \notin Adding
      BY <1>1, <1>12 DEF SaveFirst
    <2>2. CASE notices' = notices
      BY <1>12, <2>1, <2>2 DEF SaveFirst, Passes, noticeVars
    <2>3. CASE notices' # notices
      BY <1>12, <2>1, <2>3, SaveFirstWrites DEF SaveFirst, Saves
    <2> QED
      BY <2>2, <2>3
  <1> QED
    BY <1>4, <1>5, <1>6, <1>7, <1>8, <1>9, <1>10, <1>11, <1>12 DEF SyncStep

----------------------------------------------------------------------------
\* Where the tick may be is a matter of its last call.
LEMMA OnWithType ==
  ASSUME NEW todo \in SUBSET Copy, OnWith(todo)
  PROVE  tick' \in Tick /\ tick'.at \in {"poll", "next"} /\ tick'.todo = todo
  <1>1. NoTick \in Tick
    BY DEF NoTick, NoCopy, Tick, Copy
  <1>2. ASSUME NEW t \in Tick, NEW stage \in {"poll", "next"},
               tick' = [t EXCEPT !.at = stage, !.todo = todo]
        PROVE  tick' \in Tick
    BY <1>2 DEF Tick
  <1>3. ASSUME NEW t \in Tick, NEW stage \in {"poll", "next"},
               tick' = [t EXCEPT !.at = stage, !.todo = todo]
        PROVE  tick'.at = stage /\ tick'.todo = todo
    BY <1>3 DEF Tick
  <1>4. PICK stage \in {"poll", "next"} : tick' = [NoTick EXCEPT !.at = stage, !.todo = todo]
    BY DEF OnWith
  <1> QED
    BY <1>1, <1>2, <1>3, <1>4

\* Every step keeps the types.
LEMMA TypeStep ==
  ASSUME TypeOK, OwnerInv, TickInv, [Next]_vars
  PROVE  TypeOK'
  <1> USE MailboxAssumption
  <1>1. CASE Revoke \/ Connect \/ FallDue
    <2>1. status' \in Statuses /\ due' \in BOOLEAN
      BY <1>1 DEF Revoke, Connect, FallDue, TypeOK, Statuses
    <2>2. token' \in 1 .. MaxTokens /\ revoked' \in 0 .. token'
      <3>1. token \in Nat /\ 1 <= token /\ token <= MaxTokens
        BY DEF TypeOK
      <3> QED
        BY <1>1, <3>1 DEF Revoke, Connect, FallDue, TypeOK
    <2> QED
      BY <1>1, <2>1, <2>2 DEF Revoke, Connect, FallDue, TypeOK, noticeVars
  <1>2. ASSUME NEW n \in DOMAIN notices, Age(n) PROVE TypeOK'
    BY <1>2, AgeWrites, WriteEffect DEF Age, TypeOK, mailboxVars
  <1>3. ASSUME NEW s \in Syncs, StartSync(s) \/ SyncStep(s) PROVE TypeOK'
    <2>1. /\ status' \in Statuses /\ UNCHANGED <<token, due, revoked>>
          /\ faults' \in 0 .. MaxFaults
      BY <1>3, FaultType DEF StartSync, SyncStep, LoadPolled, Refresh, Fetch, MarkSync,
         Lose, Dedup, RecordNotice, SendFirst, SaveFirst, mailboxVars, TypeOK, Statuses
    <2>2. sync' \in [Syncs -> Sync] /\ tick' = tick
      BY <1>3, SyncKinds, SyncType DEF Passes, Opens, Creates, Sends, Saves, Becomes
    <2>3. notices' \in Seq(Notice) /\ mails' \in Seq(Nat) /\ Len(mails') = Len(notices')
      <3>1. CASE Passes(s) \/ Opens(s)
        BY <3>1 DEF Passes, Opens, noticeVars, TypeOK
      <3>2. CASE Creates(s)
        BY <3>2, RecordEffect DEF Creates
      <3>3. CASE Sends(s)
        BY <3>3, MailedEffect DEF Sends, At, OwnerInv, TypeOK
      <3>4. CASE Saves(s)
        BY <3>4, WriteEffect DEF Saves, TypeOK
      <3> QED
        BY <1>3, <3>1, <3>2, <3>3, <3>4, SyncKinds
    <2> QED
      BY <2>1, <2>2, <2>3 DEF TypeOK
  <1>4. CASE FindFailed
    <2> DEFINE todo == {[notice |-> n, recipient |-> notices[n].recipient,
                         retries |-> notices[n].retries] : n \in ToRetry}
    <2>1. todo \subseteq Copy
      BY Numbered DEF ToRetry, Copy, Notice
    <2>2. tick' \in Tick
      BY <1>4, <2>1, OnWithType DEF FindFailed
    <2> QED
      BY <1>4, <2>2 DEF FindFailed, TypeOK, mailboxVars, noticeVars
  <1>5. CASE GiveUp
    <2>1. tick.todo \subseteq Copy
      BY DEF TypeOK, Tick
    <2>2. tick' \in Tick
      BY <1>5, <2>1, OnWithType DEF GiveUp
    <2>3. notices' \in Seq(Notice) /\ Len(notices') = Len(notices)
      BY <1>5, GiveUpWrites, WriteEffect DEF GiveUp, TypeOK
    <2>4. faults' \in 0 .. MaxFaults
      BY <1>5, FaultType DEF GiveUp, TypeOK
    <2> QED
      BY <1>5, <2>2, <2>3, <2>4 DEF GiveUp, TypeOK, mailboxVars
  <1>6. CASE SendAgain
    <2>1. PICK c \in tick.todo, sent \in BOOLEAN :
             /\ tick' = [at |-> "save", todo |-> tick.todo \ {c}, copy |-> c, sent |-> sent]
             /\ IF sent THEN Mailed(c.notice) ELSE UNCHANGED mails
      BY <1>6 DEF SendAgain
    <2>2. tick' \in Tick
      BY <2>1 DEF Tick, TypeOK
    <2>3. mails' \in Seq(Nat) /\ Len(mails') = Len(mails)
      BY <2>1, MailedEffect DEF TickInv, Loaded, TypeOK
    <2> QED
      BY <1>6, <2>2, <2>3 DEF SendAgain, TypeOK, mailboxVars
  <1>7. CASE SaveAttempt
    <2>1. tick' \in Tick
      BY <1>7, OnWithType DEF SaveAttempt, TypeOK, Tick
    <2>2. notices' \in Seq(Notice) /\ Len(notices') = Len(notices)
      BY SaveAttemptWrites, WriteEffect, <1>7 DEF TypeOK
    <2>3. faults' \in 0 .. MaxFaults
      BY <1>7, FaultType DEF SaveAttempt, TypeOK
    <2> QED
      BY <1>7, <2>1, <2>2, <2>3 DEF SaveAttempt, TypeOK, mailboxVars
  <1>8. NoTick \in Tick /\ [tick EXCEPT !.at = "polling"] \in Tick
    BY DEF NoTick, NoCopy, Tick, Copy, TypeOK
  <1>9. CASE Poll
    <2>1. sync' \in [Syncs -> Sync]
      BY <1>9, GoesType, SyncType DEF Poll, Syncs, Stages, TypeOK
    <2> QED
      BY <1>8, <1>9, <2>1 DEF Poll, TypeOK, mailboxVars, noticeVars
  <1>10. CASE EndPoll
    <2>1. sync' \in [Syncs -> Sync]
      BY <1>10, NoSyncType DEF EndPoll, TypeOK, Stages
    <2>2. faults' \in 0 .. MaxFaults
      BY <1>10, FaultType DEF EndPoll, TypeOK
    <2>3. due' \in BOOLEAN
      BY <1>10 DEF EndPoll, TypeOK
    <2> QED
      BY <1>8, <1>10, <2>1, <2>2, <2>3 DEF EndPoll, TypeOK, noticeVars
  <1>11. CASE Crash
    <2>1. faults' \in 0 .. MaxFaults
      BY <1>11, FaultType DEF Crash, TypeOK
    <2> QED
      BY <1>8, <1>11, <2>1, NoSyncType DEF Crash, TypeOK, Stages, mailboxVars, noticeVars
  <1>12. CASE UNCHANGED vars
    BY <1>12 DEF vars, mailboxVars, noticeVars, TypeOK
  <1> QED
    BY <1>1, <1>2, <1>3, <1>4, <1>5, <1>6, <1>7, <1>9, <1>10, <1>11, <1>12
    DEF Next, TickStep, Syncs

----------------------------------------------------------------------------
\* What an owner knows stays so as long as nobody touches its notice.
LEMMA OwnersKept ==
  ASSUME OwnerInv,
         \A s \in Syncs : sync'[s].at \in {"send", "save"} => sync'[s] = sync[s],
         \A s \in Syncs : sync[s].at \in {"send", "save"} =>
            LET n == sync[s].notice IN
            /\ n \in DOMAIN notices'
            /\ notices'[n].recipient = notices[n].recipient
            /\ notices'[n].delivered = notices[n].delivered
            /\ mails'[n] = mails[n]
  PROVE  OwnerInv'
  <1> SUFFICES ASSUME NEW s \in Syncs, sync'[s].at \in {"send", "save"}
               PROVE  /\ sync'[s].notice \in DOMAIN notices'
                      /\ ~notices'[sync'[s].notice].recipient
                      /\ ~notices'[sync'[s].notice].delivered
                      /\ mails'[sync'[s].notice]
                           = IF sync'[s].at = "save" /\ sync'[s].sent THEN 1 ELSE 0
                      /\ \A q \in Syncs : Owns(q, sync[s].notice)' => q = s
    BY DEF OwnerInv, At, Owns
  <1>1. sync'[s] = sync[s] /\ sync[s].at \in {"send", "save"}
    OBVIOUS
  <1>2. /\ sync[s].notice \in DOMAIN notices
        /\ ~notices[sync[s].notice].recipient
        /\ ~notices[sync[s].notice].delivered
        /\ mails[sync[s].notice] = IF sync[s].at = "save" /\ sync[s].sent THEN 1 ELSE 0
        /\ \A q \in Syncs : Owns(q, sync[s].notice) => q = s
    BY <1>1 DEF OwnerInv, At
  <1>3. \A q \in Syncs : Owns(q, sync[s].notice)' => q = s
    BY <1>1, <1>2 DEF Owns
  <1>4. /\ sync[s].notice \in DOMAIN notices'
        /\ notices'[sync[s].notice].recipient = notices[sync[s].notice].recipient
        /\ notices'[sync[s].notice].delivered = notices[sync[s].notice].delivered
        /\ mails'[sync[s].notice] = mails[sync[s].notice]
    BY <1>1
  <1>5. /\ ~notices'[sync[s].notice].recipient
        /\ ~notices'[sync[s].notice].delivered
    BY <1>2, <1>4, Zenon
  <1>6. mails'[sync'[s].notice] = IF sync'[s].at = "save" /\ sync'[s].sent THEN 1 ELSE 0
    BY <1>1, <1>2, <1>4, Zenon
  <1> QED
    BY <1>1, <1>3, <1>4, <1>5, <1>6, Zenon

\* No notice gets a second owner, and an owner's notice no other mail.
LEMMA OwnerStep ==
  ASSUME TypeOK, OwnerInv, TickInv, [Next]_vars
  PROVE  OwnerInv'
  <1>1. CASE UNCHANGED <<notices, mails, sync>>
    BY <1>1, OwnersKept DEF OwnerInv
  <1>2. ASSUME NEW n \in DOMAIN notices, Age(n) PROVE OwnerInv'
    <2>1. PICK e \in Notice : /\ notices' = [notices EXCEPT ![n] = e]
                             /\ e = [notices[n] EXCEPT !.recent = FALSE]
      BY <1>2, AgeWrites
    <2>2. notices[n] \in Notice
      BY Numbered
    <2>3. e.recipient = notices[n].recipient /\ e.delivered = notices[n].delivered
      BY <2>1, <2>2 DEF Notice
    <2>4. \A m \in DOMAIN notices : /\ m \in DOMAIN notices'
                                    /\ notices'[m].recipient = notices[m].recipient
                                    /\ notices'[m].delivered = notices[m].delivered
      BY <2>1, <2>3, WriteEffect
    <2> QED
      BY <1>2, <2>4, OwnersKept DEF Age, OwnerInv
  <1>3. ASSUME NEW s \in Syncs, Passes(s) \/ Opens(s) PROVE OwnerInv'
    <2>1. UNCHANGED <<notices, mails>>
      BY <1>3 DEF Passes, Opens, noticeVars
    <2>2. \A q \in Syncs : sync'[q].at \in {"send", "save"} => sync'[q] = sync[q]
      BY <1>3 DEF Passes, Opens, Becomes, Adding, TypeOK
    <2> QED
      BY <2>1, <2>2, OwnersKept DEF OwnerInv
  <1>4. ASSUME NEW s \in Syncs, Creates(s) PROVE OwnerInv'
    <2> DEFINE n == Len(notices) + 1
    <2>1. PICK v : /\ v.at = "send" /\ v.notice = n
                   /\ \A q \in Syncs : sync'[q] = IF q = s THEN v ELSE sync[q]
      BY <1>4 DEF Creates, Becomes, TypeOK
    <2>2. /\ n \notin DOMAIN notices /\ DOMAIN notices' = DOMAIN notices \union {n}
          /\ ~notices'[n].recipient /\ ~notices'[n].delivered /\ mails'[n] = 0
          /\ \A m \in DOMAIN notices : notices'[m] = notices[m] /\ mails'[m] = mails[m]
      BY <1>4, RecordEffect DEF Creates, NewNotice
    <2>3. \A q \in Syncs \ {s} : sync[q].at \in {"send", "save"} =>
             /\ sync[q].notice \in DOMAIN notices /\ sync[q].notice # n
      BY <2>2 DEF OwnerInv
    <2> HIDE DEF n
    <2> QED
      BY <2>1, <2>2, <2>3 DEF OwnerInv, Owns, At
  <1>5. ASSUME NEW s \in Syncs, Sends(s) PROVE OwnerInv'
    <2> DEFINE n == sync[s].notice
    <2>1. PICK v \in Sync :
                   /\ v.at = "save" /\ v.notice = n
                   /\ IF v.sent THEN Mailed(n) ELSE mails' = mails
                   /\ \A q \in Syncs : sync'[q] = IF q = s THEN v ELSE sync[q]
      BY <1>5 DEF Sends, Becomes, TypeOK
    <2>2. /\ n \in DOMAIN notices /\ mails[n] = 0 /\ notices' = notices
          /\ ~notices[n].recipient /\ ~notices[n].delivered
          /\ \A q \in Syncs : Owns(q, n) => q = s
      BY <1>5 DEF Sends, At, OwnerInv
    <2>3. /\ mails'[n] = IF v.sent THEN 1 ELSE 0
          /\ \A m \in DOMAIN notices \ {n} : mails'[m] = mails[m]
      BY <2>1, <2>2, MailedEffect
    <2>4. \A q \in Syncs \ {s} : sync[q].at \in {"send", "save"} =>
             sync[q].notice \in DOMAIN notices \ {n}
      BY <2>2 DEF OwnerInv, Owns
    <2> HIDE DEF n
    <2> QED
      BY <2>1, <2>2, <2>3, <2>4 DEF OwnerInv, Owns, At
  <1>6. ASSUME NEW s \in Syncs, Saves(s) PROVE OwnerInv'
    <2>1. PICK e \in Notice : notices' = [notices EXCEPT ![sync[s].notice] = e]
      BY <1>6 DEF Saves
    <2>2. /\ \A q \in Syncs \ {s} : sync[q].at \in {"send", "save"} =>
                sync[q].notice \in DOMAIN notices \ {sync[s].notice}
          /\ sync[s].notice \in DOMAIN notices
      BY <1>6 DEF Saves, At, OwnerInv, Owns
    <2>3. \A q \in Syncs : sync'[q].at \in {"send", "save"} => sync'[q] = sync[q] /\ q # s
      BY <1>6 DEF Saves, Becomes, Adding, TypeOK
    <2>4. /\ DOMAIN notices' = DOMAIN notices /\ mails' = mails
          /\ \A m \in DOMAIN notices \ {sync[s].notice} : notices'[m] = notices[m]
      BY <1>6, <2>1, <2>2, WriteEffect DEF Saves
    <2>5. \A q \in Syncs : sync'[q].at \in {"send", "save"} =>
             Owns(q, sync'[q].notice) /\ sync'[q].notice \in DOMAIN notices \ {sync[s].notice}
      BY <2>2, <2>3 DEF Owns
    <2> QED
      BY <2>2, <2>3, <2>4, <2>5 DEF OwnerInv, Owns, At
  <1>7. CASE GiveUp
    <2>1. \A n \in DOMAIN notices : /\ n \in DOMAIN notices'
                                    /\ notices'[n].recipient = notices[n].recipient
                                    /\ notices'[n].delivered = notices[n].delivered
      <3>1. CASE notices' = notices
        BY <3>1
      <3>2. CASE notices' # notices
        <4>1. PICK c \in tick.todo : notices' = [notices EXCEPT ![c.notice].failed = TRUE]
          BY <1>7, <3>2 DEF GiveUp
        <4>2. PICK m \in DOMAIN notices, e \in Notice :
                 /\ notices' = [notices EXCEPT ![m] = e]
                 /\ e = [notices[m] EXCEPT !.failed = TRUE]
          BY <4>1, GiveUpWrites
        <4> QED
          BY <4>2, WriteEffect, Numbered DEF Notice
      <3> QED
        BY <3>1, <3>2
    <2> QED
      BY <1>7, <2>1, OwnersKept DEF GiveUp, OwnerInv
  <1>8. CASE SendAgain
    <2>1. \A s \in Syncs : sync[s].at \in {"send", "save"} =>
             mails'[sync[s].notice] = mails[sync[s].notice]
      BY <1>8, MailedEffect DEF SendAgain, TickInv, Loaded, OwnerInv
    <2> QED
      BY <1>8, <2>1, OwnersKept DEF SendAgain, OwnerInv
  <1>9. CASE SaveAttempt
    <2>1. \A s \in Syncs : sync[s].at \in {"send", "save"} =>
             /\ sync[s].notice \in DOMAIN notices'
             /\ notices'[sync[s].notice] = notices[sync[s].notice]
      BY <1>9, SaveAttemptWrites, WriteEffect DEF SaveAttempt, TickAt, TickInv, Loaded, OwnerInv
    <2> QED
      BY <1>9, <2>1, OwnersKept DEF SaveAttempt
  <1>10. CASE Poll \/ EndPoll \/ Crash
    <2>1. \A s \in Syncs : sync'[s].at \in {"send", "save"} => sync'[s] = sync[s]
      BY <1>10 DEF Poll, EndPoll, Crash, Goes, NoSync, TypeOK, Sync
    <2> QED
      BY <1>10, <2>1, OwnersKept DEF Poll, EndPoll, Crash, noticeVars, OwnerInv
  <1> QED
    BY <1>1, <1>2, <1>3, <1>4, <1>5, <1>6, <1>7, <1>8, <1>9, <1>10, SyncKinds
    DEF Next, TickStep, Syncs, Revoke, Connect, FallDue, FindFailed, vars, noticeVars

----------------------------------------------------------------------------
\* A loaded notice keeps its recipient; only the tick delivers it or gives it up.
LEMMA TickKept ==
  ASSUME TypeOK, TickInv, tick' = tick,
         DOMAIN notices \subseteq DOMAIN notices',
         \A n \in DOMAIN notices : notices[n].recipient =>
            /\ notices'[n].recipient = notices[n].recipient
            /\ notices'[n].delivered = notices[n].delivered
            /\ notices'[n].failed = notices[n].failed,
         \A n \in DOMAIN notices : mails'[n] \in Nat /\ mails'[n] >= mails[n]
  PROVE  TickInv'
  <1>1. ASSUME NEW c, Loaded(c) PROVE Loaded(c)'
    BY <1>1 DEF Loaded
  <1>2. TickAt("save") /\ tick.sent => mails'[tick.copy.notice] > 0
    <2> SUFFICES ASSUME TickAt("save"), tick.sent PROVE mails'[tick.copy.notice] > 0
      OBVIOUS
    <2>1. tick.copy.notice \in DOMAIN notices /\ mails[tick.copy.notice] > 0
      BY DEF TickInv, Loaded
    <2>2. mails'[tick.copy.notice] \in Nat /\ mails'[tick.copy.notice] >= mails[tick.copy.notice]
      BY <2>1
    <2> QED
      BY <2>1, <2>2, Numbered
  <1> QED
    BY <1>1, <1>2 DEF TickInv, TickAt

\* Whatever happens meanwhile, what the tick has loaded stays so.
LEMMA TickInvStep ==
  ASSUME TypeOK, OwnerInv, TickInv, [Next]_vars
  PROVE  TickInv'
  <1>1. CASE UNCHANGED <<notices, mails, tick>>
    BY <1>1, TickKept, Numbered
  <1>2. ASSUME NEW n \in DOMAIN notices, Age(n) PROVE TickInv'
    <2>1. PICK e \in Notice : /\ notices' = [notices EXCEPT ![n] = e]
                             /\ e = [notices[n] EXCEPT !.recent = FALSE]
      BY <1>2, AgeWrites
    <2>2. /\ e.recipient = notices[n].recipient /\ e.delivered = notices[n].delivered
          /\ e.failed = notices[n].failed
      BY <2>1, Numbered DEF Notice
    <2>3. /\ DOMAIN notices' = DOMAIN notices
          /\ \A m \in DOMAIN notices : /\ notices'[m].recipient = notices[m].recipient
                                       /\ notices'[m].delivered = notices[m].delivered
                                       /\ notices'[m].failed = notices[m].failed
      BY <2>1, <2>2, WriteEffect
    <2> QED
      BY <1>2, <2>3, TickKept, Numbered DEF Age
  <1>3. ASSUME NEW s \in Syncs, Passes(s) \/ Opens(s) PROVE TickInv'
    BY <1>1, <1>3 DEF Passes, Opens, noticeVars
  <1>4. ASSUME NEW s \in Syncs, Creates(s) PROVE TickInv'
    <2>1. /\ DOMAIN notices \subseteq DOMAIN notices' /\ tick' = tick
          /\ \A m \in DOMAIN notices : notices'[m] = notices[m] /\ mails'[m] = mails[m]
      BY <1>4, RecordEffect DEF Creates
    <2> QED
      BY <2>1, TickKept, Numbered
  <1>5. ASSUME NEW s \in Syncs, Sends(s) PROVE TickInv'
    <2>1. sync[s].notice \in DOMAIN notices /\ notices' = notices /\ tick' = tick
      BY <1>5 DEF Sends, At, OwnerInv
    <2>2. \A m \in DOMAIN notices : mails'[m] \in Nat /\ mails'[m] >= mails[m]
      <3>1. Mailed(sync[s].notice) \/ mails' = mails
        BY <1>5 DEF Sends
      <3> QED
        BY <2>1, <3>1, MailedEffect, Numbered
    <2> QED
      BY <2>1, <2>2, TickKept
  <1>6. ASSUME NEW s \in Syncs, Saves(s) PROVE TickInv'
    <2>1. PICK e \in Notice : notices' = [notices EXCEPT ![sync[s].notice] = e]
      BY <1>6 DEF Saves
    <2>2. sync[s].notice \in DOMAIN notices /\ ~notices[sync[s].notice].recipient
      BY <1>6 DEF Saves, At, OwnerInv
    <2>3. /\ DOMAIN notices' = DOMAIN notices /\ mails' = mails /\ tick' = tick
          /\ \A m \in DOMAIN notices : notices[m].recipient => notices'[m] = notices[m]
      BY <1>6, <2>1, <2>2, WriteEffect DEF Saves
    <2> QED
      BY <2>3, TickKept, Numbered
  <1> DEFINE AtRest(todo) == tick'.at # "save" /\ tick'.todo = todo
  <1>7. ASSUME NEW todo \in SUBSET Copy, OnWith(todo) PROVE AtRest(todo)
    BY <1>7, OnWithType
  <1>8. ASSUME NEW todo, AtRest(todo),
               \A c, d \in todo : c.notice = d.notice => c = d,
               \A c \in todo : Loaded(c)'
        PROVE  TickInv'
    BY <1>8 DEF TickInv, TickAt
  <1>9. CASE FindFailed
    <2> DEFINE copy(n) == [notice |-> n, recipient |-> notices[n].recipient,
                           retries |-> notices[n].retries]
               todo == {copy(n) : n \in ToRetry}
    <2>1. todo \subseteq Copy
      BY Numbered DEF ToRetry, Copy, Notice
    <2>2. AtRest(todo)
      BY <1>9, <2>1, <1>7 DEF FindFailed
    <2>3. ASSUME NEW c \in todo PROVE Loaded(c)' /\ c = copy(c.notice)
      <3>1. PICK n \in ToRetry : c = copy(n)
        OBVIOUS
      <3>2. c.notice = n /\ c.recipient = notices[n].recipient
        BY <3>1
      <3> QED
        BY <1>9, <3>1, <3>2 DEF FindFailed, noticeVars, Loaded, ToRetry
    <2> HIDE DEF todo
    <2> QED
      BY <1>8, <2>2, <2>3
  <1>10. CASE GiveUp
    <2>1. PICK c \in tick.todo :
             \/ /\ notices' = [notices EXCEPT ![c.notice].failed = TRUE]
                /\ OnWith(tick.todo \ {c})
             \/ UNCHANGED notices /\ OnWith({})
      BY <1>10 DEF GiveUp
    <2>2. CASE OnWith({})
      BY <1>7, <1>8, <2>2
    <2>3. CASE /\ notices' = [notices EXCEPT ![c.notice].failed = TRUE]
               /\ OnWith(tick.todo \ {c})
      <3>1. PICK n \in DOMAIN notices, e \in Notice :
               n = c.notice /\ notices' = [notices EXCEPT ![n] = e]
        BY <2>3, GiveUpWrites
      <3>2. \A d \in tick.todo \ {c} : d.notice \in DOMAIN notices \ {n}
        BY <3>1 DEF TickInv, Loaded
      <3>3. \A d \in tick.todo \ {c} : Loaded(d)'
        BY <3>1, <3>2, WriteEffect DEF TickInv, Loaded
      <3>4. AtRest(tick.todo \ {c})
        BY <1>7, <2>3 DEF TypeOK, Tick
      <3> QED
        BY <1>8, <3>3, <3>4 DEF TickInv
    <2> QED
      BY <2>1, <2>2, <2>3
  <1>11. CASE SendAgain
    <2>1. PICK c \in tick.todo, sent \in BOOLEAN :
             /\ c.recipient
             /\ tick' = [at |-> "save", todo |-> tick.todo \ {c}, copy |-> c, sent |-> sent]
             /\ IF sent THEN Mailed(c.notice) ELSE UNCHANGED mails
             /\ notices' = notices
      BY <1>11 DEF SendAgain
    <2>2. /\ tick'.at = "save" /\ tick'.todo = tick.todo \ {c} /\ tick'.copy = c
          /\ tick'.sent = sent
      BY <2>1
    <2>3. \A d \in tick.todo : Loaded(d)'
      BY <2>1 DEF TickInv, Loaded
    <2>4. sent => mails'[c.notice] > 0
      <3>1. c.notice \in DOMAIN notices /\ mails[c.notice] \in Nat
        BY Numbered DEF TickInv, Loaded
      <3>2. sent => mails'[c.notice] = mails[c.notice] + 1
        BY <2>1, <3>1, MailedEffect
      <3> QED
        BY <3>1, <3>2
    <2>5. \A d \in tick.todo \ {c} : d.notice # c.notice
      BY DEF TickInv
    <2> QED
      BY <2>1, <2>2, <2>3, <2>4, <2>5 DEF TickInv, TickAt
  <1>12. CASE SaveAttempt
    <2>1. AtRest(tick.todo) \/ AtRest({})
      BY <1>7, <1>12 DEF SaveAttempt, TypeOK, Tick
    <2>2. ASSUME NEW d \in tick.todo PROVE Loaded(d)'
      <3>1. d.notice \in DOMAIN notices /\ d.notice # tick.copy.notice
        BY <1>12 DEF SaveAttempt, TickAt, TickInv, Loaded
      <3>2. DOMAIN notices' = DOMAIN notices /\ notices'[d.notice] = notices[d.notice]
        BY <1>12, <3>1, SaveAttemptWrites, WriteEffect
      <3> QED
        BY <3>2 DEF TickInv, Loaded
    <2> QED
      BY <1>8, <2>1, <2>2 DEF TickInv
  <1>13. CASE Poll \/ EndPoll \/ Crash
    <2>1. UNCHANGED notices
      BY <1>13 DEF Poll, EndPoll, Crash, noticeVars
    <2>2. AtRest(tick.todo) \/ AtRest({})
      BY <1>13 DEF Poll, EndPoll, Crash, NoTick, TypeOK, Tick
    <2> QED
      BY <1>8, <2>1, <2>2 DEF TickInv, Loaded
  <1> QED
    BY <1>1, <1>2, <1>3, <1>4, <1>5, <1>6, <1>9, <1>10, <1>11, <1>12, <1>13, SyncKinds
    DEF Next, TickStep, Syncs, Revoke, Connect, FallDue, vars, noticeVars

----------------------------------------------------------------------------
\* Faults are only ever added, one by one.
LEMMA FaultsGrow ==
  ASSUME TypeOK, [Next]_vars
  PROVE  faults \in Nat /\ faults' \in {faults, faults + 1}
  <1>1. \/ Fault \/ NoFault
    BY DEF Next, Revoke, Connect, FallDue, Age, StartSync, SyncStep, LoadPolled, Refresh,
       Fetch, MarkSync, Lose, Dedup, RecordNotice, SendFirst, SaveFirst, TickStep,
       FindFailed, GiveUp, SendAgain, SaveAttempt, Poll, EndPoll, Crash, NoFault, vars
  <1> QED
    BY <1>1 DEF Fault, NoFault, TypeOK

\* The counts stay in bounds when no count changes, and no notice gets or loses
\* what the bounds depend on.
LEMMA CountsKept ==
  ASSUME TypeOK, CountInv, faults' \in {faults, faults + 1}, mails' = mails,
         DOMAIN notices' = DOMAIN notices,
         \A n \in DOMAIN notices : /\ notices'[n].recipient = notices[n].recipient
                                   /\ notices'[n].delivered = notices[n].delivered
                                   /\ Unsaved(n) => Unsaved(n)' \/ faults' = faults + 1
  PROVE  CountInv'
  <1> SUFFICES ASSUME NEW n \in DOMAIN notices
               PROVE  /\ notices[n].delivered => notices[n].recipient /\ mails[n] > 0
                      /\ ~notices[n].recipient => mails[n] <= 1
                      /\ notices[n].recipient /\ ~notices[n].delivered /\ ~Unsaved(n)' =>
                            mails[n] <= faults'
                      /\ mails[n] <= faults' + 1
    BY DEF CountInv
  <1>1. mails[n] \in Nat /\ faults \in Nat
    BY Numbered DEF TypeOK
  <1> QED
    BY <1>1 DEF CountInv

\* Whoever mails a notice, first, again or after a fault, the counts are in bounds.
LEMMA CountStep ==
  ASSUME TypeOK, OwnerInv, TickInv, CountInv, [Next]_vars
  PROVE  CountInv'
  <1>0. faults \in Nat /\ faults' \in {faults, faults + 1}
    BY FaultsGrow
  <1>1. CASE UNCHANGED <<notices, mails, tick>>
    BY <1>0, <1>1, CountsKept DEF Unsaved, TickAt
  <1>2. ASSUME NEW n \in DOMAIN notices, Age(n) PROVE CountInv'
    <2>1. PICK e \in Notice : /\ notices' = [notices EXCEPT ![n] = e]
                             /\ e = [notices[n] EXCEPT !.recent = FALSE]
      BY <1>2, AgeWrites
    <2>2. e.recipient = notices[n].recipient /\ e.delivered = notices[n].delivered
      BY <2>1, Numbered DEF Notice
    <2>3. /\ DOMAIN notices' = DOMAIN notices
          /\ \A m \in DOMAIN notices : /\ notices'[m].recipient = notices[m].recipient
                                       /\ notices'[m].delivered = notices[m].delivered
      BY <2>1, <2>2, WriteEffect
    <2> QED
      BY <1>0, <1>2, <2>3, CountsKept DEF Age, Unsaved, TickAt
  <1>3. ASSUME NEW s \in Syncs, Passes(s) \/ Opens(s) PROVE CountInv'
    BY <1>1, <1>3 DEF Passes, Opens, noticeVars
  <1>4. ASSUME NEW s \in Syncs, Creates(s) PROVE CountInv'
    <2> DEFINE k == Len(notices) + 1
    <2>1. /\ DOMAIN notices' = DOMAIN notices \union {k} /\ tick' = tick
          /\ ~notices'[k].recipient /\ ~notices'[k].delivered /\ mails'[k] = 0
          /\ \A m \in DOMAIN notices : notices'[m] = notices[m] /\ mails'[m] = mails[m]
      BY <1>4, RecordEffect DEF Creates, NewNotice
    <2> HIDE DEF k
    <2> QED
      BY <1>0, <2>1, Numbered DEF CountInv, Unsaved, TickAt
  <1>5. ASSUME NEW s \in Syncs, Sends(s) PROVE CountInv'
    <2> DEFINE n == sync[s].notice
    <2>1. /\ n \in DOMAIN notices /\ notices' = notices /\ tick' = tick /\ mails[n] = 0
          /\ ~notices[n].recipient /\ ~notices[n].delivered
      BY <1>5 DEF Sends, At, OwnerInv
    <2>2. \A m \in DOMAIN notices :
             mails'[m] = mails[m] \/ (m = n /\ mails'[m] = 1)
      <3>1. Mailed(n) \/ mails' = mails
        BY <1>5 DEF Sends
      <3> QED
        BY <2>1, <3>1, MailedEffect, Numbered
    <2> HIDE DEF n
    <2> QED
      BY <1>0, <2>1, <2>2, Numbered DEF CountInv, Unsaved, TickAt
  <1>6. ASSUME NEW s \in Syncs, Saves(s) PROVE CountInv'
    <2> DEFINE n == sync[s].notice
    <2>1. PICK e \in Notice :
             /\ notices' = [notices EXCEPT ![n] = e]
             /\ e = [notices[n] EXCEPT !.recipient = TRUE, !.delivered = sync[s].sent]
      BY <1>6 DEF Saves
    <2>2. /\ n \in DOMAIN notices /\ mails' = mails /\ tick' = tick
          /\ mails[n] = IF sync[s].sent THEN 1 ELSE 0
      BY <1>6 DEF Saves, At, OwnerInv
    <2>3. e.recipient /\ (e.delivered <=> sync[s].sent)
      BY <2>1, <2>2, Numbered DEF Notice, TypeOK, Sync
    <2>4. /\ DOMAIN notices' = DOMAIN notices
          /\ \A m \in DOMAIN notices : notices'[m] = IF m = n THEN e ELSE notices[m]
      BY <2>1, <2>2, WriteEffect
    <2> HIDE DEF n
    <2> QED
      BY <1>0, <2>2, <2>3, <2>4, Numbered DEF CountInv, Unsaved, TickAt
  <1>7. CASE FindFailed \/ Poll \/ EndPoll
    BY <1>0, <1>7, CountsKept
    DEF FindFailed, Poll, EndPoll, noticeVars, TickAt, Unsaved
  <1>8. CASE GiveUp
    <2>1. /\ DOMAIN notices' = DOMAIN notices /\ mails' = mails /\ tick.at = "next"
          /\ \A m \in DOMAIN notices : /\ notices'[m].recipient = notices[m].recipient
                                       /\ notices'[m].delivered = notices[m].delivered
      <3>1. CASE notices' = notices
        BY <1>8, <3>1 DEF GiveUp, TickAt
      <3>2. CASE notices' # notices
        <4>1. PICK c \in tick.todo : notices' = [notices EXCEPT ![c.notice].failed = TRUE]
          BY <1>8, <3>2 DEF GiveUp
        <4>2. PICK m \in DOMAIN notices, e \in Notice :
                 /\ notices' = [notices EXCEPT ![m] = e]
                 /\ e = [notices[m] EXCEPT !.failed = TRUE]
          BY <4>1, GiveUpWrites
        <4>3. e.recipient = notices[m].recipient /\ e.delivered = notices[m].delivered
          BY <4>2, Numbered DEF Notice
        <4> QED
          BY <1>8, <4>2, <4>3, WriteEffect DEF GiveUp, TickAt
      <3> QED
        BY <3>1, <3>2
    <2> QED
      BY <1>0, <2>1, CountsKept DEF Unsaved, TickAt
  <1>9. CASE SendAgain
    <2>1. PICK c \in tick.todo, sent \in BOOLEAN :
             /\ c.recipient
             /\ tick' = [at |-> "save", todo |-> tick.todo \ {c}, copy |-> c, sent |-> sent]
             /\ IF sent THEN Mailed(c.notice) ELSE UNCHANGED mails
             /\ notices' = notices /\ faults' = faults
             /\ tick.at = "next"
      BY <1>9 DEF SendAgain, TickAt
    <2>2. /\ c.notice \in DOMAIN notices
          /\ notices[c.notice].recipient /\ ~notices[c.notice].delivered
      BY <2>1 DEF TickInv, Loaded
    <2>3. \A m \in DOMAIN notices : mails[m] \in Nat /\ ~Unsaved(m)
      BY <2>1, Numbered DEF Unsaved, TickAt
    <2>4. CASE sent
      <3>1. \A m \in DOMAIN notices :
               mails'[m] = IF m = c.notice THEN mails[m] + 1 ELSE mails[m]
        BY <2>1, <2>2, <2>4, MailedEffect
      <3>2. Unsaved(c.notice)'
        BY <2>1, <2>4 DEF Unsaved, TickAt
      <3>3. mails[c.notice] <= faults
        BY <2>2, <2>3 DEF CountInv
      <3> QED
        BY <1>0, <2>1, <2>2, <2>3, <3>1, <3>2, <3>3 DEF CountInv
    <2>5. CASE ~sent
      BY <1>0, <2>1, <2>3, <2>5, CountsKept
    <2> QED
      BY <2>4, <2>5
  <1>10. CASE SaveAttempt
    <2> DEFINE k == tick.copy.notice
    <2>1. tick.at = "save" /\ mails' = mails
      BY <1>10 DEF SaveAttempt, TickAt
    <2>2. CASE notices' = notices /\ Fault
      BY <1>0, <2>1, <2>2, CountsKept DEF Fault
    <2>3. ASSUME NEW e \in Notice, notices' = [notices EXCEPT ![k] = e],
                 e.recipient = notices[k].recipient, e.delivered = tick.sent
          PROVE  CountInv'
      <3>0. k \in DOMAIN notices /\ notices[k].recipient /\ ~notices[k].delivered
        BY <1>10 DEF SaveAttempt, TickAt, TickInv, Loaded
      <3>1. /\ DOMAIN notices' = DOMAIN notices
            /\ \A m \in DOMAIN notices : notices'[m] = IF m = k THEN e ELSE notices[m]
        BY <2>3, <3>0, WriteEffect
      <3>2. \A m \in DOMAIN notices : mails[m] \in Nat /\ (m # k => ~Unsaved(m))
        BY Numbered DEF Unsaved
      <3>3. Unsaved(k) <=> tick.sent
        BY <2>1 DEF Unsaved, TickAt
      <3>4. tick.sent => mails[k] > 0
        BY <1>10 DEF SaveAttempt, TickAt, TickInv
      <3>5. (e.delivered <=> tick.sent) /\ e.recipient
        BY <2>3, <3>0
      <3> HIDE DEF k
      <3>6. /\ mails[k] \in Nat
            /\ mails[k] <= faults + 1 /\ (~tick.sent => mails[k] <= faults)
        BY <3>0, <3>2, <3>3 DEF CountInv
      <3>7. \A m \in DOMAIN notices \ {k} :
               /\ notices[m].delivered => notices[m].recipient /\ mails[m] > 0
               /\ ~notices[m].recipient => mails[m] <= 1
               /\ notices[m].recipient /\ ~notices[m].delivered => mails[m] <= faults
               /\ mails[m] <= faults + 1
        BY <3>2 DEF CountInv
      <3> SUFFICES ASSUME NEW m \in DOMAIN notices
                   PROVE  /\ notices'[m].delivered => notices'[m].recipient /\ mails[m] > 0
                          /\ ~notices'[m].recipient => mails[m] <= 1
                          /\ notices'[m].recipient /\ ~notices'[m].delivered =>
                                mails[m] <= faults'
                          /\ mails[m] <= faults' + 1
        BY <2>1, <3>1 DEF CountInv
      <3>8. CASE m = k
        BY <1>0, <3>1, <3>4, <3>5, <3>6, <3>8
      <3>9. CASE m # k
        BY <1>0, <3>1, <3>2, <3>7, <3>9
      <3> QED
        BY <3>8, <3>9
    <2> QED
      BY <1>10, <2>2, <2>3, SaveAttemptWrites
  <1>11. CASE Crash
    BY <1>0, <1>11, CountsKept DEF Crash, Fault, noticeVars
  <1> QED
    BY <1>1, <1>2, <1>3, <1>4, <1>5, <1>6, <1>7, <1>8, <1>9, <1>10, <1>11, SyncKinds
    DEF Next, TickStep, Syncs, Revoke, Connect, FallDue, vars, noticeVars

----------------------------------------------------------------------------
(***************************************************************************)
(* Why the live notices stay few: each was added by a sync that saw none,  *)
(* and a sync that may still add one, or revive its own, counts as one.    *)
(***************************************************************************)
\* The notices that keep a sync from adding another.
Live == {n \in DOMAIN notices : LiveNotice(n)}

\* The syncs that may add a live notice, or make their own one live again.
MayAdd == {s \in Syncs : \/ At(s, "create")
                         \/ /\ sync[s].at \in {"send", "save"}
                            /\ ~LiveNotice(sync[s].notice)}

\* Between them they are no more than the syncs.
DedupInv == Cardinality(Live) + Cardinality(MayAdd) <= Cardinality(Syncs)

\* There are finitely many of either to count.
LEMMA FiniteSets ==
  ASSUME TypeOK
  PROVE  IsFiniteSet(Syncs) /\ IsFiniteSet(Live) /\ IsFiniteSet(MayAdd)
  <1>1. IsFiniteSet(Syncs)
    BY MailboxAssumption, FS_AddElement DEF Syncs
  <1>2. IsFiniteSet(DOMAIN notices)
    BY Numbered, FS_Interval
  <1>3. Live \subseteq DOMAIN notices /\ MayAdd \subseteq Syncs
    BY DEF Live, MayAdd
  <1> QED
    BY <1>1, <1>2, <1>3, FS_Subset

\* What one set may gain the other loses.
LEMMA Trade ==
  ASSUME NEW A, NEW B, IsFiniteSet(A), IsFiniteSet(B), NEW x, NEW y \in B,
         NEW C \in SUBSET (A \union {x}), NEW D \in SUBSET (B \ {y})
  PROVE  Cardinality(C) + Cardinality(D) <= Cardinality(A) + Cardinality(B)
  <1>0. Cardinality(A) \in Nat
    BY FS_CardinalityType
  <1>1. /\ IsFiniteSet(A \union {x})
        /\ Cardinality(A \union {x}) <= Cardinality(A) + 1
    <2>1. /\ IsFiniteSet(A \union {x})
          /\ Cardinality(A \union {x}) = IF x \in A THEN Cardinality(A) ELSE Cardinality(A) + 1
      BY FS_AddElement, Zenon
    <2> QED
      BY <1>0, <2>1
  <1>2. /\ IsFiniteSet(B \ {y})
        /\ Cardinality(B \ {y}) = Cardinality(B) - 1
        /\ Cardinality(B) \in Nat
    BY FS_RemoveElement, FS_CardinalityType
  <1>3. /\ Cardinality(C) <= Cardinality(A \union {x}) /\ Cardinality(C) \in Nat
        /\ Cardinality(D) <= Cardinality(B \ {y}) /\ Cardinality(D) \in Nat
    BY <1>1, <1>2, FS_Subset, FS_CardinalityType
  <1>4. Cardinality(A \union {x}) \in Nat
    BY <1>1, FS_CardinalityType
  <1> QED
    BY <1>0, <1>1, <1>2, <1>3, <1>4

\* Neither set grows.
LEMMA DedupShrinks ==
  ASSUME TypeOK, DedupInv, Live' \subseteq Live, MayAdd' \subseteq MayAdd
  PROVE  DedupInv'
  <1>1. /\ Cardinality(Live') <= Cardinality(Live)
        /\ Cardinality(MayAdd') <= Cardinality(MayAdd)
        /\ Cardinality(Live) \in Nat /\ Cardinality(MayAdd) \in Nat
        /\ Cardinality(Live') \in Nat /\ Cardinality(MayAdd') \in Nat
        /\ Cardinality(Syncs) \in Nat
    BY FiniteSets, FS_Subset, FS_CardinalityType
  <1> QED
    BY <1>1 DEF DedupInv

\* Some sync adds its notice to the live ones.
LEMMA DedupAdds ==
  ASSUME TypeOK, DedupInv, NEW n, NEW s \in MayAdd,
         Live' \subseteq Live \union {n}, MayAdd' \subseteq MayAdd \ {s}
  PROVE  DedupInv'
  <1>1. Cardinality(Live') + Cardinality(MayAdd') <= Cardinality(Live) + Cardinality(MayAdd)
    BY FiniteSets, Trade
  <1>2. /\ IsFiniteSet(Live') /\ IsFiniteSet(MayAdd')
    BY FiniteSets, FS_Subset, FS_AddElement
  <1>3. /\ Cardinality(Live) \in Nat /\ Cardinality(MayAdd) \in Nat
        /\ Cardinality(Live') \in Nat /\ Cardinality(MayAdd') \in Nat
        /\ Cardinality(Syncs) \in Nat
    BY <1>2, FiniteSets, FS_CardinalityType
  <1> QED
    BY <1>1, <1>3 DEF DedupInv

\* A notice grows old or is given up; its owner may revive it.
LEMMA DedupLoses ==
  ASSUME TypeOK, OwnerInv, DedupInv, sync' = sync, NEW n \in DOMAIN notices,
         DOMAIN notices' = DOMAIN notices,
         \A m \in DOMAIN notices \ {n} : LiveNotice(m)' <=> LiveNotice(m),
         LiveNotice(n)' => LiveNotice(n)
  PROVE  DedupInv'
  <1>1. Live' \subseteq Live
    BY DEF Live
  <1>2. \A s \in MayAdd' \ MayAdd : Owns(s, n) /\ n \in Live \ Live'
    BY DEF MayAdd, At, OwnerInv, Owns, Live
  <1>3. CASE MayAdd' \subseteq MayAdd
    BY <1>1, <1>3, DedupShrinks
  <1>4. ASSUME NEW s \in MayAdd' \ MayAdd PROVE DedupInv'
    <2>1. Owns(s, n) /\ n \in Live \ Live'
      BY <1>2
    <2>2. s \in Syncs
      BY DEF MayAdd
    <2>3. MayAdd' \subseteq MayAdd \union {s}
      BY <1>2, <2>1, <2>2 DEF OwnerInv, Owns, MayAdd
    <2>4. Live' \subseteq Live \ {n}
      BY <1>1, <2>1
    <2>5. Cardinality(MayAdd') + Cardinality(Live') <= Cardinality(MayAdd) + Cardinality(Live)
      BY <2>1, <2>3, <2>4, FiniteSets, Trade
    <2>6. IsFiniteSet(Live') /\ IsFiniteSet(MayAdd')
      BY <2>3, <2>4, FiniteSets, FS_Subset, FS_AddElement, FS_RemoveElement
    <2>7. /\ Cardinality(Live) \in Nat /\ Cardinality(MayAdd) \in Nat
          /\ Cardinality(Live') \in Nat /\ Cardinality(MayAdd') \in Nat
          /\ Cardinality(Syncs) \in Nat
      BY <2>6, FiniteSets, FS_CardinalityType
    <2> QED
      BY <2>5, <2>7 DEF DedupInv
  <1> QED
    BY <1>3, <1>4

\* Every step trades one for one, or adds nothing.
LEMMA DedupStep ==
  ASSUME TypeOK, OwnerInv, TickInv, DedupInv, [Next]_vars
  PROVE  DedupInv'
  <1>1. CASE UNCHANGED <<notices, sync>>
    BY <1>1 DEF DedupInv, Live, MayAdd, LiveNotice, At
  <1>2. ASSUME NEW n \in DOMAIN notices, Age(n) PROVE DedupInv'
    <2>1. PICK e \in Notice : /\ notices' = [notices EXCEPT ![n] = e]
                             /\ e = [notices[n] EXCEPT !.recent = FALSE]
      BY <1>2, AgeWrites
    <2>2. ~e.recent
      BY <2>1, Numbered DEF Notice
    <2> QED
      BY <1>2, <2>1, <2>2, WriteEffect, DedupLoses DEF Age, LiveNotice
  <1>3. ASSUME NEW s \in Syncs, Passes(s) PROVE DedupInv'
    <2>1. /\ notices' = notices
          /\ \A q \in Syncs : sync'[q].at \in Adding => sync'[q] = sync[q]
      BY <1>3 DEF Passes, noticeVars, Becomes, TypeOK
    <2>2. Live' \subseteq Live /\ MayAdd' \subseteq MayAdd
      BY <2>1 DEF Live, MayAdd, LiveNotice, At, Adding
    <2> QED
      BY <2>2, DedupShrinks
  <1>4. ASSUME NEW s \in Syncs, Opens(s) PROVE DedupInv'
    <2>1. Live' = {} /\ MayAdd' \subseteq Syncs
      BY <1>4 DEF Opens, noticeVars, Live, LiveNotice, MayAdd
    <2>2. /\ Cardinality(Live') = 0
          /\ Cardinality(MayAdd') <= Cardinality(Syncs)
          /\ Cardinality(MayAdd') \in Nat
      BY <2>1, FiniteSets, FS_EmptySet, FS_Subset, FS_CardinalityType
    <2> QED
      BY <2>2 DEF DedupInv
  <1>5. ASSUME NEW s \in Syncs, Creates(s) PROVE DedupInv'
    <2> DEFINE k == Len(notices) + 1
    <2>1. PICK v : /\ v.at = "send" /\ v.notice = k
                   /\ \A q \in Syncs : sync'[q] = IF q = s THEN v ELSE sync[q]
      BY <1>5 DEF Creates, Becomes, TypeOK
    <2>2. /\ k \notin DOMAIN notices /\ DOMAIN notices' = DOMAIN notices \union {k}
          /\ notices'[k].recent /\ ~notices'[k].failed
          /\ \A m \in DOMAIN notices : notices'[m] = notices[m]
      BY <1>5, RecordEffect DEF Creates, NewNotice
    <2>3. s \in MayAdd
      BY <1>5 DEF Creates, MayAdd
    <2> HIDE DEF k
    <2>4. Live' \subseteq Live \union {k}
      BY <2>2 DEF Live, LiveNotice
    <2>5. ASSUME NEW q \in MayAdd' PROVE q \in MayAdd \ {s}
      <3>1. q # s
        BY <2>1, <2>2 DEF MayAdd, At, LiveNotice
      <3>2. q \in Syncs /\ sync'[q] = sync[q]
        BY <2>1, <3>1 DEF MayAdd
      <3>3. sync[q].at \in {"send", "save"} => sync[q].notice \in DOMAIN notices
        BY <3>2 DEF OwnerInv
      <3> QED
        BY <2>2, <3>1, <3>2, <3>3 DEF MayAdd, At, LiveNotice
    <2> QED
      BY <2>3, <2>4, <2>5, DedupAdds
  <1>6. ASSUME NEW s \in Syncs, Sends(s) PROVE DedupInv'
    <2>1. PICK v : /\ v.at = "save" /\ v.notice = sync[s].notice /\ sync[s].at = "send"
                   /\ \A q \in Syncs : sync'[q] = IF q = s THEN v ELSE sync[q]
                   /\ notices' = notices
      BY <1>6 DEF Sends, At, Becomes, TypeOK
    <2>2. Live' \subseteq Live /\ MayAdd' \subseteq MayAdd
      BY <2>1 DEF Live, MayAdd, LiveNotice, At
    <2> QED
      BY <2>2, DedupShrinks
  <1>7. ASSUME NEW s \in Syncs, Saves(s) PROVE DedupInv'
    <2>1. PICK n \in DOMAIN notices, e \in Notice :
             /\ n = sync[s].notice /\ sync[s].at = "save"
             /\ notices' = [notices EXCEPT ![n] = e]
             /\ e = [notices[n] EXCEPT !.recipient = TRUE, !.delivered = sync[s].sent]
      BY <1>7 DEF Saves, At
    <2>2. /\ notices[n] \in Notice /\ ~notices[n].delivered
          /\ \A q \in Syncs : Owns(q, n) => q = s
      BY <2>1, Numbered DEF OwnerInv
    <2>3. e.recent = notices[n].recent /\ e.failed = notices[n].failed
      BY <2>1, <2>2 DEF Notice
    <2>4. /\ DOMAIN notices' = DOMAIN notices
          /\ \A m \in DOMAIN notices : notices'[m] = IF m = n THEN e ELSE notices[m]
      BY <2>1, WriteEffect
    <2>5. MayAdd' \subseteq MayAdd \ {s}
      <3> SUFFICES ASSUME NEW q \in MayAdd' PROVE q \in MayAdd \ {s}
        OBVIOUS
      <3>1. q \in Syncs \ {s} /\ sync'[q] = sync[q]
        BY <1>7 DEF Saves, Becomes, Adding, MayAdd, At, TypeOK
      <3>2. sync[q].at \in {"send", "save"} => sync[q].notice \in DOMAIN notices \ {n}
        BY <2>2, <3>1 DEF OwnerInv, Owns
      <3> QED
        BY <2>4, <3>1, <3>2 DEF MayAdd, At, LiveNotice
    <2>6. CASE LiveNotice(n)
      <3>1. Live' \subseteq Live
        BY <2>4, <2>6 DEF Live, LiveNotice
      <3> QED
        BY <2>5, <3>1, DedupShrinks
    <2>7. CASE ~LiveNotice(n)
      <3>1. s \in MayAdd
        BY <2>1, <2>7 DEF MayAdd
      <3>2. Live' \subseteq Live \union {n}
        BY <2>4 DEF Live, LiveNotice
      <3> QED
        BY <2>5, <3>1, <3>2, DedupAdds
    <2> QED
      BY <2>6, <2>7
  <1>8. CASE GiveUp
    <2>1. CASE notices' = notices
      BY <1>1, <1>8, <2>1 DEF GiveUp
    <2>2. CASE notices' # notices
      <3>1. PICK c \in tick.todo : notices' = [notices EXCEPT ![c.notice].failed = TRUE]
        BY <1>8, <2>2 DEF GiveUp
      <3>2. PICK n \in DOMAIN notices, e \in Notice :
               /\ notices' = [notices EXCEPT ![n] = e]
               /\ e = [notices[n] EXCEPT !.failed = TRUE]
        BY <3>1, GiveUpWrites
      <3>3. e.recent = notices[n].recent /\ e.delivered = notices[n].delivered /\ e.failed
        BY <3>2, Numbered DEF Notice
      <3>4. /\ DOMAIN notices' = DOMAIN notices
            /\ \A m \in DOMAIN notices : notices'[m] = IF m = n THEN e ELSE notices[m]
        BY <3>2, WriteEffect
      <3> QED
        BY <1>8, <3>3, <3>4, DedupLoses DEF GiveUp, LiveNotice
    <2> QED
      BY <2>1, <2>2
  <1>9. CASE SaveAttempt
    <2>1. CASE notices' = notices
      BY <1>1, <1>9, <2>1 DEF SaveAttempt
    <2>2. CASE notices' # notices
      <3>1. PICK n \in DOMAIN notices, e \in Notice :
               /\ n = tick.copy.notice
               /\ notices' = [notices EXCEPT ![n] = e]
               /\ e.recent = notices[n].recent
        BY <1>9, <2>2, SaveAttemptWrites
      <3>2. ~notices[n].failed
        BY <1>9, <3>1 DEF SaveAttempt, TickAt, TickInv, Loaded
      <3>3. /\ DOMAIN notices' = DOMAIN notices
            /\ \A m \in DOMAIN notices : notices'[m] = IF m = n THEN e ELSE notices[m]
        BY <3>1, WriteEffect
      <3> QED
        BY <1>9, <3>1, <3>2, <3>3, DedupLoses DEF SaveAttempt, LiveNotice
    <2> QED
      BY <2>1, <2>2
  <1>10. CASE Poll \/ EndPoll \/ Crash
    <2>1. notices' = notices
      BY <1>10 DEF Poll, EndPoll, Crash, noticeVars
    <2>2. \A q \in Syncs : sync'[q].at \in Adding => sync'[q] = sync[q]
      BY <1>10 DEF Poll, EndPoll, Crash, Goes, NoSync, Adding, TypeOK, Sync
    <2>3. Live' \subseteq Live /\ MayAdd' \subseteq MayAdd
      BY <2>1, <2>2 DEF Live, MayAdd, LiveNotice, At, Adding
    <2> QED
      BY <2>3, DedupShrinks
  <1> QED
    BY <1>1, <1>2, <1>3, <1>4, <1>5, <1>6, <1>7, <1>8, <1>9, <1>10, SyncKinds
    DEF Next, TickStep, Syncs, Revoke, Connect, FallDue, FindFailed, SendAgain, vars,
        noticeVars

----------------------------------------------------------------------------
(***************************************************************************)
(* The theorems.                                                           *)
(***************************************************************************)
\* No sync has a notice before the first one is created.
LEMMA InitInv == Init => MailInv /\ DedupInv
  <1> SUFFICES ASSUME Init PROVE MailInv /\ DedupInv
    OBVIOUS
  <1> USE MailboxAssumption
  <1>1. /\ notices = <<>> /\ mails = <<>> /\ DOMAIN notices = {}
        /\ sync = [s \in Syncs |-> NoSync] /\ tick = NoTick /\ faults = 0
    BY DEF Init
  <1>2. /\ NoSync \in Sync /\ NoSync.at = "idle" /\ NoTick \in Tick
        /\ NoTick.at = "idle" /\ NoTick.todo = {}
    BY DEF NoSync, Sync, Stages, NoTick, NoCopy, Tick, Copy
  <1>3. TypeOK
    <2>1. notices \in Seq(Notice) /\ mails \in Seq(Nat) /\ Len(mails) = Len(notices)
      BY <1>1
    <2>2. status \in Statuses /\ due \in BOOLEAN
      BY DEF Init, Statuses
    <2>3. token \in 1 .. MaxTokens /\ revoked \in 0 .. token /\ faults \in 0 .. MaxFaults
      BY DEF Init
    <2> QED
      BY <1>1, <1>2, <2>1, <2>2, <2>3 DEF TypeOK
  <1>4. OwnerInv /\ TickInv /\ CountInv
    BY <1>1, <1>2 DEF OwnerInv, TickInv, CountInv, TickAt
  <1>5. Live = {} /\ MayAdd = {}
    BY <1>1, <1>2 DEF Live, MayAdd, At
  <1>6. Cardinality({}) = 0 /\ Cardinality(Syncs) \in Nat
    BY <1>3, FS_EmptySet, FiniteSets, FS_CardinalityType
  <1> QED
    BY <1>3, <1>4, <1>5, <1>6 DEF MailInv, DedupInv

\* The owners, the tick's copies and the counts, in every reachable state.
THEOREM Invariance == Spec => [](MailInv /\ DedupInv)
  <1>1. Init => MailInv /\ DedupInv
    BY InitInv
  <1>2. MailInv /\ DedupInv /\ [Next]_vars => MailInv' /\ DedupInv'
    BY TypeStep, OwnerStep, TickInvStep, CountStep, DedupStep DEF MailInv
  <1> QED
    BY <1>1, <1>2, PTL DEF Spec

\* The mailbox, the notices, the syncs and the tick keep their types.
THEOREM TypeCorrect == Spec => []TypeOK
  <1>1. MailInv => TypeOK
    BY DEF MailInv
  <1> QED
    BY <1>1, Invariance, PTL

\* However syncs and the tick interleave, a second mail of a notice takes a fault.
THEOREM MailedOnceWithoutFaults == Spec => []MailedTwiceNeedsFaults
  <1>1. MailInv => MailedTwiceNeedsFaults
    <2> SUFFICES ASSUME MailInv, NEW n \in DOMAIN notices
                 PROVE  /\ mails[n] <= 1 + faults
                        /\ notices[n].delivered => mails[n] > 0
      BY DEF MailedTwiceNeedsFaults
    <2>1. faults \in Nat /\ mails[n] \in Nat
      BY Numbered DEF MailInv, TypeOK
    <2> QED
      BY <2>1 DEF MailInv, CountInv
  <1> QED
    BY <1>1, Invariance, PTL

\* Notices within 24 hours: no more than syncs.
THEOREM FewLiveNotices == Spec => []NoticesAreDeduped
  <1>1. MailInv /\ DedupInv => NoticesAreDeduped
    <2> SUFFICES ASSUME MailInv, DedupInv PROVE NoticesAreDeduped
      OBVIOUS
    <2>1. Live = {n \in DOMAIN notices :
                    notices[n].recent /\ (notices[n].failed => notices[n].delivered)}
      BY DEF Live, LiveNotice
    <2>2. /\ Cardinality(Live) \in Nat /\ Cardinality(MayAdd) \in Nat
          /\ Cardinality(Syncs) \in Nat
      BY FiniteSets, FS_CardinalityType DEF MailInv
    <2> QED
      BY <2>1, <2>2 DEF DedupInv, NoticesAreDeduped
  <1> QED
    BY <1>1, Invariance, PTL
=============================================================================
