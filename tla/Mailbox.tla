------------------------------ MODULE Mailbox ------------------------------
(***************************************************************************)
(* The Gmail mailbox of a tenant and the mails that ask to reconnect it:   *)
(* tenantGmailIntegrationService.ts (OAuth callback, credentials of a      *)
(* sync, polling), GmailImapIngestionProvider.ts (one sync),               *)
(* mailboxNotificationService.ts (first mail and retries) and the tick of  *)
(* server.ts, which retries mails and then polls.                          *)
(*                                                                         *)
(* One action per call to the database, to Google or to the mail server.   *)
(* Documents are loaded, changed and saved with the changed paths only.    *)
(* Times are abstract: a poll falls due, a notice leaves the window of 24  *)
(* hours.  A sender address is configured.                                 *)
(***************************************************************************)
EXTENDS Integers, Sequences, FiniteSets

CONSTANTS
    Jobs,        \* slots for syncs of ingestion jobs
    Poller,      \* the sync of the polling tick
    MaxRetries,  \* MAX_RETRY_ATTEMPTS
    MaxTokens,   \* bound: refresh tokens Google issues
    MaxNotices,  \* bound: notices when a token is issued or a job starts
    MaxFaults    \* bound: failed calls to the database, transient failures of Google, crashes

Syncs == Jobs \union {Poller}

ASSUME MailboxAssumption ==
    /\ Poller \notin Jobs
    /\ IsFiniteSet(Jobs)
    /\ MaxRetries \in Nat \ {0}
    /\ MaxTokens \in Nat \ {0}
    /\ MaxNotices \in Nat
    /\ MaxFaults \in Nat

VARIABLES
    status,   \* TenantIntegrationModel: status
    token,    \* ... the refresh token, by its number
    due,      \* ... has nextPollAfter come?  Polling is enabled.
    revoked,  \* Google: this token and all before it are refused
    notices,  \* MailboxNotificationEventModel, in the order of creation
    mails,    \* mails sent for each notice
    sync,     \* the local variables of each sync
    tick,     \* the local variables of runPollingTick
    faults    \* bound: faults so far

mailboxVars == <<status, token, due, revoked>>
noticeVars  == <<notices, mails>>
vars        == <<mailboxVars, noticeVars, sync, tick, faults>>

Statuses == {"connected", "requires_reauth"}
Stages   == {"idle", "load", "refresh", "fetch", "mark", "lose", "dedup", "create", "send",
             "save", "failed", "done"}

\* recipient: an address was stored.  recent: created within 24 hours.
Notice ==
    [delivered : BOOLEAN, failed : BOOLEAN, recipient : BOOLEAN, retries : Nat,
     recent : BOOLEAN]

\* Mutant: no default for retryCount.
NewNoticeUncounted ==
    [delivered |-> FALSE, failed |-> FALSE, recipient |-> FALSE, recent |-> TRUE]

NewNotice ==
    [delivered |-> FALSE, failed |-> FALSE, recipient |-> FALSE, retries |-> 0,
     recent |-> TRUE]

\* A sync remembers the token it loaded, the notice it created, and whether it
\* was sent; again: the second try with refreshed credentials.
Sync == [at : Stages, token : Nat, notice : Nat, sent : BOOLEAN, again : BOOLEAN]
NoSync == [at |-> "idle", token |-> 0, notice |-> 0, sent |-> FALSE, again |-> FALSE]

\* What the tick loaded of a notice.
Copy   == [notice : Nat, recipient : BOOLEAN, retries : Nat]
NoCopy == [notice |-> 0, recipient |-> FALSE, retries |-> 0]
Tick   == [at : {"idle", "next", "save", "poll", "polling"},
           todo : SUBSET Copy, copy : Copy, sent : BOOLEAN]
NoTick == [at |-> "idle", todo |-> {}, copy |-> NoCopy, sent |-> FALSE]

Init ==
    /\ status  = "connected"
    /\ token   = 1
    /\ due     = FALSE
    /\ revoked = 0
    /\ notices = <<>>
    /\ mails   = <<>>
    /\ sync    = [s \in Syncs |-> NoSync]
    /\ tick    = NoTick
    /\ faults  = 0

Fault   == faults < MaxFaults /\ faults' = faults + 1
NoFault == UNCHANGED faults

(***************************************************************************)
(* Google and the administrator.                                           *)
(***************************************************************************)

\* The user or an administrator withdraws the access.
Revoke ==
    /\ revoked < token
    /\ revoked' = token
    /\ UNCHANGED <<status, token, due, noticeVars, sync, tick, faults>>

\* handleOAuthCallback: one findOneAndUpdate.
Connect ==
    /\ token < MaxTokens /\ Len(notices) < MaxNotices
    /\ token' = token + 1
    /\ status' = "connected"
    /\ UNCHANGED <<due, revoked, noticeVars, sync, tick, faults>>

FallDue ==
    /\ ~due
    /\ due' = TRUE
    /\ UNCHANGED <<status, token, revoked, noticeVars, sync, tick, faults>>

Age(n) ==
    /\ notices[n].recent /\ \A m \in 1 .. n - 1 : ~notices[m].recent
    /\ notices' = [notices EXCEPT ![n].recent = FALSE]
    /\ UNCHANGED <<mailboxVars, mails, sync, tick, faults>>

(***************************************************************************)
(* A sync: fetchNewFiles with resolveIngestionCredentials, markSyncSuccess *)
(* and transitionToNeedsReauth.                                            *)
(***************************************************************************)
At(s, stage)   == sync[s].at = stage
Goes(s, stage) == sync' = [sync EXCEPT ![s].at = stage]

\* Mutant: a sync that fails does not settle the promise the tick waits for.
EndsSilently(s, how) == sync' = [sync EXCEPT ![s] = [NoSync EXCEPT !.at = "idle"]]

\* The sync of the tick reports how it ended; that of a job just ends.
Ends(s, how) == sync' = [sync EXCEPT ![s] = IF s = Poller THEN [NoSync EXCEPT !.at = how]
                                                          ELSE NoSync]

\* findOne: a mailbox that requires reauthorization throws.
Load(s, again) ==
    IF status = "requires_reauth" THEN Ends(s, "failed")
    ELSE sync' = [sync EXCEPT ![s] = [NoSync EXCEPT !.at = "refresh", !.token = token,
                                                    !.again = again]]

StartSync(s) ==
    /\ At(s, "idle") /\ Len(notices) < MaxNotices
    /\ Load(s, FALSE)
    /\ UNCHANGED <<mailboxVars, noticeVars, tick, faults>>

\* The tick has found the mailbox eligible some calls before.
LoadPolled(s) ==
    /\ At(s, "load")
    /\ Load(s, FALSE)
    /\ UNCHANGED <<mailboxVars, noticeVars, tick, faults>>

\* refreshGoogleAccessToken: invalid_grant, or a failure of another kind.
Refresh(s) ==
    /\ At(s, "refresh")
    /\ \/ sync[s].token > revoked /\ Goes(s, "fetch") /\ NoFault
       \/ sync[s].token <= revoked /\ Goes(s, "lose") /\ NoFault
       \/ Ends(s, "failed") /\ Fault
    /\ UNCHANGED <<mailboxVars, noticeVars, tick>>

\* The access token outlives its refresh token.  A failed login is tried once
\* more with credentials loaded again.
Fetch(s) ==
    /\ At(s, "fetch")
    /\ \/ Goes(s, "mark")
       \/ Ends(s, "failed")
       \/ ~sync[s].again /\ Load(s, TRUE)
    /\ UNCHANGED <<mailboxVars, noticeVars, tick, faults>>

\* markSyncSuccess, whatever the status is by now.
MarkSync(s) ==
    /\ At(s, "mark")
    /\ \/ Ends(s, "done") /\ status' = "connected" /\ NoFault
       \/ Ends(s, "failed") /\ UNCHANGED status /\ Fault
    /\ UNCHANGED <<token, due, revoked, noticeVars, tick>>

\* transitionToNeedsReauth: the loaded status was connected.
Lose(s) ==
    /\ At(s, "lose")
    /\ \/ Goes(s, "dedup") /\ status' = "requires_reauth" /\ NoFault
       \/ Ends(s, "failed") /\ status' \in {status, "requires_reauth"} /\ Fault
    /\ UNCHANGED <<token, due, revoked, noticeVars, tick>>

(***************************************************************************)
(* notifyNeedsReauth.                                                      *)
(***************************************************************************)

\* Mutant: only mails that were delivered count.
LiveDelivered(n) == notices[n].recent /\ notices[n].delivered

\* A notice that a new one would repeat: delivered, or not given up.
LiveNotice(n) == notices[n].recent /\ (notices[n].delivered \/ ~notices[n].failed)

\* With such a notice a skipped one is written, for the log alone: nothing reads
\* it, and it is left out.
Dedup(s) ==
    /\ At(s, "dedup")
    /\ \/ (\E n \in DOMAIN notices : LiveNotice(n)) /\ Ends(s, "failed") /\ NoFault
       \/ (\A n \in DOMAIN notices : ~LiveNotice(n)) /\ Goes(s, "create") /\ NoFault
       \/ Ends(s, "failed") /\ Fault
    /\ UNCHANGED <<mailboxVars, noticeVars, tick>>

RecordNotice(s) ==
    /\ At(s, "create")
    /\ \/ /\ sync' = [sync EXCEPT ![s].at = "send", ![s].notice = Len(notices) + 1]
          /\ notices' = Append(notices, NewNotice)
          /\ mails' = Append(mails, 0)
          /\ NoFault
       \/ Ends(s, "failed") /\ UNCHANGED noticeVars /\ Fault
    /\ UNCHANGED <<mailboxVars, tick>>

Mailed(n) == mails' = [mails EXCEPT ![n] = @ + 1]

\* resolveRecipient and resolveCcRecipients find nobody to write to, or fail, and
\* the sync ends; otherwise the mail is sent or refused.
SendFirst(s) ==
    /\ At(s, "send")
    /\ \/ \E sent \in BOOLEAN :
            /\ sync' = [sync EXCEPT ![s].at = "save", ![s].sent = sent]
            /\ IF sent THEN Mailed(sync[s].notice) ELSE UNCHANGED mails
       \/ Ends(s, "failed") /\ UNCHANGED mails
    /\ UNCHANGED <<mailboxVars, notices, tick, faults>>

\* save, of the recipient and of delivered if the mail was sent.  A failed save
\* after a mail is followed by another one with the same changes.
SaveFirst(s) ==
    /\ At(s, "save")
    /\ Ends(s, "failed")
    /\ \/ /\ notices' = [notices EXCEPT ![sync[s].notice].recipient = TRUE,
                                        ![sync[s].notice].delivered = @ \/ sync[s].sent]
          /\ NoFault
       \/ UNCHANGED notices /\ Fault
    /\ UNCHANGED <<mailboxVars, mails, tick>>

(***************************************************************************)
(* The tick: retryFailedNotifications ...                                  *)
(***************************************************************************)
TickAt(stage) == tick.at = stage

\* The loop goes on with the rest of the notices, and then to the polls.
OnWith(todo) == tick' = [NoTick EXCEPT !.at = IF todo = {} THEN "poll" ELSE "next",
                                       !.todo = todo]

ToRetry ==
    {n \in DOMAIN notices :
        /\ ~notices[n].delivered /\ ~notices[n].failed
        /\ notices[n].retries < MaxRetries /\ notices[n].recent}

FindFailed ==
    /\ TickAt("idle")
    /\ OnWith({[notice |-> n, recipient |-> notices[n].recipient,
                retries |-> notices[n].retries] : n \in ToRetry})
    /\ UNCHANGED <<mailboxVars, noticeVars, sync, faults>>

\* No recipient was stored when the tick loaded the notice: given up.
GiveUp ==
    /\ TickAt("next")
    /\ \E c \in tick.todo :
        /\ ~c.recipient
        /\ \/ /\ notices' = [notices EXCEPT ![c.notice].failed = TRUE]
              /\ OnWith(tick.todo \ {c}) /\ NoFault
           \/ UNCHANGED notices /\ OnWith({}) /\ Fault
    /\ UNCHANGED <<mailboxVars, mails, sync>>

SendAgain ==
    /\ TickAt("next")
    /\ \E c \in tick.todo, sent \in BOOLEAN :
        /\ c.recipient
        /\ tick' = [at |-> "save", todo |-> tick.todo \ {c}, copy |-> c, sent |-> sent]
        /\ IF sent THEN Mailed(c.notice) ELSE UNCHANGED mails
    /\ UNCHANGED <<mailboxVars, notices, sync, faults>>

\* Mutant: the attempt is not counted.
AttemptedUncounted(notice, sent, retries) == [notice EXCEPT !.delivered = @ \/ sent]

\* Mutant: what was sent is not noted down.
AttemptedSilently(notice, sent, retries) ==
    [notice EXCEPT !.retries = retries, !.failed = @ \/ retries >= MaxRetries]

\* What is saved after an attempt: delivered, retryCount and deliveryFailed.
Attempted(notice, sent, retries) ==
    [notice EXCEPT !.delivered = @ \/ sent, !.retries = retries,
                   !.failed = @ \/ (~sent /\ retries >= MaxRetries)]

\* A failed save after a mail is followed by another one that counts the attempt
\* as a failed one too; when that fails, the retries of this tick end.
SaveAttempt ==
    LET c == tick.copy IN
    /\ TickAt("save")
    /\ \/ /\ notices' = [notices EXCEPT ![c.notice] = Attempted(@, tick.sent, c.retries + 1)]
          /\ OnWith(tick.todo) /\ NoFault
       \/ /\ tick.sent
          /\ notices' = [notices EXCEPT ![c.notice] =
                [Attempted(@, FALSE, c.retries + 2) EXCEPT !.delivered = TRUE]]
          /\ OnWith(tick.todo) /\ Fault
       \/ UNCHANGED notices /\ OnWith({}) /\ Fault
    /\ UNCHANGED <<mailboxVars, mails, sync>>

(***************************************************************************)
(* ... and the polls.                                                      *)
(***************************************************************************)

\* getPollingEligibleIntegrations
Eligible == status = "connected" /\ due

Poll ==
    /\ TickAt("poll")
    /\ \/ /\ Eligible
          /\ tick' = [tick EXCEPT !.at = "polling"]
          /\ Goes(Poller, "load")
       \/ ~Eligible /\ tick' = NoTick /\ UNCHANGED sync
    /\ UNCHANGED <<mailboxVars, noticeVars, faults>>

\* markPollingCompleted after a run that did not fail; its failure is logged.
EndPoll ==
    /\ TickAt("polling")
    /\ sync[Poller].at \in {"failed", "done"}
    /\ sync' = [sync EXCEPT ![Poller] = NoSync]
    /\ tick' = NoTick
    /\ \/ due' = (due /\ sync[Poller].at # "done") /\ NoFault
       \/ UNCHANGED due /\ Fault
    /\ UNCHANGED <<status, token, revoked, noticeVars>>

\* The process ends, with its syncs and its tick.
Crash ==
    /\ Fault
    /\ sync' = [s \in Syncs |-> NoSync]
    /\ tick' = NoTick
    /\ UNCHANGED <<mailboxVars, noticeVars>>

(***************************************************************************)
(* The specification.                                                      *)
(***************************************************************************)
SyncStep(s) ==
    \/ LoadPolled(s) \/ Refresh(s) \/ Fetch(s) \/ MarkSync(s) \/ Lose(s)
    \/ Dedup(s) \/ RecordNotice(s) \/ SendFirst(s) \/ SaveFirst(s)

TickStep == FindFailed \/ GiveUp \/ SendAgain \/ SaveAttempt \/ Poll \/ EndPoll

Next ==
    \/ Revoke \/ Connect \/ FallDue
    \/ \E n \in DOMAIN notices : Age(n)
    \/ \E s \in Jobs : StartSync(s)
    \/ \E s \in Syncs : SyncStep(s)
    \/ TickStep
    \/ Crash

Spec == Init /\ [][Next]_vars

\* The tick is scheduled again and again, calls return, and polls fall due.
Fairness ==
    /\ WF_vars(TickStep)
    /\ WF_vars(FallDue)
    /\ \A s \in Syncs : WF_vars(SyncStep(s))

FairSpec == Spec /\ Fairness

(***************************************************************************)
(* Properties.                                                             *)
(***************************************************************************)
TypeOK ==
    /\ status  \in Statuses
    /\ token   \in 1 .. MaxTokens
    /\ due     \in BOOLEAN
    /\ revoked \in 0 .. token
    /\ notices \in Seq(Notice)
    /\ mails   \in Seq(Nat)
    /\ sync    \in [Syncs -> Sync]
    /\ tick    \in Tick
    /\ faults  \in 0 .. MaxFaults
    /\ Len(mails) = Len(notices)

\* The tick and the syncs send the mail of one notice twice only after a fault.
MailedTwiceNeedsFaults ==
    \A n \in DOMAIN notices :
        mails[n] <= 1 + faults /\ (notices[n].delivered => mails[n] > 0)

\* Within 24 hours no more notices are delivered or under way than syncs may
\* lose the mailbox at the same moment.
NoticesAreDeduped ==
    Cardinality({n \in DOMAIN notices :
                    notices[n].recent /\ (notices[n].failed => notices[n].delivered)})
        <= Cardinality(Syncs)

\* Every notice is delivered, given up, or older than 24 hours in the end: what
\* the tick retries it does not retry for ever.
Settled(n) == notices[n].delivered \/ notices[n].failed \/ ~notices[n].recent

NoticesSettle == []<>(\A n \in DOMAIN notices : Settled(n))

\* A mailbox that Google refuses for good and that is polled is found out, and
\* no late success of a sync declares it connected for ever.
Refused == revoked = token
RefusalIsNoticed == <>[]Refused => <>[](status = "requires_reauth")
=============================================================================
