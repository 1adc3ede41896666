--------------------------- MODULE DeliveryWorker ---------------------------
(***************************************************************************)
(* What the three reminder workers have in common: enforcement reminders   *)
(* (apps/web/src/lib/reminder-delivery.ts), insurance notifications        *)
(* (insurance-notification-delivery.ts) and general tasks                  *)
(* (general-task-delivery.ts), each run by any number of worker processes  *)
(* (scripts/send-reminders.ts) against one PostgreSQL database.            *)
(*                                                                         *)
(* The three repeat one batch: recover, prepare, claim, read, send, close. *)
(* They differ in which rows they list and prepare, in what silences a     *)
(* delivery, in the guard of the recovery, and in what users do to the     *)
(* rows.  The steps where they differ take the difference as a parameter   *)
(* (RecoverIf, ListThose, PrepareIf, ReadUnless); the modules of the three *)
(* workers supply it.                                                      *)
(*                                                                         *)
(* A step is one database statement or transaction, or one call of the     *)
(* mail transport: everything a worker holds between two steps is local    *)
(* and may be stale.  Transactions are single steps because each of them   *)
(* locks the reminder row before it reads what it writes back; a           *)
(* transaction PostgreSQL aborts throws in the worker, which is Crash.     *)
(***************************************************************************)
EXTENDS DeliveryPolicy, FiniteSets

CONSTANTS
    Workers,       \* worker processes
    Reminders,     \* rows workers send mail for, all of one case
    Admins,        \* users with the admin role
    NoDelivery,    \* the job of a worker that holds no claim
    BatchSize,     \* "take" of the delivery queue
    Deferrals,     \* delays, in units, a refused quota may ask for
    LateErrors,    \* errors the transport may report for an accepted mail
    MaxTime,       \* bound: last value of the clock
    MaxLead,       \* bound: how far ahead of now a reminder is set
    MaxEvents      \* bound: crashes, edits, configuration changes

Deliveries == Reminders \X Admins     \* unique (row, recipientId)

ASSUME DeliveryAssumption ==
    /\ NoDelivery \notin Deliveries
    /\ BatchSize \in Nat \ {0}
    /\ Deferrals \subseteq Nat \ {0}
    /\ MaxTime \in Nat /\ MaxLead \in Nat /\ MaxEvents \in Nat

\* What the retry policy takes for granted about the transport: an error it
\* classifies as a rejection is never reported for a mail already accepted.
ASSUME TransportAssumption == LateErrors \subseteq {"other"}

VARIABLES
    clock, events,
    archived,      \* archivedAt of the case is set
    eligible,      \* admins active, verified, with their recorded address
    allowed,       \* admins whose address isAllowedReminderAddress accepts
    rStatus,       \* status of the row, "ABSENT" before it is created
    dueAt, nextPrep, prepared,
    dStatus,       \* status of the delivery, "ABSENT" before preparation
    attempts, startedAt, nextAttemptAt,
    pc, now, stale, due, queue, job, attemptNow, tried, data,
    submitted,     \* history: calls of the transport per delivery
    accepted       \* history: mails the server accepted per delivery

envVars      == <<archived, eligible, allowed>>
reminderVars == <<rStatus, dueAt, nextPrep, prepared>>
deliveryVars == <<dStatus, attempts, startedAt, nextAttemptAt>>
scanVars     == <<now, stale, due, queue>>
jobVars      == <<job, attemptNow, tried, data>>
mailVars     == <<submitted, accepted>>
vars == <<clock, events, envVars, reminderVars, deliveryVars,
          pc, scanVars, jobVars, mailVars>>

NoData == Verdict("UNCERTAIN", 0, 0)

TypeOK ==
    /\ clock \in 0 .. MaxTime
    /\ events \in 0 .. MaxEvents
    /\ archived \in BOOLEAN
    /\ eligible \subseteq Admins
    /\ allowed \subseteq Admins
    /\ rStatus \in [Reminders -> ReminderState \cup {"ABSENT"}]
    /\ dueAt \in [Reminders -> Nat]
    /\ nextPrep \in [Reminders -> Nat]
    /\ prepared \in [Reminders -> BOOLEAN]
    /\ dStatus \in [Deliveries -> DeliveryState \cup {"ABSENT"}]
    /\ attempts \in [Deliveries -> Nat]
    /\ startedAt \in [Deliveries -> Nat]
    /\ nextAttemptAt \in [Deliveries -> Nat]
    /\ pc \in [Workers -> {"idle", "stale", "due", "queue",
                           "claimed", "sending", "complete"}]
    /\ now \in [Workers -> Nat]
    /\ stale \in [Workers -> SUBSET Deliveries]
    /\ due \in [Workers -> SUBSET Reminders]
    /\ queue \in [Workers -> SUBSET Deliveries]
    /\ job \in [Workers -> Deliveries \cup {NoDelivery}]
    /\ attemptNow \in [Workers -> Nat]
    /\ tried \in [Workers -> Nat]
    /\ data \in [Workers -> [status: DeliveryState \ {"PROCESSING"},
                           giveBack: 0 .. 1, delay: Nat]]
    /\ submitted \in [Deliveries -> Nat]
    /\ accepted \in [Deliveries -> Nat]

Init ==
    /\ clock = 0 /\ events = 0
    /\ archived = FALSE
    /\ eligible \in SUBSET Admins
    /\ allowed = Admins
    /\ rStatus = [r \in Reminders |-> "ABSENT"]
    /\ dueAt = [r \in Reminders |-> 0]
    /\ nextPrep = [r \in Reminders |-> 0]
    /\ prepared = [r \in Reminders |-> FALSE]
    /\ dStatus = [d \in Deliveries |-> "ABSENT"]
    /\ attempts = [d \in Deliveries |-> 0]
    /\ startedAt = [d \in Deliveries |-> 0]
    /\ nextAttemptAt = [d \in Deliveries |-> 0]
    /\ pc = [w \in Workers |-> "idle"]
    /\ now = [w \in Workers |-> 0]
    /\ stale = [w \in Workers |-> {}]
    /\ due = [w \in Workers |-> {}]
    /\ queue = [w \in Workers |-> {}]
    /\ job = [w \in Workers |-> NoDelivery]
    /\ attemptNow = [w \in Workers |-> 0]
    /\ tried = [w \in Workers |-> 0]
    /\ data = [w \in Workers |-> NoData]
    /\ submitted = [d \in Deliveries |-> 0]
    /\ accepted = [d \in Deliveries |-> 0]

Goto(w, from, to) == pc[w] = from /\ pc' = [pc EXCEPT ![w] = to]

-----------------------------------------------------------------------------
(* Recovery of interrupted claims                                          *)

NeverInterrupted(d, t) == dStatus[d] = "PROCESSING" /\ startedAt[d] > t \* mutant
Interrupted(d, t) == dStatus[d] = "PROCESSING" /\ startedAt[d] + StaleAfter < t

AnyClaim(d, t) == dStatus[d] = "PROCESSING"                           \* mutant
\* The condition repeated in the recovery's own update.
StillInterrupted(d, t) == Interrupted(d, t)

\* Mutant: the aggregate is computed from what was there before the update.
RefreshFromOldRows(r, newStatus) ==
    rStatus' = [rStatus EXCEPT ![r] =
        IF @ = "CANCELLED" THEN @
        ELSE AggregateReminderStatus(
                 {dStatus[<<r, a>>] : a \in Admins} \ {"ABSENT"})]

\* refreshReminder, given the deliveries' statuses after the transaction's own
\* update: a cancelled reminder keeps its status.
RefreshReminder(r, newStatus) ==
    rStatus' = [rStatus EXCEPT ![r] =
        IF @ = "CANCELLED" THEN @
        ELSE AggregateReminderStatus(
                 {newStatus[<<r, a>>] : a \in Admins} \ {"ABSENT"})]

\* A worker polls: it fixes "now" and lists the claims older than ten minutes.
StartBatch(w) ==
    /\ Goto(w, "idle", "stale")
    /\ now' = [now EXCEPT ![w] = clock]
    /\ stale' = [stale EXCEPT ![w] = {d \in Deliveries : Interrupted(d, clock)}]
    /\ UNCHANGED <<clock, events, envVars, reminderVars, deliveryVars,
                   due, queue, jobVars, mailVars>>

\* One transaction per listed claim: the claim is declared interrupted if the
\* condition of the update, which the three workers choose differently, holds.
RecoverIf(w, d, interrupted) ==
    /\ pc[w] = "stale" /\ d \in stale[w]
    /\ stale' = [stale EXCEPT ![w] = @ \ {d}]
    /\ dStatus' = IF interrupted
                  THEN [dStatus EXCEPT ![d] = "UNCERTAIN"]
                  ELSE dStatus
    /\ RefreshReminder(d[1], dStatus')
    /\ UNCHANGED <<clock, events, envVars, dueAt, nextPrep, prepared,
                   attempts, startedAt, nextAttemptAt,
                   pc, now, due, queue, jobVars, mailVars>>

-----------------------------------------------------------------------------
(* Preparation: fixing the recipients of a due reminder                    *)

PreparableAgain(r, t) ==                                              \* mutant
    /\ rStatus[r] = "PENDING" /\ ~archived /\ dueAt[r] <= t /\ nextPrep[r] <= t
Preparable(r, t) ==
    /\ rStatus[r] = "PENDING" /\ ~prepared[r] /\ ~archived
    /\ dueAt[r] <= t /\ nextPrep[r] <= t

ListThose(w, ready) ==
    /\ stale[w] = {}
    /\ Goto(w, "stale", "due")
    /\ due' = [due EXCEPT ![w] = ready]
    /\ UNCHANGED <<clock, events, envVars, reminderVars, deliveryVars,
                   now, stale, queue, jobVars, mailVars>>

\* One transaction under the reminder's row lock: if it is still to be prepared,
\* fix its recipients, or look again later when there is none.
PrepareIf(w, r, wanted) ==
    LET recipients == eligible \cap allowed
        created == {d \in {r} \X recipients : dStatus[d] = "ABSENT"}
        t == now[w]
    IN
    /\ pc[w] = "due" /\ r \in due[w]
    /\ due' = [due EXCEPT ![w] = @ \ {r}]
    /\ \/ /\ ~wanted
          /\ UNCHANGED <<nextPrep, prepared, dStatus, nextAttemptAt>>
       \/ /\ wanted /\ recipients = {}
          /\ nextPrep' = [nextPrep EXCEPT ![r] = t + PrepareWait]
          /\ UNCHANGED <<prepared, dStatus, nextAttemptAt>>
       \/ /\ wanted /\ recipients # {}
          /\ dStatus' = [d \in Deliveries |->
                            IF d \in created THEN "PENDING" ELSE dStatus[d]]
          /\ nextAttemptAt' = [d \in Deliveries |->
                            IF d \in created THEN t ELSE nextAttemptAt[d]]
          /\ prepared' = [prepared EXCEPT ![r] = TRUE]
          /\ UNCHANGED nextPrep
    /\ UNCHANGED <<clock, events, envVars, rStatus, dueAt, attempts, startedAt,
                   pc, now, stale, queue, jobVars, mailVars>>

-----------------------------------------------------------------------------
(* The delivery queue                                                      *)

ClaimableWhileClaimed(d, t) ==                                        \* mutant
    dStatus[d] \in {"PENDING", "PROCESSING"} /\ nextAttemptAt[d] <= t
Claimable(d, t) == dStatus[d] = "PENDING" /\ nextAttemptAt[d] <= t

\* The BatchSize oldest pending deliveries whose time has come.
ListQueue(w) ==
    LET ready == {d \in Deliveries : Claimable(d, now[w])}
    IN
    /\ due[w] = {}
    /\ Goto(w, "due", "queue")
    /\ \E taken \in SUBSET ready :
          /\ IF Cardinality(ready) <= BatchSize
             THEN taken = ready
             ELSE Cardinality(taken) = BatchSize
          /\ \A d \in taken, e \in ready \ taken :
                nextAttemptAt[d] <= nextAttemptAt[e]
          /\ queue' = [queue EXCEPT ![w] = taken]
    /\ UNCHANGED <<clock, events, envVars, reminderVars, deliveryVars,
                   now, stale, due, jobVars, mailVars>>

CountAttempt(d) == attempts' = [attempts EXCEPT ![d] = @ + 1]

\* The conditional update that turns PENDING into PROCESSING, or finds that
\* another worker, or a deletion, was faster and skips the candidate.
Claim(w, d) ==
    /\ pc[w] = "queue" /\ d \in queue[w]
    /\ queue' = [queue EXCEPT ![w] = @ \ {d}]
    /\ IF Claimable(d, clock)
       THEN /\ dStatus' = [dStatus EXCEPT ![d] = "PROCESSING"]
            /\ startedAt' = [startedAt EXCEPT ![d] = clock]
            /\ CountAttempt(d)
            /\ job' = [job EXCEPT ![w] = d]
            /\ attemptNow' = [attemptNow EXCEPT ![w] = clock]
            /\ pc' = [pc EXCEPT ![w] = "claimed"]
       ELSE UNCHANGED <<dStatus, startedAt, attempts, job, attemptNow, pc>>
    /\ UNCHANGED <<clock, events, envVars, reminderVars, nextAttemptAt,
                   now, stale, due, tried, data, mailVars>>

\* The recipient lost eligibility, or the case or the reminder was put away.
Silenced(d) == d[2] \notin eligible \/ archived \/ rStatus[d[1]] = "CANCELLED"

\* Re-read the delivery with its recipient, reminder and case, and decide: drop
\* it if it was silenced, wait if the address is not allowed, or else send.
ReadUnless(w, silenced) ==
    LET d == job[w] IN
    /\ pc[w] = "claimed"
    /\ tried' = [tried EXCEPT ![w] = attempts[d]]
    /\ \/ /\ silenced
          /\ data' = [data EXCEPT ![w] = Verdict("CANCELLED", 0, 0)]
          /\ pc' = [pc EXCEPT ![w] = "complete"]
       \/ /\ ~silenced /\ d[2] \notin allowed
          /\ data' = [data EXCEPT ![w] = Verdict("PENDING", 1, PrepareWait)]
          /\ pc' = [pc EXCEPT ![w] = "complete"]
       \/ /\ ~silenced /\ d[2] \in allowed
          /\ pc' = [pc EXCEPT ![w] = "sending"]
          /\ UNCHANGED data
    /\ UNCHANGED <<clock, events, envVars, reminderVars, deliveryVars,
                   scanVars, job, attemptNow, mailVars>>

\* The call of sendReminderEmail returned or threw: what is to be persisted.
SendReturns(w, verdict) ==
    /\ Goto(w, "sending", "complete")
    /\ data' = [data EXCEPT ![w] = verdict]
    /\ UNCHANGED <<clock, envVars, reminderVars, deliveryVars,
                   scanVars, job, attemptNow, tried>>

\* The server takes the mail; the reply arrives, or is lost on the way.
SendAccepted(w) ==
    /\ \/ SendReturns(w, Verdict("SENT", 0, 0))
       \/ \E error \in LateErrors :
             SendReturns(w, ReminderFailureDecision(error, tried[w]))
    /\ submitted' = [submitted EXCEPT ![job[w]] = @ + 1]
    /\ accepted' = [accepted EXCEPT ![job[w]] = @ + 1]
    /\ UNCHANGED events

\* The call fails and no mail was accepted.
SendFailed(w) ==
    /\ \E error \in SmtpError :
          SendReturns(w, ReminderFailureDecision(error, tried[w]))
    /\ submitted' = [submitted EXCEPT ![job[w]] = @ + 1]
    /\ UNCHANGED <<events, accepted>>

\* No quota: the transport is not called.
SendSuppressed(w) ==
    /\ events < MaxEvents /\ events' = events + 1
    /\ \E k \in Deferrals : SendReturns(w, Verdict("PENDING", 1, k))
    /\ UNCHANGED mailVars

Anyone(w) == TRUE                                                     \* mutant
\* The claim is still this worker's.
Mine(w) == /\ dStatus[job[w]] = "PROCESSING"
           /\ startedAt[job[w]] = attemptNow[w]

\* The closing transaction: record the verdict if the claim is still this
\* worker's, then refresh the reminder's status in any case.  (startedAt,
\* nulled by a deferral, is read only while the delivery is PROCESSING.)
CompleteDelivery(w) ==
    LET d == job[w]
        verdict == data[w]
    IN
    /\ Goto(w, "complete", "queue")
    /\ IF Mine(w)
       THEN /\ dStatus' = [dStatus EXCEPT ![d] = verdict.status]
            /\ attempts' = [attempts EXCEPT ![d] = @ - verdict.giveBack]
            /\ nextAttemptAt' =
                  IF verdict.status = "PENDING"
                  THEN [nextAttemptAt EXCEPT ![d] = attemptNow[w] + verdict.delay]
                  ELSE nextAttemptAt
       ELSE UNCHANGED <<dStatus, attempts, nextAttemptAt>>
    /\ RefreshReminder(d[1], dStatus')
    /\ job' = [job EXCEPT ![w] = NoDelivery]
    /\ attemptNow' = [attemptNow EXCEPT ![w] = 0]
    /\ tried' = [tried EXCEPT ![w] = 0]
    /\ data' = [data EXCEPT ![w] = NoData]
    /\ UNCHANGED <<clock, events, envVars, dueAt, nextPrep, prepared,
                   startedAt, scanVars, mailVars>>

EndBatch(w) ==
    /\ queue[w] = {}
    /\ Goto(w, "queue", "idle")
    /\ now' = [now EXCEPT ![w] = 0]
    /\ UNCHANGED <<clock, events, envVars, reminderVars, deliveryVars,
                   stale, due, queue, jobVars, mailVars>>

\* The process dies, or a database call throws and the batch is abandoned:
\* every local of the batch is gone and the loop starts over.
Crash(w) ==
    /\ pc[w] # "idle"
    /\ events < MaxEvents /\ events' = events + 1
    /\ pc' = [pc EXCEPT ![w] = "idle"]
    /\ now' = [now EXCEPT ![w] = 0]
    /\ stale' = [stale EXCEPT ![w] = {}]
    /\ due' = [due EXCEPT ![w] = {}]
    /\ queue' = [queue EXCEPT ![w] = {}]
    /\ job' = [job EXCEPT ![w] = NoDelivery]
    /\ attemptNow' = [attemptNow EXCEPT ![w] = 0]
    /\ tried' = [tried EXCEPT ![w] = 0]
    /\ data' = [data EXCEPT ![w] = NoData]
    /\ UNCHANGED <<clock, envVars, reminderVars, deliveryVars, mailVars>>

-----------------------------------------------------------------------------
(* Around the workers                                                      *)

\* The case is archived, or restored by restore-deleted-record.ts.
SetArchived ==
    /\ events < MaxEvents /\ events' = events + 1
    /\ archived' = ~archived
    /\ UNCHANGED <<clock, eligible, allowed, reminderVars, deliveryVars,
                   pc, scanVars, jobVars, mailVars>>

\* Banned or reactivated, verified or not, role or address changed.
SetEligible(a) ==
    /\ events < MaxEvents /\ events' = events + 1
    /\ eligible' = IF a \in eligible THEN eligible \ {a} ELSE eligible \cup {a}
    /\ UNCHANGED <<clock, archived, allowed, reminderVars, deliveryVars,
                   pc, scanVars, jobVars, mailVars>>

\* REMINDER_ALLOWED_RECIPIENTS or the transport changes.
SetAllowed(a) ==
    /\ events < MaxEvents /\ events' = events + 1
    /\ allowed' = IF a \in allowed THEN allowed \ {a} ELSE allowed \cup {a}
    /\ UNCHANGED <<clock, archived, eligible, reminderVars, deliveryVars,
                   pc, scanVars, jobVars, mailVars>>

Tick ==
    /\ clock < MaxTime
    /\ clock' = clock + 1
    /\ UNCHANGED <<events, envVars, reminderVars, deliveryVars,
                   pc, scanVars, jobVars, mailVars>>

-----------------------------------------------------------------------------

Later(a, b) == IF a > b THEN a ELSE b

\* The steps in which the three workers do not differ.
CommonStep(w) ==
    \/ StartBatch(w)
    \/ ListQueue(w)
    \/ \E d \in Deliveries : Claim(w, d)
    \/ SendAccepted(w)
    \/ SendFailed(w)
    \/ SendSuppressed(w)
    \/ CompleteDelivery(w)
    \/ EndBatch(w)

EnvironmentStep ==
    \/ SetArchived
    \/ \E a \in Admins : SetEligible(a) \/ SetAllowed(a)

-----------------------------------------------------------------------------
(* Safety                                                                  *)

Active(w) == pc[w] \in {"claimed", "sending", "complete"}

\* At most one mail per delivery is ever accepted by the server, whatever
\* workers, crashes, lost replies and slow sends do: the claim of
\* reminder-delivery.ts:73 and the refusal to reclaim interrupted work.
AtMostOneMail == \A d \in Deliveries : accepted[d] <= 1

\* What the database says became of a delivery is what happened: SENT only if
\* the server accepted the mail, FAILED or queued for (another) attempt only
\* if it did not.  A lost or interrupted attempt must not end up in either.
OutcomeIsTrue ==
    \A d \in Deliveries :
        /\ dStatus[d] = "SENT" => accepted[d] = 1
        /\ dStatus[d] \in {"ABSENT", "PENDING", "FAILED"} => accepted[d] = 0

\* However deferrals, which give their attempt back, and retries alternate,
\* the transport is called at most three times for a delivery.
AtMostThreeAttempts == \A d \in Deliveries : submitted[d] <= MaxAttempts

\* A claim younger than ten minutes is only ever lost to a cancellation: no
\* other worker's recovery, working from a list read earlier, takes it away.
FreshClaimKept ==
    \A w \in Workers :
        Active(w) /\ clock <= attemptNow[w] + StaleAfter =>
            \/ /\ dStatus[job[w]] = "PROCESSING"
               /\ startedAt[job[w]] = attemptNow[w]
            \/ rStatus[job[w][1]] = "CANCELLED"

\* No mail leaves before the notification time of the reminder as last edited,
\* although preparation works from a list read before the edit.
NoMailBeforeDue ==
    \A d \in Deliveries : accepted[d] > 0 => dueAt[d[1]] <= clock

\* The status stored on a prepared reminder is the aggregate of its deliveries
\* in every state, with several workers completing deliveries of one reminder.
StatusAgrees ==
    \A r \in Reminders :
        prepared[r] /\ rStatus[r] # "CANCELLED" =>
            rStatus[r] = AggregateReminderStatus(
                             {dStatus[<<r, a>>] : a \in Admins} \ {"ABSENT"})

\* A settled delivery is never reopened or relabelled.
SettledIsFinal ==
    [][\A d \in Deliveries :
          dStatus[d] \in Settled => dStatus'[d] = dStatus[d]]_vars

\* The recipients are fixed by the first preparation: an administrator who
\* becomes eligible later gets no delivery of an old reminder.
RecipientsAreFixed ==
    [][\A r \in Reminders, a \in Admins :
          prepared[r] /\ dStatus[<<r, a>>] = "ABSENT"
              => dStatus'[<<r, a>>] = "ABSENT"]_vars

-----------------------------------------------------------------------------
(* The worker implements the ledger of one mail per delivery               *)

LedgerVerdict(status) ==
    IF status = "SENT" THEN "delivered"
    ELSE IF status = "FAILED" THEN "refused"
    ELSE IF status = "UNCERTAIN" THEN "unknown"
    ELSE IF status = "CANCELLED" THEN "dropped"
    ELSE "open"

Ledger == INSTANCE MailLedger
          WITH Items <- Deliveries,
               verdict <- [d \in Deliveries |-> LedgerVerdict(dStatus[d])],
               mail <- accepted

\* Claims, retries, deferrals, crashes, recovery and cancellation together
\* implement "sent at most once, settled once, and truthfully".
ImplementsLedger == Ledger!LedgerSpec
=============================================================================
