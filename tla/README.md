# Humanum Hukuk, in TLA+

The program is a case-management application for a law office: a Next.js
application and a reminder worker over one PostgreSQL database, a directory of
uploaded files, and an SMTP server. Request handlers run concurrently, each as
one or several database transactions at PostgreSQL's default isolation (READ
COMMITTED); the worker is a polling process of which there may be several. What
is hard in such a program is not any one handler but what handlers, workers,
crashes and a lossy mail server do to each other between two database calls.
That is what these modules model. Paths below are relative to `apps/web`.

## Inventory

| Component | State it keeps | Operations | What is hard | What makes it correct |
| --- | --- | --- | --- | --- |
| Enforcement reminder delivery: `src/lib/reminder-delivery.ts`, `scripts/send-reminders.ts`, `src/lib/cases/add-case-activity.ts` | `case_reminder`, `reminder_delivery`; per batch `now`, three lists read once, the claim | poll, recover, prepare, claim, send, complete; add, edit, delete; archive; eligibility | several workers, stale lists, crashes after the mail left, lost replies, deletion while sending | one mail per delivery, true outcomes, bounded retries, right aggregate, every delivery settles |
| Delivery policy: `src/lib/reminder-delivery-policy.ts` | none | aggregate status, retry decision | doubtful sends must be told from rejected ones | never retry in doubt |
| Insurance notification delivery: `src/lib/insurance-notification-delivery.ts` | the same, over notifications with soft deletion | the same | deletion leaves deliveries behind | as above; nothing sent for a deleted notification |
| General task delivery: `src/lib/general-task-delivery.ts` | the same, over tasks | the same | recovery does not recheck the claim's age | as above |
| E-mail quota: `src/lib/email-rate-limit.ts` | one counter and last use per key | reserve several counters, release, prune, clear | all or nothing over several rows, window rollover, release after rollover | no counter beyond its limit in a window |
| Reminder creation: `src/lib/cases/reminder-creation-limit.ts` | reminders by creator and time | lock, deduplicate, count, create | concurrent creation through two entry points | limits hold, no duplicates |
| Case documents: `src/lib/document-storage.ts` and its two siblings | document rows, files on disk, folders of the case | store, read, move, delete, change folders | file and row are not one transaction | a row has its file; the quota holds |
| Recoverable deletion: `src/lib/recoverable-deletion.ts`, `src/lib/deletion-cleanup.ts`, `scripts/restore-deleted-record.ts` | `archivedAt`, `purgeAfter`, users' deletion dates, files | archive, restore, purge, unlink | purge acts on a list read earlier; crash between commit and unlink | a restored record keeps its data and files |
| User administration: `src/app/api/admin/users/*` | role, banned, deletion dates, sessions | ban, unban, schedule deletion | two administrators at once | an active administrator remains; no active user is scheduled for deletion |
| Enforcement cases: `src/lib/cases/*` | case, version, change history, transactions, notes | create, update, book | lost updates | history is complete and gapless |
| General legal cases: `src/lib/general-legal-cases/*` | case, version, entries, stage, collection status, restricted access | create, update, finance, process, notes, tasks | derived status computed from a snapshot | derived status agrees with the entries |
| Insurance arbitration cases: `src/lib/insurance-arbitration/service.ts` | case, payments, notes, notifications | create, update, delete | lost updates | version guards every write |
| Password change and enrolment: `src/app/api/auth/change-password/route.ts`, `src/lib/auth.ts` | password, `mustChangePassword`, sessions, attempt counter | change, reset, enrol | several steps, no transaction | no one is locked in or out half way |
| Profile images: `src/lib/profile-image-storage.ts` | up to three files per user, `user.image` | store, read, remove | remove and rename next to readers and other uploads | a reader finds the newest image |
| Input validation: `src/lib/form-input.ts`, `src/lib/cases/create-case-input.ts`, `src/lib/insurance-arbitration/input.ts` | none | format, parse, compute | texts are written and read by different rules in different forms | what is stored is what was typed; form, server and page compute the same |
| User interface: `src/app/**`, `src/components/**` | what a window shows and has under way | open, edit, send, show | answers overtake each other, windows outlive what they show | a page shows what it last read of what is stored, and what its own requests changed since; saves overwrite only what was shown |
| Acceptance fixtures, schema, deployment | - | - | run by hand, or configuration | - |

Interactions: pages call route handlers, which call the services above; the
services and the worker share the database and nothing else. The worker sends
through `src/lib/email.ts`, which reserves quota first and gives it back after a
definite rejection. Authentication mail uses the same quota. Archiving a case
silences its reminders, deactivating a user cancels the user's deliveries, and
both are noticed only when a worker next reads the row.

`PROJECT.json` lists the hazards of the code one by one, each at its line, with
the properties that cover it.

## Plan

The plan went from the most important promise of the system outwards.

1. `DeliveryPolicy`, `DeliveryWorker`, `ReminderDelivery`, `MailLedger`: at most
   one mail per delivery and a true record of it. Done; every
   safety property proved.
2. `SoftDeletedDelivery`, `InsuranceNotificationDelivery`, `GeneralTaskDelivery`:
   the two siblings over the same worker and ledger. Done and proved.
3. `Retention`, `UserAccounts`, `CaseDocuments`, `RecordDeletion`: users,
   documents, and the purge that goes over all of them. Done; every safety
   property proved.
4. `EmailQuota`: what every mail is charged, all of it or none, against
   `MailAllowance`. Done and proved; it meets 1 in the outcome "suppressed".
5. `EnforcementCases`, `InsuranceCases`, `GeneralCases`: the three kinds of case
   from the window they are edited in to the row, with their versions, history,
   payments, entries, notes and access. Done and proved.
6. `ReminderCreation`, `PasswordChange`, `ProfileImages`, `CaseInput`, `PageData`:
   the remaining parts that keep state or compute. Done and proved.

Left: the folders of documents, the move of a document between them, and their tab.

Modules with theorems declare no RECURSIVE operator; sums and aggregates are
taken over sets or folds.

## Modules

| Module | Models |
| --- | --- |
| `DeliveryPolicy` | the decisions all workers share, and the delays, in units of five minutes |
| `DeliveryWorker` | the state and the batch the three workers have in common, crashes, configuration changes, the clock, and the properties all three promise |
| `ReminderDelivery` | the enforcement worker, and users over one enforcement case's reminders |
| `SoftDeletedDelivery` | what insurance and general workers share: rows deleted by `deletedAt`, whose deliveries stay |
| `InsuranceNotificationDelivery` | the insurance worker, and users over one insurance case's notifications |
| `GeneralTaskDelivery` | the general worker, users over one case's tasks, and the case form that replaces them all |
| `MailLedger` | abstract: every item is sent at most once and settled at most once, truthfully |
| `MailAllowance` | abstract: a mail is charged to all its counters at once, and only where each has room, or suppressed because one has none |
| `MCReminderDelivery`, `MCGeneralDelivery` | instances for TLC; workers and administrators are symmetric |
| `MCSoftDelivery` | the insurance or the general worker, chosen at the start |
| `MCDeliveryLiveness` | the enforcement or the general worker under the polling loop's scheduling and fairness |
| `Retention` | the deletion policy and the clock of the modules below |
| `UserAccounts` | activation, deactivation, scheduled deletion and restoration of users, and their anonymisation |
| `CaseDocuments` | uploads and deletion of documents under one quota, archiving and restoration of cases, and their deletion |
| `RecordDeletion` | the purge, composed with `UserAccounts` and `CaseDocuments` |
| `MCRecordDeletion`, `MCRecordDeletionLiveness` | the same for TLC, and under the fairness of the purge's loop |
| `EmailQuota` | the counters every mail is charged to, the transactions over them, refunds and pruning |
| `EnforcementCases` | the form of an enforcement case in several windows, its requests, the conditional update and the history |
| `InsuranceCases` | the same for insurance cases, whose payments are saved at once and whose service reads the case again after its transaction |
| `CaseForms` | what the forms of enforcement and insurance cases promise alike |
| `GeneralCases` | the wizard of a general case, its overview read in several queries, bookings, stages and access |
| `CaseInput` | an amount from the field to the database and back, and the sums of an enforcement case as form, server and page compute them |
| `ReminderCreation` | the limits on reminders and their deduplication, by concurrent creators |
| `PasswordChange` | one account from its creation to a chosen password |
| `ProfileImages` | overlapping uploads and removals of one user's image, file by file |
| `PageData` | a list with search and pages, and a panel of payments, notifications or notes, as answers come in and others change what they show |
| `MCWebApplication` | these modules for TLC, one part per behaviour |
| `Null` | the value of what is not there, shared by the modules above |
| `DeliveryWorkerProofs` | theorems about anything that behaves as a worker (`AnySpec`) |
| `ReminderDeliveryProofs`, `SoftDeletedProofs` | that the three workers do, and their own theorems |
| `RecordDeletionProofs` | theorems about the purge, uploads and administrators |
| `CaseFormsProofs` | theorems about the forms of enforcement and insurance cases |
| `GeneralCasesProofs` | theorems about the wizard, its entries and notes, and bookings |
| `LimitsProofs` | theorems about the quota of mails and the limits on reminders |
| `UserPagesProofs` | theorems about passwords, profile images, lists and panels, and amounts |

### DeliveryWorker

State. `rStatus`, `dueAt`, `nextPrep`, `prepared` are the columns status, dueAt,
nextPreparationAt, deliveryPreparedAt of `case_reminder` (or of the notification
or task); `dStatus`, `attempts`, `startedAt`, `nextAttemptAt` those of its
delivery table, one row per reminder and administrator, "ABSENT" before it
exists. `archived`, `eligible`, `allowed`
are what workers re-read of the case, of the users (role, ban, verification,
recorded address, together) and of the allowlist. A worker's locals are `now`,
the lists `stale`, `due`, `queue`, and for the claim it holds `job`,
`attemptNow`, `tried` (attempts as re-read) and `data` (the update it will
write). `submitted` and `accepted` are history: what the transport was asked and
what the server took.

Steps. One action is one statement or transaction, or one call of the
transport, so everything a worker read earlier may be stale when it is used:
`StartBatch` and `ListThose`, `ListQueue` read the lists; `RecoverIf`,
`PrepareIf`, `Claim` act on one entry, with the guards the code repeats;
`ReadUnless` decides; `SendAccepted` (with a reply, or with an error although
the server took the mail), `SendFailed` and `SendSuppressed` are the ways the
call can end; `CompleteDelivery` is the closing transaction. The transactions of
the worker are single steps: two that concern one reminder are ordered by the
`FOR UPDATE` lock under which they read what they write back, and an aborted one
throws, which is `Crash`. `Crash` at any point forgets the worker's locals: a
killed process, a database error and a deadlock PostgreSQL resolves look the
same from here. Every worker's loop returns to "idle" after either.

Data left out. Titles, addresses, failure codes, audit rows and `sentAt`;
`sendEmail`, which no code path sets to false for a reminder the worker can see;
the limits of 100 interrupted claims and 50 due reminders per poll, which the
instances never reach (the queue's limit of 25 is `BatchSize`); the re-read
after a claim is one step although the ORM issues one query per table, since the
decision uses each value once and no property relates them. A worker's `job` is
dropped with its other locals when it closes a delivery.

The transport. `TransportAssumption` states what the retry policy takes for
granted: an error it classifies as a rejection (`reminderFailureDecision`) is
never reported for a mail the server took. It is an assumption about the SMTP
client, which is not part of the repository. A client that reports a timeout
after DATA as a connection error (command CONN, or ECONNECTION) breaks it, and
with it `AtMostOneMail`; whoever upgrades the client should check this first.

### The three workers

The three source files repeat the batch and differ in four places, which
`DeliveryWorker` leaves open as parameters of its steps:

| Parameter | Reminders | Insurance | General tasks |
| --- | --- | --- | --- |
| condition of the recovery's update (`RecoverIf`) | still PROCESSING and still older than ten minutes | the same | PROCESSING only |
| rows listed as due (`ListThose`) | PENDING, not prepared, case not archived, due | and not deleted | and not deleted |
| rows prepared (`PrepareIf`) | every guard of the list again | the same | the same |
| what silences a claimed delivery (`ReadUnless`) | recipient ineligible, case archived, reminder CANCELLED | or notification deleted | or task deleted |

Deleting a reminder cancels its open deliveries in the same transaction;
deleting a notification or a task only sets `deletedAt` (and a task's status to
CANCELLED) and leaves the deliveries for the worker to find. `deleted` is that
column, `buried` is history: which deliveries were queued or not yet made at the
time. `UpdateGeneralLegalCase` is the case form: saving it deletes every task of
the case and creates those of the form anew. Its new tasks share one due time,
a bound of the model. PLANNED, a status of older task rows that every guard
treats as PENDING, is PENDING here. User operations are guarded by `~archived`,
the visibility of the case: a request that checked it before the archive
commits is one that ran before it, since the two touch different rows.

### Users, documents and the purge

`RecordDeletion` is the interplay of four kinds of process over users, cases,
document rows and one directory of files.

Requests of administrators (`UserAccounts`). `Submit` is the check of the session
before the transaction, `TakeStatusLock` the advisory lock only the status route
takes, `CheckStatus` and `CheckDeletion` the reads of the transaction,
`CommitStatus` and `CommitDeletion` its writes. Reads and writes are two steps
because at READ COMMITTED nothing else keeps another transaction from committing
between them. `Active` is an administrator who is not banned; the audit rows,
names and ban reasons are left out. Sessions and sign-in belong to the
better-auth library: `SignIn` opens a session for whoever is not banned and not
anonymised, in one step.

Uploads (`CaseDocuments`). One process per document: `BeginUpload`,
`TakeStorageLock`, `CheckUpload` (the case is visible and the quota has room),
`WriteFile`, `InsertRow`, and the catch block, `CleanUp`, whose unlink may fail:
the code swallows the error and the file stays. The transaction is open
until it commits, fails, or the database gives it up (`TimeOut`: Prisma's thirty
seconds); in that case the lock is free at once and the process notices only at
its next database call (`NoticeTimeout`), possibly after it has written the
file. `InsertRow` may commit and report a failure. What counts against a case's
limit differs (`Counted`): general cases count deleted documents. Sizes are those
of the bytes, whatever the type of file; folders, moving and reading are left
out, and so is the link to a case transaction, which purge never deletes alone.

Operators. `RecallCase`/`RecallUser` is the query of the restore script, with
"date still ahead", and `RestoreCase`/`RestoreUser` its update, by identifier
only. Archiving is one step: two requests that both found the case visible write
dates a moment apart.

The purge. `ListExpired` reads the four lists, each with at most `PurgeBatch` rows
in any order, and the storage keys of the cases' documents; `PurgeTransaction`
deletes those cases whose date is still past (their document rows go by
cascade) and anonymises every listed user; `Unlink` removes one listed file,
or passes it over for good: the code only logs an error of the file system, and
skips a key it makes no path of. The
four lists are one step although they are four queries: they concern different
tables and no property relates them.

`clock` is in units of the retention period, so one unit is thirty days. `Tick`
waits for uploads in a transaction, which last thirty seconds at most, but not
for requests of administrators, the restore script or the purge, none of which
has a bound on its waits.

History. `abandoned` holds files without a row whose process died, or tried to
unlink them and could not, `doubted` rows whose commit was reported as a failure,
`overtaken` documents of cases that came back while a purge had them listed,
`lostActive` users who were active when they were anonymised. The invariants
except these by name, so each says that there is no other way to the state it
excludes.

### Charging a mail

`EmailQuota` is `sendTransactionalEmail` of `src/lib/email.ts` and the counters
of `src/lib/email-rate-limit.ts`. A counter (`Keys`) is a rule, the kind of mail
it counts and to whom; `rows` is the table, in which a missing row differs from
a count of 0 (a refund does not create one). `Charge` is one
`INSERT ... ON CONFLICT DO UPDATE` of `consumeRule`, with its condition on count
and window; a charge that is not free rolls the transaction back. What an open
transaction has written is in `writes`: locked, and seen by nobody until
`CloseCharge` or `CloseRefund`. Requests of `auth.ts` that are counted before a
mail is asked for are a transaction of their own (`RequestOrder`). `Send` has the
three answers of the server; only a definite refusal is refunded. `Prune` deletes
what is two days old, in one step: the real statement locks its rows one by one and
may wait for one while it holds others, so that `NoLockCycle` is a statement about
the transactions of mails. `Fail` is the database's refusal or the end of the process,
after which nothing is given back. `drawn` is history: the units charged to a
counter and not given back, marked `over` once the counter began anew. Times are
those of the application's host, read just before each statement; a unit of the
clock is a minute, so the moments a statement may wait for a lock are not
seen. The limits of sensitive actions (`consumeDurableRateLimit`) are one rule of the
same `consumeRule` and are cleared by key; they are not instantiated.

`MailAllowance` says what this amounts to. Its `held` is `drawn` without the marks,
its `order` the rules of the mail's kind and recipient, and its `phase` is `pc` with the
transactions taken together (`Phase`): "wanted" until the request is counted, "requested"
until the mail is reserved, "reserved" while it is with the server, "rejected" until its
units are given back.

### Cases and the windows they are edited in

Each of the three modules has a row per case (`file`, `claim`, `suit`), windows
(`page`, `window`, `wizard`) and the requests they have sent (`call`, `request`,
and for bookings `booking`), which go on at the server when the window has given
them up. The archive, the restore script and the loss of an answer may come at
any point.

`EnforcementCases`. A window is rendered with the case as it is (`OpenFile`) and
keeps three things: `shown`, the content it was opened with, `fields`, which the
user changes, and the properties `given` and `version`, which `Refresh`
(`router.refresh`, called by the frame around the form) replaces under the fields.
`ReadFile` is `updateCaseFileInTransaction` up to its comparison of versions,
`WriteFile` its `updateMany` on the version that was read, the row of the history,
and the commit. The update's conflict, a number already taken and a case gone are
answers of their own. `Fill` is possible while the save's requests run: the
`fieldset` is disabled for readers only (`NewCaseForm.tsx:315`). `sent`, which the
code has as the body of its request, is what the fields held when Save was pressed. After
a new case is created, its notes and other attachments
are stored one request at a time (`StoreDraft`); the first that fails brings the
form back as it was, so that a second submission creates a second case.
`NO_CHANGES` is no outcome of the model, because the code never finds it
(`update-case.ts:81`): debtors come back from the database with their keys in
another order than they are compared in.

`InsuranceCases`. Besides Save, every change of the list of payments is sent at
once with the whole form (`ChangePayments`), and nothing keeps two such requests
from being under way. All fields and the payments can be changed while a save runs
(`Writable`), and a change of payments then sends a request beside it. What had begun
as a new case goes on without an identifier until it leaves, so its payments are not
sent (`IsNew`). `WriteClaim` is the update by version, `ReadBack` the read
after the commit that gives the window its next version
(`service.ts:130`): it may be the version of a save by somebody else, which is
the `skipped` that the invariant excepts.

`GeneralCases`. One case. It is created with the entries and notes of the wizard and
the collection status they amount to (`CreateSuit`; `Beginnings` are the lists it may
begin with). `ReadSuit` and `ReadLists` are the queries of
`getGeneralCaseOverview`, run side by side (`overview.ts:9-29`): the version may
be newer than the lists it comes with, or older. `SaveRow` takes the row of the
case, with the checks of access and version, and keeps it until `SaveLists`
replaces entries and notes and commits. Expected amount and collection status are
computed only if the payload has finances (`update.ts:27-52`), which the schema lets
be null (`input.ts:108`) and which the wizard always sends: of a draft without an
`expected` amount `SaveLists` deletes all entries and leaves the status
as it was. `cleared` is history: the last change of these fields was such a save. A
booking takes its entry first (`Book`),
then sums what it sees (`RefreshCollection`), then updates the case without asking
for its version (`FinishBooking`); a save takes the two in the other order, and
where they meet PostgreSQL aborts one (`FailSave`, `FailBooking`). `raced` is
history: the booking's sum was read before another change of the case. Tasks are
in `GeneralTaskDelivery`; process entries and hearings appear by what they do to
the row of the case (`TouchCase`).

### Amounts

`CaseInput` has a text as digits, grouping dots, mark and digits after it, which
is what the conversions tell apart, and amounts in cents. `FormatMoneyInput`,
`ParseMoneyToCents`, `DecimalNumber` (`money` of the insurance input),
`CentsToMoneyString` and `ToFixed` are the conversions; the actions are typing,
leaving the field, saving, and loading the case again. The other half is an
enforcement form: the sums it shows (`FormSums`), the rules of the server
(`Accepted`), its sums (`ServerSums`), those of the case's page (`ShownSums`),
and the CHECK constraints of the database (`Storable`).

### Creating reminders

In `ReminderCreation` a transaction waits for the one advisory lock, counts
(`CheckCreation`, `LimitReached`), and creates. `WithItsCase` is a reminder created
together with its case, which the same function counts and whose case is its own,
so there is nothing to compare it with. Editing and cancelling take no lock and
compare nothing, which is why `NoReminderTwice` excepts what was edited.

### Passwords

`PasswordChange` follows one account. The route's steps (read the account, set or
change the password, clear `mustChangePassword`, delete the sessions) are actions
of their own, since no transaction holds them together, and so are the steps of a
reset by e-mail; `FailChange` and `FailReset` stop between any two. A session is
the number of passwords there had been when it began. `broken` is history: the
steps that failed since a password was last chosen. A demand to choose a password
that stays behind can only be met by a reset, because the page asks for no current
password then; `DemandCanBeMet` says there is no other way into that state.

### Profile images

One user's image is one of three files. A request writes a temporary file, removes
all three in any order, and renames (`Unlink`, `Rename`); then the row is updated.
`FailUpload` is any of these failing; a removal already begun may still happen.
`final` is history: what the last request left there, if none overlapped it.

### What pages show

`PageData` has the list of `FilesClient.tsx`, with its debounce, its aborted
requests and the server's answer to a page past the end, and the panels of a
case: payments (`PaymentModal.tsx`), notifications (`CaseNotifications.tsx`) and notes
(`NotesTab` of `CaseActivityTabs.tsx`). The error of the list can be dismissed over its
emptied rows (`DismissError`).

Of a panel, `stored` is the server's list and `given` what the page was rendered with.
Notifications and notes begin with `given` each time their tab is opened
(`ReopenPanel`), however old it is (`NewCaseForm.tsx:310`), until `RenderPage`; payments begin
empty with a request for the list (`Requested`, `PaymentModal.tsx:73-85`), which may be answered
after a submission. An `ask` is a request under way: it adds or edits (`SubmitItem`) or
removes (`RemoveItem`), is written (`WriteItem`), for payments followed by a read of the whole
list (`ReadItems`), and is shown (`ShowItems`): payments take the list that was read,
notifications the list there was when the request began, notes the list there is.
`ChangeElsewhere` is another window or user, a worker, or a request whose panel was left.
`news` and `overlapped` are history: the items that changed since the list was read, but for
what the panel was told, and whether requests for payments or notifications crossed.
Left out are what a panel says of how a request went, the tab of documents, and the
panel of tasks in the wizard of general cases, whose changes the wizard keeps and sends
with the case (`GeneralCases`, `GeneralTaskDelivery`). An answer 401 leaves the page.

## Runs

| Run | Instance | Shows |
| --- | --- | --- |
| `reminder_workers` | two workers; one administrator with clock to 4 units and two disturbances, or two administrators with clock to 2 and one | `AtMostOneMail`, `AtMostThreeAttempts`, `FreshClaimKept`, `NoMailBeforeDue`, `CancelledIsQuiet`, `StatusAgrees`, `RecipientsAreFixed`, `ImplementsLedger` |
| `delivery_liveness` | two enforcement or two general workers, one delivery, clock to 10, two disturbances, users to time 1 | `EveryDeliverySettles`, `EveryReminderResolves`, `DeletionDrains` |
| `sibling_workers` | two insurance or two general workers, one delivery, clock to 3, two disturbances | `BuriedIsNeverMailed`, `ImplementsLedger`, although recovery of tasks may take a fresh claim and the form may replace tasks |
| `deletion_cases` | an enforcement and a general case, two uploads, two purges of one row each, quota 2, one document per case, clock to 1, two disturbances | `NoOrphanFile`, `RowKeepsFile`, `CommittedWithinQuota`, `OnlyExpiredAreDeleted` |
| `deletion_users` | two users, two requests at a time, one purge of one user, clock to 1, one disturbance | `ActiveAdminRemains`, `AnonymisedIsOut`, `ExpiredUserIsErased` |
| `web_application` | the parts of `MCWebApplication`, see Bounds | the properties of the table below |
| `reminder_doubt` | one worker, one delivery, clock to 1, one disturbance | violated, see Findings |
| `general_retry` | two workers, one delivery, clock to 5, no disturbance | violated, see Findings |
| `deletion_scheduled` | two users, two requests, no purge | violated, see Findings |
| `deletion_restored_user` | two users, one request, one purge | violated, see Findings |
| `lost_update` | the part enforcement | violated, see Findings |
| `insurance_amounts` | the part amounts | violated, see Findings |

What `web_application` shows of each part:

| Part | Properties |
| --- | --- |
| enforcement | `HistoryIsTheRecord`: no gap, no fork, the last row is the case; `FileReplacedWasShown` (in `ReplacedWasShown`): a save overwrites only what its form was opened with; `FileSavedIsStored` (in `SavedIsStored`): what was sent is stored when the form says so, although fields can be edited meanwhile |
| insurance | `ClaimReplacedWasShown` and `ClaimSavedIsStored`, in the same two |
| general | `AccessIsKept`: who saved a case can still open it; `StatusIsTheSum`: the collection status is that of the entries, but for overlapped bookings and saves without finances, after which nothing is collected; `EntriesReplacedWereShown`: a save deletes no entry its wizard did not show; `PrivateNotesAreKept`: nobody else's save touches a private note |
| amounts, claims | `AmountStoredAsRead`, `SumsAgree` |
| quota | `WithinAllowance`: no counter beyond its rule in any window; `CountIsBacked`: a refund takes back its own unit, a refused mail leaves nothing behind; `ImplementsAllowance`: the transactions implement `MailAllowance`; `NoLockCycle`: no deadlock over rows charged in a fixed order |
| creation | `CreationsWithinLimits`, `NoReminderTwice` |
| password | `DemandCanBeMet`, `DemandUntilChosen`, `OldSessionsAreGone` |
| image | `LastImageIsShown` |
| list, panel | `ListShowsWhatIsAsked`: a list that is not loading shows what is searched for and numbered, or nothing after a failure; `PanelShowsTheCase`: a panel that waits for nothing shows of every item what the server has, but for what changed elsewhere, what a lost answer would have told, and what crossed requests overwrote; both in `PagesShowTheData` |

Bounds of the workers. `MaxTime` bounds the clock, `MaxEvents` the crashes, edits,
deferrals and configuration changes together, `MaxLead` how far ahead a reminder is set.
Four units are twenty minutes: enough for a claim to be older than ten minutes
(`StaleAfter`) and be recovered while its worker is still sending, and for all
three attempts with their waits of five and ten minutes. Two disturbances give
every pair, such as a deferral followed by a crash or a crash followed by a
deletion. Rejections and lost replies are not counted as disturbances. One
delivery is enough for what is said of a single delivery, since workers touch
one delivery at a time; the aggregate needs two deliveries of one reminder, which
is the second size of `reminder_workers` (`crew`, `PairMaxTime`, `PairMaxEvents`).

Bounds of the purge. One unit of the clock is enough: a record deleted at 0 is due at 1,
a restoration begun at 0 ends at 1, and what is archived anew at 1 is due at 2 and
must not be deleted by a purge that listed it before. Two uploads are enough to
overrun the quota or the limit together, with `MaxStorageBytes` 2 and sizes 1 and
2, so that one upload may pass either check and the other not. Two disturbances
in `deletion_cases` give a timeout of one upload and a crash of the purge, or two
timeouts. Two users are enough for the last administrator, since who acts must
be another than who is deactivated; both can be due at the same time, so that
`PurgeBatch` 1 makes one of them wait (an administrator activated while the
other's request schedules his deletion can sign in and have the other deleted).

Bounds of the web application. The parts share no state, so a behaviour moves one
of them (`part`) and the others stay as they began: what can happen is the sum of
the parts' behaviours, not their product. `OpenedAtMost` bounds what users begin
(forms opened, payments changed, notes and bookings, creations, requests of a panel and
its reopening), `MishapsAtMost` what goes
wrong or comes in between (failures, lost answers, archiving, refreshed pages, edits
and cancellations of reminders, changes by others), `TogetherAtMost` their sum, each by part. Two
cases, two windows and two requests are the least for a number that is taken, for
two forms over one case, and for a second save next to one under way; three
openings allow a case to be opened by two windows and once more. Two mails share
every counter or those of their channel only (`SomeJobs`); allowances of one and
two make each rule refuse, and five units of the clock are two of the model's
days and a half, so that windows pass and rows are pruned. Two creators
with limits of one an hour, two a day and three in all reach each limit before
the next. Three passwords chosen give an initial one, a change and a reset; three
image requests leave one alone after two that overlapped. Two items, two bodies and two
requests let a submission and a removal of a panel cross, or one of them with the opening
request, and three openings with a mishap let it be opened again over an old rendering; panels
begin over items that are there with one body or not at all, the other being what an edit
makes of them. The general case begins with one entry and a private note. The enforcement
and insurance parts begin with one case already created. `Symmetry` permutes elements, which are
model values shared by the sets of several parts, so that a permutation acts on
all of them at once; no property or initial state names one.

The runs set CHECK_DEADLOCK FALSE because the clock, the disturbances and what
users begin run out.

Fairness. The safety runs assume none. `MCDeliveryLiveness` assumes that a
worker which can take a step of its batch eventually does (the loop of
`send-reminders.ts` awaits nothing for ever: the transport has timeouts) and
that the clock does not advance by five minutes before every worker has polled
and finished, which the thirty-second interval and the transport's twenty-second
timeout justify for a batch of the instance's size. Users act only up to
`LastUserTime` and disturbances are finitely many. No fairness is assumed of
users or of the transport's answers. `MCRecordDeletionLiveness` assumes that a
purge which finds something or is at work takes its next step: the loop of
`scripts/purge-deleted-records.ts` starts a round every six hours, survives a
failed one, and is restarted when it dies. Nothing is assumed of requests, the
restore script or the clock. Nothing in the web application is promised to
happen eventually: whoever fails there tries again by hand.

Each property of a passing run has a mutant in `PROJECT.json`: a plausible slip
in the code, defined next to the definition it replaces and marked "mutant",
that makes TLC report the property violated.

## Findings

`reminder_doubt` (documentation and code disagree). `REMINDER-EMAIL.md` says that
a timeout after submission, "or another uncertain outcome is marked `UNCERTAIN`",
and that cancelled reminders cancel affected *queued* deliveries.
`deleteCaseReminder` also cancels deliveries that are being sent. If the reply is
then lost, the worker's update finds the row no longer PROCESSING, and the
doubtful mail is recorded as CANCELLED. The same step hides a mail that was
certainly sent.

`general_retry` (documentation and code disagree). `REMINDER-EMAIL.md` says that a
"definite temporary rejection is retried after 5 and 10 minutes". The general
worker lists interrupted claims and then declares them UNCERTAIN asking only
whether they are PROCESSING (`general-task-delivery.ts:30`), where its two
siblings ask again how old the claim is. A slow worker that was listed, has
since given its delivery back to the queue and claimed it again, loses the new,
fresh claim; a temporary rejection of that attempt is then not retried, and the
delivery stays UNCERTAIN. No mail is lost twice or sent twice by it: the other
promises hold for the general worker as well, and are proved.

`deletion_scheduled` (documentation and code disagree). `deletion-policy.ts:5`
says that a user must be deactivated before deletion
("Kullanıcı silinmeden önce pasifleştirilmelidir."). The route checks this and
then updates the user by identifier, without the lock of the status route. An
activation that passed its own check before commits in between, and the user
is active with a deletion date. From then on the status route refuses to
deactivate him, and the purge anonymises him after thirty days, even if he is the
last administrator: that is the exception `ActiveAdminRemains` makes.

`deletion_restored_user` (documentation and code disagree). `AppShell.tsx:504` says
that an account can be brought back for thirty days. The purge asks again
whether a case is still due when it deletes it, but not whether a user is: a
restoration found in time whose update commits after the purge read its list is
undone by the anonymisation. The same holds for the files of a case
(`deletion-cleanup.ts:29`): the row of a restored case is kept, because its date is
asked for again, and its files are unlinked, because the list is not.
`RowKeepsFile` excepts exactly those.

`lost_update` (documentation and code disagree). The case route answers a save
over somebody else's with "Bu dosya siz açtıktan sonra başka biri tarafından
düzenlendi." (`api/cases/[id]/route.ts:38`). The form compares with the version of
its properties, and the profile image menu of the frame around it
(`AppShell.tsx:380`, `:398`) calls `router.refresh()`: the properties are then those
of now, the fields are still those the user began with, and the save goes
through. `FileReplacedWasShown` excepts exactly the forms that were refreshed so.

`insurance_amounts` (a defect of the code). The amount fields of insurance cases
group digits with dots while they are typed; `money()` of
`insurance-arbitration/input.ts:16` takes dots for grouping only when there is a
comma. So 1250 is sent as "1.250" and stored as 1.25, and an amount of seven digits
is refused. `AmountStoredAsRead` excepts those texts in that form.

Smaller observations, each visible in the model where a property makes an exception or
a comment names it, and none of them contradicting a statement of the repository:

- An insurance window learns its next version from a read after the commit
  (`service.ts:130`) and may so skip a save by somebody else (`skipped`).
- A general case's overview is several queries; one torn by a save may give the
  wizard the new version with the old entries (`seenAt < version`).
- A booking that another change of the case overlaps stores a collection status
  summed before it (`raced`), until the next change that none overlaps.
- A save takes the row of the case and then the entries, a booking the other way
  round: PostgreSQL aborts one of them.
- A new case whose attachments fail to be stored leaves the form as new; submitting
  it again creates a second case.
- `updateCaseReminder` takes no lock and compares nothing: an edit can make two
  reminders alike.
- The form's total counts the amounts of claims that are no longer ticked
  (`HidesAmount`, `NewCaseForm.tsx:126-129`); the server's does not.
- A password change that stops after the new password is set leaves the demand to
  choose one; the page that asks for it sends no current password, so only a reset
  by e-mail gets the user on.
- What is typed while a save's requests run is lost: only the submit button is disabled
  (`NewCaseForm.tsx:298`), the fields are for readers only (`:315`,
  `NewInsuranceCaseForm.tsx:61`), and the form then leaves as saved. `SavedIsStored` is
  therefore about what a save sent (`sent`).
- A save of a general case without finances deletes its entries and leaves the
  collection status of before (`cleared`, `update.ts:27-62`).
- Notifications added and removed at once each put their result into the list they
  began with (`CaseNotifications.tsx:47`, `:66`); of payments the list that is answered last
  stays, also if it is the older one or that of the panel's opening
  (`PaymentModal.tsx:80`).
- A tab that is opened again shows the page as it was rendered, without what was added
  since (`NewCaseForm.tsx:310-311`, `CaseNotifications.tsx:25`).
- A list's error can be dismissed, and an empty list stays (`FilesClient.tsx:221`).
- A file whose unlink fails stays without a row (`document-storage.ts:86`,
  `deletion-cleanup.ts:32`).
- Two image uploads of different types at once can leave both files, of which the
  older may be found first, until the next upload.

## Proofs

What the three workers have in common is proved once. `AnySpec`, in
`DeliveryWorkerProofs`, is a worker whose recovery, lists, preparation and
silencing are chosen freely at every step (`AnyStep`), next to an outside world
(`Outside`) that may change anything of the rows but leaves workers and mail
alone, and deliveries except by cancelling open ones. Each worker is shown to
implement it, step by step under the type invariant (`ReminderStep`,
`InsuranceStep`, `GeneralStep`; the environment by `EnvironmentIsOutside`), and
inherits what is proved of it, for any sets of workers, rows and administrators
and any bounds. The names below are those of the reminder worker's theorems, in
`ReminderDeliveryProofs`; their arguments are the lemmas and `Any...` theorems of
`DeliveryWorkerProofs`.

- `TypeCorrect`: `Spec => []TypeOK`. `TypeOK` is not inductive: giving an attempt
  back keeps `attempts` a natural number only because a claimed delivery has
  counted one (`ClaimCounted`), and updating the row of a worker's `job` is well
  typed only because a worker past its claim has one (`JobHeld`). `Typed` adds
  both.
- `OneMail` and `TrueOutcome`: `Spec => []AtMostOneMail`, `Spec => []OutcomeIsTrue`.
  Neither is inductive, because a claim whose mail is on its way is not yet in
  the database. `MailInv` adds that a held delivery is PROCESSING, UNCERTAIN or
  CANCELLED, so never claimable (`Held`); that no two workers hold one delivery
  (`OneHolder`); and that what a worker is about to record agrees with what the
  server did (`KnowsTruth`). Most steps fall under one lemma
  (`BystanderKeepsMail`): they leave active workers alone, accept no mail and
  move deliveries only out of the way. Claiming, re-reading, the three endings
  of a send and completion are proved one by one.

- `SettlementIsFinal`: `Spec => SettledIsFinal`, from a table of every way a
  delivery's status can change (`Moves`) that each action is shown to follow.
- `CancellationHolds`: `Spec => []CancelledIsQuiet`. Inductive with `Typed`: the
  only step that could disturb it is a refresh that makes a reminder cancelled,
  and it does so only when no delivery is live (`AggregateCancelled`).
- `Refinement`: `Spec => ImplementsLedger`. A send is the ledger's `Send`, every
  change of status out of the open states a `Settle` (the deletion of a reminder
  settles a set of items at once), everything else a stutter. `KnowsTruth` and
  `Held` are what makes the two enabled when the worker takes the step.
- `MailIsNotEarly`: `Spec => []NoMailBeforeDue`. Lists of due reminders are older than
  the edits, so it needs that what is prepared is due (`PreparedIsDue`): preparation
  asks for the row again, only an unprepared reminder gets another date, and only
  preparation makes deliveries (`MadeByPreparation`); no worker's "now" is ahead of
  the clock (`InThePast`).
- `StatusIsAggregate`: `Spec => []StatusAgrees`, one step per action: whoever changes a
  delivery refreshes the status in the same transaction, and a claim needs no
  refresh because queued and claimed deliveries aggregate alike (`ClaimKeepsAggregate`).
- `RecipientsFixed`: `Spec => RecipientsAreFixed`, from the same invariants: a prepared
  reminder is never prepared again.
- `ClaimsAreKept`: `Spec => []FreshClaimKept`. Recovery's update asks for the time of the
  claim again, so what it takes was claimed more than ten minutes before a "now"
  that is not after the clock (`InThePast`); no other step takes a claim but a deletion.
- `ThreeAttempts`: `Spec => []AtMostThreeAttempts`. `AttemptInv` relates the
  history variable `submitted` to the column `attempts`: never above it, and one
  below it between the claim and the send; a delivery back in the queue has
  counted fewer than three. A rejection requeues only when fewer than three are
  counted, and a deferral gives back exactly the attempt that was never made.

`SoftDeletedProofs` gives `InsuranceOneMail`, `InsuranceRefinement`, `GeneralOneMail`,
`GeneralTrueOutcome` and `GeneralRefinement` by the same inheritance, and proves
`InsuranceBuried` and `GeneralBuried` (`BuriedIsNeverMailed`): a delivery that was
queued or not yet made when its row was deleted is in no worker's hands past the
decision to send (`BuriedInv`), because the worker reads `deletedAt` after its
claim, and deletion is never undone.

`RecordDeletionProofs` proves eight theorems of `RecordDeletion`, for any users,
requests, cases, uploads and purges and any bounds; each has an inductive
strengthening of its own on top of `Typed`.

- `TypeCorrect`: `TypeOK` is not inductive, since a request could commit for a
  subject it does not have; `Typed` adds that a request past its session's check
  names users (`RequestNamed`), that an upload has a case (`UploadAimed`), and that a
  purge's lists were read in the past (`ListsAreOld`).
- `DeletedWhenExpired`: the delete asks for the date again as of the time of the
  list, which is past, and what had expired then has expired now.
- `NoOrphans` and `RowsKeepFiles`, from one invariant, `FileInv`. The heart is
  `ListsComplete`: when the purge deletes a case, its list of files is complete,
  because an upload that is past its check goes to a case whose date is ahead
  (`UploadsInTime`: the check saw it visible, and the clock has not moved in
  thirty seconds). `ListsOvertaken` is the other direction: a listed document that
  keeps its row belongs to a case that came back.
- `AdminRemains`: the lock is held from check to commit (`LockIsHeld`), so whoever
  deactivates another is still an active administrator when it happens
  (`ActorStays`). The count of active administrators is not needed for it: the
  actor is one and is not the subject.
- `Anonymised`: with the same invariant.
- `WithinLimit`: an upload whose transaction is open holds the lock from its check
  on (`StorageLockIsHeld`), so the room it found is still there when it inserts
  (`RoomIsKept`); a transaction the database gave up frees the lock, but can no
  longer insert.

- `QuotaHolds`: `Spec => []CommittedWithinQuota`. Who is past the check with an open
  transaction has left room for its file beside all documents that have a row and a
  file (`BytesAreLeft`); they get more only by an insertion, whose lock excludes the others.
  Files without a row are not covered: a transaction the database gave up may still
  write one. `Bytes` counts bytes one by one, as a cardinality, because what a sum over
  a set yields cannot be proved here; `FewerBytes` and `OneMoreDocument` are what the
  proof needs of it.

They use `RetentionAssumption`, `UserAssumption` and `CaseAssumption` (finitely many
uploads, sizes and limits that are numbers).

`CaseFormsProofs`, for any number of cases, windows and requests. Of `EnforcementCases`:

- `EnforcementTypes`, `HistoryIsKept` (`HistoryIsTheRecord`) and
  `OnlyRefreshedFormsOverwrite` (`FileReplacedWasShown`), from `HistoryInv`. What makes
  them inductive is that a version names a row of the history (`InHistory`): the version
  and the content a window was given belong together (`PageIsBacked`), and so do those
  of a request whose form was not refreshed (`CallIsBacked`). A save that finds its version
  unchanged then replaces the last row, the one its form was opened with.
- `SavedFileIsStored` (`FileSavedIsStored`), from `FormsInv`: "ok" is answered only when
  the history has what the request says (`Recorded`), a form waits for its own request,
    which has what the form sent and not what its fields hold by now (`WaitsFor`), and a
  new case has the attachments its form has got through (`Attached`).
  History and attachments only grow (`Grows`), so whatever a step leaves alone
  stays true.

Of `InsuranceCases`, `InsuranceTypes`, `ClaimReplaced` (`ClaimReplacedWasShown`) and
`ClaimSaved` (`ClaimSavedIsStored`), from `ClaimsInv`. A window and a request know a version and
what goes with it, and are right about it as long as the case has that version
(`Knows`); versions only grow, so they become out of date and never wrong. A window
and its request are about one case, and at most one of a window's requests is a save
(`Linked`, `OneSave`); the payments a window shows are stored, or under way, or it has been told
(`PaymentsTold`). The service reads the case again after its transaction: the version
that is answered is the save's own or a later one, which is where `skipped` comes from.

`FormsAreRight` puts both together: `ReplacedWasShown` and `SavedIsStored` are invariants of
the conjunction of the two specifications.

`GeneralCasesProofs`, for any users, drafts, entries, amounts and notes:
`GeneralTypes`, `SaverKeepsAccess` (`AccessIsKept`), `CollectionIsRight`
(`StatusIsTheSum`), `DeletedEntriesWereShown` (`EntriesReplacedWereShown`) and
`PrivateNotesStay` (`PrivateNotesAreKept`), from `GeneralInv`. What a wizard shows of the
entries, and
the status a booking has computed, are right as long as the case has the version they
were read at (`WizardBacked`, `BookingBacked`): every change of an entry raises the version in
the transaction that makes it, and at most one save has the case row locked (`OneLock`). A save
checks the access it leaves its own user (`RetainsAccess`) against the draft it writes;
`SaverMayOpen` is that access without regard to archiving, which may be undone. Of sums
the proof uses only that they depend on the live entries and their amounts
(`SameCollected`) and that nothing adds up to nothing (`NothingCollected`), which is also
what is left after a save without finances.

`LimitsProofs`, of `ReminderCreation`, for any creators and limits: `CreationTypes`, `LimitsHold`
(`CreationsWithinLimits`) and `CreatedOnce` (`NoReminderTwice`), from `CreationInv`.
`OneInside` is the lock; `CountedStays` that what a creation counted and compared is
still so when it creates, since nobody else adds a row, edits keep creator and time,
and the windows it counted over only shrink as time passes. The limits are stated over every
interval (`AlwaysWithin`), past the present too, because a new row falls into
intervals that end later. Rows are counted by `Among(rows, times, users)`, with one
lemma for each way rows change.

And of `EmailQuota`, for any mails, recipients, lengths of the windows and allowances:
`QuotaTypes`, `MailsWithinAllowance` (`WithinAllowance`), `CountsAreBacked`
(`CountIsBacked`) and `NoDeadlock` (`NoLockCycle`), from `QuotaInv`. A counter is `Good` when
its row counts the charged units that are not over, these are no more than its rule
allows, and the others are past its window; every committed counter is, and so is
everything an open transaction has written (`Follows`), which differs from the
committed counter only in the mail's own unit and in units past the window. The hard case is the
refund: it goes by key, so one must know that its unit is still counted there.
`OnTheWay` says so: the mail was charged to the three counters that are given back
at one time, not longer ago than a call of the mail server may take, and their window
of a day is longer than that (`SendingTime < Day`), so nobody starts the counter anew and nothing
removes its row. Locks form no circle because charges and refunds go through one
list (`Order`): who waits stands before whoever holds the row (`WaitsForLater`).

`QuotaRefinement`: `QuotaSpec => ImplementsAllowance`. In `MailAllowance` a mail is charged to
all its counters in one step, in which each has room. The code goes through
them one by one, and between two of its writes other mails commit, fail and are refunded, and
rows are pruned. Two more invariants bridge that. `WritesAreExact`: what an open
transaction has written is
what it would write if it began now, and would be let through now, because its
rows are locked and the clock does not move by a unit while a transaction holds any.
`RequestsAreCounted`: only mails of authentication are counted before they are
reserved. A commit is then the abstract `Reserve`, with room
everywhere (`FreeIsRoom`), or `GiveBack`, complete since by `OnTheWay` the rows
are still there (`RefundedIsSeen`); the refusal of one counter is `Suppress`, and that counter
holds its full number then (`NotFreeIsUsedUp`), although the rollback leaves no trace of the
others. That number may be spread over more than one window: the code counts a window from the
last charge, so a counter that is charged steadily is not started anew. Row by row writes,
waits, failed transactions and pruning are stutters.

`UserPagesProofs` holds four components. Of `PasswordChange`, for any requests and
passwords: `PasswordTypes`,
`DemandIsMet` (`DemandCanBeMet`), `DemandStays` (`DemandUntilChosen`) and `SessionsEnd`
(`OldSessionsAreGone`), from `PasswordInv`: a request past the choice has a
password behind it (`ChangeIsBacked`, `ResetIsBacked`), nothing happens to an
account that is not complete (`NothingYet`), and sessions from before the last
choice are still owed their end by somebody (`SessionsAreDue`).

Of `ProfileImages`, for any finite set of requests: `ImageTypes` and `ImageIsShown`
(`LastImageIsShown`), from `ImageInv`. A request that is alone knows what is on the disk: the
files it has still to remove and those it has removed or stored (`DiskFollows`), since it
goes over the three types whatever was there; one that is not alone promises nothing
(`AloneOnly`).

Of `PageData`, for any queries, numbers of rows, requests and items: `PageDataTypes` and
`PagesAreRight` (`PagesShowTheData`). `ListInv`: a request that was not overtaken asks for what
is searched for now (`FetchIsCurrent`), and a list that is loading has one. `PanelInv`: a
request that was alone has seen what the panel shows, and what it read or wrote is
stored, but for its own news (`AskFollows`); where the panel differs from what is
stored and has no news of it, a request that wrote it is still to be shown (`WroteIt`);
and what the page was rendered with is stored but for the page's news.

Of `CaseInput`, for any amounts, texts and inputs: `InputTypes`, `AmountsAreStored`
(`AmountStoredAsRead`) and `SumsAlwaysAgree` (`SumsAgree`), from `InputInv`: a field holds only
texts that formatting or loading can leave there (`FieldText`), and what is in the form's
record is what the form sent (`RecordIsSent`). Formatting and reading are then
compared on those texts (`Writings`, `ReadAlike`), and the sums by arithmetic: the server
and the page work the last installment out in two ways that agree for each number of
installments from 1 to 12, which is where `Division` is proved.

Some theorems state properties no run lists any more (`OutcomeIsTrue`, `SettledIsFinal`,
`CaseWithinLimit`, all type invariants): what is proved for
every instance needs no instance, and the runs are kept for what is not.

Assumptions used: of the workers, `DeliveryAssumption` on the constants and
`TransportAssumption` (for `TypeCorrect` only that late errors are among the
errors the policy knows); of the other components, the assumption its module states
(finite sets where the proof counts or the code loops, amounts and limits that are
numbers, texts of the grammar `parseMoneyToCents` reads, statuses of the schema, `Nothing`
being none
of the things it stands beside). TLC evaluates all of them in the runs of their modules.

Model-checked only. Liveness (`EveryDeliverySettles`, `EveryReminderResolves`, `DeletionDrains`,
`ExpiredUserIsErased`): its proof needs ENABLED and fairness, which are outside the
prover's reach. What the recursive sums yield for all inputs
(`CollectedBy`): induction over data is outside its reach too, and no theorem needs it.
## Not modelled

Folders of documents and moving a document between them, and the tab that shows documents;
the link of a document to
a case transaction; layout, menus, print views and the spreadsheet export; the editing code of
`CaseDetailModal.tsx` and `GeneralLegalCasesClient.tsx`, which no page reaches; the rest of
the validation of single requests (lengths, enumerations, dates, phone numbers), which
the repository's unit tests cover; the better-auth library's sessions, tokens and
hashes, of which the modules take what the code calls as single steps; the SMTP client, beyond
`TransportAssumption`; the acceptance scripts, which fill and empty a test
installation by hand; the schema beyond the constraints a module relies on, and
deployment.
