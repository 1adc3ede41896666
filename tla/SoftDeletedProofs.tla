------------------------- MODULE SoftDeletedProofs --------------------------
(***************************************************************************)
(* Proofs about the insurance and the general worker.  Both implement      *)
(* AnySpec, the general one although its recovery takes fresh claims too,  *)
(* and neither mails what was queued when its row was deleted.             *)
(***************************************************************************)
EXTENDS InsuranceNotificationDelivery, GeneralTaskDelivery, DeliveryWorkerProofs

\* A batch step is one of any worker.
LEMMA BatchIsAny ==
    ASSUME TypeOK, NEW w \in Workers, BatchStep(w) PROVE AnyStep(w)
<1>1. CASE ListLive(w)
  BY <1>1 DEF ListLive, AnyStep
<1>2. ASSUME NEW r \in Reminders, PrepareLive(w, r) PROVE AnyStep(w)
  BY <1>2 DEF PrepareLive, Preparable, AnyStep, TypeOK
<1>3. CASE ReadLive(w)
  BY <1>3 DEF ReadLive, AnyStep
<1>4. QED
  BY <1>1, <1>2, <1>3 DEF BatchStep, AnyStep

\* What users do to rows is outside the workers.
LEMMA RowsAreOutside ==
    ASSUME TypeOK, NEW r \in Reminders, AddRow(r) \/ EditRow(r) PROVE Outside
<1> USE DeliveryAssumption
    DEF TypeOK, Outside, ReminderState, envVars, reminderVars, deliveryVars
<1>1. CASE AddRow(r)
  BY <1>1 DEF AddRow
<1>2. CASE EditRow(r)
  BY <1>2 DEF EditRow
<1>3. QED
  BY <1>1, <1>2

\* The insurance worker takes steps of any worker.
LEMMA InsuranceStep ==
    ASSUME TypeOK, [InsuranceNext]_allVars PROVE [AnyNext]_vars
<1>1. ASSUME NEW w \in Workers, NEW d \in Deliveries, RecoverNotification(w, d)
      PROVE  AnyStep(w)
  BY <1>1 DEF RecoverNotification, StillInterrupted, Interrupted, AnyStep, TypeOK
<1>2. ASSUME NEW r \in Reminders, DeleteInsuranceNotification(r) PROVE Outside
  BY <1>2, DeliveryAssumption
  DEF DeleteInsuranceNotification, TypeOK, Outside, envVars, reminderVars, deliveryVars
<1>3. ASSUME InsuranceUserStep PROVE Outside
  BY <1>2, <1>3, RowsAreOutside
  DEF InsuranceUserStep, AddInsuranceNotification, UpdateInsuranceNotification
<1>4. QED
  BY <1>1, <1>3, BatchIsAny, EnvironmentIsOutside
  DEF InsuranceNext, AnyNext, allVars

\* So does the general one.
LEMMA GeneralStep ==
    ASSUME TypeOK, [GeneralNext]_allVars PROVE [AnyNext]_vars
<1>1. ASSUME NEW w \in Workers, NEW d \in Deliveries, RecoverTask(w, d)
      PROVE  AnyStep(w)
  BY <1>1 DEF RecoverTask, AnyStep, TypeOK
<1>2. ASSUME NEW r \in Reminders, DeleteGeneralCaseTask(r) PROVE Outside
  BY <1>2, DeliveryAssumption
  DEF DeleteGeneralCaseTask, TypeOK, Outside, ReminderState,
      envVars, reminderVars, deliveryVars
<1>3. ASSUME NEW fresh \in SUBSET Reminders, UpdateGeneralLegalCase(fresh)
      PROVE  Outside
  BY <1>3, DeliveryAssumption
  DEF UpdateGeneralLegalCase, TypeOK, Outside, ReminderState,
      envVars, reminderVars, deliveryVars
<1>4. ASSUME GeneralUserStep PROVE Outside
  BY <1>2, <1>3, <1>4, RowsAreOutside
  DEF GeneralUserStep, AddGeneralCaseTask, UpdateGeneralCaseTask
<1>5. QED
  BY <1>1, <1>4, BatchIsAny, EnvironmentIsOutside
  DEF GeneralNext, AnyNext, allVars

\* Both implement any worker.
LEMMA InsuranceIsAny == InsuranceSpec => AnySpec
<1>1. Typed => TypeOK
  BY DEF Typed
<1>2. Typed /\ [InsuranceNext]_allVars => Typed' /\ [AnyNext]_vars
  BY <1>1, InsuranceStep, TypedStep
<1>3. QED
  BY <1>2, InitTyped, PTL DEF InsuranceSpec, SoftInit, AnySpec

LEMMA GeneralIsAny == GeneralSpec => AnySpec
<1>1. Typed => TypeOK
  BY DEF Typed
<1>2. Typed /\ [GeneralNext]_allVars => Typed' /\ [AnyNext]_vars
  BY <1>1, GeneralStep, TypedStep
<1>3. QED
  BY <1>2, InitTyped, PTL DEF GeneralSpec, SoftInit, AnySpec

\* No insurance notification is mailed twice to one recipient, ...
THEOREM InsuranceOneMail == InsuranceSpec => []AtMostOneMail
BY InsuranceIsAny, AnyOneMail, PTL

\* ... and its worker implements the ledger.
THEOREM InsuranceRefinement == InsuranceSpec => ImplementsLedger
BY InsuranceIsAny, AnyRefinement, PTL

\* No general task is mailed twice to one recipient, although recovery takes
\* claims it has not looked at again, ...
THEOREM GeneralOneMail == GeneralSpec => []AtMostOneMail
BY GeneralIsAny, AnyOneMail, PTL

\* ... nor is its outcome recorded falsely, ...
THEOREM GeneralTrueOutcome == GeneralSpec => []OutcomeIsTrue
BY GeneralIsAny, AnyTrueOutcome, PTL

\* ... and its worker implements the ledger.
THEOREM GeneralRefinement == GeneralSpec => ImplementsLedger
BY GeneralIsAny, AnyRefinement, PTL

-----------------------------------------------------------------------------
(* Deleted rows                                                            *)

\* Inductive together with MailInv: nobody is sending a buried delivery, which
\* holds when it is buried because what a worker holds is not in the queue.
BuriedInv ==
    /\ deleted \subseteq Reminders /\ buried \subseteq Deliveries
    /\ \A d \in buried : d[1] \in deleted
    /\ \A w \in Workers : pc[w] = "sending" => job[w] \notin buried
    /\ BuriedIsNeverMailed

\* Rows are deleted while workers stand still.
LEMMA BuryStep ==
    ASSUME Typed, MailInv, BuriedInv, NEW rows \in SUBSET Reminders, Bury(rows),
           UNCHANGED <<pc, job, accepted>>
    PROVE  BuriedInv'
<1>1. deleted' \subseteq Reminders /\ buried' \subseteq Deliveries
  BY DEF Bury, BuriedInv, Deliveries
<1>2. \A d \in buried' : d[1] \in deleted'
  BY DEF Bury, BuriedInv
<1>3. \A w \in Workers : pc[w] = "sending" =>
         job[w] \notin {d \in rows \X Admins : dStatus[d] \in {"ABSENT", "PENDING"}}
  BY DEF MailInv, Held, Active
<1>4. \A d \in Deliveries : dStatus[d] \in {"ABSENT", "PENDING"} => accepted[d] = 0
  BY DEF MailInv, OutcomeIsTrue
<1>5. QED
  BY <1>1, <1>2, <1>3, <1>4 DEF Bury, BuriedInv, BuriedIsNeverMailed, Deliveries

\* A worker that reads a buried delivery drops it, so it never sends one.
LEMMA BatchKeepsBuried ==
    ASSUME Typed, BuriedInv, NEW w \in Workers, BatchStep(w) \/ Crash(w),
           UNCHANGED softVars
    PROVE  BuriedInv'
<1> USE DEF BuriedInv, BuriedIsNeverMailed, softVars, Typed, TypeOK
<1>1. CASE ReadLive(w)
  BY <1>1 DEF ReadLive, ReadUnless, mailVars
<1>2. CASE SendAccepted(w)
  BY <1>2 DEF SendAccepted, SendReturns, Goto
<1>3. ASSUME \/ StartBatch(w) \/ ListQueue(w) \/ SendFailed(w) \/ SendSuppressed(w)
             \/ EndBatch(w) \/ Crash(w) \/ ListLive(w)
             \/ \E r \in Reminders : PrepareLive(w, r)
      PROVE  BuriedInv'
  BY <1>3 DEF StartBatch, ListQueue, SendFailed, SendSuppressed, SendReturns, EndBatch,
     Crash, ListLive, ListThose, PrepareLive, PrepareIf, Goto, jobVars, mailVars
<1>4. CASE (\E d \in Deliveries : Claim(w, d)) \/ CompleteDelivery(w)
  BY <1>4 DEF Claim, CompleteDelivery, Goto, mailVars
<1>5. QED
  BY <1>1, <1>2, <1>3, <1>4 DEF BatchStep, CommonStep

\* Steps that leave workers, mails and deletions alone.
LEMMA StillKeepsBuried ==
    ASSUME BuriedInv, UNCHANGED <<pc, job, accepted, deleted, buried>>
    PROVE  BuriedInv'
BY DEF BuriedInv, BuriedIsNeverMailed

\* Every step of the insurance worker and its users keeps the invariant.
LEMMA InsuranceKeepsBuried ==
    ASSUME Typed, MailInv, BuriedInv, [InsuranceNext]_allVars PROVE BuriedInv'
<1>1. ASSUME NEW w \in Workers, NEW d \in Deliveries, RecoverNotification(w, d)
      PROVE  BuriedInv'
  BY <1>1, StillKeepsBuried
  DEF RecoverNotification, RecoverIf, softVars, jobVars, mailVars
<1>2. ASSUME NEW r \in Reminders, DeleteInsuranceNotification(r) PROVE BuriedInv'
  BY <1>2, BuryStep DEF DeleteInsuranceNotification, jobVars, mailVars
<1>3. ASSUME NEW r \in Reminders,
             AddInsuranceNotification(r) \/ UpdateInsuranceNotification(r)
      PROVE  BuriedInv'
  BY <1>3, StillKeepsBuried DEF AddInsuranceNotification, UpdateInsuranceNotification,
     AddRow, EditRow, softVars, jobVars, mailVars
<1>4. ASSUME EnvironmentStep \/ Tick, UNCHANGED softVars PROVE BuriedInv'
  BY <1>4, StillKeepsBuried DEF EnvironmentStep, SetArchived, SetEligible, SetAllowed,
     Tick, softVars, jobVars, mailVars
<1>5. CASE UNCHANGED allVars
  BY <1>5, StillKeepsBuried DEF allVars, vars, softVars, jobVars, mailVars
<1>6. QED
  BY <1>1, <1>2, <1>3, <1>4, <1>5, BatchKeepsBuried
  DEF InsuranceNext, InsuranceUserStep

\* So does every step of the general worker and its users.
LEMMA GeneralKeepsBuried ==
    ASSUME Typed, MailInv, BuriedInv, [GeneralNext]_allVars PROVE BuriedInv'
<1>1. ASSUME NEW w \in Workers, NEW d \in Deliveries, RecoverTask(w, d)
      PROVE  BuriedInv'
  BY <1>1, StillKeepsBuried DEF RecoverTask, RecoverIf, softVars, jobVars, mailVars
<1>2. ASSUME NEW r \in Reminders, DeleteGeneralCaseTask(r) PROVE BuriedInv'
  BY <1>2, BuryStep DEF DeleteGeneralCaseTask, jobVars, mailVars
<1>3. ASSUME NEW fresh, UpdateGeneralLegalCase(fresh) PROVE BuriedInv'
  BY <1>3, BuryStep, Existing \in SUBSET Reminders
  DEF UpdateGeneralLegalCase, Existing, jobVars, mailVars
<1>4. ASSUME NEW r \in Reminders, AddGeneralCaseTask(r) \/ UpdateGeneralCaseTask(r)
      PROVE  BuriedInv'
  BY <1>4, StillKeepsBuried DEF AddGeneralCaseTask, UpdateGeneralCaseTask,
     AddRow, EditRow, softVars, jobVars, mailVars
<1>5. ASSUME EnvironmentStep \/ Tick, UNCHANGED softVars PROVE BuriedInv'
  BY <1>5, StillKeepsBuried DEF EnvironmentStep, SetArchived, SetEligible, SetAllowed,
     Tick, softVars, jobVars, mailVars
<1>6. CASE UNCHANGED allVars
  BY <1>6, StillKeepsBuried DEF allVars, vars, softVars, jobVars, mailVars
<1>7. QED
  BY <1>1, <1>2, <1>3, <1>4, <1>5, <1>6, BatchKeepsBuried
  DEF GeneralNext, GeneralUserStep

\* At the start nothing is deleted.
LEMMA InitBuried == SoftInit => BuriedInv
BY DEF SoftInit, Init, BuriedInv, BuriedIsNeverMailed

\* A notification deleted while its delivery was queued is never mailed.
THEOREM InsuranceBuried == InsuranceSpec => []BuriedIsNeverMailed
<1>1. BuriedInv => BuriedIsNeverMailed
  BY DEF BuriedInv
<1>2. QED
  BY <1>1, InsuranceIsAny, MailSafe, InitBuried, InsuranceKeepsBuried, PTL
  DEF InsuranceSpec

\* Nor is a task, whether deleted alone or by saving the form of its case.
THEOREM GeneralBuried == GeneralSpec => []BuriedIsNeverMailed
<1>1. BuriedInv => BuriedIsNeverMailed
  BY DEF BuriedInv
<1>2. QED
  BY <1>1, GeneralIsAny, MailSafe, InitBuried, GeneralKeepsBuried, PTL
  DEF GeneralSpec
=============================================================================
