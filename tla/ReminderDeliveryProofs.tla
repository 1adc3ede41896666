----------------------- MODULE ReminderDeliveryProofs -----------------------
(***************************************************************************)
(* Proofs about ReminderDelivery: it implements AnySpec, so the theorems   *)
(* of DeliveryWorkerProofs hold of it, and what is said of reminders alone *)
(* is proved here.                                                         *)
(***************************************************************************)
EXTENDS ReminderDelivery, DeliveryWorkerProofs

\* One step per action that differs from, or is missing in, DeliveryWorker.
LEMMA ReminderStep ==
    ASSUME TypeOK, [Next]_vars PROVE [AnyNext]_vars
<1> USE DEF TypeOK
<1>1. ASSUME NEW w \in Workers, NEW d \in Deliveries, RecoverStale(w, d)
      PROVE  AnyStep(w)
  BY <1>1 DEF RecoverStale, StillInterrupted, Interrupted, AnyStep
<1>2. ASSUME NEW w \in Workers, ListDue(w) PROVE AnyStep(w)
  BY <1>2 DEF ListDue, AnyStep
<1>3. ASSUME NEW w \in Workers, NEW r \in Reminders, PrepareReminder(w, r)
      PROVE  AnyStep(w)
  BY <1>3 DEF PrepareReminder, Preparable, AnyStep
<1>4. ASSUME NEW w \in Workers, ReadDelivery(w) PROVE AnyStep(w)
  BY <1>4 DEF ReadDelivery, Silenced, AnyStep
<1>5. ASSUME NEW r \in Reminders,
             AddCaseReminder(r) \/ UpdateCaseReminder(r) \/ DeleteCaseReminder(r)
      PROVE  Outside
  <2> USE DeliveryAssumption
      DEF Outside, ReminderState, DeliveryState, envVars, reminderVars, deliveryVars
  <2>1. CASE AddCaseReminder(r)
    BY <2>1 DEF AddCaseReminder, Later
  <2>2. CASE UpdateCaseReminder(r)
    BY <2>2 DEF UpdateCaseReminder, Later
  <2>3. CASE DeleteCaseReminder(r)
    BY <2>3 DEF DeleteCaseReminder, Open
  <2>4. QED
    BY <1>5, <2>1, <2>2, <2>3
<1>6. ASSUME EnvironmentStep \/ Tick PROVE Outside
  BY <1>6, EnvironmentIsOutside
<1>7. QED
  BY <1>1, <1>2, <1>3, <1>4, <1>5, <1>6
  DEF Next, WorkerStep, UserStep, AnyNext, AnyStep

\* The strengthened type invariant holds throughout.
LEMMA ReminderTyped == Spec => []Typed
<1>1. Typed => TypeOK
  BY DEF Typed
<1>2. Typed /\ [Next]_vars => Typed'
  BY <1>1, ReminderStep, TypedStep
<1>3. QED
  BY <1>2, InitTyped, PTL DEF Spec

\* The reminder worker implements the worker of DeliveryWorkerProofs.
LEMMA ReminderIsAny == Spec => AnySpec
<1>1. Typed => TypeOK
  BY DEF Typed
<1>2. QED
  BY <1>1, ReminderTyped, ReminderStep, PTL DEF Spec, AnySpec

\* The type invariant, for every instance.
THEOREM TypeCorrect == Spec => []TypeOK
BY ReminderIsAny, AnyTypeCorrect, PTL

\* No delivery is ever mailed twice.
THEOREM OneMail == Spec => []AtMostOneMail
BY ReminderIsAny, AnyOneMail, PTL

\* The recorded outcome never contradicts the server.
THEOREM TrueOutcome == Spec => []OutcomeIsTrue
BY ReminderIsAny, AnyTrueOutcome, PTL

\* A settled delivery is never reopened or relabelled.
THEOREM SettlementIsFinal == Spec => SettledIsFinal
BY ReminderIsAny, AnySettlement, PTL

\* However retries and deferrals alternate, the transport is called at most
\* three times for a delivery.
THEOREM ThreeAttempts == Spec => []AtMostThreeAttempts
BY ReminderIsAny, AnyThreeAttempts, PTL

\* The worker, its crashes, retries and races implement the ledger.
THEOREM Refinement == Spec => ImplementsLedger
BY ReminderIsAny, AnyRefinement, PTL

-----------------------------------------------------------------------------
(* Cancellation                                                            *)

\* A reminder is shown as cancelled only if it has no delivery that is not.
LEMMA AggregateCancelled ==
    ASSUME NEW S, AggregateReminderStatus(S) = "CANCELLED"
    PROVE  S \subseteq {"CANCELLED"}
BY DEF AggregateReminderStatus

\* Refreshing the status cannot make a reminder cancelled over a live delivery.
LEMMA RefreshKeepsQuiet ==
    ASSUME Typed, NEW r \in Reminders, RefreshReminder(r, dStatus'),
           \A d \in Deliveries : rStatus[d[1]] = "CANCELLED" =>
               dStatus'[d] \notin {"PENDING", "PROCESSING"}
    PROVE  CancelledIsQuiet'
<1> SUFFICES ASSUME NEW d \in Deliveries, rStatus'[d[1]] = "CANCELLED"
             PROVE  dStatus'[d] \notin {"PENDING", "PROCESSING"}
  BY DEF CancelledIsQuiet
<1>1. CASE rStatus[d[1]] = "CANCELLED"
  BY <1>1
<1>2. CASE rStatus[d[1]] # "CANCELLED"
  <2> DEFINE S == {dStatus'[<<r, a>>] : a \in Admins} \ {"ABSENT"}
  <2>1. d[1] = r /\ AggregateReminderStatus(S) = "CANCELLED"
    BY <1>2 DEF RefreshReminder, Typed, TypeOK, Deliveries
  <2>2. d[2] \in Admins /\ d = <<r, d[2]>>
    BY <2>1 DEF Deliveries
  <2>3. S \subseteq {"CANCELLED"}
    BY <2>1, AggregateCancelled
  <2>4. dStatus'[d] \in S \cup {"ABSENT"}
    BY <2>2
  <2>5. QED
    BY <2>3, <2>4
<1>3. QED
  BY <1>1, <1>2

\* Every step keeps cancelled reminders quiet: the refresh by RefreshKeepsQuiet,
\* a late verdict because it is written only over PROCESSING.
LEMMA QuietStep ==
    ASSUME Typed, Typed', CancelledIsQuiet, [Next]_vars PROVE CancelledIsQuiet'
<1> USE DEF CancelledIsQuiet
<1>1. CASE UNCHANGED <<rStatus, dStatus>>
  BY <1>1
<1>2. ASSUME NEW w \in Workers, NEW d \in Deliveries, RecoverStale(w, d)
      PROVE  CancelledIsQuiet'
  <2>1. d[1] \in Reminders
    BY DEF Deliveries
  <2>2. \A e \in Deliveries : dStatus'[e] \in {dStatus[e], "UNCERTAIN"}
    BY <1>2 DEF RecoverStale, RecoverIf, Typed, TypeOK
  <2>3. RefreshReminder(d[1], dStatus')
    BY <1>2 DEF RecoverStale, RecoverIf
  <2>4. QED
    BY <2>1, <2>2, <2>3, RefreshKeepsQuiet
<1>3. ASSUME NEW w \in Workers, NEW r \in Reminders, PrepareReminder(w, r)
      PROVE  CancelledIsQuiet'
  <2>1. \A d \in Deliveries : dStatus'[d] # dStatus[d] => rStatus[d[1]] = "PENDING"
    BY <1>3 DEF PrepareReminder, PrepareIf, Preparable, Deliveries
  <2>2. UNCHANGED rStatus
    BY <1>3 DEF PrepareReminder, PrepareIf
  <2>3. QED
    BY <2>1, <2>2
<1>4. ASSUME NEW w \in Workers, NEW d \in Deliveries, Claim(w, d)
      PROVE  CancelledIsQuiet'
  BY <1>4 DEF Claim, Claimable, reminderVars, Typed, TypeOK
<1>5. ASSUME NEW w \in Workers, CompleteDelivery(w) PROVE CancelledIsQuiet'
  <2>1. job[w] \in Deliveries /\ job[w][1] \in Reminders
    BY <1>5 DEF CompleteDelivery, Goto, Typed, JobHeld, Active, Deliveries
  <2>2. \A e \in Deliveries : rStatus[e[1]] = "CANCELLED" =>
            dStatus'[e] \notin {"PENDING", "PROCESSING"}
    BY <1>5, <2>1 DEF CompleteDelivery, Mine, Typed, TypeOK
  <2>3. RefreshReminder(job[w][1], dStatus')
    BY <1>5 DEF CompleteDelivery
  <2>4. QED
    BY <2>1, <2>2, <2>3, RefreshKeepsQuiet
<1>6. ASSUME NEW r \in Reminders, DeleteCaseReminder(r) PROVE CancelledIsQuiet'
  BY <1>6 DEF DeleteCaseReminder, Open, Typed, TypeOK, Deliveries
<1>7. ASSUME NEW r \in Reminders, AddCaseReminder(r) PROVE CancelledIsQuiet'
  BY <1>7 DEF AddCaseReminder, deliveryVars, Typed, TypeOK, Deliveries
<1>8. CASE UNCHANGED vars
  BY <1>8 DEF vars, reminderVars, deliveryVars
<1>9. ASSUME NEW w \in Workers,
             \/ StartBatch(w) \/ ListDue(w) \/ ListQueue(w) \/ ReadDelivery(w)
             \/ SendAccepted(w) \/ SendFailed(w) \/ SendSuppressed(w)
             \/ EndBatch(w) \/ Crash(w)
      PROVE  UNCHANGED <<rStatus, dStatus>>
  BY <1>9 DEF StartBatch, ListDue, ListThose, ListQueue, ReadDelivery, ReadUnless, Silenced, SendAccepted, SendFailed,
              SendSuppressed, SendReturns, EndBatch, Crash, deliveryVars, reminderVars
<1>10. ASSUME \/ \E r \in Reminders : UpdateCaseReminder(r)
              \/ SetArchived \/ Tick
              \/ \E a \in Admins : SetEligible(a) \/ SetAllowed(a)
       PROVE  UNCHANGED <<rStatus, dStatus>>
  BY <1>10 DEF UpdateCaseReminder, SetArchived, SetEligible, SetAllowed,
              Tick, deliveryVars, reminderVars
<1>11. QED
  BY <1>1, <1>2, <1>3, <1>4, <1>5, <1>6, <1>7, <1>8, <1>9, <1>10
  DEF Next, WorkerStep, CommonStep, UserStep, EnvironmentStep

\* No worker, however late, puts a delivery of a cancelled reminder back.
THEOREM CancellationHolds == Spec => []CancelledIsQuiet
<1>1. Init => CancelledIsQuiet
  BY DEF Init, CancelledIsQuiet
<1>2. Typed /\ Typed' /\ CancelledIsQuiet /\ [Next]_vars => CancelledIsQuiet'
  BY QuietStep
<1>3. QED
  BY <1>1, <1>2, ReminderTyped, PTL DEF Spec

-----------------------------------------------------------------------------
(* Time.  NoMailBeforeDue is not inductive by itself: it says nothing of a *)
(* mail that is on its way.  What closes the gap is that only a prepared   *)
(* reminder has deliveries, and that it was due when it was prepared.      *)

\* No worker's "now" is ahead of the clock.
InThePast == \A w \in Workers : now[w] <= clock

\* A prepared reminder exists and its time has come.
PreparedIsDue ==
    \A r \in Reminders : prepared[r] => dueAt[r] <= clock /\ rStatus[r] # "ABSENT"

\* Deliveries exist only for a prepared reminder.
MadeByPreparation ==
    \A d \in Deliveries : dStatus[d] # "ABSENT" => prepared[d[1]]

TimeInv == InThePast /\ PreparedIsDue /\ MadeByPreparation

\* Refreshing never makes a reminder look as if it had not been created.
LEMMA RefreshIsPresent ==
    ASSUME Typed', NEW r \in Reminders, RefreshReminder(r, dStatus'),
           NEW s \in Reminders, rStatus[s] # "ABSENT",
           rStatus \in [Reminders -> ReminderState \cup {"ABSENT"}]
    PROVE  rStatus'[s] # "ABSENT"
<1> DEFINE S == {dStatus'[<<r, a>>] : a \in Admins} \ {"ABSENT"}
<1>0. dStatus' \in [Deliveries -> DeliveryState \cup {"ABSENT"}]
  BY DEF Typed, TypeOK
<1>1. S \in SUBSET DeliveryState
  BY <1>0 DEF Deliveries
<1>2. AggregateReminderStatus(S) # "ABSENT"
  BY <1>1, AggregateType DEF ReminderState
<1>3. QED
  BY <1>2 DEF RefreshReminder

\* One step per action: only preparation makes deliveries and only of a due
\* reminder, and only an unprepared reminder gets another date.
LEMMA TimeStep ==
    ASSUME Typed, Typed', TimeInv, [Next]_vars PROVE TimeInv'
<1> USE DEF TimeInv, InThePast, PreparedIsDue, MadeByPreparation
<1> clock \in Nat /\ dueAt \in [Reminders -> Nat] /\ now \in [Workers -> Nat]
  BY DEF Typed, TypeOK
<1> rStatus \in [Reminders -> ReminderState \cup {"ABSENT"}]
  BY DEF Typed, TypeOK
<1> prepared \in [Reminders -> BOOLEAN]
  BY DEF Typed, TypeOK
<1> \A d \in Deliveries : d[1] \in Reminders
  BY DEF Deliveries
<1>1. ASSUME NEW w \in Workers, NEW d \in Deliveries, RecoverStale(w, d)
      PROVE  TimeInv'
  <2>1. /\ UNCHANGED <<clock, now, prepared, dueAt>>
        /\ RefreshReminder(d[1], dStatus')
    BY <1>1 DEF RecoverStale, RecoverIf
  <2>2. \A e \in Deliveries : dStatus'[e] # "ABSENT" => dStatus[e] # "ABSENT"
    BY <1>1 DEF RecoverStale, RecoverIf, StillInterrupted, Interrupted, Typed, TypeOK
  <2>3. \A s \in Reminders : rStatus[s] # "ABSENT" => rStatus'[s] # "ABSENT"
    BY <2>1, RefreshIsPresent
  <2>4. QED
    BY <2>1, <2>2, <2>3
<1>2. ASSUME NEW w \in Workers, NEW r \in Reminders, PrepareReminder(w, r)
      PROVE  TimeInv'
  <2>1. UNCHANGED <<clock, now, dueAt, rStatus>>
    BY <1>2 DEF PrepareReminder, PrepareIf
  <2>2. CASE UNCHANGED <<prepared, dStatus>>
    BY <2>1, <2>2
  <2>3. CASE ~ UNCHANGED <<prepared, dStatus>>
    <3>1. /\ Preparable(r, now[w])
          /\ prepared' = [prepared EXCEPT ![r] = TRUE]
          /\ \A d \in Deliveries : d[1] # r => dStatus'[d] = dStatus[d]
      BY <1>2, <2>3 DEF PrepareReminder, PrepareIf
    <3>2. dueAt[r] <= clock /\ rStatus[r] # "ABSENT"
      BY <3>1 DEF Preparable
    <3>3. QED
      BY <2>1, <3>1, <3>2
  <2>4. QED
    BY <2>2, <2>3
<1>3. ASSUME NEW w \in Workers, NEW d \in Deliveries, Claim(w, d)
      PROVE  TimeInv'
  <2>1. UNCHANGED <<clock, now, dueAt, rStatus, prepared>>
    BY <1>3 DEF Claim, reminderVars
  <2>2. \A e \in Deliveries : dStatus'[e] # "ABSENT" => dStatus[e] # "ABSENT"
    BY <1>3 DEF Claim, Claimable, Typed, TypeOK
  <2>3. QED
    BY <2>1, <2>2
<1>4. ASSUME NEW w \in Workers, CompleteDelivery(w) PROVE TimeInv'
  <2>1. job[w] \in Deliveries
    BY <1>4 DEF CompleteDelivery, Goto, Typed, JobHeld, Active
  <2>2. /\ UNCHANGED <<clock, now, prepared, dueAt>>
        /\ RefreshReminder(job[w][1], dStatus')
    BY <1>4 DEF CompleteDelivery, scanVars
  <2>3. \A e \in Deliveries : dStatus'[e] # "ABSENT" => dStatus[e] # "ABSENT"
    BY <1>4, <2>1 DEF CompleteDelivery, Mine, Typed, TypeOK
  <2>4. \A s \in Reminders : rStatus[s] # "ABSENT" => rStatus'[s] # "ABSENT"
    BY <2>1, <2>2, RefreshIsPresent
  <2>5. QED
    BY <2>2, <2>3, <2>4
<1>5. ASSUME NEW w \in Workers,
             \/ StartBatch(w) \/ ListDue(w) \/ ListQueue(w) \/ ReadDelivery(w)
             \/ SendAccepted(w) \/ SendFailed(w) \/ SendSuppressed(w)
             \/ EndBatch(w) \/ Crash(w)
      PROVE  TimeInv'
  <2>1. /\ UNCHANGED <<clock, dueAt, rStatus, prepared, dStatus>>
        /\ \A v \in Workers : now'[v] \in {now[v], clock, 0}
    BY <1>5 DEF StartBatch, ListDue, ListThose, ListQueue, ReadDelivery,
            ReadUnless, SendAccepted, SendFailed, SendSuppressed, SendReturns,
            EndBatch, Crash, reminderVars, deliveryVars, scanVars
  <2>2. QED
    BY <2>1
<1>6. ASSUME NEW r \in Reminders, AddCaseReminder(r) \/ UpdateCaseReminder(r)
      PROVE  TimeInv'
  <2>1. ~prepared[r] /\ UNCHANGED <<clock, now, prepared, dStatus>>
    BY <1>6 DEF AddCaseReminder, UpdateCaseReminder, Editable, deliveryVars, scanVars
  <2>2. \A s \in Reminders \ {r} : dueAt'[s] = dueAt[s] /\ rStatus'[s] = rStatus[s]
    BY <1>6 DEF AddCaseReminder, UpdateCaseReminder
  <2>3. QED
    BY <2>1, <2>2
<1>7. ASSUME NEW r \in Reminders, DeleteCaseReminder(r) PROVE TimeInv'
  <2>1. UNCHANGED <<clock, now, prepared, dueAt>>
    BY <1>7 DEF DeleteCaseReminder, scanVars
  <2>2. \A e \in Deliveries : dStatus'[e] # "ABSENT" => dStatus[e] # "ABSENT"
    BY <1>7 DEF DeleteCaseReminder, Open
  <2>3. \A s \in Reminders : rStatus[s] # "ABSENT" => rStatus'[s] # "ABSENT"
    BY <1>7 DEF DeleteCaseReminder
  <2>4. QED
    BY <2>1, <2>2, <2>3
<1>8. CASE \/ UNCHANGED vars \/ SetArchived \/ Tick
           \/ \E a \in Admins : SetEligible(a) \/ SetAllowed(a)
  <2>1. /\ UNCHANGED <<now, dueAt, rStatus, prepared, dStatus>>
        /\ clock' \in {clock, clock + 1}
    BY <1>8 DEF SetArchived, Tick, SetEligible, SetAllowed, vars, reminderVars,
                deliveryVars, scanVars
  <2>2. QED
    BY <2>1
<1>9. QED
  BY <1>1, <1>2, <1>3, <1>4, <1>5, <1>6, <1>7, <1>8
  DEF Next, WorkerStep, CommonStep, UserStep, EnvironmentStep

\* So nothing is prepared, and nothing exists to be mailed, before its time.
LEMMA TimeHolds == Spec => []TimeInv
<1>1. Init => TimeInv
  BY DEF Init, TimeInv, InThePast, PreparedIsDue, MadeByPreparation
<1>2. Typed /\ Typed' /\ TimeInv /\ [Next]_vars => TimeInv'
  BY TimeStep
<1>3. QED
  BY <1>1, <1>2, ReminderTyped, PTL DEF Spec

\* No mail leaves before the time the reminder was last given, although the
\* lists of due reminders are read before they are edited.
THEOREM MailIsNotEarly == Spec => []NoMailBeforeDue
<1>1. ASSUME Typed, TimeInv, OutcomeIsTrue PROVE NoMailBeforeDue
  <2> SUFFICES ASSUME NEW d \in Deliveries, accepted[d] > 0
               PROVE  dueAt[d[1]] <= clock
    BY DEF NoMailBeforeDue
  <2>1. dStatus[d] # "ABSENT"
    BY <1>1 DEF OutcomeIsTrue, Typed, TypeOK
  <2>2. d[1] \in Reminders /\ prepared[d[1]]
    BY <1>1, <2>1 DEF TimeInv, MadeByPreparation, Deliveries
  <2>3. QED
    BY <1>1, <2>2 DEF TimeInv, PreparedIsDue
<1>2. QED
  BY <1>1, ReminderTyped, TimeHolds, TrueOutcome, PTL

-----------------------------------------------------------------------------
(* The status stored on a reminder                                         *)

\* Turning queued deliveries into claimed ones leaves the aggregate alone.
LEMMA ClaimKeepsAggregate ==
    ASSUME NEW S, NEW T, "PENDING" \in S, "PROCESSING" \in T,
           S \ {"PENDING", "PROCESSING"} = T \ {"PENDING", "PROCESSING"}
    PROVE  AggregateReminderStatus(T) = AggregateReminderStatus(S)
<1>1. "SENT" \in S <=> "SENT" \in T
  OBVIOUS
<1>2. S # {} /\ S \ {"CANCELLED"} # {} /\ S \ {"CANCELLED"} # {"SENT"}
      /\ (S \ {"CANCELLED"}) \cap {"PENDING", "PROCESSING"} # {}
  OBVIOUS
<1>3. T # {} /\ T \ {"CANCELLED"} # {} /\ T \ {"CANCELLED"} # {"SENT"}
      /\ (T \ {"CANCELLED"}) \cap {"PENDING", "PROCESSING"} # {}
  OBVIOUS
<1>4. QED
  BY <1>1, <1>2, <1>3 DEF AggregateReminderStatus

\* The states StatusAgrees is about.
StatesOf(r) == {dStatus[<<r, a>>] : a \in Admins} \ {"ABSENT"}

Agrees(r) ==
    prepared[r] /\ rStatus[r] # "CANCELLED"
        => rStatus[r] = AggregateReminderStatus(StatesOf(r))

\* A reminder that is refreshed agrees, and one whose deliveries, status and
\* preparation a step leaves alone goes on agreeing.
LEMMA RefreshedAgrees ==
    ASSUME Typed, NEW r \in Reminders, RefreshReminder(r, dStatus')
    PROVE  Agrees(r)'
BY DEF RefreshReminder, Agrees, StatesOf, Typed, TypeOK

LEMMA UntouchedAgrees ==
    ASSUME NEW r \in Reminders, Agrees(r),
           \A a \in Admins : dStatus'[<<r, a>>] = dStatus[<<r, a>>],
           rStatus'[r] = rStatus[r], prepared'[r] = prepared[r]
    PROVE  Agrees(r)'
<1>1. StatesOf(r)' = StatesOf(r)
  BY DEF StatesOf
<1>2. QED
  BY <1>1 DEF Agrees

\* One step per action: recovery and completion refresh what they change, a
\* claim does not need to, and preparation starts from PENDING.
LEMMA AgreesStep ==
    ASSUME Typed, Typed', TimeInv, [Next]_vars,
           NEW s \in Reminders, Agrees(s)
    PROVE  Agrees(s)'
<1> rStatus \in [Reminders -> ReminderState \cup {"ABSENT"}]
  BY DEF Typed, TypeOK
<1> prepared \in [Reminders -> BOOLEAN]
  BY DEF Typed, TypeOK
<1> \A a \in Admins : <<s, a>> \in Deliveries
  BY DEF Deliveries
<1>1. ASSUME NEW w \in Workers, NEW d \in Deliveries, RecoverStale(w, d)
      PROVE  Agrees(s)'
  <2>1. d[1] \in Reminders
    BY DEF Deliveries
  <2>2. /\ RefreshReminder(d[1], dStatus') /\ UNCHANGED prepared
        /\ \A e \in Deliveries \ {d} : dStatus'[e] = dStatus[e]
    BY <1>1 DEF RecoverStale, RecoverIf, Typed, TypeOK
  <2>3. CASE s = d[1]
    BY <2>1, <2>2, <2>3, RefreshedAgrees
  <2>4. CASE s # d[1]
    <3>1. \A a \in Admins : <<s, a>> # d
      BY <2>4
    <3>2. rStatus'[s] = rStatus[s]
      BY <2>1, <2>2, <2>4 DEF RefreshReminder
    <3>3. QED
      BY <2>2, <3>1, <3>2, UntouchedAgrees
  <2>5. QED
    BY <2>3, <2>4
<1>2. ASSUME NEW w \in Workers, CompleteDelivery(w) PROVE Agrees(s)'
  <2> DEFINE d == job[w]
  <2>1. d \in Deliveries /\ d[1] \in Reminders
    BY <1>2 DEF CompleteDelivery, Goto, Typed, JobHeld, Active, Deliveries
  <2>2. /\ RefreshReminder(d[1], dStatus') /\ UNCHANGED prepared
        /\ \A e \in Deliveries \ {d} : dStatus'[e] = dStatus[e]
    BY <1>2, <2>1 DEF CompleteDelivery, Typed, TypeOK
  <2>3. CASE s = d[1]
    BY <2>1, <2>2, <2>3, RefreshedAgrees
  <2>4. CASE s # d[1]
    <3>1. \A a \in Admins : <<s, a>> # d
      BY <2>4
    <3>2. rStatus'[s] = rStatus[s]
      BY <2>1, <2>2, <2>4 DEF RefreshReminder
    <3>3. QED
      BY <2>2, <3>1, <3>2, UntouchedAgrees
  <2>5. QED
    BY <2>3, <2>4
<1>3. ASSUME NEW w \in Workers, NEW r \in Reminders, PrepareReminder(w, r)
      PROVE  Agrees(s)'
  <2> DEFINE recipients == eligible \cap allowed
  <2>1. UNCHANGED rStatus
    BY <1>3 DEF PrepareReminder, PrepareIf
  <2>2. CASE UNCHANGED <<prepared, dStatus>> \/ s # r
    <3>1. /\ prepared'[s] = prepared[s]
          /\ \A a \in Admins : dStatus'[<<s, a>>] = dStatus[<<s, a>>]
      BY <1>3, <2>2 DEF PrepareReminder, PrepareIf
    <3>2. QED
      BY <2>1, <3>1, UntouchedAgrees
  <2>3. CASE ~ UNCHANGED <<prepared, dStatus>> /\ s = r
    <3>1. /\ rStatus[s] = "PENDING" /\ ~prepared[s]
          /\ recipients # {} /\ recipients \subseteq Admins
          /\ dStatus' = [d \in Deliveries |->
                IF d \in {e \in {s} \X recipients : dStatus[e] = "ABSENT"}
                THEN "PENDING" ELSE dStatus[d]]
      BY <1>3, <2>3 DEF PrepareReminder, PrepareIf, Preparable, Typed, TypeOK
    <3>2. \A a \in Admins : dStatus[<<s, a>>] = "ABSENT"
      BY <3>1 DEF TimeInv, MadeByPreparation
    <3>3. /\ \A a \in recipients : dStatus'[<<s, a>>] = "PENDING"
          /\ \A a \in Admins \ recipients : dStatus'[<<s, a>>] = "ABSENT"
      BY <3>1, <3>2
    <3>4. StatesOf(s)' = {"PENDING"}
      <4>1. PICK b \in recipients : b \in Admins
        BY <3>1
      <4>2. \A a \in Admins : dStatus'[<<s, a>>] \in {"PENDING", "ABSENT"}
        BY <3>3
      <4>3. dStatus'[<<s, b>>] = "PENDING"
        BY <3>3, <4>1
      <4>4. QED
        BY <4>1, <4>2, <4>3 DEF StatesOf
    <3>5. AggregateReminderStatus({"PENDING"}) = "PENDING"
      BY DEF AggregateReminderStatus
    <3>6. QED
      BY <2>1, <3>1, <3>4, <3>5 DEF Agrees
  <2>4. QED
    BY <2>2, <2>3
<1>4. ASSUME NEW w \in Workers, NEW d \in Deliveries, Claim(w, d)
      PROVE  Agrees(s)'
  <2>1. UNCHANGED <<rStatus, prepared>>
    BY <1>4 DEF Claim, reminderVars
  <2>2. CASE UNCHANGED dStatus \/ s # d[1]
    <3>1. \A a \in Admins : dStatus'[<<s, a>>] = dStatus[<<s, a>>]
      BY <1>4, <2>2 DEF Claim, Typed, TypeOK
    <3>2. QED
      BY <2>1, <3>1, UntouchedAgrees
  <2>3. CASE ~ UNCHANGED dStatus /\ s = d[1]
    <3>1. /\ dStatus[d] = "PENDING" /\ dStatus'[d] = "PROCESSING"
          /\ \A e \in Deliveries \ {d} : dStatus'[e] = dStatus[e]
      BY <1>4, <2>3 DEF Claim, Claimable, Typed, TypeOK
    <3>2. d[2] \in Admins /\ d = <<s, d[2]>>
      BY <2>3 DEF Deliveries
    <3>3. "PENDING" \in StatesOf(s) /\ "PROCESSING" \in StatesOf(s)'
      BY <3>1, <3>2 DEF StatesOf
    <3>4. \A a \in Admins : \/ dStatus'[<<s, a>>] = dStatus[<<s, a>>]
                            \/ /\ dStatus[<<s, a>>] = "PENDING"
                               /\ dStatus'[<<s, a>>] = "PROCESSING"
      BY <3>1
    <3>5. StatesOf(s) \ {"PENDING", "PROCESSING"}
              = StatesOf(s)' \ {"PENDING", "PROCESSING"}
      BY <3>4 DEF StatesOf
    <3>6. AggregateReminderStatus(StatesOf(s)')
              = AggregateReminderStatus(StatesOf(s))
      BY <3>3, <3>5, ClaimKeepsAggregate
    <3>7. QED
      BY <2>1, <3>6 DEF Agrees
  <2>4. QED
    BY <2>2, <2>3
<1>5. ASSUME NEW r \in Reminders, DeleteCaseReminder(r) PROVE Agrees(s)'
  <2>1. CASE s = r
    BY <1>5, <2>1 DEF DeleteCaseReminder, Agrees
  <2>2. CASE s # r
    <3>1. /\ UNCHANGED prepared /\ rStatus'[s] = rStatus[s]
          /\ \A a \in Admins : dStatus'[<<s, a>>] = dStatus[<<s, a>>]
      BY <1>5, <2>2 DEF DeleteCaseReminder
    <3>2. QED
      BY <3>1, UntouchedAgrees
  <2>3. QED
    BY <2>1, <2>2
<1>6. ASSUME NEW r \in Reminders, AddCaseReminder(r) \/ UpdateCaseReminder(r)
      PROVE  Agrees(s)'
  <2>1. ~prepared[r] /\ UNCHANGED <<prepared, dStatus>>
    BY <1>6 DEF AddCaseReminder, UpdateCaseReminder, Editable, deliveryVars,
                TimeInv, PreparedIsDue
  <2>2. CASE s = r
    BY <2>1, <2>2 DEF Agrees
  <2>3. CASE s # r
    <3>1. rStatus'[s] = rStatus[s]
      BY <1>6, <2>3 DEF AddCaseReminder, UpdateCaseReminder
    <3>2. QED
      BY <2>1, <3>1, UntouchedAgrees
  <2>4. QED
    BY <2>2, <2>3
<1>7. CASE UNCHANGED <<rStatus, prepared, dStatus>>
  BY <1>7, UntouchedAgrees
<1>8. ASSUME NEW w \in Workers,
             \/ StartBatch(w) \/ ListDue(w) \/ ListQueue(w) \/ ReadDelivery(w)
             \/ SendAccepted(w) \/ SendFailed(w) \/ SendSuppressed(w)
             \/ EndBatch(w) \/ Crash(w)
      PROVE  UNCHANGED <<rStatus, prepared, dStatus>>
  BY <1>8 DEF StartBatch, ListDue, ListThose, ListQueue, ReadDelivery, ReadUnless,
              SendAccepted, SendFailed, SendSuppressed, SendReturns, EndBatch,
              Crash, reminderVars, deliveryVars
<1>9. ASSUME \/ UNCHANGED vars \/ SetArchived \/ Tick
             \/ \E a \in Admins : SetEligible(a) \/ SetAllowed(a)
      PROVE  UNCHANGED <<rStatus, prepared, dStatus>>
  BY <1>9 DEF SetArchived, Tick, SetEligible, SetAllowed, vars, reminderVars,
              deliveryVars
<1>10. QED
  BY <1>1, <1>2, <1>3, <1>4, <1>5, <1>6, <1>7, <1>8, <1>9
  DEF Next, WorkerStep, CommonStep, UserStep, EnvironmentStep

\* The status of a prepared reminder is the aggregate of its deliveries in
\* every state, however many workers complete deliveries of it.
THEOREM StatusIsAggregate == Spec => []StatusAgrees
<1> DEFINE All == \A r \in Reminders : Agrees(r)
<1>1. Init => All
  BY DEF Init, Agrees
<1>2. ASSUME Typed, Typed', TimeInv, All, [Next]_vars PROVE All'
  BY <1>2, AgreesStep
<1>3. All => StatusAgrees
  BY DEF Agrees, StatesOf, StatusAgrees
<1> HIDE DEF All
<1>4. QED
  BY <1>1, <1>2, <1>3, ReminderTyped, TimeHolds, PTL DEF Spec

-----------------------------------------------------------------------------
(* The recipients of a reminder                                            *)

\* Only the preparation makes deliveries, and it happens once.
LEMMA RecipientsStep ==
    ASSUME Typed, [Next]_vars, NEW r \in Reminders, NEW a \in Admins,
           prepared[r], dStatus[<<r, a>>] = "ABSENT"
    PROVE  dStatus'[<<r, a>>] = "ABSENT"
<1> DEFINE e == <<r, a>>
<1> e \in Deliveries /\ e[1] = r
  BY DEF Deliveries
<1> dStatus \in [Deliveries -> DeliveryState \cup {"ABSENT"}]
  BY DEF Typed, TypeOK
<1> HIDE DEF e
<1>1. ASSUME NEW w \in Workers, NEW d \in Deliveries, RecoverStale(w, d)
      PROVE  dStatus'[e] = dStatus[e] \/ dStatus[e] = "PROCESSING"
  BY <1>1 DEF RecoverStale, RecoverIf, StillInterrupted, Interrupted
<1>2. ASSUME NEW w \in Workers, NEW s \in Reminders, PrepareReminder(w, s)
      PROVE  dStatus'[e] = dStatus[e]
  BY <1>2 DEF PrepareReminder, PrepareIf, Preparable
<1>3. ASSUME NEW w \in Workers, NEW d \in Deliveries, Claim(w, d)
      PROVE  dStatus'[e] = dStatus[e] \/ dStatus[e] = "PENDING"
  BY <1>3 DEF Claim, Claimable
<1>4. ASSUME NEW w \in Workers, CompleteDelivery(w)
      PROVE  dStatus'[e] = dStatus[e] \/ dStatus[e] = "PROCESSING"
  BY <1>4 DEF CompleteDelivery, Mine
<1>5. ASSUME NEW s \in Reminders, DeleteCaseReminder(s)
      PROVE  dStatus'[e] = dStatus[e] \/ dStatus[e] \in {"PENDING", "PROCESSING"}
  BY <1>5 DEF DeleteCaseReminder, Open
<1>6. ASSUME NEW w \in Workers,
             \/ StartBatch(w) \/ ListDue(w) \/ ListQueue(w) \/ ReadDelivery(w)
             \/ SendAccepted(w) \/ SendFailed(w) \/ SendSuppressed(w)
             \/ EndBatch(w) \/ Crash(w)
      PROVE  UNCHANGED dStatus
  BY <1>6 DEF StartBatch, ListDue, ListThose, ListQueue, ReadDelivery, ReadUnless,
              SendAccepted, SendFailed, SendSuppressed, SendReturns, EndBatch,
              Crash, deliveryVars
<1>7. ASSUME \/ UNCHANGED vars \/ SetArchived \/ Tick
             \/ \E s \in Reminders : AddCaseReminder(s) \/ UpdateCaseReminder(s)
             \/ \E b \in Admins : SetEligible(b) \/ SetAllowed(b)
      PROVE  UNCHANGED dStatus
  BY <1>7 DEF SetArchived, Tick, SetEligible, SetAllowed, AddCaseReminder,
              UpdateCaseReminder, vars, deliveryVars
<1>8. dStatus[e] = "ABSENT"
  BY DEF e
<1>9. dStatus'[e] = "ABSENT"
  BY <1>1, <1>2, <1>3, <1>4, <1>5, <1>6, <1>7, <1>8
  DEF Next, WorkerStep, CommonStep, UserStep, EnvironmentStep
<1>10. QED
  BY <1>9 DEF e

\* An administrator who becomes eligible after the preparation of a reminder
\* gets no delivery of it.
THEOREM RecipientsFixed == Spec => RecipientsAreFixed
<1>1. Typed /\ [Next]_vars =>
          [\A r \in Reminders, a \in Admins :
              prepared[r] /\ dStatus[<<r, a>>] = "ABSENT"
                  => dStatus'[<<r, a>>] = "ABSENT"]_vars
  BY RecipientsStep
<1>2. QED
  BY <1>1, ReminderTyped, PTL DEF Spec, RecipientsAreFixed

-----------------------------------------------------------------------------
(* Claims.  A worker that has just claimed a delivery is robbed of it only *)
(* by a deletion: recovery lists claims by its own, older "now".           *)

\* Worker w holds its claim, or has been overruled by a deletion.
ClaimKept(w) ==
    Mine(w) \/ rStatus[job[w][1]] = "CANCELLED"

Fresh(w) == Active(w) /\ clock <= attemptNow[w] + StaleAfter

\* A cancelled reminder stays cancelled.
LEMMA CancelledStays ==
    ASSUME Typed, [Next]_vars, NEW r \in Reminders, rStatus[r] = "CANCELLED"
    PROVE  rStatus'[r] = "CANCELLED"
<1> rStatus \in [Reminders -> ReminderState \cup {"ABSENT"}]
  BY DEF Typed, TypeOK
<1>1. ASSUME NEW w \in Workers, NEW d \in Deliveries, RecoverStale(w, d)
      PROVE  rStatus'[r] = "CANCELLED"
  BY <1>1 DEF RecoverStale, RecoverIf, RefreshReminder
<1>2. ASSUME NEW w \in Workers, CompleteDelivery(w)
      PROVE  rStatus'[r] = "CANCELLED"
  BY <1>2 DEF CompleteDelivery, RefreshReminder
<1>3. ASSUME NEW s \in Reminders, AddCaseReminder(s) \/ DeleteCaseReminder(s)
      PROVE  rStatus'[r] = "CANCELLED"
  BY <1>3 DEF AddCaseReminder, DeleteCaseReminder
<1>4. ASSUME NEW w \in Workers,
             \/ StartBatch(w) \/ ListDue(w) \/ ListQueue(w) \/ ReadDelivery(w)
             \/ SendAccepted(w) \/ SendFailed(w) \/ SendSuppressed(w)
             \/ EndBatch(w) \/ Crash(w)
             \/ \E s \in Reminders : PrepareReminder(w, s)
             \/ \E d \in Deliveries : Claim(w, d)
      PROVE  UNCHANGED rStatus
  BY <1>4 DEF StartBatch, ListDue, ListThose, ListQueue, ReadDelivery, ReadUnless,
              SendAccepted, SendFailed, SendSuppressed, SendReturns, EndBatch,
              Crash, PrepareReminder, PrepareIf, Claim, reminderVars
<1>5. ASSUME \/ UNCHANGED vars \/ SetArchived \/ Tick
             \/ \E s \in Reminders : UpdateCaseReminder(s)
             \/ \E a \in Admins : SetEligible(a) \/ SetAllowed(a)
      PROVE  UNCHANGED rStatus
  BY <1>5 DEF SetArchived, Tick, SetEligible, SetAllowed, UpdateCaseReminder,
              vars, reminderVars
<1>6. QED
  BY <1>1, <1>2, <1>3, <1>4, <1>5
  DEF Next, WorkerStep, CommonStep, UserStep, EnvironmentStep

\* A step that leaves the worker's own claim where it is keeps it.
LEMMA ClaimUndisturbed ==
    ASSUME Typed, [Next]_vars, NEW v \in Workers, Active(v), ClaimKept(v),
           job'[v] = job[v], attemptNow'[v] = attemptNow[v],
           dStatus[job[v]] = "PROCESSING" =>
               \/ rStatus'[job[v][1]] = "CANCELLED"
               \/ /\ dStatus'[job[v]] = "PROCESSING"
                  /\ startedAt'[job[v]] = startedAt[job[v]]
    PROVE  ClaimKept(v)'
<1>1. job[v][1] \in Reminders
  BY DEF Typed, JobHeld, Deliveries
<1>2. rStatus[job[v][1]] = "CANCELLED" => rStatus'[job[v][1]] = "CANCELLED"
  BY <1>1, CancelledStays
<1>3. QED
  BY <1>2 DEF ClaimKept, Mine

\* One step per action.  Recovery is the one that matters: what it takes was
\* claimed more than ten minutes before a "now" that is not after the clock.
LEMMA FreshStep ==
    ASSUME Typed, Typed', MailInv, InThePast, [Next]_vars, NEW v \in Workers,
           Fresh(v) => ClaimKept(v), Fresh(v)'
    PROVE  ClaimKept(v)'
<1> pc \in [Workers -> {"idle", "stale", "due", "queue",
                        "claimed", "sending", "complete"}]
  BY DEF Typed, TypeOK
<1> clock \in Nat /\ now \in [Workers -> Nat] /\ attemptNow \in [Workers -> Nat]
  BY DEF Typed, TypeOK
<1> dStatus \in [Deliveries -> DeliveryState \cup {"ABSENT"}]
    /\ startedAt \in [Deliveries -> Nat]
  BY DEF Typed, TypeOK
<1> job \in [Workers -> Deliveries \cup {NoDelivery}]
  BY DEF Typed, TypeOK
<1>1. ASSUME NEW w \in Workers, NEW d \in Deliveries, RecoverStale(w, d)
      PROVE  ClaimKept(v)'
  <2>1. /\ UNCHANGED <<clock, pc, job, attemptNow, startedAt>>
        /\ \A e \in Deliveries : dStatus'[e] # dStatus[e] =>
              startedAt[e] + StaleAfter < now[w]
    BY <1>1 DEF RecoverStale, RecoverIf, StillInterrupted, Interrupted, jobVars
  <2>2. Fresh(v) /\ ClaimKept(v)
    BY <2>1 DEF Fresh, Active
  <2>3. CASE Mine(v)
    <3>1. job[v] \in Deliveries
      BY <2>2 DEF Fresh, Typed, JobHeld
    <3>2. now[w] <= startedAt[job[v]] + StaleAfter
      BY <2>2, <2>3 DEF Fresh, Mine, InThePast, StaleAfter
    <3>3. dStatus'[job[v]] = dStatus[job[v]]
      BY <2>1, <3>1, <3>2 DEF StaleAfter
    <3>4. QED
      BY <2>1, <2>3, <3>3 DEF ClaimKept, Mine
  <2>4. CASE ~Mine(v)
    <3>1. rStatus[job[v][1]] = "CANCELLED" /\ job[v][1] \in Reminders
      BY <2>2, <2>4 DEF ClaimKept, Fresh, Typed, JobHeld, Deliveries
    <3>2. QED
      BY <2>1, <3>1, CancelledStays DEF ClaimKept
  <2>5. QED
    BY <2>3, <2>4
<1>2. ASSUME NEW w \in Workers, NEW d \in Deliveries, Claim(w, d)
      PROVE  ClaimKept(v)'
  <2>1. CASE Claimable(d, clock) /\ v = w
    BY <1>2, <2>1 DEF Claim, ClaimKept, Mine
  <2>2. CASE ~(Claimable(d, clock) /\ v = w)
    <3>1. /\ pc'[v] = pc[v] /\ job'[v] = job[v] /\ UNCHANGED clock
          /\ attemptNow'[v] = attemptNow[v]
      BY <1>2, <2>2 DEF Claim
    <3>2. Fresh(v) /\ ClaimKept(v)
      BY <3>1 DEF Fresh, Active
    <3>3. dStatus[job[v]] # "PENDING" /\ job[v] \in Deliveries
      BY <3>2 DEF MailInv, Held, Fresh, Typed, JobHeld
    <3>4. /\ dStatus'[job[v]] = dStatus[job[v]]
          /\ startedAt'[job[v]] = startedAt[job[v]]
      BY <1>2, <3>3 DEF Claim, Claimable
    <3>5. QED
      BY <3>1, <3>2, <3>4, ClaimUndisturbed DEF Fresh
  <2>3. QED
    BY <2>1, <2>2
<1>3. ASSUME NEW w \in Workers, CompleteDelivery(w) PROVE ClaimKept(v)'
  <2>1. v # w /\ pc[w] = "complete"
    BY <1>3 DEF CompleteDelivery, Goto, Fresh, Active
  <2>2. /\ pc'[v] = pc[v] /\ job'[v] = job[v] /\ UNCHANGED <<clock, startedAt>>
        /\ attemptNow'[v] = attemptNow[v]
    BY <1>3, <2>1 DEF CompleteDelivery, Goto
  <2>3. Fresh(v) /\ ClaimKept(v)
    BY <2>2 DEF Fresh, Active
  <2>4. job[v] # job[w]
    BY <2>1, <2>3 DEF MailInv, OneHolder, Fresh, Active
  <2>5. dStatus'[job[v]] = dStatus[job[v]]
    <3>1. job[v] \in Deliveries
      BY <2>3 DEF Fresh, Typed, JobHeld
    <3>2. \/ UNCHANGED dStatus
          \/ dStatus' = [dStatus EXCEPT ![job[w]] = data[w].status]
      BY <1>3 DEF CompleteDelivery
    <3>3. QED
      BY <2>4, <3>1, <3>2
  <2>6. QED
    BY <2>2, <2>3, <2>5, ClaimUndisturbed DEF Fresh
<1>4. ASSUME NEW w \in Workers, NEW r \in Reminders, PrepareReminder(w, r)
      PROVE  ClaimKept(v)'
  <2>1. UNCHANGED <<clock, pc, job, attemptNow, startedAt>>
    BY <1>4 DEF PrepareReminder, PrepareIf, jobVars
  <2>2. Fresh(v) /\ ClaimKept(v) /\ job[v] \in Deliveries
    BY <2>1 DEF Fresh, Active, Typed, JobHeld
  <2>3. dStatus[job[v]] # "ABSENT" => dStatus'[job[v]] = dStatus[job[v]]
    BY <1>4, <2>2 DEF PrepareReminder, PrepareIf
  <2>4. QED
    BY <2>1, <2>2, <2>3, ClaimUndisturbed DEF Fresh
<1>5. ASSUME NEW r \in Reminders, DeleteCaseReminder(r) PROVE ClaimKept(v)'
  <2>1. UNCHANGED <<clock, pc, job, attemptNow, startedAt>>
    BY <1>5 DEF DeleteCaseReminder, jobVars
  <2>2. Fresh(v) /\ ClaimKept(v) /\ job[v] \in Deliveries /\ job[v][1] \in Reminders
    BY <2>1 DEF Fresh, Active, Typed, JobHeld, Deliveries
  <2>3. CASE job[v][1] = r
    BY <1>5, <2>1, <2>2, <2>3 DEF DeleteCaseReminder, ClaimKept, Typed, TypeOK
  <2>4. CASE job[v][1] # r
    <3>1. dStatus'[job[v]] = dStatus[job[v]]
      BY <1>5, <2>2, <2>4 DEF DeleteCaseReminder
    <3>2. QED
      BY <2>1, <2>2, <3>1, ClaimUndisturbed DEF Fresh
  <2>5. QED
    BY <2>3, <2>4
<1>6. ASSUME \/ \E w \in Workers :
                   \/ StartBatch(w) \/ ListDue(w) \/ ListQueue(w)
                   \/ ReadDelivery(w) \/ EndBatch(w) \/ Crash(w)
                   \/ SendAccepted(w) \/ SendFailed(w) \/ SendSuppressed(w)
             \/ \E r \in Reminders : AddCaseReminder(r) \/ UpdateCaseReminder(r)
             \/ UNCHANGED vars \/ SetArchived \/ Tick
             \/ \E a \in Admins : SetEligible(a) \/ SetAllowed(a)
      PROVE  ClaimKept(v)'
  <2>1. UNCHANGED <<dStatus, startedAt>> /\ clock' \in {clock, clock + 1}
    BY <1>6 DEF StartBatch, ListDue, ListThose, ListQueue, ReadDelivery, ReadUnless,
                SendAccepted, SendFailed, SendSuppressed, SendReturns, EndBatch,
                Crash, AddCaseReminder, UpdateCaseReminder, SetArchived, Tick,
                SetEligible, SetAllowed, vars, deliveryVars
  <2>2. Active(v) /\ job'[v] = job[v] /\ attemptNow'[v] = attemptNow[v]
    BY <1>6 DEF StartBatch, ListDue, ListThose, ListQueue, ReadDelivery, ReadUnless,
                SendAccepted, SendFailed, SendSuppressed, SendReturns, EndBatch,
                Crash, AddCaseReminder, UpdateCaseReminder, SetArchived, Tick,
                SetEligible, SetAllowed, vars, jobVars, Goto, Fresh, Active
  <2>3. Fresh(v)
    BY <2>1, <2>2 DEF Fresh, StaleAfter
  <2>4. QED
    BY <2>1, <2>2, <2>3, ClaimUndisturbed
<1>7. QED
  BY <1>1, <1>2, <1>3, <1>4, <1>5, <1>6
  DEF Next, WorkerStep, CommonStep, UserStep, EnvironmentStep

\* A claim younger than ten minutes is lost to a deletion only.
THEOREM ClaimsAreKept == Spec => []FreshClaimKept
<1> DEFINE All == \A w \in Workers : Fresh(w) => ClaimKept(w)
<1>1. Init => All
  BY DEF Init, Fresh, Active
<1>2. ASSUME Typed, Typed', MailInv, InThePast, All, [Next]_vars PROVE All'
  BY <1>2, FreshStep
<1>3. All => FreshClaimKept
  BY DEF Fresh, ClaimKept, Mine, FreshClaimKept
<1>4. TimeInv => InThePast
  BY DEF TimeInv
<1>5. Spec => []MailInv
  BY ReminderIsAny, MailSafe, PTL
<1> HIDE DEF All
<1>6. QED
  BY <1>1, <1>2, <1>3, <1>4, <1>5, ReminderTyped, TimeHolds, PTL DEF Spec
=============================================================================
