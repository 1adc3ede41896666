------------------------ MODULE DeliveryWorkerProofs ------------------------
(***************************************************************************)
(* Proofs about any worker built from DeliveryWorker, for every set of     *)
(* workers, rows and administrators and for every bound.  AnySpec allows   *)
(* whatever the three workers and their users may do: rows are listed,     *)
(* prepared and silenced at will, recovery may take any claim, and users   *)
(* may do anything to rows but only cancel open deliveries.  A worker that *)
(* implements AnySpec inherits every theorem of this module.               *)
(***************************************************************************)
EXTENDS DeliveryWorker, TLAPS

AnyStep(w) ==
    \/ CommonStep(w)
    \/ \E d \in Deliveries, interrupted \in BOOLEAN :
          /\ interrupted => dStatus[d] = "PROCESSING"
          /\ RecoverIf(w, d, interrupted)
    \/ \E ready \in SUBSET Reminders : ListThose(w, ready)
    \/ \E r \in Reminders, wanted \in BOOLEAN : PrepareIf(w, r, wanted)
    \/ \E silenced \in BOOLEAN : ReadUnless(w, silenced)

\* What users, administrators and the clock may do.
Outside ==
    /\ clock' \in 0 .. MaxTime
    /\ events' \in 0 .. MaxEvents
    /\ archived' \in BOOLEAN
    /\ eligible' \subseteq Admins
    /\ allowed' \subseteq Admins
    /\ rStatus' \in [Reminders -> ReminderState \cup {"ABSENT"}]
    /\ dueAt' \in [Reminders -> Nat]
    /\ nextPrep' \in [Reminders -> Nat]
    /\ prepared' \in [Reminders -> BOOLEAN]
    /\ dStatus' \in [Deliveries -> DeliveryState \cup {"ABSENT"}]
    /\ \A d \in Deliveries :
          \/ dStatus'[d] = dStatus[d]
          \/ dStatus[d] \in {"PENDING", "PROCESSING"} /\ dStatus'[d] = "CANCELLED"
    /\ UNCHANGED <<attempts, startedAt, nextAttemptAt,
                   pc, scanVars, jobVars, mailVars>>

AnyNext ==
    \/ \E w \in Workers : AnyStep(w) \/ Crash(w)
    \/ Outside

AnySpec == Init /\ [][AnyNext]_vars

\* Archiving, eligibility, the allowlist and the clock are outside the workers.
LEMMA EnvironmentIsOutside ==
    ASSUME TypeOK, EnvironmentStep \/ Tick PROVE Outside
<1> USE DeliveryAssumption DEF TypeOK, Outside, envVars, reminderVars, deliveryVars
<1>1. CASE SetArchived
  BY <1>1 DEF SetArchived
<1>2. CASE Tick
  BY <1>2 DEF Tick
<1>3. ASSUME NEW a \in Admins, SetEligible(a) \/ SetAllowed(a) PROVE Outside
  BY <1>3 DEF SetEligible, SetAllowed
<1>4. QED
  BY <1>1, <1>2, <1>3 DEF EnvironmentStep

\* A claim has counted its attempt: what makes giving it back well defined.
ClaimCounted == \A d \in Deliveries : dStatus[d] = "PROCESSING" => attempts[d] >= 1

\* A worker between claim and completion has a delivery in its hands.
JobHeld == \A w \in Workers : Active(w) => job[w] \in Deliveries

Typed == TypeOK /\ ClaimCounted /\ JobHeld

\* The refreshed status of a reminder is a reminder status.
LEMMA AggregateType ==
    ASSUME NEW S \in SUBSET DeliveryState
    PROVE  AggregateReminderStatus(S) \in ReminderState
BY DEF AggregateReminderStatus, ReminderState, DeliveryState

\* Refreshing keeps rStatus well typed, given well-typed delivery statuses.
LEMMA RefreshType ==
    ASSUME NEW r \in Reminders,
           rStatus \in [Reminders -> ReminderState \cup {"ABSENT"}],
           NEW s \in [Deliveries -> DeliveryState \cup {"ABSENT"}],
           RefreshReminder(r, s)
    PROVE  rStatus' \in [Reminders -> ReminderState \cup {"ABSENT"}]
<1> DEFINE S == {s[<<r, a>>] : a \in Admins} \ {"ABSENT"}
<1>1. S \in SUBSET DeliveryState
  BY DEF Deliveries
<1>2. AggregateReminderStatus(S) \in ReminderState
  BY <1>1, AggregateType
<1>3. QED
  BY <1>2 DEF RefreshReminder

\* What the retry policy returns is a verdict a worker may hold.
LEMMA DecisionType ==
    ASSUME NEW e \in SmtpError, NEW n \in Nat
    PROVE  ReminderFailureDecision(e, n) \in
               [status: DeliveryState \ {"PROCESSING"}, giveBack: 0 .. 1, delay: Nat]
BY DEF SmtpError, ReminderFailureDecision, Verdict, DeliveryState, RetryUnit, MaxAttempts

-----------------------------------------------------------------------------
(* Type correctness                                                        *)

VerdictType == [status: DeliveryState \ {"PROCESSING"}, giveBack: 0 .. 1, delay: Nat]

\* Every verdict that keeps a delivery out of PROCESSING is well typed.
LEMMA VerdictTyped ==
    ASSUME NEW status \in DeliveryState \ {"PROCESSING"},
           NEW giveBack \in 0 .. 1, NEW delay \in Nat
    PROVE  Verdict(status, giveBack, delay) \in VerdictType
BY DEF Verdict, VerdictType

\* So is the placeholder of a worker that has none.
LEMMA NoDataTyped == NoData \in VerdictType
BY VerdictTyped DEF NoData, DeliveryState

\* Nothing is claimed and nothing counted at the start.
LEMMA InitTyped == Init => Typed
<1> SUFFICES ASSUME Init PROVE Typed
  OBVIOUS
<1>1. data \in [Workers -> VerdictType]
  BY NoDataTyped DEF Init
<1>2. ClaimCounted /\ JobHeld
  BY DEF Init, ClaimCounted, JobHeld, Active
<1>3. clock \in 0 .. MaxTime /\ events \in 0 .. MaxEvents
  BY DeliveryAssumption DEF Init
<1>4. QED
  BY <1>1, <1>2, <1>3 DEF Init, Typed, TypeOK, VerdictType

\* One step per action of a worker.
LEMMA WorkerTyped ==
    ASSUME Typed, NEW w \in Workers, AnyStep(w) \/ Crash(w)
    PROVE  Typed'
<1> USE DeliveryAssumption DEF Typed, TypeOK, ClaimCounted, JobHeld, Active, Goto, envVars,
        reminderVars, deliveryVars, scanVars, jobVars, mailVars
<1>1. CASE StartBatch(w)
  BY <1>1 DEF StartBatch
<1>2. ASSUME NEW d \in Deliveries, NEW i \in BOOLEAN,
             i => dStatus[d] = "PROCESSING", RecoverIf(w, d, i) PROVE Typed'
  <2>1. dStatus' \in [Deliveries -> DeliveryState \cup {"ABSENT"}]
    BY <1>2 DEF RecoverIf, DeliveryState
  <2>2. d[1] \in Reminders
    BY DEF Deliveries
  <2>3. rStatus' \in [Reminders -> ReminderState \cup {"ABSENT"}]
    BY <1>2, <2>1, <2>2, RefreshType DEF RecoverIf
  <2>4. ClaimCounted'
    BY <1>2 DEF RecoverIf
  <2>5. QED
    BY <1>2, <2>1, <2>3, <2>4 DEF RecoverIf
<1>3. ASSUME NEW ready \in SUBSET Reminders, ListThose(w, ready) PROVE Typed'
  BY <1>3 DEF ListThose
<1>4. ASSUME NEW r \in Reminders, NEW wanted \in BOOLEAN,
             PrepareIf(w, r, wanted) PROVE Typed'
  <2>1. now[w] \in Nat /\ now[w] + PrepareWait \in Nat
    BY DEF PrepareWait
  <2>2. due' \in [Workers -> SUBSET Reminders]
    BY <1>4 DEF PrepareIf
  <2>3. /\ nextPrep' \in [Reminders -> Nat]
        /\ prepared' \in [Reminders -> BOOLEAN]
    <3>1. \/ UNCHANGED nextPrep
          \/ nextPrep' = [nextPrep EXCEPT ![r] = now[w] + PrepareWait]
      BY <1>4 DEF PrepareIf
    <3>2. \/ UNCHANGED prepared
          \/ prepared' = [prepared EXCEPT ![r] = TRUE]
      BY <1>4 DEF PrepareIf
    <3>3. nextPrep' \in [Reminders -> Nat]
      BY <2>1, <3>1
    <3>4. prepared' \in [Reminders -> BOOLEAN]
      BY <3>2
    <3>5. QED
      BY <3>3, <3>4
  <2>4. /\ dStatus' \in [Deliveries -> DeliveryState \cup {"ABSENT"}]
        /\ nextAttemptAt' \in [Deliveries -> Nat]
        /\ \A d \in Deliveries :
              dStatus'[d] = "PROCESSING" => dStatus[d] = "PROCESSING"
    <3>1. CASE UNCHANGED <<dStatus, nextAttemptAt>>
      BY <3>1
    <3>2. CASE \E S \in SUBSET Deliveries :
                  /\ dStatus' = [d \in Deliveries |->
                                    IF d \in S THEN "PENDING" ELSE dStatus[d]]
                  /\ nextAttemptAt' = [d \in Deliveries |->
                                    IF d \in S THEN now[w] ELSE nextAttemptAt[d]]
      BY <2>1, <3>2 DEF DeliveryState
    <3>3. {d \in {r} \X (eligible \cap allowed) : dStatus[d] = "ABSENT"}
             \in SUBSET Deliveries
      BY DEF Deliveries
    <3>4. QED
      BY <1>4, <3>1, <3>2, <3>3 DEF PrepareIf
  <2>5. ClaimCounted'
    BY <1>4, <2>4 DEF PrepareIf
  <2>6. QED
    BY <1>4, <2>2, <2>3, <2>4, <2>5 DEF PrepareIf
<1>5. CASE ListQueue(w)
  <2>1. PICK taken \in SUBSET {d \in Deliveries : Claimable(d, now[w])} :
            queue' = [queue EXCEPT ![w] = taken]
    BY <1>5 DEF ListQueue
  <2>2. queue' \in [Workers -> SUBSET Deliveries]
    BY <2>1
  <2>3. QED
    BY <1>5, <2>2 DEF ListQueue
<1>6. ASSUME NEW d \in Deliveries, Claim(w, d) PROVE Typed'
  <2>1. CASE Claimable(d, clock)
    <3>1. attempts' \in [Deliveries -> Nat] /\ attempts'[d] >= 1
      BY <1>6, <2>1 DEF Claim, CountAttempt
    <3>2. dStatus' \in [Deliveries -> DeliveryState \cup {"ABSENT"}]
      BY <1>6, <2>1 DEF Claim, DeliveryState
    <3>3. ClaimCounted'
      BY <1>6, <2>1, <3>1 DEF Claim, CountAttempt
    <3>4. /\ job' \in [Workers -> Deliveries \cup {NoDelivery}]
          /\ startedAt' \in [Deliveries -> Nat]
          /\ attemptNow' \in [Workers -> Nat]
          /\ queue' \in [Workers -> SUBSET Deliveries]
          /\ pc' = [pc EXCEPT ![w] = "claimed"]
      <4>1. /\ job' = [job EXCEPT ![w] = d]
            /\ startedAt' = [startedAt EXCEPT ![d] = clock]
            /\ attemptNow' = [attemptNow EXCEPT ![w] = clock]
            /\ queue' = [queue EXCEPT ![w] = @ \ {d}]
            /\ pc' = [pc EXCEPT ![w] = "claimed"]
        BY <1>6, <2>1 DEF Claim
      <4>2. clock \in Nat
        OBVIOUS
      <4>3. QED
        BY <4>1, <4>2
    <3>5. JobHeld'
      BY <1>6, <2>1 DEF Claim
    <3>6. QED
      BY <1>6, <3>1, <3>2, <3>3, <3>4, <3>5 DEF Claim
  <2>2. CASE ~Claimable(d, clock)
    BY <1>6, <2>2 DEF Claim
  <2>3. QED
    BY <2>1, <2>2
<1>7. ASSUME NEW silenced \in BOOLEAN, ReadUnless(w, silenced) PROVE Typed'
  <2>1. /\ Verdict("CANCELLED", 0, 0) \in VerdictType
        /\ Verdict("PENDING", 1, PrepareWait) \in VerdictType
    BY VerdictTyped DEF DeliveryState, PrepareWait
  <2>2. data' \in [Workers -> VerdictType]
    BY <1>7, <2>1 DEF ReadUnless, VerdictType
  <2>3. tried' \in [Workers -> Nat]
    BY <1>7 DEF ReadUnless
  <2>4. QED
    BY <1>7, <2>2, <2>3 DEF ReadUnless, VerdictType
<1>8. CASE SendAccepted(w)
  <2>1. PICK v \in VerdictType : SendReturns(w, v)
    <3>1. Verdict("SENT", 0, 0) \in VerdictType
      BY VerdictTyped DEF DeliveryState
    <3>2. \A error \in LateErrors :
             ReminderFailureDecision(error, tried[w]) \in VerdictType
      BY TransportAssumption, DecisionType DEF SmtpError, VerdictType
    <3>3. QED
      BY <1>8, <3>1, <3>2 DEF SendAccepted
  <2>2. data' \in [Workers -> VerdictType]
    BY <2>1 DEF SendReturns, VerdictType
  <2>3. submitted' \in [Deliveries -> Nat] /\ accepted' \in [Deliveries -> Nat]
    <3>1. job[w] \in Deliveries
      BY <2>1 DEF SendReturns
    <3>2. /\ submitted' = [submitted EXCEPT ![job[w]] = @ + 1]
          /\ accepted' = [accepted EXCEPT ![job[w]] = @ + 1]
      BY <1>8 DEF SendAccepted
    <3>3. QED
      BY <3>1, <3>2
  <2>4. QED
    BY <1>8, <2>1, <2>2, <2>3 DEF SendAccepted, SendReturns, VerdictType
<1>9. CASE SendFailed(w)
  <2>1. PICK v \in VerdictType : SendReturns(w, v)
    <3>1. \A error \in SmtpError :
             ReminderFailureDecision(error, tried[w]) \in VerdictType
      BY DecisionType DEF VerdictType
    <3>2. QED
      BY <1>9, <3>1 DEF SendFailed
  <2>2. data' \in [Workers -> VerdictType]
    BY <2>1 DEF SendReturns, VerdictType
  <2>3. submitted' \in [Deliveries -> Nat]
    <3>1. job[w] \in Deliveries
      BY <2>1 DEF SendReturns
    <3>2. QED
      BY <1>9, <3>1 DEF SendFailed
  <2>4. QED
    BY <1>9, <2>1, <2>2, <2>3 DEF SendFailed, SendReturns, VerdictType
<1>10. CASE SendSuppressed(w)
  <2>1. PICK k \in Deferrals : SendReturns(w, Verdict("PENDING", 1, k))
    BY <1>10 DEF SendSuppressed
  <2>2. Verdict("PENDING", 1, k) \in VerdictType
    BY VerdictTyped DEF DeliveryState
  <2>3. data' \in [Workers -> VerdictType]
    BY <2>1, <2>2 DEF SendReturns, VerdictType
  <2>4. QED
    BY <1>10, <2>1, <2>3 DEF SendSuppressed, SendReturns, VerdictType
<1>11. CASE CompleteDelivery(w)
  <2> DEFINE d == job[w]
  <2>1. /\ d \in Deliveries
        /\ d[1] \in Reminders
        /\ data[w] \in VerdictType
    BY <1>11 DEF CompleteDelivery, Deliveries, VerdictType
  <2>2. ASSUME Mine(w)
        PROVE  /\ dStatus' \in [Deliveries -> DeliveryState \cup {"ABSENT"}]
               /\ attempts' \in [Deliveries -> Nat]
               /\ nextAttemptAt' \in [Deliveries -> Nat]
               /\ ClaimCounted'
    <3>1. /\ dStatus[d] = "PROCESSING"
          /\ dStatus' = [dStatus EXCEPT ![d] = data[w].status]
          /\ attempts' = [attempts EXCEPT ![d] = @ - data[w].giveBack]
          /\ nextAttemptAt' = IF data[w].status = "PENDING"
                 THEN [nextAttemptAt EXCEPT ![d] = attemptNow[w] + data[w].delay]
                 ELSE nextAttemptAt
      BY <1>11, <2>2 DEF CompleteDelivery, Mine
    <3>2. /\ data[w].status \in DeliveryState \ {"PROCESSING"}
          /\ data[w].giveBack \in 0 .. 1
          /\ data[w].delay \in Nat
      BY <2>1 DEF VerdictType
    <3>3. attempts[d] \in Nat /\ attempts[d] >= 1
      BY <2>1, <3>1
    <3>4. attempts' \in [Deliveries -> Nat]
      BY <2>1, <3>1, <3>2, <3>3
    <3>5. dStatus' \in [Deliveries -> DeliveryState \cup {"ABSENT"}]
      BY <2>1, <3>1, <3>2
    <3>6. nextAttemptAt' \in [Deliveries -> Nat]
      BY <2>1, <3>1, <3>2
    <3>7. ClaimCounted'
      BY <2>1, <3>1, <3>2
    <3>8. QED
      BY <3>4, <3>5, <3>6, <3>7
  <2>3. ASSUME ~Mine(w)
        PROVE  UNCHANGED <<dStatus, attempts, nextAttemptAt>>
    BY <1>11, <2>3 DEF CompleteDelivery
  <2>4. /\ dStatus' \in [Deliveries -> DeliveryState \cup {"ABSENT"}]
        /\ attempts' \in [Deliveries -> Nat]
        /\ nextAttemptAt' \in [Deliveries -> Nat]
        /\ ClaimCounted'
    BY <2>2, <2>3
  <2>5. rStatus' \in [Reminders -> ReminderState \cup {"ABSENT"}]
    BY <1>11, <2>1, <2>4, RefreshType DEF CompleteDelivery
  <2>6. data' \in [Workers -> VerdictType]
    BY <1>11, NoDataTyped DEF CompleteDelivery, VerdictType
  <2>7. QED
    BY <1>11, <2>4, <2>5, <2>6 DEF CompleteDelivery, VerdictType
<1>12. CASE EndBatch(w)
  BY <1>12 DEF EndBatch
<1>13. CASE Crash(w)
  <2>1. data' \in [Workers -> VerdictType]
    BY <1>13, NoDataTyped DEF Crash, VerdictType
  <2>2. QED
    BY <1>13, <2>1 DEF Crash, VerdictType
<1>14. QED
  BY <1>1, <1>2, <1>3, <1>4, <1>5, <1>6, <1>7, <1>8, <1>9, <1>10, <1>11,
     <1>12, <1>13 DEF AnyStep, CommonStep

\* Steps outside the workers respect the types and take claims only away.
LEMMA OutsideTyped ==
    ASSUME Typed, Outside PROVE Typed'
<1>1. ClaimCounted'
  BY DEF Typed, ClaimCounted, Outside
<1>2. JobHeld'
  BY DEF Typed, JobHeld, Active, Outside, jobVars
<1>3. TypeOK'
  BY DEF Typed, TypeOK, Outside, scanVars, jobVars, mailVars
<1>4. QED
  BY <1>1, <1>2, <1>3 DEF Typed

\* So the strengthened type invariant is inductive.
LEMMA TypedStep ==
    ASSUME Typed, [AnyNext]_vars PROVE Typed'
<1>1. CASE UNCHANGED vars
  BY <1>1 DEF vars, envVars, reminderVars, deliveryVars, scanVars, jobVars,
              mailVars, Typed, TypeOK, ClaimCounted, JobHeld, Active
<1>2. CASE AnyNext
  BY <1>2, WorkerTyped, OutsideTyped DEF AnyNext
<1>3. QED
  BY <1>1, <1>2

\* It holds throughout.
LEMMA TypedAlways == AnySpec => []Typed
<1>1. Typed /\ [AnyNext]_vars => Typed'
  BY TypedStep
<1>2. QED
  BY <1>1, InitTyped, PTL DEF AnySpec

\* The type invariant, for every instance.
THEOREM AnyTypeCorrect == AnySpec => []TypeOK
<1>1. Typed => TypeOK
  BY DEF Typed
<1>2. QED
  BY <1>1, TypedAlways, PTL

-----------------------------------------------------------------------------
(* One mail per delivery.  OutcomeIsTrue alone is not inductive: it says   *)
(* nothing about a claim whose mail is on its way.  What a worker knows    *)
(* while it holds a delivery closes the gap.                               *)

\* A held delivery is not one that could be claimed again.
Held ==
    \A w \in Workers :
        Active(w) => dStatus[job[w]] \in {"PROCESSING", "UNCERTAIN", "CANCELLED"}

\* No two workers hold the same delivery.
OneHolder ==
    \A v, w \in Workers : Active(v) /\ Active(w) /\ job[v] = job[w] => v = w

\* What a worker is about to record agrees with what the server did.
KnowsTruth(w) ==
    /\ pc[w] \in {"claimed", "sending"} => accepted[job[w]] = 0
    /\ pc[w] = "complete" =>
          /\ data[w].status = "SENT" => accepted[job[w]] = 1
          /\ data[w].status \in {"PENDING", "FAILED"} => accepted[job[w]] = 0

MailInv ==
    /\ Held /\ OneHolder
    /\ \A w \in Workers : KnowsTruth(w)
    /\ OutcomeIsTrue /\ AtMostOneMail

\* A step that leaves every active worker where it is, accepts no mail, and
\* takes deliveries only out of the way (or newly into the queue).
Bystander ==
    /\ UNCHANGED accepted
    /\ \A v \in Workers : Active(v)' =>
          pc'[v] = pc[v] /\ job'[v] = job[v] /\ data'[v] = data[v]
    /\ \A d \in Deliveries :
          \/ dStatus'[d] = dStatus[d]
          \/ dStatus'[d] \in {"UNCERTAIN", "CANCELLED"}
          \/ dStatus[d] = "ABSENT" /\ dStatus'[d] = "PENDING"

\* Such a step keeps the invariant: nobody learns, sends or holds anything new.
LEMMA BystanderKeepsMail ==
    ASSUME Typed, MailInv, Bystander PROVE MailInv'
<1> USE DEF Bystander, MailInv, Active
<1>1. Held'
  BY DEF Typed, JobHeld, Held
<1>2. OneHolder'
  BY DEF OneHolder
<1>3. ASSUME NEW w \in Workers PROVE KnowsTruth(w)'
  BY DEF KnowsTruth
<1>4. OutcomeIsTrue' /\ AtMostOneMail'
  BY DEF OutcomeIsTrue, AtMostOneMail
<1>5. QED
  BY <1>1, <1>2, <1>3, <1>4

\* The step of one worker w that ends its call of the transport: a verdict
\* that agrees with what the server did to the mail.
LEMMA SendKeepsMail ==
    ASSUME Typed, MailInv, NEW w \in Workers, NEW v \in VerdictType,
           SendReturns(w, v),
           \/ /\ v.status \in {"SENT", "UNCERTAIN"}
              /\ accepted' = [accepted EXCEPT ![job[w]] = @ + 1]
           \/ v.status # "SENT" /\ UNCHANGED accepted
    PROVE  MailInv'
<1> USE DEF SendReturns, Goto, MailInv, Active
<1> DEFINE d == job[w]
<1>1. /\ pc \in [Workers -> {"idle", "stale", "due", "queue",
                             "claimed", "sending", "complete"}]
      /\ data \in [Workers -> VerdictType]
      /\ accepted \in [Deliveries -> Nat]
  BY DEF Typed, TypeOK, VerdictType
<1>2. /\ d \in Deliveries /\ accepted[d] = 0
      /\ dStatus[d] \in {"PROCESSING", "UNCERTAIN", "CANCELLED"}
  BY DEF Typed, JobHeld, KnowsTruth, Held
<1>3. /\ pc'[w] = "complete" /\ data'[w] = v
      /\ \A u \in Workers \ {w} : pc'[u] = pc[u] /\ data'[u] = data[u]
      /\ UNCHANGED <<job, dStatus>>
  BY <1>1 DEF jobVars, deliveryVars
<1>4. accepted'[d] \in {0, 1}
      /\ \A e \in Deliveries \ {d} : accepted'[e] = accepted[e]
  BY <1>1, <1>2
<1>5. Held'
  BY <1>3 DEF Held
<1>6. OneHolder'
  BY <1>3 DEF OneHolder
<1>7. ASSUME NEW u \in Workers PROVE KnowsTruth(u)'
  <2>1. CASE u = w
    <3>1. v.status \in {"SENT"} => accepted'[d] = 1
      BY <1>1, <1>2
    <3>2. v.status \in {"PENDING", "FAILED"} => accepted'[d] = 0
      BY <1>2
    <3>3. QED
      BY <2>1, <3>1, <3>2, <1>3 DEF KnowsTruth
  <2>2. CASE u # w /\ Active(u)
    <3>1. job[u] # d /\ job[u] \in Deliveries
      BY <2>2 DEF OneHolder, Typed, JobHeld
    <3>2. QED
      BY <2>2, <3>1, <1>3, <1>4 DEF KnowsTruth
  <2>3. CASE u # w /\ ~Active(u)
    BY <2>3, <1>3 DEF KnowsTruth
  <2>4. QED
    BY <2>1, <2>2, <2>3
<1>8. OutcomeIsTrue' /\ AtMostOneMail'
  BY <1>2, <1>3, <1>4 DEF OutcomeIsTrue, AtMostOneMail
<1>9. QED
  BY <1>5, <1>6, <1>7, <1>8

\* One step per action of a worker; listing, recovery, preparation and a crash
\* are bystanders, the others touch what the worker itself holds.
LEMMA WorkerKeepsMail ==
    ASSUME Typed, MailInv, NEW w \in Workers, AnyStep(w) \/ Crash(w)
    PROVE  MailInv'
<1> USE DEF Goto
<1>1. ASSUME StartBatch(w) \/ (\E ready \in SUBSET Reminders : ListThose(w, ready)) \/ ListQueue(w) \/ EndBatch(w) \/ Crash(w)
      PROVE  MailInv'
  <2>1. Bystander
    BY <1>1 DEF StartBatch, ListThose, ListQueue, EndBatch, Crash, Bystander, Active,
         jobVars, deliveryVars, mailVars, Typed, TypeOK
  <2>2. QED
    BY <2>1, BystanderKeepsMail
<1>2. ASSUME NEW d \in Deliveries, NEW i \in BOOLEAN,
             i => dStatus[d] = "PROCESSING", RecoverIf(w, d, i) PROVE MailInv'
  <2>1. Bystander
    BY <1>2 DEF RecoverIf, Bystander, Active, jobVars, mailVars, Typed, TypeOK
  <2>2. QED
    BY <2>1, BystanderKeepsMail
<1>3. ASSUME NEW r \in Reminders, NEW wanted \in BOOLEAN,
             PrepareIf(w, r, wanted) PROVE MailInv'
  <2>1. \A d \in Deliveries : \/ dStatus'[d] = dStatus[d]
                              \/ dStatus[d] = "ABSENT" /\ dStatus'[d] = "PENDING"
    BY <1>3 DEF PrepareIf
  <2>2. Bystander
    BY <1>3, <2>1 DEF PrepareIf, Bystander, Active, jobVars, mailVars
  <2>3. QED
    BY <2>2, BystanderKeepsMail
<1>4. ASSUME NEW d \in Deliveries, Claim(w, d) PROVE MailInv'
  <2>1. CASE ~Claimable(d, clock)
    <3>1. Bystander
      BY <1>4, <2>1 DEF Claim, Bystander, Active, mailVars
    <3>2. QED
      BY <3>1, BystanderKeepsMail
  <2>2. CASE Claimable(d, clock)
    <3>1. /\ dStatus[d] = "PENDING" /\ accepted[d] = 0
          /\ \A v \in Workers : Active(v) => job[v] # d
      BY <2>2 DEF Claimable, MailInv, OutcomeIsTrue, Held
    <3>2. /\ dStatus'[d] = "PROCESSING"
          /\ \A e \in Deliveries \ {d} : dStatus'[e] = dStatus[e]
          /\ pc'[w] = "claimed" /\ job'[w] = d
          /\ \A v \in Workers \ {w} : pc'[v] = pc[v] /\ job'[v] = job[v]
          /\ UNCHANGED <<data, accepted>>
          /\ pc[w] = "queue"
      BY <1>4, <2>2 DEF Claim, mailVars, Typed, TypeOK
    <3>3. Held'
      BY <3>1, <3>2 DEF Held, MailInv, Active, Typed, JobHeld
    <3>4. OneHolder'
      BY <3>1, <3>2 DEF OneHolder, MailInv, Active
    <3>5. ASSUME NEW v \in Workers PROVE KnowsTruth(v)'
      BY <3>1, <3>2 DEF KnowsTruth, MailInv
    <3>6. OutcomeIsTrue' /\ AtMostOneMail'
      BY <3>1, <3>2 DEF OutcomeIsTrue, AtMostOneMail, MailInv
    <3>7. QED
      BY <3>3, <3>4, <3>5, <3>6 DEF MailInv
  <2>3. QED
    BY <2>1, <2>2
<1>5. ASSUME NEW silenced \in BOOLEAN, ReadUnless(w, silenced) PROVE MailInv'
  <2>1. /\ pc[w] = "claimed"
        /\ \/ pc'[w] = "complete" /\ data'[w].status \in {"CANCELLED", "PENDING"}
           \/ pc'[w] = "sending"
        /\ \A v \in Workers \ {w} : pc'[v] = pc[v] /\ data'[v] = data[v]
        /\ UNCHANGED <<job, accepted, dStatus>>
    BY <1>5 DEF ReadUnless, mailVars, deliveryVars, Typed, TypeOK, Verdict
  <2>2. Held' /\ OneHolder'
    BY <2>1 DEF Held, OneHolder, MailInv, Active
  <2>3. ASSUME NEW v \in Workers PROVE KnowsTruth(v)'
    BY <2>1 DEF KnowsTruth, MailInv
  <2>4. OutcomeIsTrue' /\ AtMostOneMail'
    BY <2>1 DEF OutcomeIsTrue, AtMostOneMail, MailInv
  <2>5. QED
    BY <2>2, <2>3, <2>4 DEF MailInv
<1>6. CASE SendAccepted(w)
  <2>1. PICK v \in VerdictType : SendReturns(w, v) /\ v.status \in {"SENT", "UNCERTAIN"}
    <3>1. /\ Verdict("SENT", 0, 0) \in VerdictType
          /\ Verdict("UNCERTAIN", 0, 0) \in VerdictType
          /\ Verdict("SENT", 0, 0).status = "SENT"
          /\ Verdict("UNCERTAIN", 0, 0).status = "UNCERTAIN"
      BY VerdictTyped DEF DeliveryState, Verdict
    <3>2. \A error \in LateErrors :
             ReminderFailureDecision(error, tried[w]) = Verdict("UNCERTAIN", 0, 0)
      BY TransportAssumption DEF ReminderFailureDecision
    <3>3. QED
      BY <1>6, <3>1, <3>2 DEF SendAccepted
  <2>2. accepted' = [accepted EXCEPT ![job[w]] = @ + 1]
    BY <1>6 DEF SendAccepted
  <2>3. QED
    BY <2>1, <2>2, SendKeepsMail
<1>7. CASE SendFailed(w)
  <2>1. PICK error \in SmtpError :
            SendReturns(w, ReminderFailureDecision(error, tried[w]))
    BY <1>7 DEF SendFailed
  <2>2. ReminderFailureDecision(error, tried[w]) \in VerdictType
    BY DecisionType DEF VerdictType, Typed, TypeOK
  <2>3. ReminderFailureDecision(error, tried[w]).status # "SENT"
    BY DEF ReminderFailureDecision, Verdict
  <2>4. UNCHANGED accepted
    BY <1>7 DEF SendFailed
  <2>5. QED
    BY <2>1, <2>2, <2>3, <2>4, SendKeepsMail
<1>8. CASE SendSuppressed(w)
  <2>1. PICK k \in Deferrals : SendReturns(w, Verdict("PENDING", 1, k))
    BY <1>8 DEF SendSuppressed
  <2>2. /\ Verdict("PENDING", 1, k) \in VerdictType
        /\ Verdict("PENDING", 1, k).status # "SENT"
    BY VerdictTyped, DeliveryAssumption DEF DeliveryState, Verdict
  <2>3. UNCHANGED accepted
    BY <1>8 DEF SendSuppressed, mailVars
  <2>4. QED
    BY <2>1, <2>2, <2>3, SendKeepsMail
<1>9. CASE CompleteDelivery(w)
  <2> DEFINE d == job[w]
  <2>1. /\ d \in Deliveries /\ pc[w] = "complete"
        /\ data[w].status \in DeliveryState \ {"PROCESSING"}
    BY <1>9 DEF CompleteDelivery, Typed, TypeOK, JobHeld, Active
  <2>2. /\ pc'[w] = "queue"
        /\ \A v \in Workers \ {w} :
              pc'[v] = pc[v] /\ job'[v] = job[v] /\ data'[v] = data[v]
        /\ UNCHANGED accepted
    BY <1>9 DEF CompleteDelivery, mailVars, Typed, TypeOK
  <2>3. /\ \A e \in Deliveries \ {d} : dStatus'[e] = dStatus[e]
        /\ dStatus'[d] \in {dStatus[d], data[w].status}
    BY <1>9, <2>1 DEF CompleteDelivery, Typed, TypeOK
  <2>4. \A v \in Workers \ {w} : Active(v) => job[v] # d
    BY <2>1 DEF MailInv, OneHolder, Active
  <2>5. Held' /\ OneHolder'
    BY <2>2, <2>3, <2>4 DEF Held, OneHolder, MailInv, Active, Typed, JobHeld
  <2>6. ASSUME NEW v \in Workers PROVE KnowsTruth(v)'
    BY <2>2 DEF KnowsTruth, MailInv
  <2>7. OutcomeIsTrue' /\ AtMostOneMail'
    <3>1. AtMostOneMail'
      BY <2>2 DEF AtMostOneMail, MailInv
    <3>2. OutcomeIsTrue'
      BY <2>1, <2>2, <2>3 DEF OutcomeIsTrue, MailInv, KnowsTruth, DeliveryState
    <3>3. QED
      BY <3>1, <3>2
  <2>8. QED
    BY <2>5, <2>6, <2>7 DEF MailInv
<1>10. QED
  BY <1>1, <1>2, <1>3, <1>4, <1>5, <1>6, <1>7, <1>8, <1>9 DEF AnyStep, CommonStep

\* Users, administrators and the clock are bystanders.
LEMMA OutsideKeepsMail ==
    ASSUME Typed, MailInv, Outside PROVE MailInv'
<1>1. Bystander
  BY DEF Outside, Bystander, Active, mailVars, jobVars
<1>2. QED
  BY <1>1, BystanderKeepsMail

\* The strengthened mail invariant holds throughout.
LEMMA MailSafe == AnySpec => [](Typed /\ MailInv)
<1>1. Init => Typed /\ MailInv
  <2> SUFFICES ASSUME Init PROVE MailInv
    BY InitTyped
  <2>1. QED
    BY DEF Init, MailInv, Held, OneHolder, KnowsTruth, OutcomeIsTrue,
           AtMostOneMail, Active
<1>2. Typed /\ MailInv /\ [AnyNext]_vars => (Typed /\ MailInv)'
  <2> SUFFICES ASSUME Typed, MailInv, [AnyNext]_vars PROVE Typed' /\ MailInv'
    OBVIOUS
  <2>1. CASE UNCHANGED vars
    <3>1. Bystander
      BY <2>1 DEF vars, jobVars, deliveryVars, mailVars, Bystander
    <3>2. MailInv'
      BY <3>1, BystanderKeepsMail
    <3>3. Typed'
      BY <2>1 DEF vars, envVars, reminderVars, deliveryVars, scanVars, jobVars,
                  mailVars, Typed, TypeOK, ClaimCounted, JobHeld, Active
    <3>4. QED
      BY <3>2, <3>3
  <2>2. CASE AnyNext
    BY <2>2, WorkerTyped, OutsideTyped, WorkerKeepsMail, OutsideKeepsMail DEF AnyNext
  <2>3. QED
    BY <2>1, <2>2
<1>3. QED
  BY <1>1, <1>2, PTL DEF AnySpec

\* No delivery is ever mailed twice.
THEOREM AnyOneMail == AnySpec => []AtMostOneMail
<1>1. MailInv => AtMostOneMail
  BY DEF MailInv
<1>2. QED
  BY <1>1, MailSafe, PTL

\* The recorded outcome never contradicts the server.
THEOREM AnyTrueOutcome == AnySpec => []OutcomeIsTrue
<1>1. MailInv => OutcomeIsTrue
  BY DEF MailInv
<1>2. QED
  BY <1>1, MailSafe, PTL
-----------------------------------------------------------------------------
(* Settlement and cancellation                                             *)

\* Every way the status of a delivery can change.
Moves(from, to) ==
    \/ from = to
    \/ from = "ABSENT" /\ to = "PENDING"
    \/ from = "PENDING" /\ to \in {"PROCESSING", "CANCELLED"}
    \/ from = "PROCESSING" /\ to \in DeliveryState \ {"PROCESSING"}

\* No step of a worker or a user moves a delivery otherwise.
LEMMA StatusMoves ==
    ASSUME Typed, [AnyNext]_vars, NEW d \in Deliveries
    PROVE  Moves(dStatus[d], dStatus'[d])
<1>1. CASE UNCHANGED vars
  BY <1>1 DEF vars, deliveryVars, Moves
<1>2. ASSUME NEW w \in Workers, NEW e \in Deliveries, NEW i \in BOOLEAN,
             i => dStatus[e] = "PROCESSING", RecoverIf(w, e, i)
      PROVE  Moves(dStatus[d], dStatus'[d])
  BY <1>2 DEF RecoverIf, Moves, Typed, TypeOK,
              DeliveryState
<1>3. ASSUME NEW w \in Workers, NEW r \in Reminders, NEW wanted \in BOOLEAN,
             PrepareIf(w, r, wanted)
      PROVE  Moves(dStatus[d], dStatus'[d])
  BY <1>3 DEF PrepareIf, Moves
<1>4. ASSUME NEW w \in Workers, NEW e \in Deliveries, Claim(w, e)
      PROVE  Moves(dStatus[d], dStatus'[d])
  BY <1>4 DEF Claim, Claimable, Moves, Typed, TypeOK
<1>5. ASSUME NEW w \in Workers, CompleteDelivery(w)
      PROVE  Moves(dStatus[d], dStatus'[d])
  BY <1>5 DEF CompleteDelivery, Mine, Moves, Typed, TypeOK
<1>6. ASSUME Outside PROVE Moves(dStatus[d], dStatus'[d])
  BY <1>6 DEF Outside, Moves, DeliveryState
<1>7. ASSUME NEW w \in Workers,
             \/ StartBatch(w) \/ (\E ready \in SUBSET Reminders : ListThose(w, ready)) \/ ListQueue(w) \/ (\E silenced \in BOOLEAN : ReadUnless(w, silenced))
             \/ SendAccepted(w) \/ SendFailed(w) \/ SendSuppressed(w)
             \/ EndBatch(w) \/ Crash(w)
      PROVE  Moves(dStatus[d], dStatus'[d])
  BY <1>7 DEF StartBatch, ListThose, ListQueue, ReadUnless, SendAccepted, SendFailed,
              SendSuppressed, SendReturns, EndBatch, Crash, deliveryVars, Moves
<1>8. QED
  BY <1>1, <1>2, <1>3, <1>4, <1>5, <1>6, <1>7 DEF AnyNext, AnyStep, CommonStep

\* A settled delivery is never reopened or relabelled.
THEOREM AnySettlement == AnySpec => SettledIsFinal
<1>1. Typed /\ [AnyNext]_vars =>
         \A d \in Deliveries : dStatus[d] \in Settled => dStatus'[d] = dStatus[d]
  BY StatusMoves DEF Moves, Settled
<1>2. QED
  BY <1>1, TypedAlways, PTL DEF AnySpec, SettledIsFinal

-----------------------------------------------------------------------------
(* The refinement of MailLedger                                            *)

\* Deliveries that leave the open states together, all the same way, settle.
LEMMA SettleStep ==
    ASSUME Typed, Typed', NEW S \in SUBSET Deliveries, NEW s \in Settled,
           UNCHANGED accepted,
           \A d \in S : /\ dStatus[d] \notin Settled /\ dStatus'[d] = s
                        /\ s = "SENT" => accepted[d] = 1
                        /\ s = "FAILED" => accepted[d] = 0,
           \A d \in Deliveries \ S :
                        LedgerVerdict(dStatus'[d]) = LedgerVerdict(dStatus[d])
    PROVE  Ledger!LedgerNext
<1>1. LedgerVerdict(s) \in Ledger!Verdicts \ {"open"}
  BY DEF LedgerVerdict, Settled, Ledger!Verdicts
<1>2. \A d \in S : /\ LedgerVerdict(dStatus[d]) = "open"
                   /\ LedgerVerdict(s) = "delivered" => accepted[d] = 1
                   /\ LedgerVerdict(s) = "refused" => accepted[d] = 0
  BY DEF LedgerVerdict, Settled
<1>3. Ledger!Settle(S, LedgerVerdict(s))
  BY <1>2 DEF Ledger!Settle
<1>4. QED
  BY <1>1, <1>3 DEF Ledger!LedgerNext

\* Any step that mails nothing and settles nothing is a stutter.
LEMMA LedgerStutter ==
    ASSUME UNCHANGED accepted,
           \A d \in Deliveries : LedgerVerdict(dStatus'[d]) = LedgerVerdict(dStatus[d])
    PROVE  UNCHANGED <<[d \in Deliveries |-> LedgerVerdict(dStatus[d])], accepted>>
OBVIOUS

\* Every step of the program is a step of the ledger, or a stutter.
LEMMA LedgerStep ==
    ASSUME Typed, Typed', MailInv, [AnyNext]_vars
    PROVE  \/ Ledger!LedgerNext
           \/ UNCHANGED <<[d \in Deliveries |-> LedgerVerdict(dStatus[d])], accepted>>
<1> DEFINE Stutter ==
        UNCHANGED <<[d \in Deliveries |-> LedgerVerdict(dStatus[d])], accepted>>
<1>1. CASE UNCHANGED <<dStatus, accepted>>
  BY <1>1
<1>2. ASSUME NEW w \in Workers, NEW d \in Deliveries, NEW i \in BOOLEAN,
             i => dStatus[d] = "PROCESSING", RecoverIf(w, d, i)
      PROVE  Ledger!LedgerNext \/ Stutter
  <2>1. UNCHANGED accepted
    BY <1>2 DEF RecoverIf, mailVars
  <2>2. CASE i
    <3>1. /\ dStatus[d] = "PROCESSING" /\ dStatus'[d] = "UNCERTAIN"
          /\ \A e \in Deliveries \ {d} : dStatus'[e] = dStatus[e]
      BY <1>2, <2>2 DEF RecoverIf, Typed, TypeOK
    <3>2. QED
      BY <2>1, <3>1, SettleStep, {d} \in SUBSET Deliveries DEF Settled
  <2>3. CASE ~i
    BY <1>2, <2>1, <2>3 DEF RecoverIf
  <2>4. QED
    BY <2>2, <2>3
<1>3. ASSUME NEW w \in Workers, NEW r \in Reminders, NEW wanted \in BOOLEAN,
             PrepareIf(w, r, wanted)
      PROVE  Stutter
  <2>1. \A d \in Deliveries : \/ dStatus'[d] = dStatus[d]
                              \/ dStatus[d] = "ABSENT" /\ dStatus'[d] = "PENDING"
    BY <1>3 DEF PrepareIf
  <2>2. UNCHANGED accepted
    BY <1>3 DEF PrepareIf, mailVars
  <2>3. QED
    BY <2>1, <2>2, LedgerStutter DEF LedgerVerdict
<1>4. ASSUME NEW w \in Workers, NEW d \in Deliveries, Claim(w, d)
      PROVE  Stutter
  <2>1. \A e \in Deliveries : \/ dStatus'[e] = dStatus[e]
                              \/ dStatus[e] = "PENDING" /\ dStatus'[e] = "PROCESSING"
    BY <1>4 DEF Claim, Claimable, Typed, TypeOK
  <2>2. UNCHANGED accepted
    BY <1>4 DEF Claim, mailVars
  <2>3. QED
    BY <2>1, <2>2, LedgerStutter DEF LedgerVerdict
<1>5. ASSUME NEW w \in Workers, SendAccepted(w) PROVE Ledger!LedgerNext
  <2> DEFINE d == job[w]
  <2>1. /\ pc[w] = "sending" /\ UNCHANGED dStatus
        /\ accepted' = [accepted EXCEPT ![d] = @ + 1]
    BY <1>5 DEF SendAccepted, SendReturns, Goto, deliveryVars
  <2>2. /\ d \in Deliveries /\ accepted[d] = 0
        /\ dStatus[d] \in {"PROCESSING", "UNCERTAIN", "CANCELLED"}
    BY <2>1 DEF MailInv, KnowsTruth, Held, Active, Typed, JobHeld
  <2>3. accepted' = [accepted EXCEPT ![d] = 1]
    BY <2>1, <2>2 DEF Typed, TypeOK
  <2>4. LedgerVerdict(dStatus[d]) \notin {"delivered", "refused"}
    BY <2>2 DEF LedgerVerdict
  <2>5. Ledger!Send(d)
    BY <2>1, <2>2, <2>3, <2>4 DEF Ledger!Send
  <2>6. QED
    BY <2>2, <2>5 DEF Ledger!LedgerNext
<1>6. ASSUME NEW w \in Workers, CompleteDelivery(w)
      PROVE  Ledger!LedgerNext \/ Stutter
  <2> DEFINE d == job[w]
             s == data[w].status
  <2>1. /\ d \in Deliveries /\ pc[w] = "complete" /\ UNCHANGED accepted
        /\ s \in DeliveryState \ {"PROCESSING"}
    BY <1>6 DEF CompleteDelivery, Goto, mailVars, Typed, TypeOK, JobHeld, Active
  <2>2. CASE ~Mine(w)
    BY <1>6, <2>1, <2>2 DEF CompleteDelivery
  <2>3. CASE Mine(w)
    <3>1. /\ dStatus[d] = "PROCESSING" /\ dStatus'[d] = s
          /\ \A e \in Deliveries \ {d} : dStatus'[e] = dStatus[e]
      BY <1>6, <2>1, <2>3 DEF CompleteDelivery, Mine, Typed, TypeOK
    <3>2. /\ s = "SENT" => accepted[d] = 1
          /\ s = "FAILED" => accepted[d] = 0
      BY <2>1 DEF MailInv, KnowsTruth
    <3>3. CASE s = "PENDING"
      BY <2>1, <3>1, <3>3, LedgerStutter DEF LedgerVerdict
    <3>4. CASE s # "PENDING"
      <4>1. s \in Settled
        BY <2>1, <3>4 DEF Settled, DeliveryState
      <4>2. {d} \in SUBSET Deliveries /\ dStatus[d] \notin Settled
        BY <2>1, <3>1 DEF Settled
      <4>3. QED
        BY <2>1, <3>1, <3>2, <4>1, <4>2, SettleStep
    <3>5. QED
      BY <3>3, <3>4
  <2>4. QED
    BY <2>2, <2>3
<1>7. ASSUME Outside PROVE Ledger!LedgerNext
  <2> DEFINE S == {d \in Deliveries : dStatus'[d] # dStatus[d]}
  <2>1. /\ UNCHANGED accepted
        /\ \A d \in S : dStatus[d] \notin Settled /\ dStatus'[d] = "CANCELLED"
        /\ \A d \in Deliveries \ S : dStatus'[d] = dStatus[d]
    BY <1>7 DEF Outside, mailVars, Settled
  <2>2. "CANCELLED" \in Settled /\ S \in SUBSET Deliveries
    BY DEF Settled
  <2>3. QED
    BY <2>1, <2>2, SettleStep
<1>8. ASSUME NEW w \in Workers,
             \/ StartBatch(w) \/ (\E ready \in SUBSET Reminders : ListThose(w, ready)) \/ ListQueue(w) \/ (\E silenced \in BOOLEAN : ReadUnless(w, silenced))
             \/ SendFailed(w) \/ SendSuppressed(w) \/ EndBatch(w) \/ Crash(w)
      PROVE  UNCHANGED <<dStatus, accepted>>
  BY <1>8 DEF StartBatch, ListThose, ListQueue, ReadUnless, SendFailed,
              SendSuppressed, SendReturns, EndBatch, Crash, deliveryVars, mailVars
<1>9. CASE UNCHANGED vars
  BY <1>9 DEF vars, deliveryVars, mailVars
<1>10. QED
  BY <1>1, <1>2, <1>3, <1>4, <1>5, <1>6, <1>7, <1>8, <1>9
  DEF AnyNext, AnyStep, CommonStep

\* The worker, its crashes, retries and races implement the ledger.
THEOREM AnyRefinement == AnySpec => ImplementsLedger
<1>1. Init => Ledger!LedgerInit
  BY DEF Init, Ledger!LedgerInit, LedgerVerdict
<1>2. Typed /\ Typed' /\ MailInv /\ [AnyNext]_vars
         => [Ledger!LedgerNext]_<<[d \in Deliveries |-> LedgerVerdict(dStatus[d])],
                                  accepted>>
  BY LedgerStep
<1>3. QED
  BY <1>1, <1>2, MailSafe, PTL DEF AnySpec, ImplementsLedger, Ledger!LedgerSpec

-----------------------------------------------------------------------------
(* At most three attempts                                                  *)

\* Attempts are counted before the transport is called, and given back only
\* when it was not: for what a worker holds,
AttemptsBound(w) ==
    /\ pc[w] \in {"claimed", "sending"} =>
          submitted[job[w]] + 1 <= attempts[job[w]]
    /\ pc[w] = "sending" => tried[w] = attempts[job[w]]
    /\ pc[w] = "complete" =>
          /\ submitted[job[w]] + data[w].giveBack <= attempts[job[w]]
          /\ data[w].status = "PENDING" =>
                attempts[job[w]] - data[w].giveBack < MaxAttempts

\* and for a delivery, held or not.
AttemptsCounted(d) ==
    /\ submitted[d] <= attempts[d]
    /\ attempts[d] <= MaxAttempts
    /\ dStatus[d] \in {"ABSENT", "PENDING"} => attempts[d] < MaxAttempts

AttemptInv ==
    /\ \A d \in Deliveries : AttemptsCounted(d)
    /\ \A w \in Workers : AttemptsBound(w)

\* Steps that count nothing and leave active workers where they are.
LEMMA BystanderKeepsAttempts ==
    ASSUME Typed, AttemptInv, UNCHANGED <<attempts, submitted>>,
           \A v \in Workers : Active(v)' =>
               /\ pc'[v] = pc[v] /\ job'[v] = job[v]
               /\ data'[v] = data[v] /\ tried'[v] = tried[v],
           \A d \in Deliveries : dStatus'[d] \in {"ABSENT", "PENDING"} =>
               dStatus[d] \in {"ABSENT", "PENDING"}
    PROVE  AttemptInv'
<1>1. ASSUME NEW d \in Deliveries PROVE AttemptsCounted(d)'
  BY DEF AttemptInv, AttemptsCounted
<1>2. ASSUME NEW v \in Workers PROVE AttemptsBound(v)'
  BY DEF AttemptInv, AttemptsBound, Active
<1>3. QED
  BY <1>1, <1>2 DEF AttemptInv

\* A call of the transport ends: it was counted (and then gives nothing back)
\* or it never took place.
LEMMA SendKeepsAttempts ==
    ASSUME Typed, MailInv, AttemptInv, NEW w \in Workers, NEW v \in VerdictType,
           SendReturns(w, v),
           \/ v.giveBack = 0 /\ submitted' = [submitted EXCEPT ![job[w]] = @ + 1]
           \/ UNCHANGED submitted,
           v.status = "PENDING" => attempts[job[w]] - v.giveBack < MaxAttempts
    PROVE  AttemptInv'
<1> DEFINE d == job[w]
<1>1. /\ pc[w] = "sending" /\ d \in Deliveries
      /\ submitted \in [Deliveries -> Nat] /\ attempts \in [Deliveries -> Nat]
      /\ submitted[d] + 1 <= attempts[d]
      /\ v.giveBack \in 0 .. 1
  BY DEF SendReturns, Goto, Typed, TypeOK, JobHeld, Active, AttemptInv, AttemptsBound,
         VerdictType
<1>2. /\ pc'[w] = "complete" /\ data'[w] = v
      /\ \A u \in Workers \ {w} : pc'[u] = pc[u] /\ data'[u] = data[u]
      /\ UNCHANGED <<job, dStatus, attempts, tried>>
  BY DEF SendReturns, Goto, deliveryVars, Typed, TypeOK
<1>3. /\ submitted'[d] + v.giveBack <= attempts[d]
      /\ submitted'[d] <= attempts[d]
      /\ \A e \in Deliveries \ {d} : submitted'[e] = submitted[e]
  BY <1>1
<1>4. ASSUME NEW e \in Deliveries PROVE AttemptsCounted(e)'
  BY <1>2, <1>3 DEF AttemptInv, AttemptsCounted
<1>5. ASSUME NEW u \in Workers PROVE AttemptsBound(u)'
  <2>1. CASE u = w
    BY <1>2, <1>3, <2>1 DEF AttemptsBound
  <2>2. CASE u # w /\ Active(u)
    <3>1. job[u] # d /\ job[u] \in Deliveries
      BY <1>1, <2>2 DEF MailInv, OneHolder, Active, Typed, JobHeld
    <3>2. QED
      BY <1>2, <1>3, <2>2, <3>1 DEF AttemptInv, AttemptsBound
  <2>3. CASE u # w /\ ~Active(u)
    BY <1>2, <2>3 DEF AttemptsBound, Active
  <2>4. QED
    BY <2>1, <2>2, <2>3
<1>6. QED
  BY <1>4, <1>5 DEF AttemptInv

\* One step per action that counts, gives back, or moves a worker that holds a
\* delivery; the others are bystanders.
LEMMA AttemptStep ==
    ASSUME Typed, Typed', MailInv, AttemptInv, [AnyNext]_vars PROVE AttemptInv'
<1>1. ASSUME NEW w \in Workers, NEW d \in Deliveries, Claim(w, d)
      PROVE  AttemptInv'
  <2>1. CASE ~Claimable(d, clock)
    BY <1>1, <2>1, BystanderKeepsAttempts DEF Claim, mailVars, Active
  <2>2. CASE Claimable(d, clock)
    <3>1. /\ dStatus[d] = "PENDING" /\ pc[w] = "queue"
          /\ \A v \in Workers : Active(v) => job[v] # d
      BY <1>1, <2>2 DEF Claim, Claimable, MailInv, Held
    <3>2. /\ dStatus'[d] = "PROCESSING" /\ attempts'[d] = attempts[d] + 1
          /\ \A e \in Deliveries \ {d} : /\ dStatus'[e] = dStatus[e]
                                         /\ attempts'[e] = attempts[e]
          /\ pc'[w] = "claimed" /\ job'[w] = d
          /\ \A v \in Workers \ {w} : pc'[v] = pc[v] /\ job'[v] = job[v]
          /\ UNCHANGED <<data, tried, submitted>>
      BY <1>1, <2>2 DEF Claim, CountAttempt, mailVars, Typed, TypeOK
    <3>3. attempts[d] \in Nat /\ submitted[d] \in Nat
      BY DEF Typed, TypeOK
    <3>4. ASSUME NEW e \in Deliveries PROVE AttemptsCounted(e)'
      BY <3>1, <3>2, <3>3 DEF AttemptInv, AttemptsCounted, MaxAttempts
    <3>5. ASSUME NEW v \in Workers PROVE AttemptsBound(v)'
      <4>1. CASE v = w
        BY <3>2, <3>3, <4>1 DEF AttemptInv, AttemptsBound, AttemptsCounted
      <4>2. CASE v # w /\ Active(v)
        <5>1. job[v] \in Deliveries \ {d}
          BY <3>1, <4>2 DEF Typed, JobHeld
        <5>2. QED
          BY <3>2, <4>2, <5>1 DEF AttemptInv, AttemptsBound
      <4>3. CASE v # w /\ ~Active(v)
        BY <3>2, <4>3 DEF AttemptsBound, Active
      <4>4. QED
        BY <4>1, <4>2, <4>3
    <3>6. QED
      BY <3>4, <3>5 DEF AttemptInv
  <2>3. QED
    BY <2>1, <2>2
<1>2. ASSUME NEW w \in Workers, \E silenced \in BOOLEAN : ReadUnless(w, silenced) PROVE AttemptInv'
  <2> DEFINE d == job[w]
  <2>1. /\ pc[w] = "claimed" /\ d \in Deliveries
        /\ attempts[d] \in Nat /\ submitted[d] \in Nat
        /\ submitted[d] + 1 <= attempts[d] /\ attempts[d] <= MaxAttempts
    BY <1>2 DEF ReadUnless, Typed, TypeOK, JobHeld, Active, AttemptInv,
         AttemptsBound, AttemptsCounted
  <2>2. /\ \/ /\ pc'[w] = "complete"
              /\ \/ data'[w] = Verdict("CANCELLED", 0, 0)
                 \/ data'[w] = Verdict("PENDING", 1, PrepareWait)
           \/ pc'[w] = "sending"
        /\ tried'[w] = attempts[d]
        /\ \A v \in Workers \ {w} :
              pc'[v] = pc[v] /\ data'[v] = data[v] /\ tried'[v] = tried[v]
        /\ UNCHANGED <<job, dStatus, attempts, submitted>>
    BY <1>2 DEF ReadUnless, deliveryVars, mailVars, Typed, TypeOK
  <2>3. ASSUME NEW e \in Deliveries PROVE AttemptsCounted(e)'
    BY <2>2 DEF AttemptInv, AttemptsCounted
  <2>4. ASSUME NEW v \in Workers PROVE AttemptsBound(v)'
    BY <2>1, <2>2 DEF AttemptInv, AttemptsBound, Verdict, MaxAttempts
  <2>5. QED
    BY <2>3, <2>4 DEF AttemptInv
<1>3. ASSUME NEW w \in Workers, SendAccepted(w) \/ SendFailed(w) PROVE AttemptInv'
  <2>1. /\ pc[w] = "sending" /\ job[w] \in Deliveries
        /\ tried[w] = attempts[job[w]] /\ tried[w] \in Nat
    BY <1>3 DEF SendAccepted, SendFailed, SendReturns, Goto, Typed, TypeOK, JobHeld,
         Active, AttemptInv, AttemptsBound
  <2>2. submitted' = [submitted EXCEPT ![job[w]] = @ + 1]
    BY <1>3 DEF SendAccepted, SendFailed
  <2>3. /\ Verdict("SENT", 0, 0) \in VerdictType
        /\ Verdict("SENT", 0, 0).giveBack = 0 /\ Verdict("SENT", 0, 0).status = "SENT"
    BY VerdictTyped DEF DeliveryState, Verdict
  <2>4. \A error \in SmtpError :
          LET v == ReminderFailureDecision(error, tried[w])
          IN  /\ v \in VerdictType /\ v.giveBack = 0
              /\ v.status = "PENDING" => tried[w] < MaxAttempts
    BY <2>1, DecisionType DEF VerdictType, ReminderFailureDecision, Verdict
  <2>5. LateErrors \subseteq SmtpError
    BY TransportAssumption DEF SmtpError
  <2>6. PICK v \in VerdictType :
            /\ SendReturns(w, v) /\ v.giveBack = 0
            /\ v.status = "PENDING" => tried[w] < MaxAttempts
    BY <1>3, <2>3, <2>4, <2>5 DEF SendAccepted, SendFailed
  <2>7. v.status = "PENDING" => attempts[job[w]] - v.giveBack < MaxAttempts
    BY <2>1, <2>6
  <2>8. QED
    BY <2>2, <2>6, <2>7, SendKeepsAttempts
<1>4. ASSUME NEW w \in Workers, SendSuppressed(w) PROVE AttemptInv'
  <2>1. PICK k \in Deferrals : SendReturns(w, Verdict("PENDING", 1, k))
    BY <1>4 DEF SendSuppressed
  <2>2. /\ Verdict("PENDING", 1, k) \in VerdictType
        /\ Verdict("PENDING", 1, k).giveBack = 1
    BY VerdictTyped, DeliveryAssumption DEF DeliveryState, Verdict
  <2>3. /\ job[w] \in Deliveries
        /\ attempts[job[w]] \in Nat /\ attempts[job[w]] <= MaxAttempts
    BY <2>1 DEF SendReturns, Goto, Typed, TypeOK, JobHeld, Active, AttemptInv,
         AttemptsCounted
  <2>4. attempts[job[w]] - 1 < MaxAttempts
    BY <2>3 DEF MaxAttempts
  <2>5. UNCHANGED submitted
    BY <1>4 DEF SendSuppressed, mailVars
  <2>6. QED
    BY <2>1, <2>2, <2>4, <2>5, SendKeepsAttempts
<1>5. ASSUME NEW w \in Workers, CompleteDelivery(w) PROVE AttemptInv'
  <2> DEFINE d == job[w]
  <2>1. /\ pc[w] = "complete" /\ d \in Deliveries
        /\ attempts[d] \in Nat /\ submitted[d] \in Nat
        /\ data[w].giveBack \in 0 .. 1
        /\ data[w].status \in DeliveryState
    BY <1>5 DEF CompleteDelivery, Goto, Typed, TypeOK, JobHeld, Active
  <2>2. /\ pc'[w] = "queue"
        /\ \A v \in Workers \ {w} : /\ pc'[v] = pc[v] /\ job'[v] = job[v]
                                    /\ data'[v] = data[v] /\ tried'[v] = tried[v]
        /\ UNCHANGED submitted
    BY <1>5 DEF CompleteDelivery, Goto, mailVars, Typed, TypeOK
  <2>3. CASE ~Mine(w)
    <3>1. UNCHANGED <<attempts, dStatus>>
      BY <1>5, <2>3 DEF CompleteDelivery
    <3>2. QED
      BY <2>2, <3>1, BystanderKeepsAttempts DEF Active
  <2>4. CASE Mine(w)
    <3>1. /\ attempts'[d] = attempts[d] - data[w].giveBack
          /\ dStatus'[d] = data[w].status
          /\ \A e \in Deliveries \ {d} : /\ attempts'[e] = attempts[e]
                                         /\ dStatus'[e] = dStatus[e]
      BY <1>5, <2>1, <2>4 DEF CompleteDelivery, Typed, TypeOK
    <3>2. AttemptsBound(w) /\ AttemptsCounted(d)
      BY <2>1 DEF AttemptInv
    <3>3. ASSUME NEW e \in Deliveries PROVE AttemptsCounted(e)'
      <4>1. CASE e = d
        BY <2>1, <2>2, <3>1, <3>2, <4>1
        DEF AttemptsBound, AttemptsCounted, DeliveryState, MaxAttempts
      <4>2. CASE e # d
        BY <2>2, <3>1, <4>2 DEF AttemptInv, AttemptsCounted
      <4>3. QED
        BY <4>1, <4>2
    <3>4. ASSUME NEW v \in Workers PROVE AttemptsBound(v)'
      <4>1. CASE v # w /\ Active(v)
        <5>1. job[v] \in Deliveries \ {d}
          BY <2>1, <4>1 DEF MailInv, OneHolder, Active, Typed, JobHeld
        <5>2. QED
          BY <2>2, <3>1, <4>1, <5>1 DEF AttemptInv, AttemptsBound
      <4>2. CASE v = w \/ ~Active(v)
        BY <2>2, <4>2 DEF AttemptsBound, Active
      <4>3. QED
        BY <4>1, <4>2
    <3>5. QED
      BY <3>3, <3>4 DEF AttemptInv
  <2>5. QED
    BY <2>3, <2>4
<1>6. ASSUME NEW w \in Workers,
             \/ StartBatch(w) \/ (\E ready \in SUBSET Reminders : ListThose(w, ready)) \/ ListQueue(w) \/ EndBatch(w) \/ Crash(w)
      PROVE  AttemptInv'
  BY <1>6, BystanderKeepsAttempts DEF StartBatch, ListThose, ListQueue, EndBatch, Crash,
     Goto, Active, deliveryVars, jobVars, mailVars, Typed, TypeOK
<1>7. ASSUME NEW w \in Workers, NEW d \in Deliveries, NEW i \in BOOLEAN,
             i => dStatus[d] = "PROCESSING", RecoverIf(w, d, i)
      PROVE  AttemptInv'
  BY <1>7, BystanderKeepsAttempts DEF RecoverIf, Active, jobVars, mailVars,
     Typed, TypeOK
<1>8. ASSUME NEW w \in Workers, NEW r \in Reminders, NEW wanted \in BOOLEAN,
             PrepareIf(w, r, wanted)
      PROVE  AttemptInv'
  <2>1. \A d \in Deliveries : \/ dStatus'[d] = dStatus[d]
                              \/ dStatus[d] = "ABSENT" /\ dStatus'[d] = "PENDING"
    BY <1>8 DEF PrepareIf
  <2>2. QED
    BY <1>8, <2>1, BystanderKeepsAttempts DEF PrepareIf, Active, jobVars, mailVars
<1>9. CASE Outside
  BY <1>9, BystanderKeepsAttempts DEF Outside, Active, jobVars, mailVars
<1>10. CASE UNCHANGED vars
  BY <1>10, BystanderKeepsAttempts DEF Active, vars, deliveryVars, jobVars, mailVars
<1>11. QED
  BY <1>1, <1>2, <1>3, <1>4, <1>5, <1>6, <1>7, <1>8, <1>9, <1>10
  DEF AnyNext, AnyStep, CommonStep

\* However retries and deferrals alternate, the transport is called at most
\* three times for a delivery.
THEOREM AnyThreeAttempts == AnySpec => []AtMostThreeAttempts
<1>1. Init => AttemptInv
  BY DEF Init, AttemptInv, AttemptsCounted, AttemptsBound, MaxAttempts
<1>2. Typed /\ Typed' /\ MailInv /\ AttemptInv /\ [AnyNext]_vars => AttemptInv'
  BY AttemptStep
<1>3. Typed /\ AttemptInv => AtMostThreeAttempts
  BY DEF Typed, TypeOK, AttemptInv, AttemptsCounted, AtMostThreeAttempts, MaxAttempts
<1>4. QED
  BY <1>1, <1>2, <1>3, MailSafe, PTL DEF AnySpec
=============================================================================
