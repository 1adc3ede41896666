-------------------------- MODULE ReminderDelivery --------------------------
(***************************************************************************)
(* The enforcement-case reminder worker, apps/web/src/lib/reminder-        *)
(* delivery.ts, next to the users who add, edit and delete reminders,      *)
(* archive and restore the case, and next to administrators who lose and   *)
(* regain eligibility.                                                     *)
(***************************************************************************)
EXTENDS DeliveryWorker

-----------------------------------------------------------------------------
(* The worker                                                              *)

\* Recovery asks again whether the claim is older than ten minutes.
RecoverStale(w, d) == RecoverIf(w, d, StillInterrupted(d, now[w]))

ListDue(w) == ListThose(w, {r \in Reminders : Preparable(r, now[w])})

\* Every guard of the list again, under the reminder's row lock.
PrepareReminder(w, r) == PrepareIf(w, r, Preparable(r, now[w]))

ReadDelivery(w) == ReadUnless(w, Silenced(job[w]))

WorkerStep(w) ==
    \/ CommonStep(w)
    \/ \E d \in Deliveries : RecoverStale(w, d)
    \/ ListDue(w)
    \/ \E r \in Reminders : PrepareReminder(w, r)
    \/ ReadDelivery(w)

-----------------------------------------------------------------------------
(* Users                                                                   *)

AddCaseReminder(r) ==
    /\ ~archived /\ rStatus[r] = "ABSENT"
    /\ rStatus' = [rStatus EXCEPT ![r] = "PENDING"]
    /\ \E t \in clock .. clock + MaxLead :
          /\ dueAt' = [dueAt EXCEPT ![r] = t]
          /\ nextPrep' = [nextPrep EXCEPT ![r] = Later(t, clock)]
    /\ UNCHANGED <<clock, events, envVars, prepared, deliveryVars,
                   pc, scanVars, jobVars, mailVars>>

EditableWhenPrepared(r) == ~archived /\ rStatus[r] = "PENDING"         \* mutant
Editable(r) == ~archived /\ rStatus[r] = "PENDING" /\ ~prepared[r]

\* Only an unprepared pending reminder may be edited.
UpdateCaseReminder(r) ==
    /\ Editable(r)
    /\ events < MaxEvents /\ events' = events + 1
    /\ \E t \in clock .. clock + MaxLead :
          /\ dueAt' = [dueAt EXCEPT ![r] = t]
          /\ nextPrep' = [nextPrep EXCEPT ![r] = Later(t, clock)]
    /\ UNCHANGED <<clock, envVars, rStatus, prepared, deliveryVars,
                   pc, scanVars, jobVars, mailVars>>

Open == {"PENDING", "PROCESSING"}

\* The reminder and its open deliveries, claimed ones included, are cancelled.
DeleteCaseReminder(r) ==
    /\ ~archived /\ rStatus[r] \notin {"ABSENT", "CANCELLED"}
    /\ events < MaxEvents /\ events' = events + 1
    /\ rStatus' = [rStatus EXCEPT ![r] = "CANCELLED"]
    /\ dStatus' = [d \in Deliveries |->
                      IF d[1] = r /\ dStatus[d] \in Open
                      THEN "CANCELLED" ELSE dStatus[d]]
    /\ UNCHANGED <<clock, envVars, dueAt, nextPrep, prepared,
                   attempts, startedAt, nextAttemptAt,
                   pc, scanVars, jobVars, mailVars>>

-----------------------------------------------------------------------------

UserStep ==
    \E r \in Reminders :
        AddCaseReminder(r) \/ UpdateCaseReminder(r) \/ DeleteCaseReminder(r)

Next ==
    \/ \E w \in Workers : WorkerStep(w) \/ Crash(w)
    \/ UserStep
    \/ EnvironmentStep
    \/ Tick

Spec == Init /\ [][Next]_vars

-----------------------------------------------------------------------------
(* What deletion promises                                                  *)

\* A cancelled reminder has no delivery left that a worker would pick up, nor
\* can a worker that was busy when it was cancelled put one back in the queue.
CancelledIsQuiet ==
    \A d \in Deliveries :
        rStatus[d[1]] = "CANCELLED" => dStatus[d] \notin {"PENDING", "PROCESSING"}

\* REMINDER-EMAIL.md:15: "A timeout after message submission, a worker crash,
\* or another uncertain outcome is marked UNCERTAIN".  So a delivery whose
\* worker closes it not knowing whether the mail left must be UNCERTAIN then.
DoubtIsRecorded ==
    [][\A w \in Workers :
          pc[w] = "complete" /\ data[w].status = "UNCERTAIN" /\ pc'[w] = "queue"
              => dStatus'[job[w]] = "UNCERTAIN"]_vars
=============================================================================
