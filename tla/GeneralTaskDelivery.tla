------------------------ MODULE GeneralTaskDelivery ------------------------
(***************************************************************************)
(* The general task worker, apps/web/src/lib/general-task-delivery.ts,     *)
(* next to the users of general-legal-cases/activity-service.ts and of the *)
(* case form, general-legal-cases/update.ts.                               *)
(*                                                                         *)
(* PLANNED, a status of older rows that every guard treats as PENDING and  *)
(* preparation replaces by it, is PENDING here.                            *)
(***************************************************************************)
EXTENDS SoftDeletedDelivery

\* Mutant: an interrupted claim goes back to the queue.

\* Recovery does not ask again how old the claim is.
RecoverTask(w, d) ==
    /\ RecoverIf(w, d, dStatus[d] = "PROCESSING")
    /\ UNCHANGED softVars

AddGeneralCaseTask(r) == AddRow(r)

UpdateGeneralCaseTask(r) == EditRow(r)

DeleteGeneralCaseTask(r) ==
    /\ ~archived /\ r \in Existing
    /\ events < MaxEvents /\ events' = events + 1
    /\ rStatus' = [rStatus EXCEPT ![r] = "CANCELLED"]
    /\ Bury({r})
    /\ UNCHANGED <<clock, envVars, dueAt, nextPrep, prepared, deliveryVars,
                   pc, scanVars, jobVars, mailVars>>

\* Saving the case form deletes every task of the case, keeping its status, and
\* creates those of the form anew.  (Bound: the new ones share one time.)
UpdateGeneralLegalCase(fresh) ==
    /\ ~archived
    /\ events < MaxEvents /\ events' = events + 1
    /\ Bury(Existing)
    /\ rStatus' = [r \in Reminders |-> IF r \in fresh THEN "PENDING" ELSE rStatus[r]]
    /\ \E t \in clock .. clock + MaxLead :
          dueAt' = [r \in Reminders |-> IF r \in fresh THEN t ELSE dueAt[r]]
    /\ nextPrep' = [r \in Reminders |-> IF r \in fresh THEN clock ELSE nextPrep[r]]
    /\ UNCHANGED <<clock, envVars, prepared, deliveryVars,
                   pc, scanVars, jobVars, mailVars>>

GeneralUserStep ==
    \/ \E r \in Reminders :
          \/ AddGeneralCaseTask(r)
          \/ UpdateGeneralCaseTask(r)
          \/ DeleteGeneralCaseTask(r)
    \/ \E fresh \in SUBSET {r \in Reminders : rStatus[r] = "ABSENT"} :
          UpdateGeneralLegalCase(fresh)

GeneralNext ==
    \/ \E w \in Workers :
          \/ (BatchStep(w) \/ Crash(w)) /\ UNCHANGED softVars
          \/ \E d \in Deliveries : RecoverTask(w, d)
    \/ GeneralUserStep
    \/ (EnvironmentStep \/ Tick) /\ UNCHANGED softVars

GeneralSpec == SoftInit /\ [][GeneralNext]_allVars

-----------------------------------------------------------------------------

\* REMINDER-EMAIL.md:17: "Definite temporary rejection is retried after 5 and 10
\* minutes, with at most three attempts total."  So a worker that was refused
\* for the first or second time, on a claim less than ten minutes old, leaves
\* the delivery in the queue when it closes it.
FreshRejectionIsRetried ==
    [][\A w \in Workers :
          pc[w] = "complete" /\ pc'[w] = "queue"
          /\ data[w].status = "PENDING" /\ data[w].giveBack = 0
          /\ clock < attemptNow[w] + StaleAfter
              => dStatus'[job[w]] = "PENDING"]_vars
=============================================================================
