------------------- MODULE InsuranceNotificationDelivery -------------------
(***************************************************************************)
(* The insurance notification worker, apps/web/src/lib/insurance-          *)
(* notification-delivery.ts, next to the users of insurance-arbitration/   *)
(* service.ts who add, edit and delete notifications.                      *)
(***************************************************************************)
EXTENDS SoftDeletedDelivery

RecoverNotification(w, d) ==
    /\ RecoverIf(w, d, StillInterrupted(d, now[w]))
    /\ UNCHANGED softVars

AddInsuranceNotification(r) == AddRow(r)

UpdateInsuranceNotification(r) == EditRow(r)

\* The status of the notification stays what it was.
DeleteInsuranceNotification(r) ==
    /\ ~archived /\ r \in Existing
    /\ events < MaxEvents /\ events' = events + 1
    /\ Bury({r})
    /\ UNCHANGED <<clock, envVars, reminderVars, deliveryVars,
                   pc, scanVars, jobVars, mailVars>>

InsuranceUserStep ==
    \E r \in Reminders :
        \/ AddInsuranceNotification(r)
        \/ UpdateInsuranceNotification(r)
        \/ DeleteInsuranceNotification(r)

InsuranceNext ==
    \/ \E w \in Workers :
          \/ (BatchStep(w) \/ Crash(w)) /\ UNCHANGED softVars
          \/ \E d \in Deliveries : RecoverNotification(w, d)
    \/ InsuranceUserStep
    \/ (EnvironmentStep \/ Tick) /\ UNCHANGED softVars

InsuranceSpec == SoftInit /\ [][InsuranceNext]_allVars
=============================================================================
