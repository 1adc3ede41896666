------------------------ MODULE SoftDeletedDelivery ------------------------
(***************************************************************************)
(* What the insurance and the general worker add to DeliveryWorker: a row  *)
(* is deleted by setting deletedAt and its deliveries are left as they     *)
(* are, so that only what the worker reads after its claim keeps a queued  *)
(* delivery of a deleted row from being mailed.                            *)
(***************************************************************************)
EXTENDS DeliveryWorker

VARIABLES
    deleted,       \* rows with deletedAt set
    buried         \* history: deliveries not in a worker's hands, or not yet
                   \* made, when their row was deleted

softVars == <<deleted, buried>>
allVars  == <<vars, softVars>>

SoftInit == Init /\ deleted = {} /\ buried = {}

ListLive(w) ==
    ListThose(w, {r \in Reminders \ deleted : Preparable(r, now[w])})

PrepareLive(w, r) == PrepareIf(w, r, r \notin deleted /\ Preparable(r, now[w]))

ReadBlindly(w) == ReadUnless(w, Silenced(job[w]))                     \* mutant
ReadAllowedFirst(w) ==                                                \* mutant
    ReadUnless(w, job[w][2] \in allowed
                  /\ (Silenced(job[w]) \/ job[w][1] \in deleted))
ReadLive(w) == ReadUnless(w, Silenced(job[w]) \/ job[w][1] \in deleted)

\* A batch, except its recovery.
BatchStep(w) ==
    \/ CommonStep(w)
    \/ ListLive(w)
    \/ \E r \in Reminders : PrepareLive(w, r)
    \/ ReadLive(w)

-----------------------------------------------------------------------------

\* A row for a time t; preparation looks at it from now on.
AddRow(r) ==
    /\ ~archived /\ rStatus[r] = "ABSENT"
    /\ rStatus' = [rStatus EXCEPT ![r] = "PENDING"]
    /\ \E t \in clock .. clock + MaxLead : dueAt' = [dueAt EXCEPT ![r] = t]
    /\ nextPrep' = [nextPrep EXCEPT ![r] = clock]
    /\ UNCHANGED <<clock, events, envVars, prepared, deliveryVars,
                   pc, scanVars, jobVars, mailVars, softVars>>

EditRow(r) ==
    /\ ~archived /\ r \notin deleted
    /\ rStatus[r] = "PENDING" /\ ~prepared[r]
    /\ events < MaxEvents /\ events' = events + 1
    /\ \E t \in clock .. clock + MaxLead : dueAt' = [dueAt EXCEPT ![r] = t]
    /\ nextPrep' = [nextPrep EXCEPT ![r] = clock]
    /\ UNCHANGED <<clock, envVars, rStatus, prepared, deliveryVars,
                   pc, scanVars, jobVars, mailVars, softVars>>

Existing == {r \in Reminders \ deleted : rStatus[r] # "ABSENT"}

\* deletedAt is set on these rows; no delivery is touched.
Bury(rows) ==
    /\ deleted' = deleted \cup rows
    /\ buried' = buried \cup
          {d \in rows \X Admins : dStatus[d] \in {"ABSENT", "PENDING"}}

-----------------------------------------------------------------------------

\* A delivery that was queued, or not even prepared, when its row was deleted
\* is never mailed, whatever lists workers had read by then.
BuriedIsNeverMailed == \A d \in buried : accepted[d] = 0
=============================================================================
