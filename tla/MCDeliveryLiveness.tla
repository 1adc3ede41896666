------------------------- MODULE MCDeliveryLiveness -------------------------
(***************************************************************************)
(* The enforcement and the general worker, one at a time, under the        *)
(* scheduling of scripts/send-reminders.ts: the loop polls every thirty    *)
(* seconds and a unit of the clock is five minutes, so the clock only      *)
(* moves once every worker has finished a batch it started at the present  *)
(* time.  Users act up to LastUserTime.                                    *)
(***************************************************************************)
EXTENDS GeneralTaskDelivery

CONSTANT LastUserTime

VARIABLES
    table,         \* whose worker this is
    lastPoll       \* when each worker last started a batch, plus one

Enforcement == INSTANCE ReminderDelivery

liveVars == <<allVars, table, lastPoll>>

LiveInit ==
    /\ SoftInit /\ lastPoll = [w \in Workers |-> 0]
    /\ table \in {"enforcement", "general"}

Poll(w) ==
    /\ lastPoll[w] # clock + 1
    /\ StartBatch(w) /\ UNCHANGED <<softVars, table>>
    /\ lastPoll' = [lastPoll EXCEPT ![w] = clock + 1]

Work(w) ==
    /\ pc[w] # "idle"
    /\ \/ table = "enforcement" /\ Enforcement!WorkerStep(w) /\ UNCHANGED softVars
       \/ table = "general" /\ BatchStep(w) /\ UNCHANGED softVars
       \/ table = "general" /\ \E d \in Deliveries : RecoverTask(w, d)
    /\ UNCHANGED <<table, lastPoll>>

Die(w) == Crash(w) /\ UNCHANGED <<softVars, table, lastPoll>>

UsersAct ==
    /\ clock <= LastUserTime
    /\ \/ table = "enforcement" /\ Enforcement!UserStep /\ UNCHANGED softVars
       \/ table = "general" /\ GeneralUserStep
       \/ EnvironmentStep /\ UNCHANGED softVars
    /\ UNCHANGED <<table, lastPoll>>

PromptTick ==
    /\ \A w \in Workers : pc[w] = "idle" /\ lastPoll[w] = clock + 1
    /\ Tick /\ UNCHANGED <<softVars, table, lastPoll>>

LiveNext ==
    \/ \E w \in Workers : Poll(w) \/ Work(w) \/ Die(w)
    \/ UsersAct
    \/ PromptTick

LiveSpec ==
    /\ LiveInit /\ [][LiveNext]_liveVars
    /\ \A w \in Workers : WF_liveVars(Poll(w) \/ Work(w))
    /\ WF_liveVars(PromptTick)

\* Every enforcement delivery is settled: crashed claims are recovered, retries
\* and quota deferrals come to an end.  Only an address off the allowlist waits.
EveryDeliverySettles ==
    \A d \in Deliveries :
        table = "enforcement" /\ dStatus[d] \in {"PENDING", "PROCESSING"} ~>
            dStatus[d] \in Settled \/ d[2] \notin allowed

\* A pending reminder, or general task, gets its recipients and an outcome unless
\* its case is archived, it is deleted, or somebody may not receive it.
EveryReminderResolves ==
    \A r \in Reminders :
        rStatus[r] = "PENDING" ~>
            \/ rStatus[r] # "PENDING"
            \/ archived \/ r \in deleted
            \/ eligible \cap allowed = {} \/ allowed # Admins

\* Deletion leaves the deliveries of a task as they are; the worker drains them
\* all, those it was busy with and those whose address is off the allowlist.
DeletionDrains ==
    \A d \in Deliveries :
        d[1] \in deleted /\ dStatus[d] \in {"PENDING", "PROCESSING"}
            ~> dStatus[d] \in Settled
=============================================================================
