----------------------------- MODULE Retention ------------------------------
(***************************************************************************)
(* The deletion policy, apps/web/src/lib/deletion-policy.ts, on a clock    *)
(* that counts days or coarser: what is deleted can be brought back for    *)
(* the retention period and is erased after it.                            *)
(***************************************************************************)
EXTENDS Integers, FiniteSets

CONSTANTS
    RetentionPeriod,   \* DELETION_RETENTION_DAYS, in units of the clock
    MaxTime,           \* bound: last value of the clock
    MaxEvents          \* bound: crashes, timeouts and lost replies

ASSUME RetentionAssumption ==
    /\ RetentionPeriod \in Nat \ {0}
    /\ MaxTime \in Nat /\ MaxEvents \in Nat

VARIABLES clock, events

timeVars == <<clock, events>>

NoDate == 0            \* null: no record is ever due at time 0

DeletionDueAt(t) == t + RetentionPeriod

\* "lte: now" of a date that may be null, as SQL compares it.
Expired(date, t) == date # NoDate /\ date <= t

\* "gt: now"
StillAhead(date, t) == date > t

Disturbance == events < MaxEvents /\ events' = events + 1
=============================================================================
