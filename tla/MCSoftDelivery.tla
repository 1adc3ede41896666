--------------------------- MODULE MCSoftDelivery ---------------------------
(***************************************************************************)
(* The insurance worker and the general worker, one at a time: the table   *)
(* the worker works on is chosen at the start.                             *)
(***************************************************************************)
EXTENDS SoftDeletedDelivery, TLC

VARIABLE table

Insurance == INSTANCE InsuranceNotificationDelivery
General == INSTANCE GeneralTaskDelivery

Either(insurance, general) ==
    \/ table = "insurance" /\ insurance
    \/ table = "general" /\ general

EitherInit == SoftInit /\ table \in {"insurance", "general"}
EitherNext ==
    /\ Either(Insurance!InsuranceNext, General!GeneralNext)
    /\ UNCHANGED table

EitherSpec == EitherInit /\ [][EitherNext]_<<allVars, table>>

\* Workers and administrators are interchangeable in every safety property.
Symmetry == Permutations(Workers) \cup Permutations(Admins)
=============================================================================
