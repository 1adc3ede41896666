---------------------- MODULE MCRecordDeletionLiveness ----------------------
(***************************************************************************)
(* RecordDeletion under the loop of scripts/purge-deleted-records.ts: a    *)
(* purge that finds something, or is at work, goes on, since the loop runs *)
(* every six hours, logs a failed round and awaits nothing for ever.       *)
(* Nothing is assumed of users, requests, scripts or the clock.            *)
(***************************************************************************)
EXTENDS RecordDeletion

LiveSpec == Spec /\ \A p \in Purgers : WF_vars(PurgeStep(p))

\* A user whose date has passed is erased, whatever order the lists come in and
\* however short they are.
ExpiredUserIsErased ==
    \A u \in Users : u \in ExpiredUsers(clock) ~> u \notin ExpiredUsers(clock)
=============================================================================
