---------------------------- MODULE UserAccounts ----------------------------
(***************************************************************************)
(* Administration of users: deactivation and activation                    *)
(* (apps/web/src/app/api/admin/users/status/route.ts), the scheduling of a *)
(* deletion (.../deletion/route.ts) and the operator's script that takes   *)
(* one back (scripts/restore-deleted-record.ts).                           *)
(*                                                                         *)
(* A request is a process: admitted by the session it carries, then one    *)
(* transaction, whose reads and whose write are two steps, because nothing *)
(* but the status route's advisory lock keeps others out in between.       *)
(***************************************************************************)
EXTENDS Retention

CONSTANTS
    Users,
    AdminRequests,     \* requests in flight at a time
    Nobody

ASSUME UserAssumption == Nobody \notin Users \cup AdminRequests

VARIABLES
    role,              \* "admin", "user", or "deleted" after anonymisation
    banned, requested, \* users with banned, with deletionRequestedAt set
    userDueAt,         \* deletionDueAt
    sessions,          \* users with a session
    qpc, action, actor, subject, askedAt,
    statusLock,        \* holder of ADMIN_STATUS_LOCK_ID
    recalled           \* user the restore script has found, or Nobody

accountVars == <<role, banned, requested, userDueAt, sessions>>
requestVars == <<qpc, action, actor, subject, askedAt, statusLock>>
userVars == <<accountVars, requestVars, recalled>>

Active(u) == role[u] = "admin" /\ u \notin banned

UserInit ==
    /\ role \in [Users -> {"admin", "user"}]
    /\ Users # {} => \E u \in Users : role[u] = "admin"
    /\ banned = {} /\ requested = {}
    /\ userDueAt = [u \in Users |-> NoDate]
    /\ sessions = {}
    /\ qpc = [q \in AdminRequests |-> "idle"]
    /\ action = [q \in AdminRequests |-> "ban"]
    /\ actor = [q \in AdminRequests |-> Nobody]
    /\ subject = [q \in AdminRequests |-> Nobody]
    /\ askedAt = [q \in AdminRequests |-> 0]
    /\ statusLock = Nobody
    /\ recalled = Nobody

UserTypeOK ==
    /\ role \in [Users -> {"admin", "user", "deleted"}]
    /\ banned \subseteq Users /\ requested \subseteq Users
    /\ userDueAt \in [Users -> Nat]
    /\ sessions \subseteq Users
    /\ qpc \in [AdminRequests -> {"idle", "admitted", "locked", "checked"}]
    /\ action \in [AdminRequests -> {"ban", "unban", "delete"}]
    /\ actor \in [AdminRequests -> Users \cup {Nobody}]
    /\ subject \in [AdminRequests -> Users \cup {Nobody}]
    /\ askedAt \in [AdminRequests -> Nat]
    /\ statusLock \in AdminRequests \cup {Nobody}
    /\ recalled \in Users \cup {Nobody}

\* better-auth signs in who is not banned and has an account left.
SignIn(u) ==
    /\ u \notin banned /\ role[u] # "deleted" /\ u \notin sessions
    /\ sessions' = sessions \cup {u}
    /\ UNCHANGED <<role, banned, requested, userDueAt, requestVars, recalled>>

\* A request of an administrator: the session and its user are read once, before
\* the transaction.
Submit(q, a, u, s) ==
    /\ qpc[q] = "idle"
    /\ u \in sessions /\ Active(u)
    /\ qpc' = [qpc EXCEPT ![q] = "admitted"]
    /\ action' = [action EXCEPT ![q] = a]
    /\ actor' = [actor EXCEPT ![q] = u]
    /\ subject' = [subject EXCEPT ![q] = s]
    /\ UNCHANGED <<accountVars, askedAt, statusLock, recalled>>

Forget(q) ==
    /\ qpc' = [qpc EXCEPT ![q] = "idle"]
    /\ actor' = [actor EXCEPT ![q] = Nobody]
    /\ subject' = [subject EXCEPT ![q] = Nobody]
    /\ action' = [action EXCEPT ![q] = "ban"]
    /\ askedAt' = [askedAt EXCEPT ![q] = 0]
    /\ statusLock' = IF statusLock = q THEN Nobody ELSE statusLock

-----------------------------------------------------------------------------
(* Status: ban and unban                                                   *)

LockForNobody(q) ==                                                   \* mutant
    /\ qpc[q] = "admitted" /\ action[q] # "delete"
    /\ qpc' = [qpc EXCEPT ![q] = "locked"]
    /\ UNCHANGED <<accountVars, action, actor, subject, askedAt, statusLock, recalled>>
\* pg_advisory_xact_lock
TakeStatusLock(q) ==
    /\ qpc[q] = "admitted" /\ action[q] # "delete"
    /\ statusLock = Nobody
    /\ statusLock' = q
    /\ qpc' = [qpc EXCEPT ![q] = "locked"]
    /\ UNCHANGED <<accountVars, action, actor, subject, askedAt, recalled>>

\* validateUserStatusChange, with the count the route makes when it needs one.
StatusChangeAllowed(q) ==
    LET admins == {u \in Users : Active(u)}
    IN
    action[q] = "ban" =>
        /\ actor[q] # subject[q]
        /\ Active(subject[q]) => Cardinality(admins) > 1

\* The actor must still be an active administrator, the subject not scheduled
\* for deletion.
CheckStatus(q) ==
    /\ qpc[q] = "locked"
    /\ IF Active(actor[q]) /\ subject[q] \notin requested /\ StatusChangeAllowed(q)
       THEN /\ qpc' = [qpc EXCEPT ![q] = "checked"]
            /\ UNCHANGED <<action, actor, subject, askedAt, statusLock>>
       ELSE Forget(q)
    /\ UNCHANGED <<accountVars, recalled>>

CommitStatus(q) ==
    /\ qpc[q] = "checked" /\ action[q] # "delete"
    /\ IF action[q] = "ban"
       THEN banned' = banned \cup {subject[q]} /\ sessions' = sessions \ {subject[q]}
       ELSE banned' = banned \ {subject[q]} /\ UNCHANGED sessions
    /\ Forget(q)
    /\ UNCHANGED <<role, requested, userDueAt, recalled>>

-----------------------------------------------------------------------------
(* Deletion                                                                *)

\* validateUserDeletion
UserDeletionAllowed(q) ==
    actor[q] # subject[q] /\ subject[q] \in banned /\ subject[q] \notin requested

CheckDeletion(q) ==
    /\ qpc[q] = "admitted" /\ action[q] = "delete"
    /\ IF UserDeletionAllowed(q)
       THEN /\ qpc' = [qpc EXCEPT ![q] = "checked"]
            /\ askedAt' = [askedAt EXCEPT ![q] = clock]
            /\ UNCHANGED <<action, actor, subject, statusLock>>
       ELSE Forget(q)
    /\ UNCHANGED <<accountVars, recalled>>

CommitDeletion(q) ==
    /\ qpc[q] = "checked" /\ action[q] = "delete"
    /\ requested' = requested \cup {subject[q]}
    /\ userDueAt' = [userDueAt EXCEPT ![subject[q]] = DeletionDueAt(askedAt[q])]
    /\ sessions' = sessions \ {subject[q]}
    /\ Forget(q)
    /\ UNCHANGED <<role, banned, recalled>>

-----------------------------------------------------------------------------
(* The restore script                                                      *)

RecallUser(u) ==
    /\ recalled = Nobody
    /\ u \in requested /\ StillAhead(userDueAt[u], clock)
    /\ recalled' = u
    /\ UNCHANGED <<accountVars, requestVars>>

\* The update goes by the identifier found; the user stays banned.
RestoreUser ==
    /\ recalled # Nobody
    /\ requested' = requested \ {recalled}
    /\ userDueAt' = [userDueAt EXCEPT ![recalled] = NoDate]
    /\ recalled' = Nobody
    /\ UNCHANGED <<role, banned, sessions, requestVars>>

UserStep ==
    \/ \E u \in Users : SignIn(u) \/ RecallUser(u)
    \/ \E q \in AdminRequests :
          \/ \E a \in {"ban", "unban", "delete"}, u, s \in Users : Submit(q, a, u, s)
          \/ TakeStatusLock(q) \/ CheckStatus(q) \/ CommitStatus(q)
          \/ CheckDeletion(q) \/ CommitDeletion(q)
    \/ RestoreUser

-----------------------------------------------------------------------------
(* The users' part of the purge                                            *)

\* "deletionDueAt lte now, deletionRequestedAt not null"
ExpiredUsers(t) == {u \in requested : Expired(userDueAt[u], t)}

AnonymiseLoggedIn(found) ==                                           \* mutant
    /\ role' = [u \in Users |-> IF u \in found THEN "deleted" ELSE role[u]]
    /\ banned' = banned \cup found
    /\ userDueAt' = [u \in Users |-> IF u \in found THEN NoDate ELSE userDueAt[u]]
    /\ UNCHANGED <<requested, sessions>>
AnonymiseStillDue(found) ==                                           \* mutant
    /\ role' = [u \in Users |-> IF u \in found THEN "deleted" ELSE role[u]]
    /\ banned' = banned \cup found
    /\ sessions' = sessions \ found
    /\ UNCHANGED <<requested, userDueAt>>
\* Sessions and accounts go, the user is overwritten and banned; the list is
\* not checked again.
Anonymise(found) ==
    /\ role' = [u \in Users |-> IF u \in found THEN "deleted" ELSE role[u]]
    /\ banned' = banned \cup found
    /\ sessions' = sessions \ found
    /\ userDueAt' = [u \in Users |-> IF u \in found THEN NoDate ELSE userDueAt[u]]
    /\ UNCHANGED requested
=============================================================================
