-------------------------- MODULE ReminderCreation --------------------------
(***************************************************************************)
(* Reminders of enforcement cases being created, alone or with their case, *)
(* edited and cancelled: reminder-creation-limit.ts, addCaseReminder,      *)
(* updateCaseReminder and deleteCaseReminder of add-case-activity.ts and   *)
(* the beginning of createCaseFileInTransaction in apps/web/src/lib/cases. *)
(***************************************************************************)
EXTENDS Null, Naturals, FiniteSets

CONSTANTS
    Creators,
    Subjects,              \* the title and the time of an event of one case
    Hourly, Daily, InAll,  \* how many reminders; InAll is for everybody and a day
    LongHour, LongDay,     \* an hour and a day in ticks of the clock
    MaxNow                 \* bound of the clock

ASSUME CreationAssumption ==
    /\ {Hourly, Daily, InAll} \subseteq Nat \ {0} /\ LongHour \in Nat
    /\ LongDay \in Nat /\ Nothing \notin Subjects

VARIABLES
    now,
    reminder,    \* rows: [id, creator, subject, at, edited, cancelled]
    creating     \* the transaction of each user: [pc, subject]

creationVars == <<now, reminder, creating>>

\* A reminder that comes with a new case has a case of its own.
WithItsCase == Nothing
IdleCreation == [pc |-> "idle", subject |-> Nothing]

CreationInit ==
    /\ now = LongDay /\ reminder = {}
    /\ creating = [u \in Creators |-> IdleCreation]

BeginCreation(u) ==
    /\ creating[u].pc = "idle"
    /\ \E s \in Subjects \cup {WithItsCase} :
           creating' = [creating EXCEPT ![u] = [pc |-> "waiting", subject |-> s]]
    /\ UNCHANGED <<now, reminder>>

\* lockReminderCreation: one advisory lock for all users, until the end of the transaction.
LockHeld == \E u \in Creators : creating[u].pc \in {"locked", "counted"}
LockFree == ~LockHeld
NoLock == TRUE                                                        \* mutant
MayLock == LockFree
LockCreation(u) ==
    /\ creating[u].pc = "waiting" /\ MayLock
    /\ creating' = [creating EXCEPT ![u].pc = "locked"]
    /\ UNCHANGED <<now, reminder>>

\* checkReminderCreationLimit counts cancelled reminders too.
Since(t) == {r \in reminder : r.at >= t}
Own(u, t) == {r \in Since(t) : r.creator = u}
LimitReached(u) ==
    \/ Cardinality(Own(u, now - LongHour)) >= Hourly
    \/ Cardinality(Own(u, now - LongDay)) >= Daily
    \/ Cardinality(Since(now - LongDay)) >= InAll
SameReminder(s) ==
    s # WithItsCase /\ \E r \in reminder : r.subject = s /\ ~r.cancelled
CheckCreation(u) ==
    /\ creating[u].pc = "locked"
    /\ creating' = [creating EXCEPT ![u] =
           IF SameReminder(@.subject) \/ LimitReached(u) THEN IdleCreation
           ELSE [@ EXCEPT !.pc = "counted"]]
    /\ UNCHANGED <<now, reminder>>
CreateReminder(u) ==
    /\ creating[u].pc = "counted"
    /\ reminder' = reminder \cup
           {[id |-> Cardinality(reminder), creator |-> u, subject |-> creating[u].subject,
             at |-> now, edited |-> FALSE, cancelled |-> FALSE]}
    /\ creating' = [creating EXCEPT ![u] = IdleCreation]
    /\ UNCHANGED now

\* The user or the case is gone by then, or the database gives up.
RefuseCreation(u) ==
    /\ creating[u].pc # "idle"
    /\ creating' = [creating EXCEPT ![u] = IdleCreation]
    /\ UNCHANGED <<now, reminder>>

\* updateCaseReminder and deleteCaseReminder take no lock and look for no likeness.
EditReminder(r) ==
    /\ ~r.cancelled
    /\ \E s \in Subjects :
           /\ r.subject \notin {s, WithItsCase}
           /\ reminder' = (reminder \ {r}) \cup {[r EXCEPT !.subject = s, !.edited = TRUE]}
    /\ UNCHANGED <<now, creating>>
CancelReminder(r) ==
    /\ ~r.cancelled
    /\ reminder' = (reminder \ {r}) \cup {[r EXCEPT !.cancelled = TRUE]}
    /\ UNCHANGED <<now, creating>>

PassTime ==
    /\ now < MaxNow
    /\ now' = now + 1
    /\ UNCHANGED <<reminder, creating>>

CreationOpening == \E u \in Creators : BeginCreation(u)
CreationWork ==
    \/ \E u \in Creators : LockCreation(u) \/ CheckCreation(u) \/ CreateReminder(u)
    \/ PassTime
CreationMishap ==
    \/ \E u \in Creators : RefuseCreation(u)
    \/ \E r \in reminder : EditReminder(r) \/ CancelReminder(r)
CreationNext == CreationOpening \/ CreationWork \/ CreationMishap
CreationSpec == CreationInit /\ [][CreationNext]_creationVars

-----------------------------------------------------------------------------
(* Properties                                                              *)

CreationTypeOK ==
    /\ now \in Nat
    /\ reminder \subseteq [id : Nat, creator : Creators, at : Nat, edited : BOOLEAN,
                           subject : Subjects \cup {WithItsCase}, cancelled : BOOLEAN]
    /\ \A r, s \in reminder : r.id = s.id => r = s
    /\ creating \in [Creators -> [pc : {"idle", "waiting", "locked", "counted"},
                                  subject : Subjects \cup {Nothing}]]

\* In no hour and no day are more reminders created than reminder-creation-limit.ts:27
\* allows, whichever of the two ways they are created and however many at once.
CreationsWithinLimits ==
    \A t \in 0 .. now :
        LET from(length) == {r \in reminder : r.at \in t .. t + length} IN
        /\ Cardinality(from(LongDay)) <= InAll
        /\ \A u \in Creators :
               /\ Cardinality({r \in from(LongHour) : r.creator = u}) <= Hourly
               /\ Cardinality({r \in from(LongDay) : r.creator = u}) <= Daily

\* A case has no two live reminders alike, unless one of them was edited into it.
NoReminderTwice ==
    \A r, s \in reminder :
        /\ r.subject = s.subject /\ r.subject # WithItsCase
        /\ ~r.cancelled /\ ~s.cancelled /\ ~r.edited /\ ~s.edited
        => r = s
=============================================================================
