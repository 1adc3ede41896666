---------------------------- MODULE MailAllowance ----------------------------
(***************************************************************************)
(* What the quota promises about mails and their counters, with no rows,   *)
(* transactions, locks or pruning in sight: a mail is charged to all the   *)
(* counters of its request, and then of its delivery, at once and only if  *)
(* each has room in its window; it is suppressed only if one of them holds *)
(* its full number; and what the server refuses is given back to the       *)
(* counters of deliveries at once, and to no other mail.                   *)
(***************************************************************************)
EXTENDS Naturals, FiniteSets

CONSTANTS Mails, Keys,
          Span                   \* [Keys -> length of the window]
VARIABLES time,
          held,                  \* [Keys -> {[mail, at]}], charged and not given back
          phase,
          order                  \* [Mails -> [request, delivery, daily]]: of request
                                 \* and delivery the limits by key, of daily the keys

allowanceVars == <<time, held, phase, order>>

AllowanceInit ==
    /\ time = 0
    /\ held = [k \in Keys |-> {}]
    /\ phase = [m \in Mails |-> "wanted"]

InWindow(k) == {u \in held[k] : time < u.at + Span[k]}
Room(limits) == \A k \in DOMAIN limits : Cardinality(InWindow(k)) < limits[k]
UsedUp(limits) == \E k \in DOMAIN limits : limits[k] <= Cardinality(held[k])

Becomes(m, from, to) ==
    /\ phase[m] = from
    /\ phase' = [phase EXCEPT ![m] = to]
    /\ UNCHANGED <<time, order>>

\* All of the counters are charged, or none.
Charge(m, limits) ==
    /\ Room(limits)
    /\ held' = [k \in Keys |-> IF k \in DOMAIN limits
                               THEN held[k] \cup {[mail |-> m, at |-> time]}
                               ELSE held[k]]

Request(m) == Becomes(m, "wanted", "requested") /\ Charge(m, order[m].request)
Reserve(m) == Becomes(m, "requested", "reserved") /\ Charge(m, order[m].delivery)

Suppress(m) ==
    /\ \/ Becomes(m, "wanted", "suppressed") /\ UsedUp(order[m].request)
       \/ Becomes(m, "requested", "suppressed") /\ UsedUp(order[m].delivery)
    /\ UNCHANGED held

\* The server accepts the mail, refuses it, or nobody knows.
Answer(m) ==
    /\ \E answer \in {"sent", "rejected", "doubtful"} : Becomes(m, "reserved", answer)
    /\ UNCHANGED held

GiveBack(m) ==
    /\ Becomes(m, "rejected", "refused")
    /\ held' = [k \in Keys |-> IF k \in order[m].daily
                               THEN {u \in held[k] : u.mail # m} ELSE held[k]]

\* What was charged before a failure stays charged.
Fail(m) ==
    /\ \E from \in {"wanted", "requested", "rejected"} : Becomes(m, from, "failed")
    /\ UNCHANGED held

TimePasses == time' = time + 1 /\ UNCHANGED <<held, phase, order>>

AllowanceNext ==
    \/ \E m \in Mails : \/ Request(m) \/ Reserve(m) \/ Suppress(m) \/ Answer(m)
                        \/ GiveBack(m) \/ Fail(m)
    \/ TimePasses

AllowanceSpec == AllowanceInit /\ [][AllowanceNext]_allowanceVars
=============================================================================
