----------------------------- MODULE MailLedger -----------------------------
(***************************************************************************)
(* What the reminder workers promise about one mail per item, with no      *)
(* workers, claims, clocks or retries in sight: an item is sent at most    *)
(* once, it is settled at most once, and what it is settled as does not    *)
(* contradict what was sent.                                               *)
(***************************************************************************)
EXTENDS Naturals

CONSTANT Items
VARIABLES verdict, mail

Verdicts == {"open", "delivered", "refused", "unknown", "dropped"}

LedgerInit ==
    /\ verdict = [i \in Items |-> "open"]
    /\ mail = [i \in Items |-> 0]

\* A mail leaves.  It may still leave after the item was settled as unknown or
\* dropped, by a worker that was already sending it.
Send(i) ==
    /\ mail[i] = 0
    /\ verdict[i] \notin {"delivered", "refused"}
    /\ mail' = [mail EXCEPT ![i] = 1]
    /\ UNCHANGED verdict

\* Open items are settled together (a deleted reminder drops all of its own).
Settle(S, v) ==
    /\ \A i \in S : /\ verdict[i] = "open"
                    /\ v = "delivered" => mail[i] = 1
                    /\ v = "refused" => mail[i] = 0
    /\ verdict' = [i \in Items |-> IF i \in S THEN v ELSE verdict[i]]
    /\ UNCHANGED mail

LedgerNext ==
    \/ \E i \in Items : Send(i)
    \/ \E S \in SUBSET Items, v \in Verdicts \ {"open"} : Settle(S, v)

LedgerSpec == LedgerInit /\ [][LedgerNext]_<<verdict, mail>>
=============================================================================
