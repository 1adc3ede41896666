----------------------------- MODULE EmailQuota -----------------------------
(***************************************************************************)
(* The quota every mail is charged to before it is sent, and the refund    *)
(* when the server refuses it: apps/web/src/lib/email-rate-limit.ts and    *)
(* sendTransactionalEmail of email.ts, with the requests of auth.ts that   *)
(* are counted before they ask for a mail.                                 *)
(*                                                                         *)
(* A counter is a row with a number and the time of its last use.  A       *)
(* charge is one transaction over several counters in a fixed order; what  *)
(* it wrote is seen by nobody, and its rows are locked, until it commits.  *)
(* One unit of time is a minute, far more than a transaction or a call of  *)
(* the mail server takes.                                                  *)
(***************************************************************************)
EXTENDS Naturals, Sequences, FiniteSets

CONSTANTS
    Mails, Recipients, Everyone,
    Cooldown, Hour, Day,        \* windows; requests count bursts in an Hour too
    Allowance,                  \* [Channels -> [rule -> how many in a window]]
    Jobs,                       \* which mails are wanted: what and to whom
    SendingTime,                \* nodemailer's timeouts end every call by then
    MaxTime                     \* bound of the clock

Categories == {"password-reset", "verification", "reminder"}
Channels == {"authentication", "reminder"}
ChannelOf(category) ==
    IF category = "reminder" THEN "reminder" ELSE "authentication"
RequestRules == {"request-cooldown", "burst", "request-daily"}
DeliveryRules == {"cooldown", "hourly", "channel-attempts", "global-attempts",
                  "successful-daily", "channel-daily", "global-daily"}

ASSUME QuotaAssumption ==
    /\ IsFiniteSet(Mails) /\ Everyone \notin Recipients
    /\ Jobs \subseteq [Mails -> [category : Categories, to : Recipients]]
    /\ {Cooldown, Hour, Day} \subseteq Nat \ {0}
    /\ Cooldown <= Hour /\ Hour <= Day /\ SendingTime \in Nat /\ SendingTime < Day
    /\ Allowance \in [Channels -> [RequestRules \cup DeliveryRules -> Nat \ {0}]]
    /\ \A r \in {"global-attempts", "global-daily"}, c, d \in Channels :
           Allowance[c][r] = Allowance[d][r]
    /\ \A c \in Channels :
           Allowance[c]["channel-daily"] <= Allowance[c]["global-daily"]

\* A counter: the rule, what kind of mail it counts, and to whom.
PerRecipient == RequestRules \cup {"cooldown", "hourly", "successful-daily"}
PerChannel == {"channel-attempts", "channel-daily"}
Overall == {"global-attempts", "global-daily"}
Keys == (PerRecipient \X Categories \X Recipients)
        \cup (PerChannel \X Channels \X {Everyone})
        \cup (Overall \X {"any"} \X {Everyone})

Window(rule) ==
    CASE rule \in {"cooldown", "request-cooldown"} -> Cooldown
      [] rule \in {"hourly", "burst", "channel-attempts", "global-attempts"} -> Hour
      [] OTHER -> Day

VARIABLES
    clock,
    rows,              \* [key -> [count, last]], for the keys that have a row
    drawn,             \* history: what was charged to a key and not given back
    pc, job,           \* state and content of a mail
    step,              \* its place in the transaction it has open
    writes             \* what that transaction wrote: [key -> [row, drawn]]

vars == <<clock, rows, drawn, pc, job, step, writes>>

\* The counters of a mail, in the order they are charged.
Counter(rule, m) ==
    IF rule \in PerRecipient THEN <<rule, job[m].category, job[m].to>>
    ELSE IF rule \in PerChannel THEN <<rule, ChannelOf(job[m].category), Everyone>>
    ELSE <<rule, "any", Everyone>>
RequestOrder == <<"request-cooldown", "burst", "request-daily">>
DeliveryOrder == <<"cooldown", "hourly", "channel-attempts", "global-attempts",
                   "successful-daily", "channel-daily", "global-daily">>
Backwards == <<"global-daily", "channel-daily", "successful-daily">>    \* mutant
NoGlobalRefund == <<"successful-daily", "channel-daily">>               \* mutant
RefundOrder == <<"successful-daily", "channel-daily", "global-daily">>

Charges(m) ==
    LET order == CASE pc[m] = "requesting" -> RequestOrder
                   [] pc[m] = "charging"   -> DeliveryOrder
                   [] pc[m] = "refunding"  -> RefundOrder
                   [] OTHER -> << >>
    IN [i \in DOMAIN order |-> Counter(order[i], m)]

NoRow == [count |-> 0, last |-> 0]
Row(k) == IF k \in DOMAIN rows THEN rows[k] ELSE NoRow

QuotaInit ==
    /\ clock = 0 /\ rows = << >>
    /\ drawn = [k \in Keys |-> {}]
    /\ pc = [m \in Mails |-> "new"]
    /\ job \in Jobs
    /\ step = [m \in Mails |-> 1]
    /\ writes = [m \in Mails |-> << >>]

-----------------------------------------------------------------------------
(* consumeRule                                                             *)

\* The window has gone by since the counter was last used.
Quiet(k, row) == k \notin DOMAIN rows \/ row.last + Window(k[1]) <= clock
OneTooMany(k, max) == Quiet(k, Row(k)) \/ Row(k).count <= max          \* mutant
Free(k, max) == Quiet(k, Row(k)) \/ Row(k).count < max

\* INSERT ... ON CONFLICT DO UPDATE, and what the counter then stands for.
Charged(k, m) ==
    LET unit == [mail |-> m, at |-> clock, over |-> FALSE] IN
    IF Quiet(k, Row(k))
    THEN [row |-> [count |-> 1, last |-> clock],
          drawn |-> {[d EXCEPT !.over = TRUE] : d \in drawn[k]} \cup {unit}]
    ELSE [row |-> [count |-> Row(k).count + 1, last |-> clock],
          drawn |-> drawn[k] \cup {unit}]

\* GREATEST(count - 1, 0), by key; no row, nothing to update.
Refunded(k, m) ==
    [row |-> [Row(k) EXCEPT !.count = IF @ = 0 THEN 0 ELSE @ - 1],
     drawn |-> {d \in drawn[k] : d.mail # m}]

-----------------------------------------------------------------------------
(* Transactions                                                            *)

Waiting(m) == step[m] <= Len(Charges(m))
NextKey(m) == Charges(m)[step[m]]
LockedBy(k, n) == k \in DOMAIN writes[n]
Locked(k, m) == \E n \in Mails \ {m} : LockedBy(k, n)

Write(m, k, w) ==
    /\ writes' = [writes EXCEPT ![m] = [l \in DOMAIN @ \cup {k} |->
                                           IF l = k THEN w ELSE @[l]]]
    /\ step' = [step EXCEPT ![m] = @ + 1]
    /\ UNCHANGED <<clock, rows, drawn, pc, job>>

\* The transaction ends; with effect, its rows are there for all to see.
End(m, to) ==
    /\ pc' = [pc EXCEPT ![m] = to]
    /\ step' = [step EXCEPT ![m] = 1]
    /\ writes' = [writes EXCEPT ![m] = << >>]
    /\ UNCHANGED <<clock, job>>
Commit(m, to) ==
    LET new == writes[m] IN
    /\ End(m, to)
    /\ rows' = [k \in DOMAIN rows \cup DOMAIN new |->
                   IF k \in DOMAIN new THEN new[k].row ELSE rows[k]]
    /\ drawn' = [k \in Keys |-> IF k \in DOMAIN new THEN new[k].drawn ELSE drawn[k]]
KeepWhatWasCharged(m, to) == Commit(m, to)                            \* mutant
Rollback(m, to) == End(m, to) /\ UNCHANGED <<rows, drawn>>

-----------------------------------------------------------------------------
(* A mail                                                                  *)

\* consumeAuthEmailRequest comes first for the mails of authentication.
Start(m) ==
    /\ pc[m] = "new"
    /\ pc' = [pc EXCEPT ![m] = IF ChannelOf(job[m].category) = "authentication"
                               THEN "requesting" ELSE "charging"]
    /\ UNCHANGED <<clock, rows, drawn, job, step, writes>>

Allowed(m, k) == Allowance[ChannelOf(job[m].category)][k[1]]
Charge(m) ==
    LET k == NextKey(m) IN
    /\ pc[m] \in {"requesting", "charging"} /\ Waiting(m) /\ ~Locked(k, m)
    /\ \/ /\ Free(k, Allowed(m, k))
          /\ Write(m, k, Charged(k, m))
       \/ /\ ~Free(k, Allowed(m, k))
          /\ Rollback(m, "suppressed")

CloseCharge(m) ==
    /\ pc[m] \in {"requesting", "charging"} /\ ~Waiting(m)
    /\ Commit(m, IF pc[m] = "requesting" THEN "charging" ELSE "sending")

\* sendMail: accepted; refused for certain; or nobody knows.
Send(m) ==
    /\ pc[m] = "sending"
    /\ \E outcome \in {"sent", "refunding", "doubtful"} :
           pc' = [pc EXCEPT ![m] = outcome]
    /\ UNCHANGED <<clock, rows, drawn, job, step, writes>>

\* releaseFailedTransactionalEmail; a row that was pruned is not created anew.
Refund(m) ==
    LET k == NextKey(m) IN
    /\ pc[m] = "refunding" /\ Waiting(m) /\ ~Locked(k, m)
    /\ IF k \in DOMAIN rows
       THEN Write(m, k, Refunded(k, m))
       ELSE /\ step' = [step EXCEPT ![m] = @ + 1]
            /\ UNCHANGED <<clock, rows, drawn, pc, job, writes>>

CloseRefund(m) ==
    /\ pc[m] = "refunding" /\ ~Waiting(m)
    /\ Commit(m, "refused")

\* The database refuses to go on, or the process dies: an open transaction has
\* no effect, and what was charged before is not given back.
Fail(m) ==
    /\ pc[m] \in {"requesting", "charging", "sending", "refunding"}
    /\ Rollback(m, IF pc[m] = "sending" THEN "doubtful" ELSE "failed")

\* pruneExpiredRows: what was last used two days ago goes.  Of a row that is locked
\* the statement waits for the new version, which is not old.  It locks its rows one by
\* one and may wait for one while it holds others; here it is one step, so that
\* NoLockCycle speaks of the transactions of mails and not of this statement.
PruneAge == 2 * Day
Old == {k \in DOMAIN rows : /\ rows[k].last + PruneAge < clock
                            /\ \A n \in Mails : ~LockedBy(k, n)}
Prune ==
    /\ Old # {}
    /\ rows' = [k \in DOMAIN rows \ Old |-> rows[k]]
    /\ drawn' = [k \in Keys |-> IF k \in Old
                                THEN {[d EXCEPT !.over = TRUE] : d \in drawn[k]}
                                ELSE drawn[k]]
    /\ UNCHANGED <<clock, pc, job, step, writes>>

\* A transaction is over within the minute, and a mail is not on its way longer
\* than SendingTime after it was charged.
OnItsWay(m) == pc[m] \in {"sending", "refunding"}
Tick ==
    /\ clock < MaxTime
    /\ \A m \in Mails : writes[m] = << >>
    /\ \A m \in Mails : OnItsWay(m) =>
           \A k \in Keys : \A d \in drawn[k] :
               d.mail = m /\ k[1] = "global-daily" => clock < d.at + SendingTime
    /\ clock' = clock + 1
    /\ UNCHANGED <<rows, drawn, pc, job, step, writes>>

QuotaStep(m) ==
    \/ Start(m) \/ Charge(m) \/ CloseCharge(m) \/ Send(m)
    \/ Refund(m) \/ CloseRefund(m)

QuotaNext ==
    \/ \E m \in Mails : QuotaStep(m) \/ Fail(m)
    \/ Prune \/ Tick

QuotaSpec == QuotaInit /\ [][QuotaNext]_vars

-----------------------------------------------------------------------------
(* Properties                                                              *)

QuotaTypeOK ==
    /\ clock \in Nat
    /\ DOMAIN rows \subseteq Keys
    /\ \A k \in DOMAIN rows : rows[k] \in [count : Nat, last : Nat]
    /\ drawn \in [Keys -> SUBSET [mail : Mails, at : Nat, over : BOOLEAN]]
    /\ pc \in [Mails -> {"new", "requesting", "charging", "sending", "refunding",
                         "sent", "refused", "doubtful", "suppressed", "failed"}]
    /\ job \in [Mails -> [category : Categories, to : Recipients]]
    /\ \A m \in Mails :
           /\ step[m] \in 1 .. Len(Charges(m)) + 1
           /\ DOMAIN writes[m] \subseteq {Charges(m)[i] : i \in 1 .. step[m] - 1}

\* In no window does a counter let through more than its rule allows, counting
\* what was charged and not given back, whoever charged it and however the
\* transactions met (the limits of reserveTransactionalEmail and requestRules).
WithinAllowance ==
    \A k \in Keys :
        LET current == {d \in drawn[k] : d.at + Window(k[1]) > clock} IN
        \A d \in current : Cardinality(current) <= Allowed(d.mail, k)

\* A counter in use stands for exactly the mails charged to it since it last
\* began anew: a refund takes back the mail's own unit and no other, and the
\* transaction that refuses a mail at one counter leaves nothing behind in the
\* counters of its delivery it had already passed.
CountIsBacked ==
    /\ \A k \in DOMAIN rows :
           rows[k].count = Cardinality({d \in drawn[k] : ~d.over})
    /\ \A k \in Keys : \A d \in drawn[k] :
           pc[d.mail] = "suppressed" => k[1] \in RequestRules

\* No set of mails wait for each other's rows: charges and refunds take the
\* counters they share in the same order.
NoLockCycle ==
    ~ \E S \in (SUBSET Mails) \ {{}} :
          \A m \in S : /\ Waiting(m)
                       /\ \E n \in S \ {m} :
                              LockedBy(NextKey(m), n)

-----------------------------------------------------------------------------
(* The quota implements charges that are made at once                      *)

\* A request is behind the mails of authentication only.
Phase(m) ==
    CASE pc[m] \in {"new", "requesting"} -> "wanted"
      [] pc[m] = "charging"  -> "requested"
      [] pc[m] = "sending"   -> "reserved"
      [] pc[m] = "refunding" -> "rejected"
      [] OTHER -> pc[m]
RefundRules == {"successful-daily", "channel-daily", "global-daily"}
Limits(m, rules) ==
    [k \in {Counter(r, m) : r \in rules} |-> Allowed(m, k)]
RequestLimits(m) ==
    Limits(m, IF ChannelOf(job[m].category) = "authentication" THEN RequestRules ELSE {})

Promise == INSTANCE MailAllowance
           WITH Span <- [k \in Keys |-> Window(k[1])],
                time <- clock,
                held <- [k \in Keys |-> {[mail |-> d.mail, at |-> d.at] : d \in drawn[k]}],
                phase <- [m \in Mails |-> Phase(m)],
                order <- [m \in Mails |-> [request |-> RequestLimits(m),
                                           delivery |-> Limits(m, DeliveryRules),
                                           daily |-> {Counter(r, m) : r \in RefundRules}]]

\* The transactions of consumeRule and releaseRule, row by row and in any order with
\* those of other mails, implement charges and refunds that are made at once.  This is
\* Promise!AllowanceSpec; that a step may leave the quota alone is said first because
\* most steps of the composition do.
ImplementsAllowance ==
    /\ Promise!AllowanceInit
    /\ [][UNCHANGED vars \/ Promise!AllowanceNext]_Promise!allowanceVars
=============================================================================
