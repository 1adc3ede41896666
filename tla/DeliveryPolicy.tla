--------------------------- MODULE DeliveryPolicy ---------------------------
(***************************************************************************)
(* The pure decisions shared by the three reminder workers (enforcement,   *)
(* insurance arbitration, general legal cases):                            *)
(* apps/web/src/lib/reminder-delivery-policy.ts.                           *)
(*                                                                         *)
(* One unit of time is five minutes, the quantum every delay of the        *)
(* workers is a multiple of.                                               *)
(***************************************************************************)
EXTENDS Integers

DeliveryState ==
    {"PENDING", "PROCESSING", "SENT", "FAILED", "UNCERTAIN", "CANCELLED"}

ReminderState == {"PENDING", "PARTIALLY_SENT", "SENT", "FAILED", "CANCELLED"}

\* States a delivery never leaves on its own: no worker touches them again.
Settled == {"SENT", "FAILED", "UNCERTAIN", "CANCELLED"}

\* The status shown for a reminder, from the set of its deliveries' states.
AggregateReminderStatus(states) ==
    LET relevant == states \ {"CANCELLED"} IN
    IF states = {} THEN "PENDING"
    ELSE IF relevant = {} THEN "CANCELLED"
    ELSE IF relevant = {"SENT"} THEN "SENT"
    ELSE IF "SENT" \in relevant THEN "PARTIALLY_SENT"
    ELSE IF relevant \cap {"PENDING", "PROCESSING"} # {} THEN "PENDING"
    ELSE "FAILED"

-----------------------------------------------------------------------------
(* What sendMail can throw, as far as the policy tells errors apart:       *)
(*   permanent - EAUTH, AUTH, a 5xx reply, an envelope error with no reply *)
(*   transient - DNS, connect, EHLO, HELO, STARTTLS, or a 4xx reply        *)
(*   other     - anything else: a lost reply, a database error while the   *)
(*               quota is reserved, an unknown error                       *)
SmtpError == {"permanent", "transient", "other"}

MaxAttempts == 3
RetryUnit   == 1        \* 5 * 60_000 ms
StaleAfter  == 2        \* 10 * 60_000 ms
PrepareWaitTooLong == 1000                 \* mutant: a unit mistaken
PrepareWait == 1        \* 5 * 60_000 ms

\* The update a worker persists once it knows what became of its claim.
\* giveBack is the decrement of "attempts", delay the distance of the next
\* attempt from the start of this one (read only when status is PENDING).
Verdict(status, giveBack, delay) ==
    [status |-> status, giveBack |-> giveBack, delay |-> delay]

\* Mutants of the decision, each a slip the policy guards against: retrying or
\* giving up on a doubtful send, and a rejection that gives its attempt back.
RetryWhenInDoubt(error, attempts) ==
    IF error # "permanent" /\ attempts < MaxAttempts
    THEN Verdict("PENDING", 0, attempts * RetryUnit)
    ELSE Verdict("FAILED", 0, 0)
FreeRetry(error, attempts) ==
    IF error = "permanent" THEN Verdict("FAILED", 0, 0)
    ELSE IF error = "transient"
         THEN IF attempts < MaxAttempts
              THEN Verdict("PENDING", 1, attempts * RetryUnit)
              ELSE Verdict("FAILED", 0, 0)
    ELSE Verdict("UNCERTAIN", 0, 0)

ReminderFailureDecision(error, attempts) ==
    IF error = "permanent" THEN Verdict("FAILED", 0, 0)
    ELSE IF error = "transient"
         THEN IF attempts < MaxAttempts
              THEN Verdict("PENDING", 0, attempts * RetryUnit)
              ELSE Verdict("FAILED", 0, 0)
    ELSE Verdict("UNCERTAIN", 0, 0)

=============================================================================
