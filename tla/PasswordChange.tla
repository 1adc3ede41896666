--------------------------- MODULE PasswordChange ---------------------------
(***************************************************************************)
(* The account of one user from its creation by an administrator to its    *)
(* passwords: api/auth/change-password/route.ts, the hooks of lib/auth.ts  *)
(* and sifre-degistir/page.tsx of apps/web/src.                            *)
(*                                                                         *)
(* Better Auth keeps the password and the sessions; its calls are taken as *)
(* one step each.                                                          *)
(***************************************************************************)
EXTENDS Null, Naturals, FiniteSets

CONSTANTS
    Passwords, Changes,
    MaxChosen              \* bound: how many passwords are chosen

ASSUME PasswordAssumption == Nothing \notin Passwords

VARIABLES
    account,     \* [state, verified, must, password, chosen]
    sessions,    \* the live sessions, each the number of passwords at its beginning
    change,      \* requests to change the password
    reset,       \* where the password reset by e-mail stands
    broken       \* history: the steps that failed since a password was last chosen

passwordVars == <<account, sessions, change, reset, broken>>

NoChange == [pc |-> "idle", initial |-> FALSE, current |-> Nothing, new |-> Nothing]

PasswordInit ==
    /\ account = [state |-> "none", verified |-> FALSE, must |-> FALSE,
                  password |-> Nothing, chosen |-> 0]
    /\ sessions = {}
    /\ change = [c \in Changes |-> NoChange]
    /\ reset = "idle"
    /\ broken = {}

\* The hook after the creation of a user, an update of its own; it may fail.
CreateAccount ==
    /\ account.state = "none"
    /\ account' = [account EXCEPT !.state = "created"]
    /\ UNCHANGED <<sessions, change, reset, broken>>
DemandPassword ==
    /\ account.state = "created"
    /\ account' = [account EXCEPT !.state = "live", !.must = TRUE]
    /\ UNCHANGED <<sessions, change, reset, broken>>
FailDemand ==
    /\ account.state = "created"
    /\ account' = [account EXCEPT !.state = "live"]
    /\ broken' = {"demand"}
    /\ UNCHANGED <<sessions, change, reset>>

\* The link of the e-mail signs the user in (autoSignInAfterVerification).
FollowVerification ==
    /\ account.state = "live" /\ ~account.verified
    /\ account' = [account EXCEPT !.verified = TRUE]
    /\ sessions' = sessions \cup {account.chosen}
    /\ UNCHANGED <<change, reset, broken>>
SignIn ==
    /\ account.verified /\ account.password # Nothing
    /\ sessions' = sessions \cup {account.chosen}
    /\ UNCHANGED <<account, change, reset, broken>>

Choose(password) ==
    account' = [account EXCEPT !.password = password, !.chosen = @ + 1]

\* The page asks for no current password when one must be chosen.
AskChange(c) ==
    /\ change[c].pc = "idle" /\ sessions # {}
    /\ \E new \in Passwords, current \in Passwords \cup {Nothing} :
           /\ account.must => current = Nothing
           /\ change' = [change EXCEPT ![c] = [NoChange EXCEPT !.pc = "asked",
                                                   !.current = current, !.new = new]]
    /\ UNCHANGED <<account, sessions, reset, broken>>
ReadAccount(c) ==
    /\ change[c].pc = "asked"
    /\ change' = [change EXCEPT ![c].pc = "read",
           ![c].initial = account.verified /\ account.must /\ account.password = Nothing]
    /\ UNCHANGED <<account, sessions, reset, broken>>

\* setPassword refuses when there is a password, changePassword when the current one
\* is not given or not right; the latter ends all sessions and begins one.
SetPassword(c) ==
    /\ change[c].pc = "read" /\ account.chosen < MaxChosen /\ sessions # {}
    /\ IF change[c].initial THEN account.password = Nothing
       ELSE change[c].current = account.password /\ account.password # Nothing
    /\ Choose(change[c].new)
    /\ sessions' = IF change[c].initial THEN sessions ELSE {account'.chosen}
    /\ change' = [change EXCEPT ![c].pc = "set"]
    /\ broken' = {}
    /\ UNCHANGED reset
RefuseChange(c) ==
    /\ change[c].pc \in {"asked", "read"}
    /\ change' = [change EXCEPT ![c] = NoChange]
    /\ UNCHANGED <<account, sessions, reset, broken>>

\* mustChangePassword, then the sessions of an initial password.
PasswordSet(c) == change[c].pc = "set"
ReadIsEnough(c) == change[c].pc = "read"                              \* mutant
MayClear(c) == PasswordSet(c)
ClearDemand(c) ==
    /\ MayClear(c)
    /\ account' = [account EXCEPT !.must = FALSE]
    /\ change' = [change EXCEPT ![c] =
           IF @.initial THEN [@ EXCEPT !.pc = "cleared"] ELSE NoChange]
    /\ UNCHANGED <<sessions, reset, broken>>
EndSessions(c) == sessions' = {}
KeepSessions(c) == UNCHANGED sessions                                 \* mutant
AfterInitial(c) == EndSessions(c)
RevokeSessions(c) ==
    /\ change[c].pc = "cleared"
    /\ AfterInitial(c)
    /\ change' = [change EXCEPT ![c] = NoChange]
    /\ UNCHANGED <<account, reset, broken>>
FailChange(c) ==
    /\ change[c].pc \in {"set", "cleared"}
    /\ broken' = broken \cup {change[c].pc}
    /\ change' = [change EXCEPT ![c] = NoChange]
    /\ UNCHANGED <<account, sessions, reset>>

\* A reset by e-mail: the password, onPasswordReset, the sessions.
ResetPassword ==
    /\ account.state = "live" /\ reset = "idle" /\ account.chosen < MaxChosen
    /\ \E p \in Passwords : Choose(p)
    /\ reset' = "set" /\ broken' = {}
    /\ UNCHANGED <<sessions, change>>
ClearOnReset == account' = [account EXCEPT !.must = FALSE]
KeepOnReset == UNCHANGED account                                      \* mutant
OnPasswordReset == ClearOnReset
ClearReset ==
    /\ reset = "set"
    /\ OnPasswordReset
    /\ reset' = "cleared"
    /\ UNCHANGED <<sessions, change, broken>>
RevokeOnReset ==
    /\ reset = "cleared"
    /\ sessions' = {} /\ reset' = "idle"
    /\ UNCHANGED <<account, change, broken>>
FailReset ==
    /\ reset # "idle"
    /\ broken' = broken \cup {reset} /\ reset' = "idle"
    /\ UNCHANGED <<account, sessions, change>>

PasswordWork ==
    \/ CreateAccount \/ DemandPassword \/ FollowVerification \/ SignIn
    \/ \E c \in Changes : \/ AskChange(c) \/ ReadAccount(c) \/ SetPassword(c)
                          \/ RefuseChange(c) \/ ClearDemand(c) \/ RevokeSessions(c)
    \/ ResetPassword \/ ClearReset \/ RevokeOnReset
PasswordMishap == FailDemand \/ FailReset \/ \E c \in Changes : FailChange(c)
PasswordNext == PasswordWork \/ PasswordMishap
PasswordSpec == PasswordInit /\ [][PasswordNext]_passwordVars

-----------------------------------------------------------------------------
(* Properties                                                              *)

PasswordTypeOK ==
    /\ account \in [state : {"none", "created", "live"}, verified : BOOLEAN,
                    must : BOOLEAN, password : Passwords \cup {Nothing}, chosen : Nat]
    /\ sessions \subseteq Nat
    /\ change \in [Changes -> [pc : {"idle", "asked", "read", "set", "cleared"},
                               initial : BOOLEAN, current : Passwords \cup {Nothing},
                               new : Passwords \cup {Nothing}]]
    /\ reset \in {"idle", "set", "cleared"}
    /\ broken \subseteq {"demand", "set", "cleared"}

Changing == reset # "idle" \/ \E c \in Changes : change[c].pc \in {"set", "cleared"}

\* Whoever is told to choose a password has none, so that the page, which then asks for
\* no current password, is enough (page.tsx:20, route.ts:50); excepted is who failed
\* between two steps of a change (route.ts:51-59).
DemandCanBeMet ==
    account.must /\ account.password # Nothing => Changing \/ broken # {}

\* Nobody is let in to the application without a password of their own: the demand
\* goes only when there is one, unless the hook that makes it failed (auth.ts:80).
DemandUntilChosen ==
    account.state = "live" /\ ~account.must =>
        account.password # Nothing \/ "demand" \in broken

\* Once a change or a reset is through, no session from before it is left.
OldSessionsAreGone ==
    Changing \/ broken # {} \/ \A s \in sessions : s = account.chosen
=============================================================================
