--------------------------- MODULE InsuranceCases ---------------------------
(***************************************************************************)
(* Insurance and arbitration cases and the window they are edited in:      *)
(* apps/web/src/lib/insurance-arbitration/service.ts, the routes under     *)
(* api/insurance-arbitration, CaseRecordPage.tsx, NewInsuranceCaseForm.tsx *)
(* and PaymentSection.tsx.                                                 *)
(*                                                                         *)
(* Besides Save, each change of the list of payments is sent at once, with *)
(* the whole form; nothing keeps two such requests from being under way.   *)
(***************************************************************************)
EXTENDS Null, Naturals, Sequences, FiniteSets

CONSTANTS
    Claims, Windows, Requests,
    Generals, PaymentLists,  \* contents of the form and of its list of payments
    ApplicationNo,           \* [Generals -> number], Nothing without arbitration
    Enclosures               \* what a new case's form collects besides

ASSUME InsuranceAssumption ==
    /\ IsFiniteSet(Requests) /\ DOMAIN ApplicationNo = Generals
    /\ Nothing \notin Claims \cup Windows \cup Generals \cup PaymentLists
    /\ Enclosures \in Seq({Enclosures[i] : i \in DOMAIN Enclosures})

VARIABLES
    claim,     \* [state, general, payments, version] of each case
    saves,     \* history: what each save wrote and what its window knew
    enclosed,  \* the enclosures stored with each case
    window, request

insuranceVars == <<claim, saves, enclosed, window, request>>

Unknown == [general |-> Nothing, payments |-> Nothing]
NoWindow == [pc |-> "none", claim |-> Nothing, version |-> 0, known |-> Unknown,
             form |-> Unknown, sent |-> Unknown, skipped |-> FALSE, stored |-> 0,
             error |-> FALSE, threw |-> FALSE]
NoRequest == [pc |-> "idle", window |-> Nothing, kind |-> Nothing, claim |-> Nothing,
              version |-> 0, form |-> Unknown, known |-> Unknown, skipped |-> FALSE,
              answer |-> Nothing, latest |-> 0]

InsuranceInit ==
    /\ claim = [c \in Claims |-> [state |-> "none", version |-> 0,
                                  general |-> Nothing, payments |-> Nothing]]
    /\ saves = [c \in Claims |-> << >>]
    /\ enclosed = [c \in Claims |-> {}]
    /\ window = [w \in Windows |-> NoWindow]
    /\ request = [r \in Requests |-> NoRequest]

Open(c) == claim[c].state = "live"
NumberTaken(general, c) ==
    /\ ApplicationNo[general] # Nothing
    /\ \E d \in Claims \ {c} : /\ claim[d].state # "none"
                               /\ ApplicationNo[claim[d].general] = ApplicationNo[general]
Content(c) == [general |-> claim[c].general, payments |-> claim[c].payments]

-----------------------------------------------------------------------------
(* The window                                                              *)

NewClaim(w) ==
    /\ window[w].pc \in {"none", "saved"}
    /\ \E g \in Generals, l \in PaymentLists : window' = [window EXCEPT ![w] =
           [NoWindow EXCEPT !.pc = "editing",
                            !.form = [general |-> g, payments |-> l]]]
    /\ UNCHANGED <<claim, saves, enclosed, request>>

\* getInsuranceCase reads the case first, its payments with a second statement.
ReadRow(w, c) ==
    /\ window[w].pc \in {"none", "saved"} /\ Open(c)
    /\ window' = [window EXCEPT ![w] =
           [NoWindow EXCEPT !.pc = "opening", !.claim = c, !.version = claim[c].version,
                            !.known.general = claim[c].general]]
    /\ UNCHANGED <<claim, saves, enclosed, request>>
ReadPayments(w) ==
    LET read == [window[w].known EXCEPT !.payments = claim[window[w].claim].payments] IN
    /\ window[w].pc = "opening"
    /\ window' = [window EXCEPT ![w].pc = "editing", ![w].known = read, ![w].form = read]
    /\ UNCHANGED <<claim, saves, enclosed, request>>

\* The window is closed to nobody while Save is under way; only its button is.
Writable(w) == window[w].pc \in {"editing", "saving", "storing"}

EditGeneral(w) ==
    /\ Writable(w)
    /\ \E g \in Generals \ {window[w].form.general} :
           window' = [window EXCEPT ![w].form.general = g]
    /\ UNCHANGED <<claim, saves, enclosed, request>>

\* payload()
SendForm(w, kind, form) ==
    \E r \in Requests :
        /\ request[r].pc = "idle"
        /\ request' = [request EXCEPT ![r] =
               [NoRequest EXCEPT !.pc = "sent", !.window = w, !.kind = kind, !.form = form,
                    !.claim = window[w].claim, !.version = window[w].version,
                    !.known = window[w].known, !.skipped = window[w].skipped]]

\* changePayments; the window of a new case is one to the end of Save.
IsNew(w) == window[w].claim = Nothing \/ window[w].pc = "storing"
ChangePayments(w) ==
    /\ Writable(w)
    /\ \E l \in PaymentLists \ {window[w].form.payments} :
           LET form == [window[w].form EXCEPT !.payments = l] IN
           /\ window' = [window EXCEPT ![w].form = form, ![w].error = @ /\ IsNew(w)]
           /\ IF IsNew(w) THEN UNCHANGED request ELSE SendForm(w, "payments", form)
    /\ UNCHANGED <<claim, saves, enclosed>>

SaveAll(w) ==
    /\ window[w].pc = "editing"
    /\ window' = [window EXCEPT ![w].pc = "saving", ![w].error = FALSE,
                                ![w].sent = window[w].form]
    /\ SendForm(w, "save", window[w].form)
    /\ UNCHANGED <<claim, saves, enclosed>>

-----------------------------------------------------------------------------
(* The server                                                              *)

Reply(r, c, answer) ==
    request' = [request EXCEPT ![r].pc = "answered", ![r].claim = c, ![r].answer = answer]

CreateClaim(r) ==
    LET form == request[r].form IN
    /\ request[r].pc = "sent" /\ request[r].claim = Nothing
    /\ UNCHANGED <<enclosed, window>>
    /\ \/ \E c \in Claims :
              /\ claim[c].state = "none" /\ ~NumberTaken(form.general, c)
              /\ claim' = [claim EXCEPT ![c] = [state |-> "live", version |-> 1,
                               general |-> form.general, payments |-> form.payments]]
              /\ saves' = [saves EXCEPT ![c] =
                     <<[form |-> form, known |-> Unknown, skipped |-> FALSE]>>]
              /\ Reply(r, c, "ok")
       \/ /\ NumberTaken(form.general, Nothing)
          /\ Reply(r, Nothing, "taken")
          /\ UNCHANGED <<claim, saves>>

ReadClaim(r) ==
    LET c == request[r].claim IN
    /\ request[r].pc = "sent" /\ c # Nothing
    /\ UNCHANGED <<claim, saves, enclosed, window>>
    /\ \/ /\ Open(c) /\ claim[c].version = request[r].version
          /\ request' = [request EXCEPT ![r].pc = "read"]
       \/ /\ Open(c) /\ claim[c].version # request[r].version
          /\ Reply(r, c, "conflict")
       \/ /\ ~Open(c)
          /\ Reply(r, c, "missing")

\* The case by its version, then its payments deleted and created anew.
RowSame(r) ==
    Open(request[r].claim) /\ claim[request[r].claim].version = request[r].version
AnyRow(r) == Open(request[r].claim)                                   \* mutant
RowUnchanged(r) == RowSame(r)
WriteClaim(r) ==
    LET c == request[r].claim
        form == request[r].form
    IN
    /\ request[r].pc = "read"
    /\ UNCHANGED <<enclosed, window>>
    /\ \/ /\ RowUnchanged(r) /\ ~NumberTaken(form.general, c)
          /\ claim' = [claim EXCEPT ![c].general = form.general,
                ![c].payments = form.payments, ![c].version = @ + 1]
          /\ saves' = [saves EXCEPT ![c] = Append(@,
                 [form |-> form, known |-> request[r].known,
                  skipped |-> request[r].skipped])]
          /\ request' = [request EXCEPT ![r].pc = "written"]
       \/ /\ ~RowUnchanged(r)
          /\ Reply(r, c, "conflict") /\ UNCHANGED <<claim, saves>>
       \/ /\ RowUnchanged(r) /\ NumberTaken(form.general, c)
          /\ Reply(r, c, "taken") /\ UNCHANGED <<claim, saves>>

\* After the commit the case is read once more, as it is by then.
ReadBack(r) ==
    LET c == request[r].claim IN
    /\ request[r].pc = "written"
    /\ request' = [request EXCEPT ![r].pc = "answered", ![r].latest = claim[c].version,
                                  ![r].answer = IF Open(c) THEN "ok" ELSE "missing"]
    /\ UNCHANGED <<claim, saves, enclosed, window>>

FailRequest(r) ==
    /\ request[r].pc \in {"sent", "read", "written"}
    /\ Reply(r, request[r].claim, "error")
    /\ UNCHANGED <<claim, saves, enclosed, window>>

-----------------------------------------------------------------------------
(* The answers                                                             *)

\* A window that is left hears no answer to what it has under way.
Receive(r) ==
    /\ request[r].pc = "answered"
    /\ request' = [request EXCEPT ![r] = NoRequest]
ReceiveLast(r) ==
    /\ request[r].pc = "answered"
    /\ request' = [q \in Requests |->
           IF q = r THEN NoRequest
           ELSE IF request[q].window = request[r].window
                THEN [request[q] EXCEPT !.window = Nothing] ELSE request[q]]

ShowError(w) == [window EXCEPT ![w].error = TRUE]

\* Save ends without success.
SaveFailed(w) == [window EXCEPT ![w].pc = "editing", ![w].sent = Unknown, ![w].error = TRUE]

\* setVersion takes the version that was read back, which may be past the own.
KnowOwnSave(r) ==
    window' = [window EXCEPT ![request[r].window] =
        [@ EXCEPT !.version = request[r].latest, !.known = request[r].form,
                  !.skipped = request[r].latest # request[r].version + 1]]
PaymentsAnswered(r) ==
    LET w == request[r].window IN
    /\ Receive(r) /\ request[r].kind = "payments"
    /\ IF w = Nothing THEN UNCHANGED window
       ELSE IF request[r].answer = "ok" THEN KnowOwnSave(r)
       ELSE window' = ShowError(w)
    /\ UNCHANGED <<claim, saves, enclosed>>

\* A conflict reloads the page, the success of an edit leaves it.
SaveAnswered(r) ==
    LET w == request[r].window
        new == window[w].claim = Nothing
    IN
    /\ request[r].kind = "save"
    /\ \/ /\ request[r].answer = "ok" /\ new
          /\ Receive(r)
          /\ window' = [window EXCEPT ![w].pc = "storing", ![w].claim = request[r].claim]
       \/ /\ request[r].answer = "ok" /\ ~new
          /\ ReceiveLast(r)
          /\ window' = [window EXCEPT ![w].pc = "saved"]
       \/ /\ request[r].answer = "conflict"
          /\ ReceiveLast(r)
          /\ window' = [window EXCEPT ![w] = NoWindow]
       \/ /\ request[r].answer \notin {"ok", "conflict"}
          /\ Receive(r)
          /\ window' = SaveFailed(w)
    /\ UNCHANGED <<claim, saves, enclosed>>

\* No answer arrives: Save has a catch block, changePayments has none.
LoseReply(r) ==
    LET w == request[r].window IN
    /\ Receive(r)
    /\ window' = IF request[r].kind = "save"
                 THEN SaveFailed(w)
                 ELSE IF w = Nothing THEN window ELSE [window EXCEPT ![w].threw = TRUE]
    /\ UNCHANGED <<claim, saves, enclosed>>

Enclose(w) ==
    LET next == window[w].stored + 1
        c == window[w].claim
    IN
    /\ window[w].pc = "storing" /\ next <= Len(Enclosures)
    /\ \/ /\ Open(c)
          /\ enclosed' = [enclosed EXCEPT ![c] = @ \cup {Enclosures[next]}]
          /\ window' = [window EXCEPT ![w].stored = next]
       \/ /\ window' = [window EXCEPT ![w] = [@ EXCEPT !.pc = "editing", !.claim = Nothing,
                                         !.sent = Unknown, !.stored = 0, !.error = TRUE]]
          /\ UNCHANGED enclosed
    /\ UNCHANGED <<claim, saves, request>>
EnclosedAll(w) ==
    /\ window[w].pc = "storing" /\ window[w].stored = Len(Enclosures)
    /\ window' = [window EXCEPT ![w].pc = "saved"]
    /\ UNCHANGED <<claim, saves, enclosed, request>>

ArchiveClaim(c) ==
    /\ Open(c)
    /\ claim' = [claim EXCEPT ![c].state = "archived"]
    /\ UNCHANGED <<saves, enclosed, window, request>>
RestoreClaim(c) ==
    /\ claim[c].state = "archived"
    /\ claim' = [claim EXCEPT ![c].state = "live"]
    /\ UNCHANGED <<saves, enclosed, window, request>>

InsuranceOpening ==
    \E w \in Windows : \/ NewClaim(w) \/ ChangePayments(w)
                       \/ \E c \in Claims : ReadRow(w, c)
InsuranceWork ==
    \/ \E w \in Windows : \/ ReadPayments(w) \/ EditGeneral(w) \/ SaveAll(w)
                          \/ Enclose(w) \/ EnclosedAll(w)
    \/ \E r \in Requests : \/ CreateClaim(r) \/ ReadClaim(r) \/ WriteClaim(r)
                           \/ ReadBack(r) \/ PaymentsAnswered(r) \/ SaveAnswered(r)
    \/ \E c \in Claims : RestoreClaim(c)
InsuranceMishap ==
    \/ \E r \in Requests : FailRequest(r) \/ LoseReply(r)
    \/ \E c \in Claims : ArchiveClaim(c)
InsuranceNext == InsuranceOpening \/ InsuranceWork \/ InsuranceMishap
InsuranceSpec == InsuranceInit /\ [][InsuranceNext]_insuranceVars

-----------------------------------------------------------------------------
(* Properties                                                              *)

Forms == [general : Generals \cup {Nothing}, payments : PaymentLists \cup {Nothing}]
InsuranceTypeOK ==
    /\ claim \in [Claims -> [state : {"none", "live", "archived"}, version : Nat,
                             general : Generals \cup {Nothing},
                             payments : PaymentLists \cup {Nothing}]]
    /\ \A c \in Claims :
           /\ Len(saves[c]) = claim[c].version
           /\ saves[c] # << >> => saves[c][Len(saves[c])].form = Content(c)
    /\ enclosed \in [Claims -> SUBSET {Enclosures[i] : i \in DOMAIN Enclosures}]
    /\ window \in [Windows -> [
           pc : {"none", "opening", "editing", "saving", "storing", "saved"},
           claim : Claims \cup {Nothing}, version : Nat, known : Forms, form : Forms,
           sent : Forms, skipped : BOOLEAN, stored : 0 .. Len(Enclosures),
           error : BOOLEAN, threw : BOOLEAN]]
    /\ request \in [Requests -> [
           pc : {"idle", "sent", "read", "written", "answered"},
           window : Windows \cup {Nothing}, kind : {"save", "payments", Nothing},
           claim : Claims \cup {Nothing}, version : Nat, form : Forms, known : Forms,
           skipped : BOOLEAN, latest : Nat,
           answer : {Nothing, "ok", "conflict", "taken", "missing", "error"}]]

\* A save replaces the fields and the payments its window was opened with or wrote
\* itself.  Excepted is the window that took over, with the answer to a change of
\* payments, the version of a save by somebody else (service.ts:130).
ClaimReplacedWasShown ==
    \A c \in Claims : \A i \in DOMAIN saves[c] :
        i > 1 /\ ~saves[c][i].skipped => saves[c][i].known = saves[c][i-1].form

\* What a window held when Save was pressed is stored once it reports the case as
\* saved, with all its enclosures, however it was changed meanwhile; and the list of
\* payments it shows is stored once its requests are answered, unless it shows an error
\* or a request threw (changePayments).
ClaimSavedIsStored ==
    \A w \in Windows :
        LET c == window[w].claim
            quiet == \A r \in Requests : request[r].window # w
        IN  c # Nothing =>
            /\ window[w].pc = "saved" =>
                   \E i \in DOMAIN saves[c] : saves[c][i].form = window[w].sent
            /\ window[w].pc = "saved" /\ window[w].known = Unknown =>
                   enclosed[c] = {Enclosures[i] : i \in DOMAIN Enclosures}
            /\ window[w].pc = "editing" /\ quiet /\ ~window[w].error /\ ~window[w].threw =>
                   \E i \in DOMAIN saves[c] :
                       saves[c][i].form.payments = window[w].form.payments
=============================================================================
