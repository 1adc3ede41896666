-------------------------- MODULE EnforcementCases --------------------------
(***************************************************************************)
(* The files of enforcement cases, the form they are filled in with and    *)
(* the history that is kept of them: create-case.ts, update-case.ts,       *)
(* get-case.ts, add-case-activity.ts and case-transactions.ts of           *)
(* apps/web/src/lib/cases, the routes under api/cases, and NewCaseForm.tsx.*)
(*                                                                         *)
(* A page is one browser window; a call is a request it has sent, which    *)
(* goes on at the server also when the window has given it up.             *)
(***************************************************************************)
EXTENDS Null, Naturals, Sequences, FiniteSets

CONSTANTS
    Files, Pages, Calls,
    Contents,              \* [body, status, number]: what a form can be filled with
    Attachments            \* what a new form collects besides, in the order stored

ASSUME EnforcementAssumption ==
    /\ IsFiniteSet(Files)
    /\ \A x \in Contents : DOMAIN x = {"body", "status", "number"}
    /\ Nothing \notin Files \cup Contents \cup Calls
    /\ Attachments \in Seq({Attachments[i] : i \in DOMAIN Attachments})

Kinds == {Attachments[i] : i \in DOMAIN Attachments}

VARIABLES
    file,        \* [state, content, version] of each case
    changes,     \* the append-only rows of each case's history
    activity,    \* the kinds of attachment that were stored with each case
    page, call

enforcementVars == <<file, changes, activity, page, call>>

NoPage == [pc |-> "none", file |-> Nothing, given |-> Nothing, version |-> 0,
           shown |-> Nothing, fields |-> Nothing, sent |-> Nothing, call |-> Nothing,
           stored |-> 0]
NoCall == [pc |-> "idle", file |-> Nothing, content |-> Nothing, version |-> 0,
           shown |-> Nothing, refreshed |-> FALSE, heard |-> FALSE, answer |-> Nothing]

EnforcementInit ==
    /\ file = [c \in Files |-> [state |-> "none", content |-> Nothing, version |-> 0]]
    /\ changes = [c \in Files |-> << >>]
    /\ activity = [c \in Files |-> {}]
    /\ page = [p \in Pages |-> NoPage]
    /\ call = [k \in Calls |-> NoCall]

Live(c) == file[c].state = "live"

\* The unique index on office and number counts archived cases too, and no NULL, the
\* number of a case not yet at an office.
Taken(number, c) ==
    /\ number # Nothing
    /\ \E d \in Files \ {c} : file[d].state # "none" /\ file[d].content.number = number

-----------------------------------------------------------------------------
(* The page                                                                *)

OpenNew(p) ==
    /\ page[p].pc \in {"none", "saved"}
    /\ \E x \in Contents : page' = [page EXCEPT ![p] =
           [NoPage EXCEPT !.pc = "filling", !.fields = x]]
    /\ UNCHANGED <<file, changes, activity, call>>

\* The server renders the page with the case as it is; the fields start with it.
OpenFile(p, c) ==
    /\ page[p].pc \in {"none", "saved"} /\ Live(c)
    /\ page' = [page EXCEPT ![p] =
           [NoPage EXCEPT !.pc = "filling", !.file = c, !.version = file[c].version,
                          !.given = file[c].content, !.shown = file[c].content,
                          !.fields = file[c].content]]
    /\ UNCHANGED <<file, changes, activity, call>>

\* router.refresh, after the profile image was changed in the frame around the
\* form: new properties, the fields stay.
Refresh(p) ==
    LET c == page[p].file IN
    /\ page[p].pc \in {"filling", "saving"} /\ c # Nothing /\ Live(c)
    /\ page' = [page EXCEPT ![p].version = file[c].version,
                            ![p].given = file[c].content]
    /\ UNCHANGED <<file, changes, activity, call>>

\* Only the button is disabled while a save is under way; the fields are not.
Fill(p) ==
    /\ page[p].pc \in {"filling", "saving", "storing"}
    /\ \E x \in Contents \ {page[p].fields} : page' = [page EXCEPT ![p].fields = x]
    /\ UNCHANGED <<file, changes, activity, call>>

Request(p) ==
    [NoCall EXCEPT !.pc = "sent", !.heard = TRUE, !.file = page[p].file,
                   !.content = page[p].fields, !.version = page[p].version,
                   !.shown = page[p].shown,
                   !.refreshed = page[p].given # page[p].shown]

\* handleSubmit, which has the fields of now to the end; isSubmitting keeps a second
\* one from starting.
Submit(p) ==
    /\ page[p].pc = "filling"
    /\ \E k \in Calls :
           /\ call[k].pc = "idle"
           /\ call' = [call EXCEPT ![k] = Request(p)]
           /\ page' = [page EXCEPT ![p].pc = "saving", ![p].call = k,
                                   ![p].sent = page[p].fields]
    /\ UNCHANGED <<file, changes, activity>>

\* closeExistingCase compares the fields with the properties of now.
Unsaved(p) == page[p].file # Nothing /\ page[p].fields # page[p].given
Close(p) ==
    /\ page[p].pc = "filling" /\ ~Unsaved(p)
    /\ page' = [page EXCEPT ![p] = NoPage]
    /\ UNCHANGED <<file, changes, activity, call>>

-----------------------------------------------------------------------------
(* The server                                                              *)

Finish(k, c, answer) ==
    call' = [call EXCEPT ![k] = IF ~@.heard THEN NoCall
                 ELSE [@ EXCEPT !.pc = "answered", !.file = c, !.answer = answer]]

\* createCaseFileInTransaction: the case with the first row of its history.
CreateFile(k) ==
    /\ call[k].pc = "sent" /\ call[k].file = Nothing
    /\ UNCHANGED <<activity, page>>
    /\ \/ \E c \in Files :
              /\ file[c].state = "none" /\ ~Taken(call[k].content.number, c)
              /\ file' = [file EXCEPT ![c] = [state |-> "live", version |-> 1,
                                              content |-> call[k].content]]
              /\ changes' = [changes EXCEPT ![c] =
                     <<[type |-> "CREATED", previous |-> 0, new |-> 1,
                        snapshot |-> call[k].content, shown |-> Nothing,
                        refreshed |-> FALSE]>>]
              /\ Finish(k, c, "ok")
       \/ /\ Taken(call[k].content.number, Nothing)
          /\ Finish(k, Nothing, "conflict")
          /\ UNCHANGED <<file, changes>>

\* updateCaseFileInTransaction up to its comparison of versions.  Debtors come back
\* from the database with their keys in another order and never compare equal, so
\* no save is found to have no changes.
ReadFile(k) ==
    LET c == call[k].file IN
    /\ call[k].pc = "sent" /\ c # Nothing
    /\ UNCHANGED <<file, changes, activity, page>>
    /\ \/ /\ Live(c) /\ file[c].version = call[k].version
          /\ call' = [call EXCEPT ![k].pc = "read"]
       \/ /\ Live(c) /\ file[c].version # call[k].version
          /\ Finish(k, c, "conflict")
       \/ /\ ~Live(c)
          /\ Finish(k, c, "missing")

\* updateMany on the version that was read, the history, commit.
SameVersion(k) ==
    Live(call[k].file) /\ file[call[k].file].version = call[k].version
AnyVersion(k) == Live(call[k].file)                                   \* mutant
MatchedRow(k) == SameVersion(k)
HistoryOf(k) ==
    LET c == call[k].file IN
    [type |-> IF file[c].content.status # call[k].content.status
              THEN "STATUS_CHANGED" ELSE "UPDATED",
     previous |-> call[k].version, new |-> call[k].version + 1,
     snapshot |-> call[k].content, shown |-> call[k].shown,
     refreshed |-> call[k].refreshed]
WriteFile(k) ==
    LET c == call[k].file IN
    /\ call[k].pc = "read"
    /\ UNCHANGED <<activity, page>>
    /\ \/ /\ MatchedRow(k) /\ ~Taken(call[k].content.number, c)
          /\ file' = [file EXCEPT ![c].content = call[k].content,
                                  ![c].version = @ + 1]
          /\ changes' = [changes EXCEPT ![c] = Append(@, HistoryOf(k))]
          /\ Finish(k, c, "ok")
       \/ /\ ~MatchedRow(k) \/ Taken(call[k].content.number, c)
          /\ Finish(k, c, "conflict")
          /\ UNCHANGED <<file, changes>>

\* The database or the process gives up: the transaction has no effect.
FailCall(k) ==
    /\ call[k].pc \in {"sent", "read"}
    /\ Finish(k, call[k].file, "error")
    /\ UNCHANGED <<file, changes, activity, page>>

-----------------------------------------------------------------------------
(* The answer                                                              *)

Answered(p) ==
    LET k == page[p].call IN
    /\ page[p].pc = "saving" /\ call[k].pc = "answered"
    /\ call' = [call EXCEPT ![k] = NoCall]
    /\ page' = [page EXCEPT ![p] =
           IF call[k].answer # "ok"
           THEN [@ EXCEPT !.pc = "filling", !.sent = Nothing, !.call = Nothing]
           ELSE IF @.file = Nothing
                THEN [@ EXCEPT !.pc = "storing", !.file = call[k].file, !.call = Nothing]
                ELSE [@ EXCEPT !.pc = "saved", !.call = Nothing]]
    /\ UNCHANGED <<file, changes, activity>>

\* No answer arrives; the request may be under way or done all the same.
LoseAnswer(p) ==
    LET k == page[p].call IN
    /\ page[p].pc = "saving"
    /\ call' = [call EXCEPT ![k] = IF @.pc = "answered" THEN NoCall
                                   ELSE [@ EXCEPT !.heard = FALSE]]
    /\ page' = [page EXCEPT ![p].pc = "filling", ![p].sent = Nothing, ![p].call = Nothing]
    /\ UNCHANGED <<file, changes, activity>>

\* persistDraftActivity: one request after the other, and the first that fails
\* brings the form back as it was, a new case once more.
StoreOne(p, next) ==
    activity' = [activity EXCEPT ![page[p].file] = @ \cup {next}]
StoreNothing(p, next) == UNCHANGED activity                           \* mutant
Stored(p, next) == StoreOne(p, next)
StoreDraft(p) ==
    LET next == page[p].stored + 1 IN
    /\ page[p].pc = "storing" /\ next <= Len(Attachments)
    /\ \/ /\ Live(page[p].file)
          /\ Stored(p, Attachments[next])
          /\ page' = [page EXCEPT ![p].stored = next]
       \/ /\ page' = [page EXCEPT ![p].pc = "filling", ![p].file = Nothing,
                                  ![p].sent = Nothing, ![p].stored = 0]
          /\ UNCHANGED activity
    /\ UNCHANGED <<file, changes, call>>

StoredAll(p) ==
    /\ page[p].pc = "storing" /\ page[p].stored = Len(Attachments)
    /\ page' = [page EXCEPT ![p].pc = "saved"]
    /\ UNCHANGED <<file, changes, activity, call>>

\* recoverable-deletion.ts; neither changes the version.
Archive(c) ==
    /\ Live(c)
    /\ file' = [file EXCEPT ![c].state = "archived"]
    /\ UNCHANGED <<changes, activity, page, call>>
Unarchive(c) ==
    /\ file[c].state = "archived"
    /\ file' = [file EXCEPT ![c].state = "live"]
    /\ UNCHANGED <<changes, activity, page, call>>

\* What users begin, what follows from it, and what comes in between.
EnforcementOpening ==
    \E p \in Pages : OpenNew(p) \/ \E c \in Files : OpenFile(p, c)
EnforcementWork ==
    \/ \E p \in Pages : \/ Fill(p) \/ Submit(p) \/ Close(p)
                        \/ Answered(p) \/ StoreDraft(p) \/ StoredAll(p)
    \/ \E k \in Calls : CreateFile(k) \/ ReadFile(k) \/ WriteFile(k)
    \/ \E c \in Files : Unarchive(c)
EnforcementMishap ==
    \/ \E p \in Pages : Refresh(p) \/ LoseAnswer(p)
    \/ \E k \in Calls : FailCall(k)
    \/ \E c \in Files : Archive(c)
EnforcementNext == EnforcementOpening \/ EnforcementWork \/ EnforcementMishap

EnforcementSpec == EnforcementInit /\ [][EnforcementNext]_enforcementVars

-----------------------------------------------------------------------------
(* Properties                                                              *)

EnforcementTypeOK ==
    /\ file \in [Files -> [state : {"none", "live", "archived"},
                           content : Contents \cup {Nothing}, version : Nat]]
    /\ \A c \in Files : file[c].state = "none" <=> file[c].content = Nothing
    /\ activity \in [Files -> SUBSET Kinds]
    /\ \A c \in Files : \A i \in DOMAIN changes[c] :
           changes[c][i] \in [type : {"CREATED", "UPDATED", "STATUS_CHANGED"},
                              previous : Nat, new : Nat, snapshot : Contents,
                              shown : Contents \cup {Nothing}, refreshed : BOOLEAN]
    /\ page \in [Pages -> [pc : {"none", "filling", "saving", "storing", "saved"},
                           file : Files \cup {Nothing}, version : Nat,
                           given : Contents \cup {Nothing},
                           shown : Contents \cup {Nothing},
                           fields : Contents \cup {Nothing},
                           sent : Contents \cup {Nothing},
                           call : Calls \cup {Nothing}, stored : 0 .. Len(Attachments)]]
    /\ call \in [Calls -> [pc : {"idle", "sent", "read", "answered"},
                           file : Files \cup {Nothing}, version : Nat,
                           content : Contents \cup {Nothing},
                           shown : Contents \cup {Nothing},
                           refreshed : BOOLEAN, heard : BOOLEAN,
                           answer : {Nothing, "ok", "conflict", "missing", "error"}]]

\* The history of a case has no gap and no fork, its last row is the case as it
\* stands, and each row names the kind of change there was (update-case.ts:81-141).
HistoryIsTheRecord ==
    \A c \in Files :
        LET row == changes[c] IN
        /\ Len(row) = file[c].version
        /\ row # << >> => row[Len(row)].snapshot = file[c].content
        /\ \A i \in DOMAIN row :
               /\ row[i].new = i /\ row[i].previous = i - 1
               /\ row[i].type = IF i = 1 THEN "CREATED"
                                ELSE IF row[i].snapshot.status # row[i-1].snapshot.status
                                THEN "STATUS_CHANGED" ELSE "UPDATED"

\* A save replaces only what its form was opened with: what somebody else saved
\* meanwhile is refused, not overwritten (VERSION_CONFLICT).  Excepted are saves of
\* a page whose properties were refreshed under the filled form.
FileReplacedWasShown ==
    \A c \in Files : \A i \in DOMAIN changes[c] :
        i > 1 /\ ~changes[c][i].refreshed =>
            changes[c][i].shown = changes[c][i-1].snapshot

\* "Bu dosya siz açtıktan sonra başka biri tarafından düzenlendi.": who edited the
\* case after it was opened is never overwritten (cases/[id]/route.ts:38).
NoLostUpdate ==
    \A c \in Files : \A i \in DOMAIN changes[c] :
        i > 1 => changes[c][i].shown = changes[c][i-1].snapshot

\* What a form held when Save was pressed is in the history of its case by the time
\* the form reports the case as saved, with everything that was attached to it, however
\* the fields were changed meanwhile.
FileSavedIsStored ==
    \A p \in Pages : page[p].pc = "saved" =>
        /\ \E i \in DOMAIN changes[page[p].file] :
               changes[page[p].file][i].snapshot = page[p].sent
        /\ page[p].shown = Nothing => activity[page[p].file] = Kinds
=============================================================================
