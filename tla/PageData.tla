------------------------------ MODULE PageData ------------------------------
(***************************************************************************)
(* What a page shows of the server's data, as answers come in: the list of *)
(* FilesClient.tsx, which drops requests that were overtaken, and the      *)
(* panels of a case, which add to a list, edit and remove: the payments of *)
(* PaymentModal.tsx, the notifications of CaseNotifications.tsx and the    *)
(* notes of CaseActivityTabs.tsx.  What a panel says of how a request went *)
(* is left out: nothing depends on it.                                     *)
(***************************************************************************)
EXTENDS Null, Naturals, FiniteSets

CONSTANTS
    Queries, Fetches,
    MaxRows,               \* bound: rows that match a query; a page has one row
    Items, Bodies,         \* what a panel lists, and what an item may say
    Asks,                  \* requests a panel may have under way
    Panels

ASSUME PageDataAssumption ==
    /\ MaxRows \in Nat \ {0} /\ Nothing \notin Queries \cup Items \cup Bodies
    /\ Panels \subseteq {"payments", "notifications", "notes"}

VARIABLES
    rows_of,     \* [query -> how many rows match it at the server]
    list,        \* [query, debounced, page, shown, loading, error]
    fetch,       \* requests for the list
    stored,      \* [item -> what the server has of it, Nothing if it is not there]
    given,       \* the items the page was rendered with
    panel,       \* [kind, items, removing, overlapped, news]
    ask          \* requests of the panel

listVars == <<rows_of, list, fetch>>
panelVars == <<stored, given, panel, ask>>

NoFetch == [pc |-> "idle", query |-> Nothing, page |-> 0, aborted |-> FALSE, answer |-> 0]
NoRows == [query |-> Nothing, page |-> 0]

PageCount(q) == IF rows_of[q] = 0 THEN 1 ELSE rows_of[q]

-----------------------------------------------------------------------------
(* The list                                                                *)

\* The effect that loads: what is under way is aborted.
Abort(f) == [fetch[f] EXCEPT !.aborted = fetch[f].pc # "idle"]
LeaveRunning(f) == fetch[f]                                           \* mutant
Overtake(f) == Abort(f)
Load(new, done) ==
    \E f \in Fetches :
        /\ fetch[f].pc = "idle" \/ f \in done
        /\ fetch' = [g \in Fetches |->
               IF g = f THEN [NoFetch EXCEPT !.pc = "sent", !.query = new.debounced,
                                             !.page = new.page]
               ELSE IF g \in done THEN NoFetch ELSE Overtake(g)]
        /\ list' = [new EXCEPT !.loading = TRUE, !.error = FALSE]

ListInit ==
    /\ rows_of = [q \in Queries |-> MaxRows]
    /\ \E q \in Queries, f \in Fetches :
           /\ list = [query |-> q, debounced |-> q, page |-> 1, loading |-> TRUE,
                      error |-> FALSE, shown |-> NoRows]
           /\ fetch = [g \in Fetches |->
                  IF g = f THEN [NoFetch EXCEPT !.pc = "sent", !.query = q, !.page = 1]
                  ELSE NoFetch]

TypeQuery ==
    /\ \E q \in Queries \ {list.query} :
           IF list.page = 1 THEN list' = [list EXCEPT !.query = q] /\ UNCHANGED fetch
           ELSE Load([list EXCEPT !.query = q, !.page = 1], {})
    /\ UNCHANGED rows_of
Debounce ==
    /\ list.query # list.debounced
    /\ Load([list EXCEPT !.debounced = list.query], {})
    /\ UNCHANGED rows_of
\* The pages that are offered are those the last answer counted.
GoToPage ==
    /\ ~list.loading
    /\ \E p \in (1 .. MaxRows) \ {list.page} :
           Load([list EXCEPT !.page = p], {})
    /\ UNCHANGED rows_of
Reload == Load(list, {}) /\ UNCHANGED rows_of

\* listCaseFiles: a page that is past the end is taken to be the last.
Serve(f) ==
    /\ fetch[f].pc = "sent"
    /\ LET last == PageCount(fetch[f].query) IN
       fetch' = [fetch EXCEPT ![f].pc = "answered",
              ![f].answer = IF fetch[f].page > last THEN last ELSE fetch[f].page]
    /\ UNCHANGED <<rows_of, list>>
ShowAnswer(f) ==
    LET answer == fetch[f].answer
        new == [list EXCEPT !.shown = [query |-> fetch[f].query, page |-> answer],
                            !.page = answer, !.loading = FALSE]
    IN
    /\ fetch[f].pc = "answered" /\ ~fetch[f].aborted
    /\ IF answer # list.page THEN Load(new, {f})
       ELSE list' = new /\ fetch' = [fetch EXCEPT ![f] = NoFetch]
    /\ UNCHANGED rows_of
FailFetch(f) ==
    /\ fetch[f].pc # "idle" /\ ~fetch[f].aborted
    /\ fetch' = [fetch EXCEPT ![f] = NoFetch]
    /\ list' = [list EXCEPT !.loading = FALSE, !.error = TRUE,
                            !.shown = NoRows]
    /\ UNCHANGED rows_of
DismissError ==
    /\ list.error
    /\ list' = [list EXCEPT !.error = FALSE]
    /\ UNCHANGED <<rows_of, fetch>>
DropFetch(f) ==
    /\ fetch[f].aborted
    /\ fetch' = [fetch EXCEPT ![f] = NoFetch]
    /\ UNCHANGED <<rows_of, list>>
ChangeRows ==
    /\ \E q \in Queries, n \in 0 .. MaxRows : rows_of' = [rows_of EXCEPT ![q] = n]
    /\ UNCHANGED <<list, fetch>>

ListNext ==
    \/ TypeQuery \/ Debounce \/ GoToPage \/ Reload \/ DismissError \/ ChangeRows
    \/ \E f \in Fetches : Serve(f) \/ ShowAnswer(f) \/ FailFetch(f) \/ DropFetch(f)

-----------------------------------------------------------------------------
(* A panel                                                                 *)

NoItems == [i \in Items |-> Nothing]
NoAsk == [pc |-> "idle", act |-> "open", item |-> Nothing, body |-> Nothing,
          seen |-> NoItems, news |-> {}, alone |-> TRUE]
InFlight == {r \in Asks : ask[r].pc # "idle"}
Idle == InFlight = {}

\* Payments are asked for when their panel opens, the others begin with what the page was
\* rendered with.  news, which the code does not have, is what changed since the server was
\* asked for the list, but for what the panel was told of.
Mounted(kind) ==
    [kind |-> kind, removing |-> Nothing, overlapped |-> FALSE,
     items |-> IF kind = "payments" THEN NoItems ELSE given.items,
     news |-> IF kind = "payments" THEN Items ELSE given.news]
Requested(kind) ==
    IF kind # "payments" THEN {[r \in Asks |-> NoAsk]}
    ELSE {[s \in Asks |-> IF s = r THEN [NoAsk EXCEPT !.pc = "sent"] ELSE NoAsk] : r \in Asks}

PanelInit ==
    /\ stored \in [Items -> Bodies \cup {Nothing}]
    /\ given = [items |-> stored, news |-> {}]
    /\ \E kind \in Panels : panel = Mounted(kind) /\ ask \in Requested(kind)

\* A new item has an id that is nowhere else.
Unused(i) ==
    /\ stored[i] = Nothing /\ panel.items[i] = Nothing /\ given.items[i] = Nothing
    /\ \A r \in InFlight : ask[r].item # i /\ ask[r].seen[i] = Nothing

Ask(act, i, body) ==
    \E r \in Asks \ InFlight :
        ask' = [s \in Asks |->
            IF s = r THEN [pc |-> "sent", act |-> act, item |-> i, body |-> body,
                           seen |-> panel.items, news |-> {}, alone |-> Idle]
            ELSE [ask[s] EXCEPT !.alone = s \notin InFlight]]
Saving == \E r \in InFlight : ask[r].act = "put"

\* saving keeps a second submission from starting and removingId a second removal, but
\* not the one while the other is under way; a removal of payments waits for the
\* submission and not for the removal of another.
SubmitItem ==
    /\ ~Saving
    /\ \E i \in Items, body \in Bodies :
           /\ Unused(i) \/ (panel.kind # "notes" /\ panel.items[i] # Nothing)
           /\ Ask("put", i, body)
    /\ UNCHANGED <<stored, given, panel>>
RemoveItem ==
    /\ IF panel.kind = "payments" THEN ~Saving ELSE panel.removing = Nothing
    /\ \E i \in Items \ {panel.removing} :
           /\ panel.items[i] # Nothing
           /\ Ask("remove", i, Nothing)
           /\ panel' = [panel EXCEPT !.removing = i]
    /\ UNCHANGED <<stored, given>>

\* An item that was removed can be neither edited nor removed again.
WriteItem(r) ==
    LET i == ask[r].item IN
    /\ ask[r].pc = "sent" /\ ask[r].act # "open"
    /\ stored[i] # Nothing \/ (ask[r].act = "put" /\ ask[r].seen[i] = Nothing)
    /\ stored' = [stored EXCEPT ![i] = ask[r].body]
    /\ given' = [given EXCEPT !.news = @ \cup {i}]
    /\ ask' = [ask EXCEPT ![r].news = {},
                          ![r].pc = IF panel.kind = "payments" THEN "written" ELSE "answered"]
    /\ UNCHANGED panel
\* The list of payments is read when the panel opens and after what was written is
\* committed, and once more if documents were uploaded.
ReadItems(r) ==
    /\ panel.kind = "payments"
    /\ \/ ask[r].act = "open" /\ ask[r].pc = "sent"
       \/ ask[r].pc = "written"
       \/ ask[r].act = "put" /\ ask[r].pc = "answered"
    /\ ask' = [ask EXCEPT ![r].pc = "answered", ![r].seen = stored, ![r].news = {}]
    /\ UNCHANGED <<stored, given, panel>>

AfterEnd(r) == IF ask[r].act = "remove" THEN Nothing ELSE panel.removing
ToldOf(r) == IF panel.kind = "payments" THEN Items ELSE {ask[r].item}
\* A notification is put into the list there was when the request began, and taken out of
\* it, a note into the list there is.
ListAfter(r) ==
    LET old == IF panel.kind = "notes" THEN panel.items ELSE ask[r].seen IN
    IF panel.kind = "payments" THEN old ELSE [old EXCEPT ![ask[r].item] = ask[r].body]
ShowItems(r) ==
    /\ ask[r].pc = "answered"
    /\ panel' = [panel EXCEPT !.items = ListAfter(r), !.removing = AfterEnd(r),
           !.news = (@ \ ToldOf(r)) \cup (ask[r].news \cap ToldOf(r)),
           !.overlapped = /\ panel.kind # "notes"
                          /\ ~ask[r].alone \/ (panel.kind = "notifications" /\ @)]
    /\ ask' = [ask EXCEPT ![r] = NoAsk]
    /\ UNCHANGED <<stored, given>>
FailAsk(r) ==
    /\ r \in InFlight
    /\ panel' = [panel EXCEPT !.removing = AfterEnd(r),
           !.news = IF ask[r].act = "open" \/ ask[r].pc = "sent" THEN @
                    ELSE @ \cup {ask[r].item}]
    /\ ask' = [ask EXCEPT ![r] = NoAsk]
    /\ UNCHANGED <<stored, given>>

\* Another window, a worker, or a request nobody waits for any more.
ChangeElsewhere ==
    \E i \in Items, body \in Bodies \cup {Nothing} :
        /\ body # stored[i] /\ (stored[i] = Nothing => Unused(i))
        /\ stored' = [stored EXCEPT ![i] = body]
        /\ given' = [given EXCEPT !.news = @ \cup {i}]
        /\ panel' = [panel EXCEPT !.news = @ \cup {i}]
        /\ ask' = [r \in Asks |->
               IF r \in InFlight THEN [ask[r] EXCEPT !.news = @ \cup {i}] ELSE ask[r]]
\* The server renders the page again; a panel that is open keeps its items.
RenderPage ==
    /\ given' = [items |-> stored, news |-> {}]
    /\ UNCHANGED <<stored, panel, ask>>
\* Another tab and back: what was under way is not waited for.
ReopenPanel ==
    /\ panel' = Mounted(panel.kind) /\ ask' \in Requested(panel.kind)
    /\ UNCHANGED <<stored, given>>

PanelOpening == SubmitItem \/ RemoveItem \/ ReopenPanel
PanelWork == \E r \in Asks : WriteItem(r) \/ ReadItems(r) \/ ShowItems(r)
PanelMishap == ChangeElsewhere \/ RenderPage \/ \E r \in Asks : FailAsk(r)
PanelNext == PanelOpening \/ PanelWork \/ PanelMishap

PageDataInit == ListInit /\ PanelInit
PageDataNext == (ListNext /\ UNCHANGED panelVars) \/ (PanelNext /\ UNCHANGED listVars)
PageDataSpec == PageDataInit /\ [][PageDataNext]_<<listVars, panelVars>>

-----------------------------------------------------------------------------
(* Properties                                                              *)

PageDataTypeOK ==
    /\ rows_of \in [Queries -> 0 .. MaxRows]
    /\ list \in [query : Queries, debounced : Queries, page : 1 .. MaxRows,
                 loading : BOOLEAN, error : BOOLEAN,
                 shown : [query : Queries \cup {Nothing}, page : 0 .. MaxRows]]
    /\ fetch \in [Fetches -> [pc : {"idle", "sent", "answered"}, aborted : BOOLEAN,
                              query : Queries \cup {Nothing}, page : 0 .. MaxRows,
                              answer : 0 .. MaxRows]]
    /\ stored \in [Items -> Bodies \cup {Nothing}]
    /\ given \in [items : [Items -> Bodies \cup {Nothing}], news : SUBSET Items]
    /\ panel \in [kind : Panels, items : [Items -> Bodies \cup {Nothing}],
                  removing : Items \cup {Nothing}, overlapped : BOOLEAN, news : SUBSET Items]
    /\ ask \in [Asks -> [pc : {"idle", "sent", "written", "answered"},
                         act : {"open", "put", "remove"}, item : Items \cup {Nothing},
                         body : Bodies \cup {Nothing}, news : SUBSET Items,
                         seen : [Items -> Bodies \cup {Nothing}], alone : BOOLEAN]]

\* A list that is not loading shows what is searched for and the page that is numbered,
\* however answers were overtaken, or nothing where the request failed, also once the
\* error is dismissed; one that is loading has a request under way whose answer will be
\* taken (FilesClient.tsx:147-164).
ListShowsWhatIsAsked ==
    /\ ~list.loading => list.shown \in {NoRows, [query |-> list.debounced, page |-> list.page]}
    /\ list.error => ~list.loading /\ list.shown = NoRows
    /\ list.loading => \E f \in Fetches : fetch[f].pc # "idle" /\ ~fetch[f].aborted

\* A panel that waits for nothing shows of every item what the server has, but for what
\* changed elsewhere since the list it works on was read and what an answer it did not get
\* would have told; one of payments or notifications may lose more when requests crossed
\* (PaymentModal.tsx:80, CaseNotifications.tsx:47).
PanelShowsTheCase ==
    Idle /\ ~panel.overlapped => \A i \in Items \ panel.news : panel.items[i] = stored[i]

\* Lists and panels show what was asked for and what is stored, in whatever order
\* answers come in (FilesClient.tsx:107, PaymentModal.tsx:73, CaseNotifications.tsx:34).
PagesShowTheData == ListShowsWhatIsAsked /\ PanelShowsTheCase
=============================================================================
