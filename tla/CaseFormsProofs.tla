--------------------------- MODULE CaseFormsProofs ---------------------------
(***************************************************************************)
(* Proofs about the forms of enforcement and insurance cases and about the *)
(* history of enforcement cases, for any number of cases, windows and      *)
(* requests.                                                               *)
(***************************************************************************)
EXTENDS CaseForms, TLAPS

-----------------------------------------------------------------------------
(* The inductive invariant                                                 *)

Maybe(S) == S \cup {Nothing}
RowType ==
    [type : {"CREATED", "UPDATED", "STATUS_CHANGED"}, previous : Nat, new : Nat,
     snapshot : Contents, shown : Maybe(Contents), refreshed : BOOLEAN]
FileType ==
    [state : {"none", "live", "archived"}, content : Maybe(Contents), version : Nat]
PageType ==
    [pc : {"none", "filling", "saving", "storing", "saved"}, file : Maybe(Files),
     version : Nat, given : Maybe(Contents), shown : Maybe(Contents),
     fields : Maybe(Contents), sent : Maybe(Contents), call : Maybe(Calls),
     stored : 0 .. Len(Attachments)]
Answers == {Nothing, "ok", "conflict", "missing", "error"}
CallType ==
    [pc : {"idle", "sent", "read", "answered"}, file : Maybe(Files), version : Nat,
     content : Maybe(Contents), shown : Maybe(Contents), refreshed : BOOLEAN,
     heard : BOOLEAN, answer : Answers]

Typed ==
    /\ file \in [Files -> FileType] /\ changes \in [Files -> Seq(RowType)]
    /\ activity \in [Files -> SUBSET Kinds]
    /\ page \in [Pages -> PageType] /\ call \in [Calls -> CallType]

\* A case that was never created has neither content nor history.
Begun ==
    \A c \in Files : /\ file[c].state = "none" <=> file[c].content = Nothing
                     /\ file[c].state = "none" <=> changes[c] = << >>

\* A version and a content that belong together in the history of a case.
InHistory(c, version, content) ==
    version \in 1 .. Len(changes[c]) /\ changes[c][version].snapshot = content

\* What a filled form was given is a version of its case with that version's content.
Filled(p) == page[p].pc \in {"filling", "saving"}
PageIsBacked ==
    \A p \in Pages :
        /\ page[p].pc = "saving" => page[p].call \in Calls
        /\ Filled(p) \/ page[p].pc = "storing" => page[p].fields \in Contents
        /\ Filled(p) /\ page[p].file # Nothing =>
               InHistory(page[p].file, page[p].version, page[p].given)

\* So is what a request says, unless its form was refreshed.
Running(k) == call[k].pc \in {"sent", "read"}
CallIsBacked ==
    \A k \in Calls : Running(k) =>
        /\ call[k].content \in Contents
        /\ call[k].pc = "read" => call[k].file # Nothing
        /\ call[k].file # Nothing /\ ~call[k].refreshed =>
               InHistory(call[k].file, call[k].version, call[k].shown)

HistoryInv ==
    /\ Typed /\ Begun /\ PageIsBacked /\ CallIsBacked
    /\ HistoryIsTheRecord /\ FileReplacedWasShown

\* What is empty is of its type.
LEMMA EmptyTyped ==
    /\ NoPage \in PageType /\ NoPage.pc = "none" /\ NoPage.file = Nothing
    /\ NoCall \in CallType /\ NoCall.pc = "idle"
<1>1. Len(Attachments) \in Nat
  BY EnforcementAssumption
<1>2. QED
  BY <1>1 DEF NoPage, NoCall, PageType, CallType, Maybe, Answers

\* The invariant holds of the beginning.
LEMMA InitHistory == EnforcementInit => HistoryInv
<1> SUFFICES ASSUME EnforcementInit PROVE HistoryInv
  OBVIOUS
<1>1. Typed
  BY EmptyTyped DEF EnforcementInit, Typed, FileType, Maybe
<1>2. Begun /\ HistoryIsTheRecord /\ FileReplacedWasShown
  BY DEF EnforcementInit, Begun, HistoryIsTheRecord, FileReplacedWasShown
<1>3. PageIsBacked /\ CallIsBacked
  BY EmptyTyped DEF EnforcementInit, PageIsBacked, CallIsBacked, Filled, Running
<1>4. QED
  BY <1>1, <1>2, <1>3 DEF HistoryInv

\* Steps that leave the cases alone only have to keep pages and requests in order.
LEMMA CasesStay ==
    ASSUME HistoryInv, UNCHANGED <<file, changes>>,
           activity' \in [Files -> SUBSET Kinds],
           page' \in [Pages -> PageType], PageIsBacked',
           call' \in [Calls -> CallType], CallIsBacked'
    PROVE  HistoryInv'
BY DEF HistoryInv, Typed, Begun, HistoryIsTheRecord, FileReplacedWasShown

\* The end of a request, and of no other.
LEMMA FinishEnds ==
    ASSUME HistoryInv, NEW k \in Calls, NEW c \in Maybe(Files), NEW answer \in Answers,
           Finish(k, c, answer)
    PROVE  /\ call' \in [Calls -> CallType]
           /\ ~Running(k)'
           /\ \A j \in Calls : Running(j)' => call'[j] = call[j]
<1>1. /\ call[k] \in CallType /\ call \in [Calls -> CallType]
  BY DEF HistoryInv, Typed
<1>2. PICK new \in {NoCall, [call[k] EXCEPT !.pc = "answered", !.file = c,
                                            !.answer = answer]} :
          call' = [call EXCEPT ![k] = new]
  BY DEF Finish
<1>3. new \in CallType /\ new.pc \in {"idle", "answered"}
  <2>1. [call[k] EXCEPT !.pc = "answered", !.file = c, !.answer = answer] \in CallType
    BY <1>1 DEF CallType
  <2>2. [call[k] EXCEPT !.pc = "answered", !.file = c, !.answer = answer].pc = "answered"
    BY <1>1 DEF CallType
  <2>3. QED
    BY <2>1, <2>2, EmptyTyped, <1>2
<1>4. QED
  BY <1>1, <1>2, <1>3 DEF Running

-----------------------------------------------------------------------------
(* The page                                                                *)

\* A step of one window that leaves it with a form as it should be.
LEMMA PageStays ==
    ASSUME HistoryInv, NEW p \in Pages, NEW new \in PageType,
           page' = [page EXCEPT ![p] = new], UNCHANGED <<file, changes, call>>,
           activity' \in [Files -> SUBSET Kinds],
           new.pc = "saving" => new.call \in Calls,
           new.pc \in {"filling", "saving", "storing"} => new.fields \in Contents,
           new.pc \in {"filling", "saving"} /\ new.file # Nothing =>
               InHistory(new.file, new.version, new.given)
    PROVE  HistoryInv'
<1>1. page' \in [Pages -> PageType] /\ call' \in [Calls -> CallType]
  BY DEF HistoryInv, Typed
<1>2. PageIsBacked'
  BY DEF HistoryInv, Typed, PageIsBacked, Filled, InHistory
<1>3. CallIsBacked'
  BY DEF HistoryInv, CallIsBacked, Running, InHistory
<1>4. QED
  BY <1>1, <1>2, <1>3, CasesStay

\* What a live case shows is the last row of its history.
LEMMA LiveIsRecorded ==
    ASSUME HistoryInv, NEW c \in Files, Live(c)
    PROVE  /\ file[c].content \in Contents /\ file[c].version \in Nat
           /\ InHistory(c, file[c].version, file[c].content)
BY DEF HistoryInv, Typed, FileType, Maybe, Live, Begun, HistoryIsTheRecord, InHistory

LEMMA OpenStep ==
    ASSUME HistoryInv, NEW p \in Pages, NEW c \in Files, OpenFile(p, c)
    PROVE  HistoryInv'
<1> DEFINE x == file[c].content
           v == file[c].version
           new == [NoPage EXCEPT !.pc = "filling", !.file = c, !.version = v,
                                 !.given = x, !.shown = x, !.fields = x]
<1>1. x \in Contents /\ v \in Nat /\ InHistory(c, v, x)
  BY LiveIsRecorded DEF OpenFile
<1>2. page' = [page EXCEPT ![p] = new] /\ UNCHANGED <<file, changes, activity, call>>
  BY DEF OpenFile
<1>3. activity' \in [Files -> SUBSET Kinds]
  BY <1>2 DEF HistoryInv, Typed
<1> HIDE DEF x, v
<1>4. new \in PageType
  BY <1>1, EmptyTyped DEF PageType, Maybe
<1>5. /\ new.fields = x /\ new.file = c /\ new.version = v /\ new.given = x
      /\ new.pc = "filling"
  BY EmptyTyped DEF PageType
<1> HIDE DEF new
<1>6. QED
  BY <1>1, <1>2, <1>3, <1>4, <1>5, PageStays

LEMMA NewStep ==
    ASSUME HistoryInv, NEW p \in Pages, OpenNew(p) \/ Close(p)
    PROVE  HistoryInv'
<1>1. activity' \in [Files -> SUBSET Kinds] /\ UNCHANGED <<file, changes, call>>
  BY DEF HistoryInv, Typed, OpenNew, Close
<1>2. CASE OpenNew(p)
  <2>1. PICK x \in Contents :
            page' = [page EXCEPT ![p] = [NoPage EXCEPT !.pc = "filling", !.fields = x]]
    BY <1>2 DEF OpenNew
  <2> DEFINE new == [NoPage EXCEPT !.pc = "filling", !.fields = x]
  <2>2. new \in PageType /\ new.fields = x /\ new.file = Nothing /\ new.pc = "filling"
    BY EmptyTyped DEF PageType, Maybe
  <2>3. page' = [page EXCEPT ![p] = new]
    BY <2>1
  <2> HIDE DEF new
  <2>4. QED
    BY <1>1, <2>2, <2>3, PageStays
<1>3. CASE Close(p)
  <2>1. page' = [page EXCEPT ![p] = NoPage]
    BY <1>3 DEF Close
  <2>2. QED
    BY <1>1, <2>1, EmptyTyped, PageStays
<1>4. QED
  BY <1>2, <1>3

LEMMA FillStep ==
    ASSUME HistoryInv, NEW p \in Pages, Fill(p) \/ Refresh(p)
    PROVE  HistoryInv'
<1>1. /\ activity' \in [Files -> SUBSET Kinds] /\ UNCHANGED <<file, changes, call>>
      /\ page[p] \in PageType /\ page \in [Pages -> PageType]
      /\ page[p].fields \in Contents
      /\ page[p].pc = "saving" => page[p].call \in Calls
      /\ page[p].pc \in {"filling", "saving"} /\ page[p].file # Nothing =>
             InHistory(page[p].file, page[p].version, page[p].given)
  BY DEF HistoryInv, Typed, PageIsBacked, Filled, Fill, Refresh
<1>2. CASE Fill(p)
  <2>1. PICK x \in Contents : page' = [page EXCEPT ![p].fields = x]
    BY <1>2 DEF Fill
  <2> DEFINE new == [page[p] EXCEPT !.fields = x]
  <2>2. /\ new \in PageType /\ new.fields = x /\ new.file = page[p].file
        /\ new.version = page[p].version /\ new.given = page[p].given
        /\ new.pc = page[p].pc /\ new.call = page[p].call
    BY <1>1 DEF PageType, Maybe
  <2>3. page' = [page EXCEPT ![p] = new]
    BY <2>1
  <2> HIDE DEF new
  <2>4. QED
    BY <1>1, <2>2, <2>3, PageStays
<1>3. CASE Refresh(p)
  <2> DEFINE c == page[p].file
             x == file[c].content
             v == file[c].version
             new == [page[p] EXCEPT !.version = v, !.given = x]
  <2>1. c \in Files /\ Live(c)
    BY <1>1, <1>3 DEF Refresh, PageType, Maybe
  <2>2. x \in Contents /\ v \in Nat /\ InHistory(c, v, x)
    BY <2>1, LiveIsRecorded
  <2>3. page' = [page EXCEPT ![p] = new]
    BY <1>1, <1>3 DEF Refresh
  <2> HIDE DEF x, v
  <2>4. /\ new \in PageType /\ new.fields = page[p].fields /\ new.file = c
        /\ new.version = v /\ new.given = x
        /\ new.pc = page[p].pc /\ new.call = page[p].call
    BY <1>1, <2>2 DEF PageType, Maybe
  <2> HIDE DEF new, c
  <2>5. QED
    BY <1>1, <2>2, <2>3, <2>4, PageStays
<1>4. QED
  BY <1>2, <1>3

LEMMA StoreStep ==
    ASSUME HistoryInv, NEW p \in Pages, StoreDraft(p) \/ StoredAll(p)
    PROVE  HistoryInv'
<1>1. /\ page[p] \in PageType /\ page \in [Pages -> PageType]
      /\ activity \in [Files -> SUBSET Kinds] /\ Len(Attachments) \in Nat
      /\ page[p].pc = "storing" /\ UNCHANGED <<file, changes, call>>
      /\ page[p].fields \in Contents
  BY EnforcementAssumption DEF HistoryInv, Typed, PageIsBacked, StoreDraft, StoredAll
<1>2. CASE StoreDraft(p)
  <2> DEFINE next == page[p].stored + 1
  <2>1. next \in 0 .. Len(Attachments) /\ Attachments[next] \in Kinds
    BY <1>1, <1>2, EnforcementAssumption DEF StoreDraft, PageType, Kinds
  <2>2. activity' \in [Files -> SUBSET Kinds]
    BY <1>1, <1>2, <2>1 DEF StoreDraft, Stored, StoreOne
  <2>3. CASE page' = [page EXCEPT ![p].stored = next]
    <3> DEFINE new == [page[p] EXCEPT !.stored = next]
    <3>1. new \in PageType /\ new.pc = "storing" /\ new.fields = page[p].fields
      BY <1>1, <2>1 DEF PageType
    <3>2. page' = [page EXCEPT ![p] = new]
      BY <1>1, <2>3
    <3> HIDE DEF new
    <3>3. QED
      BY <1>1, <2>2, <3>1, <3>2, PageStays
  <2>4. CASE page' = [page EXCEPT ![p].pc = "filling", ![p].file = Nothing,
                                  ![p].sent = Nothing, ![p].stored = 0]
    <3> DEFINE new == [page[p] EXCEPT !.pc = "filling", !.file = Nothing,
                                      !.sent = Nothing, !.stored = 0]
    <3>1. 0 \in 0 .. Len(Attachments)
      BY <1>1
    <3>2. new \in PageType
      BY <1>1, <3>1 DEF PageType, Maybe
    <3>3. new.fields = page[p].fields /\ new.file = Nothing /\ new.pc = "filling"
      BY <1>1 DEF PageType
    <3>4. page' = [page EXCEPT ![p] = new]
      BY <1>1, <2>4
    <3> HIDE DEF new
    <3>5. QED
      BY <1>1, <2>2, <3>2, <3>3, <3>4, PageStays
  <2>5. QED
    BY <1>2, <2>3, <2>4 DEF StoreDraft
<1>3. CASE StoredAll(p)
  <2> DEFINE new == [page[p] EXCEPT !.pc = "saved"]
  <2>1. new \in PageType /\ new.pc = "saved"
    BY <1>1 DEF PageType
  <2>2. page' = [page EXCEPT ![p] = new] /\ activity' = activity
    BY <1>1, <1>3 DEF StoredAll
  <2> HIDE DEF new
  <2>3. QED
    BY <1>1, <2>1, <2>2, PageStays
<1>4. QED
  BY <1>2, <1>3

\* A request says what its form was given.
LEMMA SubmitStep ==
    ASSUME HistoryInv, NEW p \in Pages, Submit(p)
    PROVE  HistoryInv'
<1>1. PICK k \in Calls : call[k].pc = "idle" /\ call' = [call EXCEPT ![k] = Request(p)]
                         /\ page' = [page EXCEPT ![p].pc = "saving", ![p].call = k,
                                                 ![p].sent = page[p].fields]
  BY DEF Submit
<1>2. /\ page[p] \in PageType /\ page \in [Pages -> PageType]
      /\ call \in [Calls -> CallType] /\ activity' \in [Files -> SUBSET Kinds]
      /\ Filled(p) /\ page[p].fields \in Contents /\ UNCHANGED <<file, changes>>
      /\ page[p].file # Nothing => InHistory(page[p].file, page[p].version, page[p].given)
  BY DEF Submit, HistoryInv, Typed, PageIsBacked, Filled
<1> DEFINE newPage == [page[p] EXCEPT !.pc = "saving", !.call = k,
                                      !.sent = page[p].fields]
           b == page[p].given # page[p].shown
           new == Request(p)
<1>3. page' \in [Pages -> PageType] /\ PageIsBacked'
  <2>1. /\ newPage \in PageType /\ newPage.fields = page[p].fields
        /\ newPage.file = page[p].file /\ newPage.version = page[p].version
        /\ newPage.given = page[p].given /\ newPage.call = k
    BY <1>2 DEF PageType, Maybe
  <2>2. page' = [page EXCEPT ![p] = newPage]
    BY <1>1, <1>2
  <2> HIDE DEF newPage
  <2>3. QED
    BY <1>2, <2>1, <2>2 DEF HistoryInv, PageIsBacked, Filled, InHistory
<1>4. PICK refreshed \in BOOLEAN : refreshed <=> b
  OBVIOUS
<1>5. new = [NoCall EXCEPT !.pc = "sent", !.heard = TRUE, !.file = page[p].file,
                   !.content = page[p].fields, !.version = page[p].version,
                   !.shown = page[p].shown, !.refreshed = refreshed]
  BY <1>4 DEF Request
<1>6. /\ new \in CallType /\ new.content = page[p].fields /\ new.file = page[p].file
      /\ new.version = page[p].version /\ new.pc = "sent"
      /\ new.shown = page[p].shown /\ new.refreshed = refreshed
  BY <1>2, <1>4, <1>5, EmptyTyped DEF PageType, CallType, Maybe
<1> HIDE DEF new
<1>7. call' \in [Calls -> CallType] /\ CallIsBacked'
  BY <1>1, <1>2, <1>4, <1>6 DEF new, HistoryInv, CallIsBacked, Running, InHistory
<1>8. QED
  BY <1>2, <1>3, <1>7, CasesStay

\* Who is heard, and who not any more, says no more than before.
LEMMA AnswerStep ==
    ASSUME HistoryInv, NEW p \in Pages, Answered(p) \/ LoseAnswer(p)
    PROVE  HistoryInv'
<1> DEFINE k == page[p].call
<1>1. /\ page[p] \in PageType /\ page \in [Pages -> PageType] /\ k \in Calls
      /\ call[k] \in CallType /\ call \in [Calls -> CallType]
      /\ activity' \in [Files -> SUBSET Kinds] /\ page[p].pc = "saving"
      /\ page[p].fields \in Contents /\ UNCHANGED <<file, changes>>
      /\ page[p].file # Nothing => InHistory(page[p].file, page[p].version, page[p].given)
  BY DEF Answered, LoseAnswer, HistoryInv, Typed, PageIsBacked, Filled
<1>2. PICK new \in {NoCall, [call[k] EXCEPT !.heard = FALSE]} :
          call' = [call EXCEPT ![k] = new]
  BY DEF Answered, LoseAnswer
<1>3. /\ new \in CallType
      /\ new.pc \in {"sent", "read"} =>
             /\ new.pc = call[k].pc /\ new.file = call[k].file
             /\ new.version = call[k].version /\ new.content = call[k].content
             /\ new.shown = call[k].shown /\ new.refreshed = call[k].refreshed
  <2>1. CASE new = NoCall
    BY <2>1, EmptyTyped
  <2>2. CASE new = [call[k] EXCEPT !.heard = FALSE]
    BY <1>1, <2>2 DEF CallType
  <2>3. QED
    BY <1>2, <2>1, <2>2
<1>4. call' \in [Calls -> CallType] /\ CallIsBacked'
  BY <1>1, <1>2, <1>3 DEF HistoryInv, CallIsBacked, Running, InHistory
<1>5. PICK form : /\ page' = [page EXCEPT ![p] = form] /\ form \in PageType
                  /\ form.pc # "saving" /\ form.fields = page[p].fields
                  /\ form.pc = "filling" => /\ form.file = page[p].file
                                            /\ form.version = page[p].version
                                            /\ form.given = page[p].given
  <2> DEFINE again == [page[p] EXCEPT !.pc = "filling", !.sent = Nothing, !.call = Nothing]
             created == [page[p] EXCEPT !.pc = "storing", !.file = call[k].file,
                                        !.call = Nothing]
             saved == [page[p] EXCEPT !.pc = "saved", !.call = Nothing]
  <2>1. /\ again \in PageType /\ again.pc = "filling" /\ again.fields = page[p].fields
        /\ again.file = page[p].file /\ again.version = page[p].version
        /\ again.given = page[p].given
    BY <1>1 DEF PageType, Maybe
  <2>2. created \in PageType /\ created.pc = "storing" /\ created.fields = page[p].fields
    BY <1>1 DEF PageType, CallType, Maybe
  <2>3. saved \in PageType /\ saved.pc = "saved" /\ saved.fields = page[p].fields
    BY <1>1 DEF PageType, Maybe
  <2>4. \E form \in {again, created, saved} : page' = [page EXCEPT ![p] = form]
    BY <1>1 DEF Answered, LoseAnswer
  <2> HIDE DEF again, created, saved
  <2>5. QED
    BY <2>1, <2>2, <2>3, <2>4
<1>6. page' \in [Pages -> PageType] /\ PageIsBacked'
  BY <1>1, <1>5 DEF HistoryInv, PageIsBacked, Filled, InHistory
<1>7. QED
  BY <1>1, <1>4, <1>6, CasesStay

-----------------------------------------------------------------------------
(* The server                                                              *)

\* A request that ends without a change of its case.
LEMMA RefusedStep ==
    ASSUME HistoryInv, NEW k \in Calls, NEW c \in Maybe(Files), NEW answer \in Answers,
           Finish(k, c, answer), UNCHANGED <<file, changes, activity, page>>
    PROVE  HistoryInv'
<1>1. call' \in [Calls -> CallType] /\ CallIsBacked'
  BY FinishEnds DEF HistoryInv, CallIsBacked, Running, InHistory
<1>2. activity' \in [Files -> SUBSET Kinds] /\ page' \in [Pages -> PageType]
  BY DEF HistoryInv, Typed
<1>3. PageIsBacked'
  BY DEF HistoryInv, PageIsBacked, Filled, InHistory
<1>4. QED
  BY <1>1, <1>2, <1>3, CasesStay

\* The history only grows, so that what pages and requests were given stays in it.
LEMMA HistoryGrows ==
    ASSUME HistoryInv, NEW c \in Files, NEW row \in RowType,
           changes' = [changes EXCEPT ![c] = Append(@, row)]
    PROVE  \A d \in Files : \A version \in 1 .. Len(changes[d]) :
               /\ version \in 1 .. Len(changes'[d])
               /\ changes'[d][version] = changes[d][version]
<1>1. changes[c] \in Seq(RowType) /\ changes \in [Files -> Seq(RowType)]
  BY DEF HistoryInv, Typed
<1>2. /\ Len(Append(changes[c], row)) = Len(changes[c]) + 1
      /\ \A i \in 1 .. Len(changes[c]) : Append(changes[c], row)[i] = changes[c][i]
  BY <1>1
<1>3. QED
  BY <1>1, <1>2

\* A case with one more row, the one that tells what it is now.
LEMMA RowStep ==
    ASSUME HistoryInv, NEW k \in Calls, NEW c \in Files, NEW row \in RowType,
           NEW x \in FileType, Finish(k, c, "ok"), UNCHANGED <<activity, page>>,
           file' = [file EXCEPT ![c] = x],
           changes' = [changes EXCEPT ![c] = Append(@, row)],
           x.content = row.snapshot, x.state # "none",
           x.version = file[c].version + 1,
           row.new = file[c].version + 1, row.previous = file[c].version,
           row.type = IF changes[c] = << >> THEN "CREATED"
                      ELSE IF row.snapshot.status # file[c].content.status
                      THEN "STATUS_CHANGED" ELSE "UPDATED",
           changes[c] # << >> /\ ~row.refreshed => row.shown = file[c].content
    PROVE  HistoryInv'
<1> DEFINE old == changes[c]
           n == Len(old)
<1>1. /\ file \in [Files -> FileType] /\ changes \in [Files -> Seq(RowType)]
      /\ old \in Seq(RowType) /\ n \in Nat
      /\ file[c] \in FileType /\ file[c].version = n
      /\ old # << >> => old[n].snapshot = file[c].content
  BY DEF HistoryInv, Typed, HistoryIsTheRecord
<1>2. /\ changes'[c] \in Seq(RowType) /\ Len(changes'[c]) = n + 1
      /\ changes'[c][n + 1] = row /\ changes'[c] # << >>
      /\ \A i \in 1 .. n : changes'[c][i] = old[i]
      /\ \A d \in Files : d # c => changes'[d] = changes[d] /\ file'[d] = file[d]
      /\ file'[c] = x
  BY <1>1
<1>3. Typed'
  <2>1. file' \in [Files -> FileType] /\ changes' \in [Files -> Seq(RowType)]
    BY <1>1, <1>2
  <2>2. call' \in [Calls -> CallType]
    BY FinishEnds DEF Maybe, Answers
  <2>3. QED
    BY <2>1, <2>2 DEF HistoryInv, Typed
<1>4. Begun'
  <2>1. row.snapshot \in Contents /\ row.snapshot # Nothing
    BY EnforcementAssumption DEF RowType
  <2>2. QED
    BY <1>2, <2>1 DEF HistoryInv, Begun
<1>5. PageIsBacked'
  BY HistoryGrows
  DEF HistoryInv, Typed, PageType, PageIsBacked, Filled, InHistory, Maybe
<1>6. CallIsBacked'
  BY HistoryGrows, FinishEnds
  DEF HistoryInv, Typed, CallType, CallIsBacked, Running, InHistory, Maybe, Answers
<1>7. HistoryIsTheRecord'
  <2> SUFFICES ASSUME NEW d \in Files
               PROVE  /\ Len(changes'[d]) = file'[d].version
                      /\ changes'[d] # << >> =>
                             changes'[d][Len(changes'[d])].snapshot = file'[d].content
                      /\ \A i \in DOMAIN changes'[d] :
                             /\ changes'[d][i].new = i /\ changes'[d][i].previous = i - 1
                             /\ changes'[d][i].type =
                                    IF i = 1 THEN "CREATED"
                                    ELSE IF changes'[d][i].snapshot.status
                                                # changes'[d][i-1].snapshot.status
                                    THEN "STATUS_CHANGED" ELSE "UPDATED"
    BY DEF HistoryIsTheRecord
  <2>1. CASE d # c
    BY <1>2, <2>1 DEF HistoryInv, HistoryIsTheRecord
  <2>2. CASE d = c
    <3>1. \A i \in 1 .. n :
              /\ old[i].new = i /\ old[i].previous = i - 1
              /\ old[i].type = IF i = 1 THEN "CREATED"
                               ELSE IF old[i].snapshot.status # old[i-1].snapshot.status
                               THEN "STATUS_CHANGED" ELSE "UPDATED"
      BY <1>1 DEF HistoryInv, HistoryIsTheRecord
    <3>2. DOMAIN changes'[c] = 1 .. n + 1
      BY <1>1, <1>2
    <3>3. ASSUME NEW i \in 1 .. n
          PROVE  changes'[c][i] = old[i] /\ i # 1 => changes'[c][i-1] = old[i-1]
      BY <1>1, <1>2
    <3>4. old = << >> <=> n = 0
      BY <1>1
    <3>5. n # 0 => changes'[c][n] = old[n]
      BY <1>1, <1>2
    <3>6. ASSUME NEW i \in 1 .. n + 1
          PROVE  /\ changes'[c][i].new = i /\ changes'[c][i].previous = i - 1
                 /\ changes'[c][i].type =
                        IF i = 1 THEN "CREATED"
                        ELSE IF changes'[c][i].snapshot.status
                                    # changes'[c][i-1].snapshot.status
                        THEN "STATUS_CHANGED" ELSE "UPDATED"
      <4>1. CASE i \in 1 .. n
        <5>1. changes'[c][i] = old[i]
          BY <4>1, <3>3
        <5>2. i # 1 => changes'[c][i-1] = old[i-1]
          BY <4>1, <1>1, <1>2
        <5>3. QED
          BY <4>1, <3>1, <5>1, <5>2
      <4>2. CASE i = n + 1
        <5>1. changes'[c][i] = row
          BY <4>2, <1>2
        <5>2. i # 1 => n # 0 /\ changes'[c][i-1] = old[n]
          BY <4>2, <1>1, <3>5
        <5>3. row.new = i /\ row.previous = i - 1
          BY <4>2, <1>1
        <5>4. row.type = IF i = 1 THEN "CREATED"
                         ELSE IF row.snapshot.status # changes'[c][i-1].snapshot.status
                         THEN "STATUS_CHANGED" ELSE "UPDATED"
          BY <4>2, <1>1, <3>4, <5>2
        <5>5. QED
          BY <5>1, <5>3, <5>4
      <4>3. QED
        BY <1>1, <4>1, <4>2
    <3>7. QED
      BY <2>2, <1>1, <1>2, <3>2, <3>6
  <2>3. QED
    BY <2>1, <2>2
<1>8. FileReplacedWasShown'
  <2> SUFFICES ASSUME NEW d \in Files, NEW i \in DOMAIN changes'[d],
                      i > 1, ~changes'[d][i].refreshed
               PROVE  changes'[d][i].shown = changes'[d][i-1].snapshot
    BY DEF FileReplacedWasShown
  <2>1. CASE d # c
    BY <1>2, <2>1 DEF HistoryInv, FileReplacedWasShown
  <2>2. CASE d = c /\ i \in 1 .. n
    <3>1. changes'[c][i] = old[i] /\ changes'[c][i-1] = old[i-1] /\ i \in DOMAIN old
      BY <1>1, <1>2, <2>2
    <3>2. QED
      BY <2>2, <3>1 DEF HistoryInv, FileReplacedWasShown
  <2>3. CASE d = c /\ i = n + 1
    <3>1. changes'[c][i] = row /\ changes'[c][i-1] = old[n] /\ old # << >>
      BY <1>1, <1>2, <2>3
    <3>2. QED
      BY <1>1, <2>3, <3>1
  <2>4. QED
    BY <1>1, <1>2, <2>1, <2>2, <2>3
<1>9. QED
  BY <1>3, <1>4, <1>5, <1>6, <1>7, <1>8 DEF HistoryInv

LEMMA CreateStep ==
    ASSUME HistoryInv, NEW k \in Calls, CreateFile(k)
    PROVE  HistoryInv'
<1>1. /\ call[k] \in CallType /\ call[k].content \in Contents
      /\ file \in [Files -> FileType] /\ changes \in [Files -> Seq(RowType)]
      /\ UNCHANGED <<activity, page>>
  BY DEF CreateFile, HistoryInv, Typed, CallIsBacked, Running
<1>2. CASE /\ Finish(k, Nothing, "conflict")
           /\ UNCHANGED <<file, changes>>
  BY <1>1, <1>2, RefusedStep DEF Maybe, Answers
<1>3. ASSUME NEW c \in Files, file[c].state = "none", Finish(k, c, "ok"),
             file' = [file EXCEPT ![c] = [state |-> "live", version |-> 1,
                                          content |-> call[k].content]],
             changes' = [changes EXCEPT ![c] =
                 <<[type |-> "CREATED", previous |-> 0, new |-> 1,
                    snapshot |-> call[k].content, shown |-> Nothing,
                    refreshed |-> FALSE]>>]
      PROVE  HistoryInv'
  <2> DEFINE x == [state |-> "live", version |-> 1, content |-> call[k].content]
             row == [type |-> "CREATED", previous |-> 0, new |-> 1,
                     snapshot |-> call[k].content, shown |-> Nothing,
                     refreshed |-> FALSE]
  <2>1. changes[c] = << >> /\ file[c].version = 0
    BY <1>3 DEF HistoryInv, Begun, HistoryIsTheRecord
  <2>2. /\ x \in FileType /\ x.content = call[k].content /\ x.state # "none"
        /\ x.version = 1
    BY <1>1 DEF FileType, Maybe
  <2>3. /\ row \in RowType /\ row.snapshot = call[k].content /\ row.type = "CREATED"
        /\ row.new = 1 /\ row.previous = 0
    BY <1>1 DEF RowType, Maybe
  <2>4. file' = [file EXCEPT ![c] = x] /\ changes' = [changes EXCEPT ![c] = <<row>>]
    BY <1>3
  <2> HIDE DEF x, row
  <2>5. changes' = [changes EXCEPT ![c] = Append(@, row)]
    <3>1. Append(changes[c], row) = <<row>>
      BY <2>1, <2>3
    <3>2. QED
      BY <2>4, <3>1, <1>1
  <2>6. /\ x.content = row.snapshot /\ x.version = file[c].version + 1
        /\ row.new = file[c].version + 1 /\ row.previous = file[c].version
        /\ row.type = IF changes[c] = << >> THEN "CREATED"
                      ELSE IF row.snapshot.status # file[c].content.status
                      THEN "STATUS_CHANGED" ELSE "UPDATED"
        /\ changes[c] # << >> /\ ~row.refreshed => row.shown = file[c].content
    BY <2>1, <2>2, <2>3
  <2>7. Finish(k, c, "ok") /\ file' = [file EXCEPT ![c] = x]
    BY <1>3, <2>4
  <2>8. QED
    BY <1>1, <2>2, <2>3, <2>5, <2>6, <2>7, RowStep
<1>4. QED
  BY <1>2, <1>3 DEF CreateFile

\* A request that is read keeps what it says.
LEMMA ReadStep ==
    ASSUME HistoryInv, NEW k \in Calls, ReadFile(k)
    PROVE  HistoryInv'
<1>1. /\ call[k] \in CallType /\ call \in [Calls -> CallType]
      /\ call[k].file # Nothing /\ UNCHANGED <<file, changes, activity, page>>
      /\ call[k].pc = "sent"
  BY DEF ReadFile, HistoryInv, Typed
<1>2. CASE call' = [call EXCEPT ![k].pc = "read"]
  <2> DEFINE new == [call[k] EXCEPT !.pc = "read"]
  <2>1. /\ new \in CallType /\ new.content = call[k].content /\ new.file = call[k].file
        /\ new.version = call[k].version /\ new.shown = call[k].shown
        /\ new.refreshed = call[k].refreshed
    BY <1>1 DEF CallType
  <2>2. call' = [call EXCEPT ![k] = new]
    BY <1>1, <1>2
  <2> HIDE DEF new
  <2>3. call' \in [Calls -> CallType] /\ CallIsBacked'
    BY <1>1, <2>1, <2>2 DEF HistoryInv, CallIsBacked, Running, InHistory
  <2>4. activity' \in [Files -> SUBSET Kinds] /\ page' \in [Pages -> PageType]
    BY <1>1 DEF HistoryInv, Typed
  <2>5. PageIsBacked'
    BY <1>1 DEF HistoryInv, PageIsBacked, Filled, InHistory
  <2>6. QED
    BY <1>1, <2>3, <2>4, <2>5, CasesStay
<1>3. CASE \E answer \in Answers : Finish(k, call[k].file, answer)
  BY <1>1, <1>3, RefusedStep DEF CallType
<1>4. QED
  BY <1>2, <1>3 DEF ReadFile, Answers

\* The comparison of versions makes the row that is replaced the one that was shown.
LEMMA WriteStep ==
    ASSUME HistoryInv, NEW k \in Calls, WriteFile(k)
    PROVE  HistoryInv'
<1> DEFINE c == call[k].file
           row == HistoryOf(k)
           x == [file[c] EXCEPT !.content = call[k].content, !.version = @ + 1]
<1>1. /\ call[k] \in CallType /\ call[k].content \in Contents /\ c \in Files
      /\ file \in [Files -> FileType] /\ file[c] \in FileType
      /\ changes \in [Files -> Seq(RowType)] /\ UNCHANGED <<activity, page>>
      /\ ~call[k].refreshed => InHistory(c, call[k].version, call[k].shown)
      /\ file[c].version = Len(changes[c])
      /\ changes[c] # << >> => changes[c][Len(changes[c])].snapshot = file[c].content
  BY DEF WriteFile, HistoryInv, Typed, CallIsBacked, Running, HistoryIsTheRecord,
         CallType, Maybe
<1>2. CASE Finish(k, c, "conflict") /\ UNCHANGED <<file, changes>>
  BY <1>1, <1>2, RefusedStep DEF Maybe, Answers
<1>3. CASE /\ MatchedRow(k) /\ Finish(k, c, "ok")
           /\ file' = [file EXCEPT ![c].content = call[k].content, ![c].version = @ + 1]
           /\ changes' = [changes EXCEPT ![c] = Append(@, row)]
  <2>1. /\ file[c].state = "live" /\ file[c].version = call[k].version
        /\ changes[c] # << >>
    BY <1>1, <1>3 DEF MatchedRow, SameVersion, Live, HistoryInv, Begun
  <2>2. PICK v \in Nat : v = file[c].version + 1
    BY <1>1 DEF FileType
  <2>3. x = [file[c] EXCEPT !.content = call[k].content, !.version = v]
    BY <1>1, <2>2 DEF FileType
  <2>4. /\ x \in FileType /\ x.content = call[k].content /\ x.state = "live"
        /\ x.version = v
    BY <1>1, <2>1, <2>2, <2>3 DEF FileType, Maybe
  <2>5. file' = [file EXCEPT ![c] = x]
    BY <1>1, <1>3
  <2>6. /\ row \in RowType /\ row.snapshot = call[k].content
        /\ row.new = v /\ row.previous = file[c].version
        /\ row.shown = call[k].shown /\ row.refreshed = call[k].refreshed
    BY <1>1, <2>1, <2>2 DEF HistoryOf, RowType, CallType, Maybe
  <2>7. row.type = IF row.snapshot.status # file[c].content.status
                   THEN "STATUS_CHANGED" ELSE "UPDATED"
    BY <2>6 DEF HistoryOf
  <2>8. ~row.refreshed => row.shown = file[c].content
    BY <1>1, <2>1, <2>6 DEF InHistory
  <2> HIDE DEF x, row
  <2>9. /\ x.content = row.snapshot /\ x.state # "none"
        /\ x.version = file[c].version + 1 /\ row.new = file[c].version + 1
        /\ row.type = IF changes[c] = << >> THEN "CREATED"
                      ELSE IF row.snapshot.status # file[c].content.status
                      THEN "STATUS_CHANGED" ELSE "UPDATED"
        /\ changes[c] # << >> /\ ~row.refreshed => row.shown = file[c].content
    BY <2>1, <2>2, <2>4, <2>6, <2>7, <2>8
  <2>10. QED
    BY <1>1, <1>3, <2>4, <2>5, <2>6, <2>9, RowStep
<1>4. QED
  BY <1>2, <1>3 DEF WriteFile

LEMMA FailStep ==
    ASSUME HistoryInv, NEW k \in Calls, FailCall(k)
    PROVE  HistoryInv'
BY RefusedStep DEF FailCall, HistoryInv, Typed, CallType, Answers

\* Archiving changes no content, version or row.
LEMMA ArchiveStep ==
    ASSUME HistoryInv, NEW c \in Files, Archive(c) \/ Unarchive(c)
    PROVE  HistoryInv'
<1>1. PICK state \in {"live", "archived"} :
          /\ file[c].state # "none" /\ file' = [file EXCEPT ![c].state = state]
          /\ UNCHANGED <<changes, activity, page, call>>
  BY DEF Archive, Unarchive, Live
<1>2. /\ file' \in [Files -> FileType]
      /\ \A d \in Files : /\ file'[d].content = file[d].content
                           /\ file'[d].version = file[d].version
                           /\ file'[d].state = "none" <=> file[d].state = "none"
  BY <1>1 DEF HistoryInv, Typed, FileType
<1>3. Typed' /\ Begun' /\ HistoryIsTheRecord' /\ FileReplacedWasShown'
  BY <1>1, <1>2
  DEF HistoryInv, Typed, Begun, HistoryIsTheRecord, FileReplacedWasShown
<1>4. PageIsBacked' /\ CallIsBacked'
  BY <1>1
  DEF HistoryInv, PageIsBacked, CallIsBacked, Filled, Running, InHistory
<1>5. QED
  BY <1>3, <1>4 DEF HistoryInv

\* Every step keeps the invariant.
LEMMA HistoryStep ==
    ASSUME HistoryInv, [EnforcementNext]_enforcementVars PROVE HistoryInv'
<1>1. CASE EnforcementOpening
  BY <1>1, NewStep, OpenStep DEF EnforcementOpening
<1>2. CASE EnforcementWork
  BY <1>2, NewStep, FillStep, SubmitStep, AnswerStep, StoreStep, CreateStep, ReadStep,
     WriteStep, ArchiveStep
  DEF EnforcementWork
<1>3. CASE EnforcementMishap
  BY <1>3, FillStep, AnswerStep, FailStep, ArchiveStep DEF EnforcementMishap
<1>4. CASE UNCHANGED enforcementVars
  BY <1>4
  DEF enforcementVars, HistoryInv, Typed, Begun, HistoryIsTheRecord,
      FileReplacedWasShown, PageIsBacked, CallIsBacked, Filled, Running, InHistory
<1>5. QED
  BY <1>1, <1>2, <1>3, <1>4 DEF EnforcementNext

LEMMA HistoryInvariance == EnforcementSpec => []HistoryInv
BY InitHistory, HistoryStep, PTL DEF EnforcementSpec

-----------------------------------------------------------------------------
(* What follows                                                            *)

\* The types of cases, windows and requests.
THEOREM EnforcementTypes == EnforcementSpec => []EnforcementTypeOK
<1>1. HistoryInv => EnforcementTypeOK
  <2> SUFFICES ASSUME HistoryInv PROVE EnforcementTypeOK
    OBVIOUS
  <2>1. \A c \in Files : \A i \in DOMAIN changes[c] : changes[c][i] \in RowType
    BY DEF HistoryInv, Typed
  <2>2. \A c \in Files : file[c].state = "none" <=> file[c].content = Nothing
    BY DEF HistoryInv, Begun
  <2>3. QED
    BY <2>1, <2>2
    DEF HistoryInv, Typed, EnforcementTypeOK, FileType, PageType, CallType, RowType,
        Answers, Maybe
<1>2. QED
  BY <1>1, HistoryInvariance, PTL

\* However many windows save a case at once (update-case.ts:87), its history has one
\* row for every version, each of the right kind, and ends with the case as it is.
THEOREM HistoryIsKept == EnforcementSpec => []HistoryIsTheRecord
<1>1. HistoryInv => HistoryIsTheRecord
  BY DEF HistoryInv
<1>2. QED
  BY <1>1, HistoryInvariance, PTL

\* Only a form whose properties were refreshed under it (AppShell.tsx:380) can
\* overwrite what it did not show.
THEOREM OnlyRefreshedFormsOverwrite == EnforcementSpec => []FileReplacedWasShown
<1>1. HistoryInv => FileReplacedWasShown
  BY DEF HistoryInv
<1>2. QED
  BY <1>1, HistoryInvariance, PTL

-----------------------------------------------------------------------------
(* What a form reports as saved.  FileSavedIsStored alone says nothing of  *)
(* a save that is still under way: the form waits for a request that says  *)
(* what it says, which no other form waits for; and a new case is stored   *)
(* with its attachments one by one.                                        *)

Recorded(c, x) == \E i \in DOMAIN changes[c] : changes[c][i].snapshot = x

\* The request a form waits for is its own, and "ok" tells the truth.
WaitsFor(form, answer) ==
    /\ answer.pc # "idle" /\ answer.heard /\ answer.content = form.sent
    /\ form.file # Nothing => answer.file = form.file
    /\ answer.pc = "answered" /\ answer.answer = "ok" =>
           answer.file \in Files /\ Recorded(answer.file, form.sent)

\* Only the form of an existing case shows one; what a new form has created is in the
\* history, with the attachments it has stored so far.
Attached(form) ==
    /\ form.pc \in {"filling", "saving"} =>
           form.stored = 0 /\ (form.file # Nothing => form.shown # Nothing)
    /\ form.pc \in {"storing", "saved"} =>
           form.file \in Files /\ Recorded(form.file, form.sent)
    /\ form.pc = "storing" =>
           \A i \in 1 .. form.stored : Attachments[i] \in activity[form.file]
    /\ form.pc = "saved" /\ form.shown = Nothing => activity[form.file] = Kinds

FormsInv ==
    /\ \A p \in Pages : Attached(page[p])
    /\ \A p \in Pages : page[p].pc = "saving" => WaitsFor(page[p], call[page[p].call])
    /\ \A p, q \in Pages :
           page[p].pc = "saving" /\ page[q].pc = "saving" /\ page[p].call = page[q].call
               => p = q

\* The history and the attachments of a case only grow.
Grows ==
    /\ \A c \in Files : \A x : Recorded(c, x) => Recorded(c, x)'
    /\ activity' \in [Files -> SUBSET Kinds]
    /\ \A c \in Files : activity[c] \subseteq activity'[c]

\* So what was true of a form that a step leaves alone stays true.
LEMMA AttachedStays ==
    ASSUME Grows, NEW form, Attached(form)
    PROVE  Attached(form)'
<1>1. form.pc \in {"storing", "saved"} =>
          form.file \in Files /\ Recorded(form.file, form.sent)'
  BY DEF Attached, Grows
<1>2. QED
  BY <1>1 DEF Attached, Grows

\* A step of one form that hears no answer.
LEMMA FormMoves ==
    ASSUME HistoryInv, FormsInv, Grows, UNCHANGED call, NEW p \in Pages, NEW new,
           page' = [page EXCEPT ![p] = new], Attached(new)',
           new.pc = "saving" => /\ page[p].pc = "saving" /\ new.call = page[p].call
                                /\ new.sent = page[p].sent /\ new.file = page[p].file
    PROVE  FormsInv'
<1>1. page'[p] = new /\ \A q \in Pages : q # p => page'[q] = page[q]
  BY DEF HistoryInv, Typed
<1>2. ASSUME NEW q \in Pages PROVE Attached(page[q])'
  BY <1>1, AttachedStays DEF FormsInv
<1>3. ASSUME NEW q \in Pages, page'[q].pc = "saving"
      PROVE  WaitsFor(page[q], call[page[q].call])'
  <2>1. /\ page[q].pc = "saving" /\ page'[q].call = page[q].call
        /\ page'[q].sent = page[q].sent /\ page'[q].file = page[q].file
    BY <1>1, <1>3
  <2>2. WaitsFor(page[q], call[page[q].call])
    BY <2>1 DEF FormsInv
  <2>3. QED
    BY <2>1, <2>2 DEF WaitsFor, Grows
<1>4. \A q \in Pages : page'[q].pc = "saving" =>
          page[q].pc = "saving" /\ page'[q].call = page[q].call
  BY <1>1
<1>5. QED
  BY <1>2, <1>3, <1>4 DEF FormsInv

\* A step at the server, of one request.
LEMMA RequestMoves ==
    ASSUME HistoryInv, FormsInv, Grows, UNCHANGED page, NEW k \in Calls, NEW new,
           call' = [call EXCEPT ![k] = new],
           call[k].heard =>
               /\ new.pc # "idle" /\ new.heard /\ new.content = call[k].content
               /\ call[k].file # Nothing => new.file = call[k].file
               /\ new.pc = "answered" /\ new.answer = "ok" =>
                      new.file \in Files /\ Recorded(new.file, new.content)'
    PROVE  FormsInv'
<1>1. call'[k] = new /\ \A j \in Calls : j # k => call'[j] = call[j]
  BY DEF HistoryInv, Typed
<1>2. \A q \in Pages : Attached(page[q])'
  BY AttachedStays DEF FormsInv
<1>3. ASSUME NEW q \in Pages, page[q].pc = "saving"
      PROVE  WaitsFor(page[q], call[page[q].call])'
  <2>1. page[q].call \in Calls /\ WaitsFor(page[q], call[page[q].call])
    BY <1>3 DEF FormsInv, HistoryInv, PageIsBacked
  <2>2. CASE page[q].call = k
    BY <1>1, <2>1, <2>2 DEF WaitsFor
  <2>3. CASE page[q].call # k
    BY <1>1, <2>1, <2>3 DEF WaitsFor, Grows
  <2>4. QED
    BY <2>2, <2>3
<1>4. QED
  BY <1>2, <1>3 DEF FormsInv

\* Nothing is lost where cases and attachments stay.
LEMMA NothingLost ==
    ASSUME HistoryInv, UNCHANGED <<changes, activity>> PROVE Grows
BY DEF HistoryInv, Typed, Grows, Recorded

\* Opening and filling a form.
LEMMA OpenKeepsForms ==
    ASSUME HistoryInv, FormsInv, NEW p \in Pages,
           OpenNew(p) \/ Close(p) \/ \E c \in Files : OpenFile(p, c)
    PROVE  FormsInv'
<1>1. UNCHANGED <<changes, activity, call>>
  BY DEF OpenNew, Close, OpenFile
<1>2. Grows
  BY <1>1, NothingLost
<1>3. PICK new \in PageType :
          /\ page' = [page EXCEPT ![p] = new] /\ new.pc \in {"none", "filling"}
          /\ new.stored = 0 /\ (new.file # Nothing => new.shown # Nothing)
  <2>1. CASE OpenNew(p)
    <3>1. PICK x \in Contents :
              page' = [page EXCEPT ![p] = [NoPage EXCEPT !.pc = "filling", !.fields = x]]
      BY <2>1 DEF OpenNew
    <3> DEFINE new == [NoPage EXCEPT !.pc = "filling", !.fields = x]
    <3>2. /\ new \in PageType /\ new.pc = "filling" /\ new.file = Nothing
          /\ new.stored = 0
      BY EmptyTyped DEF PageType, Maybe, NoPage
    <3>3. page' = [page EXCEPT ![p] = new]
      BY <3>1
    <3> HIDE DEF new
    <3>4. QED
      BY <3>2, <3>3
  <2>2. CASE Close(p)
    BY <2>2, EmptyTyped DEF Close, NoPage
  <2>3. ASSUME NEW c \in Files, OpenFile(p, c)
        PROVE  \E new \in PageType :
                  /\ page' = [page EXCEPT ![p] = new] /\ new.pc \in {"none", "filling"}
                  /\ new.stored = 0 /\ (new.file # Nothing => new.shown # Nothing)
    <3> DEFINE x == file[c].content
               v == file[c].version
               new == [NoPage EXCEPT !.pc = "filling", !.file = c, !.version = v,
                                     !.given = x, !.shown = x, !.fields = x]
    <3>1. x \in Contents /\ v \in Nat
      BY <2>3, LiveIsRecorded DEF OpenFile
    <3>2. page' = [page EXCEPT ![p] = new]
      BY <2>3 DEF OpenFile
    <3> HIDE DEF x, v
    <3>3. new \in PageType /\ new.pc = "filling" /\ new.shown = x
      BY <3>1, EmptyTyped DEF PageType, Maybe
    <3>5. new.stored = 0
      BY DEF NoPage
    <3>4. x # Nothing
      BY <3>1, EnforcementAssumption
    <3> HIDE DEF new
    <3>6. QED
      BY <3>2, <3>3, <3>4, <3>5
  <2>4. QED
    BY <2>1, <2>2, <2>3
<1>4. Attached(new)'
  BY <1>3 DEF Attached
<1>5. QED
  BY <1>1, <1>2, <1>3, <1>4, FormMoves

LEMMA FillKeepsForms ==
    ASSUME HistoryInv, FormsInv, NEW p \in Pages, Fill(p) \/ Refresh(p)
    PROVE  FormsInv'
<1>1. UNCHANGED <<changes, activity, call>>
  BY DEF Fill, Refresh
<1>2. Grows
  BY <1>1, NothingLost
<1>3. page[p] \in PageType /\ Attached(page[p])
  BY DEF HistoryInv, Typed, FormsInv, Fill, Refresh
<1>4. PICK new \in PageType :
          /\ page' = [page EXCEPT ![p] = new] /\ new.pc = page[p].pc
          /\ new.file = page[p].file /\ new.shown = page[p].shown
          /\ new.call = page[p].call /\ new.stored = page[p].stored
          /\ new.sent = page[p].sent
  <2>1. CASE Fill(p)
    <3>1. PICK x \in Contents : page' = [page EXCEPT ![p].fields = x]
      BY <2>1 DEF Fill
    <3> DEFINE new == [page[p] EXCEPT !.fields = x]
    <3>2. /\ new \in PageType /\ new.pc = page[p].pc /\ new.file = page[p].file
          /\ new.shown = page[p].shown /\ new.call = page[p].call
          /\ new.stored = page[p].stored /\ new.sent = page[p].sent
      BY <1>3 DEF PageType, Maybe
    <3>3. page' = [page EXCEPT ![p] = new]
      BY <2>1, <3>1 DEF Fill
    <3> HIDE DEF new
    <3>4. QED
      BY <3>2, <3>3
  <2>2. CASE Refresh(p)
    <3> DEFINE x == file[page[p].file].content
               v == file[page[p].file].version
               new == [page[p] EXCEPT !.version = v, !.given = x]
    <3>1. page[p].file \in Files /\ Live(page[p].file)
      BY <1>3, <2>2 DEF Refresh, PageType, Maybe
    <3>2. x \in Contents /\ v \in Nat
      BY <3>1, LiveIsRecorded
    <3>3. page' = [page EXCEPT ![p] = new]
      BY <2>2 DEF Refresh, HistoryInv, Typed
    <3> HIDE DEF x, v
    <3>4. /\ new \in PageType /\ new.pc = page[p].pc /\ new.file = page[p].file
          /\ new.shown = page[p].shown /\ new.call = page[p].call
          /\ new.sent = page[p].sent /\ new.stored = page[p].stored
      BY <1>3, <3>2 DEF PageType, Maybe
    <3> HIDE DEF new
    <3>5. QED
      BY <3>3, <3>4
  <2>3. QED
    BY <2>1, <2>2
<1>5. Attached(new)'
  BY <1>1, <1>3, <1>4 DEF Attached, Recorded
<1>6. QED
  BY <1>1, <1>2, <1>4, <1>5, FormMoves

\* The attachments of a new case, one after the other.
LEMMA StoreKeepsForms ==
    ASSUME HistoryInv, FormsInv, NEW p \in Pages, StoreDraft(p) \/ StoredAll(p)
    PROVE  FormsInv'
<1> DEFINE c == page[p].file
           next == page[p].stored + 1
<1>1. /\ page[p] \in PageType /\ Attached(page[p]) /\ page[p].pc = "storing"
      /\ UNCHANGED <<changes, call>> /\ c \in Files
      /\ activity \in [Files -> SUBSET Kinds] /\ page[p].stored \in Nat
      /\ page \in [Pages -> PageType]
      /\ Len(Attachments) \in Nat /\ DOMAIN Attachments = 1 .. Len(Attachments)
  <2>1. Len(Attachments) \in Nat /\ DOMAIN Attachments = 1 .. Len(Attachments)
    BY EnforcementAssumption
  <2>2. page[p].stored \in Nat
    BY <2>1 DEF HistoryInv, Typed, PageType
  <2>3. QED
    BY <2>1, <2>2 DEF HistoryInv, Typed, FormsInv, StoreDraft, StoredAll, Attached
<1>2. CASE /\ Live(c) /\ next <= Len(Attachments)
           /\ Stored(p, Attachments[next])
           /\ page' = [page EXCEPT ![p].stored = next]
  <2>1. PICK new :
            /\ page' = [page EXCEPT ![p] = new]
            /\ new.pc = "storing" /\ new.file = c /\ new.sent = page[p].sent
            /\ new.stored = next
    <3> DEFINE form == [page[p] EXCEPT !.stored = next]
    <3>1. /\ form.pc = "storing" /\ form.file = c /\ form.sent = page[p].sent
          /\ form.stored = next
      BY <1>1 DEF PageType
    <3>2. page' = [page EXCEPT ![p] = form]
      BY <1>1, <1>2
    <3> HIDE DEF form
    <3>3. QED
      BY <3>1, <3>2
  <2>3. activity' = [activity EXCEPT ![c] = @ \cup {Attachments[next]}]
    BY <1>2 DEF Stored, StoreOne
  <2>4. Attachments[next] \in Kinds
    BY <1>1, <1>2 DEF Kinds
  <2>5. Grows
    BY <1>1, <2>3, <2>4 DEF Grows, Recorded
  <2>6. \A i \in 1 .. next : Attachments[i] \in activity'[c]
    <3>1. \A i \in 1 .. next : i = next \/ i \in 1 .. page[p].stored
      BY <1>1
    <3>2. QED
      BY <1>1, <2>3, <3>1 DEF Attached
  <2>7. Attached(new)'
    BY <1>1, <2>1, <2>5, <2>6 DEF Attached, Grows
  <2>8. QED
    BY <1>1, <2>1, <2>5, <2>7, FormMoves
<1>3. CASE /\ page' = [page EXCEPT ![p].pc = "filling", ![p].file = Nothing,
                                   ![p].sent = Nothing, ![p].stored = 0]
           /\ UNCHANGED activity
  <2>1. PICK new : /\ page' = [page EXCEPT ![p] = new]
                   /\ new.pc = "filling" /\ new.file = Nothing /\ new.stored = 0
    <3> DEFINE form == [page[p] EXCEPT !.pc = "filling", !.file = Nothing,
                                        !.sent = Nothing, !.stored = 0]
    <3>1. form.pc = "filling" /\ form.file = Nothing /\ form.stored = 0
      BY <1>1 DEF PageType
    <3>2. page' = [page EXCEPT ![p] = form]
      BY <1>1, <1>3
    <3> HIDE DEF form
    <3>3. QED
      BY <3>1, <3>2
  <2>3. Attached(new)' /\ Grows
    BY <1>1, <1>3, <2>1, NothingLost DEF Attached
  <2>4. QED
    BY <1>1, <2>1, <2>3, FormMoves
<1>4. CASE StoredAll(p)
  <2>1. PICK new : /\ page' = [page EXCEPT ![p] = new] /\ new.pc = "saved"
                   /\ new.file = c /\ new.sent = page[p].sent
    <3> DEFINE form == [page[p] EXCEPT !.pc = "saved"]
    <3>1. form.pc = "saved" /\ form.file = c /\ form.sent = page[p].sent
      BY <1>1 DEF PageType
    <3>2. page' = [page EXCEPT ![p] = form]
      BY <1>1, <1>4 DEF StoredAll
    <3> HIDE DEF form
    <3>3. QED
      BY <3>1, <3>2
  <2>2. UNCHANGED activity
    BY <1>4 DEF StoredAll
  <2>3. activity[c] = Kinds
    <3>1. page[p].stored = Len(Attachments)
      BY <1>4 DEF StoredAll
    <3>2. Kinds \subseteq activity[c]
      BY <1>1, <3>1 DEF Kinds, Attached
    <3>3. QED
      BY <1>1, <3>2
  <2>4. Grows
    BY <1>1, <2>2, NothingLost
  <2>5. Attached(new)'
    BY <1>1, <2>1, <2>2, <2>3, <2>4 DEF Attached, Grows
  <2>6. QED
    BY <1>1, <2>1, <2>4, <2>5, FormMoves
<1>5. QED
  BY <1>2, <1>3, <1>4 DEF StoreDraft

\* A form sends a request that no other form waits for.
LEMMA SubmitKeepsForms ==
    ASSUME HistoryInv, FormsInv, NEW p \in Pages, Submit(p)
    PROVE  FormsInv'
<1>1. PICK k \in Calls : call[k].pc = "idle" /\ call' = [call EXCEPT ![k] = Request(p)]
                         /\ page' = [page EXCEPT ![p].pc = "saving", ![p].call = k,
                                                 ![p].sent = page[p].fields]
  BY DEF Submit
<1> DEFINE form == [page[p] EXCEPT !.pc = "saving", !.call = k, !.sent = page[p].fields]
<1>2. /\ page[p] \in PageType /\ page \in [Pages -> PageType] /\ Filled(p)
      /\ call \in [Calls -> CallType] /\ UNCHANGED <<changes, activity>>
      /\ Attached(page[p])
  BY DEF Submit, HistoryInv, Typed, Filled, FormsInv
<1>3. /\ form.pc = "saving" /\ form.call = k /\ form.sent = page[p].fields
      /\ form.file = page[p].file /\ form.shown = page[p].shown
      /\ form.stored = page[p].stored
  BY <1>2 DEF PageType
<1>4. page' = [page EXCEPT ![p] = form]
  BY <1>1, <1>2
<1> HIDE DEF form
<1>5. PICK b \in BOOLEAN : b <=> page[p].given # page[p].shown
  OBVIOUS
<1>6. Request(p) = [NoCall EXCEPT !.pc = "sent", !.heard = TRUE, !.file = page[p].file,
                   !.content = page[p].fields, !.version = page[p].version,
                   !.shown = page[p].shown, !.refreshed = b]
  BY <1>5 DEF Request
<1>7. /\ Request(p).pc = "sent" /\ Request(p).heard
      /\ Request(p).content = page[p].fields /\ Request(p).file = page[p].file
  BY <1>6, EmptyTyped DEF CallType
<1>8. /\ page'[p] = form /\ \A q \in Pages : q # p => page'[q] = page[q]
      /\ call'[k] = Request(p) /\ \A j \in Calls : j # k => call'[j] = call[j]
  BY <1>1, <1>2, <1>4
<1>9. Grows
  BY <1>2, NothingLost
<1>10. ASSUME NEW q \in Pages PROVE Attached(page[q])'
  <2>1. CASE q = p
    BY <1>2, <1>3, <1>8, <2>1 DEF Attached, Filled
  <2>2. CASE q # p
    BY <1>8, <1>9, <2>2, AttachedStays DEF FormsInv
  <2>3. QED
    BY <2>1, <2>2
<1>11. ASSUME NEW q \in Pages, q # p, page[q].pc = "saving"
       PROVE  page[q].call \in Calls /\ page[q].call # k /\ WaitsFor(page[q], call[page[q].call])
  BY <1>1, <1>11 DEF FormsInv, WaitsFor, HistoryInv, PageIsBacked
<1>12. ASSUME NEW q \in Pages, page'[q].pc = "saving"
       PROVE  WaitsFor(page[q], call[page[q].call])'
  <2>1. CASE q = p
    BY <1>3, <1>7, <1>8, <2>1 DEF WaitsFor
  <2>2. CASE q # p
    BY <1>8, <1>9, <1>11, <1>12, <2>2 DEF WaitsFor, Grows
  <2>3. QED
    BY <2>1, <2>2
<1>13. \A q, r \in Pages :
           page'[q].pc = "saving" /\ page'[r].pc = "saving" /\ page'[q].call = page'[r].call
               => q = r
  BY <1>3, <1>8, <1>11 DEF FormsInv
<1>14. QED
  BY <1>10, <1>12, <1>13 DEF FormsInv

\* The answer reaches the one form that waits for it, or nobody.
LEMMA AnswerKeepsForms ==
    ASSUME HistoryInv, FormsInv, NEW p \in Pages, Answered(p) \/ LoseAnswer(p)
    PROVE  FormsInv'
<1> DEFINE k == page[p].call
<1>1. /\ page[p] \in PageType /\ page \in [Pages -> PageType] /\ k \in Calls
      /\ call[k] \in CallType /\ call \in [Calls -> CallType]
      /\ page[p].pc = "saving" /\ UNCHANGED <<changes, activity>>
      /\ Attached(page[p]) /\ WaitsFor(page[p], call[k])
  BY DEF Answered, LoseAnswer, HistoryInv, Typed, PageIsBacked, FormsInv
<1>2. Grows
  BY <1>1, NothingLost
<1>3. \A j \in Calls : j # k => call'[j] = call[j]
  BY <1>1 DEF Answered, LoseAnswer
<1>4. PICK new : page' = [page EXCEPT ![p] = new] /\ Attached(new) /\ new.pc # "saving"
  <2> DEFINE again == [page[p] EXCEPT !.pc = "filling", !.sent = Nothing, !.call = Nothing]
             created == [page[p] EXCEPT !.pc = "storing", !.file = call[k].file,
                                        !.call = Nothing]
             done == [page[p] EXCEPT !.pc = "saved", !.call = Nothing]
  <2>1. CASE page' = [page EXCEPT ![p] = again]
    <3>1. /\ again.pc = "filling" /\ again.file = page[p].file
          /\ again.shown = page[p].shown /\ again.stored = page[p].stored
      BY <1>1 DEF PageType
    <3> HIDE DEF again
    <3>2. Attached(again)
      BY <1>1, <3>1 DEF Attached
    <3>3. QED
      BY <2>1, <3>1, <3>2
  <2>2. CASE /\ page' = [page EXCEPT ![p] = created]
             /\ call[k].pc = "answered" /\ call[k].answer = "ok"
    <3>1. /\ created.pc = "storing" /\ created.file = call[k].file
          /\ created.sent = page[p].sent /\ created.stored = 0
      BY <1>1, <2>2 DEF PageType, Attached
    <3> HIDE DEF created
    <3>2. Attached(created)
      BY <1>1, <2>2, <3>1 DEF Attached, WaitsFor
    <3>3. QED
      BY <2>2, <3>1, <3>2
  <2>3. CASE /\ page' = [page EXCEPT ![p] = done] /\ page[p].file # Nothing
             /\ call[k].pc = "answered" /\ call[k].answer = "ok"
    <3>1. /\ done.pc = "saved" /\ done.file = page[p].file /\ done.sent = page[p].sent
          /\ done.shown = page[p].shown
      BY <1>1 DEF PageType
    <3> HIDE DEF done
    <3>2. Attached(done)
      BY <1>1, <2>3, <3>1 DEF Attached, WaitsFor
    <3>3. QED
      BY <2>3, <3>1, <3>2
  <2>4. QED
    BY <1>1, <2>1, <2>2, <2>3 DEF Answered, LoseAnswer
<1>5. /\ page'[p] = new /\ \A q \in Pages : q # p => page'[q] = page[q]
  BY <1>1, <1>4
<1>6. ASSUME NEW q \in Pages PROVE Attached(page[q])'
  BY <1>2, <1>4, <1>5, AttachedStays DEF FormsInv
<1>7. ASSUME NEW q \in Pages, page'[q].pc = "saving"
      PROVE  WaitsFor(page[q], call[page[q].call])'
  <2>1. q # p /\ page[q].pc = "saving" /\ page'[q] = page[q]
    BY <1>4, <1>5, <1>7
  <2>2. page[q].call \in Calls /\ WaitsFor(page[q], call[page[q].call])
    BY <2>1 DEF FormsInv, HistoryInv, PageIsBacked
  <2>3. page[q].call # k
    BY <1>1, <2>1 DEF FormsInv
  <2>4. QED
    BY <1>2, <1>3, <2>1, <2>2, <2>3 DEF WaitsFor, Grows
<1>8. \A q \in Pages : page'[q].pc = "saving" =>
          page[q].pc = "saving" /\ page'[q].call = page[q].call
  BY <1>4, <1>5
<1>9. QED
  BY <1>6, <1>7, <1>8 DEF FormsInv

-----------------------------------------------------------------------------
(* The server and the forms that wait for it                               *)

\* A request ends: with "ok" only when the history has what it says.
LEMMA FinishKeepsForms ==
    ASSUME HistoryInv, FormsInv, Grows, UNCHANGED page, NEW k \in Calls,
           NEW c, NEW answer, Finish(k, c, answer), Running(k),
           call[k].file # Nothing => c = call[k].file,
           NEW x, x = call[k].content,
           answer = "ok" => c \in Files /\ Recorded(c, x)'
    PROVE  FormsInv'
<1> DEFINE done == [call[k] EXCEPT !.pc = "answered", !.file = c, !.answer = answer]
<1>1. call[k] \in CallType
  BY DEF HistoryInv, Typed
<1>2. /\ done.pc = "answered" /\ done.file = c /\ done.answer = answer
      /\ done.content = call[k].content /\ done.heard = call[k].heard
  BY <1>1 DEF CallType
<1>3. call' = [call EXCEPT ![k] = IF ~call[k].heard THEN NoCall ELSE done]
  BY DEF Finish, HistoryInv, Typed
<1> HIDE DEF done
<1>4. PICK new : new = done
  OBVIOUS
<1>5. CASE call[k].heard
  <2>1. call' = [call EXCEPT ![k] = new] /\ new.content = x /\ new.file = c
    BY <1>2, <1>3, <1>4, <1>5
  <2>2. /\ new.pc # "idle" /\ new.heard /\ new.content = call[k].content
        /\ call[k].file # Nothing => new.file = call[k].file
        /\ new.pc = "answered" /\ new.answer = "ok" =>
               new.file \in Files /\ Recorded(new.file, new.content)'
    BY <1>2, <1>4, <1>5, <2>1 DEF Recorded
  <2>3. QED
    BY <2>1, <2>2, RequestMoves
<1>6. CASE ~call[k].heard
  BY <1>3, <1>6, RequestMoves
<1>7. QED
  BY <1>5, <1>6

LEMMA ReadKeepsForms ==
    ASSUME HistoryInv, FormsInv, NEW k \in Calls, ReadFile(k) \/ FailCall(k)
    PROVE  FormsInv'
<1>1. call[k] \in CallType /\ UNCHANGED <<changes, activity, page>> /\ Running(k)
  BY DEF HistoryInv, Typed, ReadFile, FailCall, Running
<1>2. Grows
  BY <1>1, NothingLost
<1>3. CASE call' = [call EXCEPT ![k].pc = "read"]
  <2>1. PICK new : /\ call' = [call EXCEPT ![k] = new] /\ new.pc = "read"
                   /\ new.heard = call[k].heard /\ new.content = call[k].content
                   /\ new.file = call[k].file
    <3> DEFINE read == [call[k] EXCEPT !.pc = "read"]
    <3>1. /\ read.pc = "read" /\ read.heard = call[k].heard
          /\ read.content = call[k].content /\ read.file = call[k].file
      BY <1>1 DEF CallType
    <3>2. call' = [call EXCEPT ![k] = read]
      BY <1>3 DEF HistoryInv, Typed
    <3> HIDE DEF read
    <3>3. QED
      BY <3>1, <3>2
  <2>2. QED
    BY <1>1, <1>2, <2>1, RequestMoves
<1>4. CASE \E answer \in {"conflict", "missing", "error"} : Finish(k, call[k].file, answer)
  BY <1>1, <1>2, <1>4, FinishKeepsForms
<1>5. QED
  BY <1>3, <1>4 DEF ReadFile, FailCall

\* What is written ends up as the last row of the history.
LEMMA WriteRecords ==
    ASSUME HistoryInv, NEW c \in Files, NEW row \in RowType,
           changes' = [changes EXCEPT ![c] = Append(@, row)], UNCHANGED activity
    PROVE  Grows /\ Recorded(c, row.snapshot)'
<1>1. \A d \in Files : \A i \in 1 .. Len(changes[d]) :
          i \in 1 .. Len(changes'[d]) /\ changes'[d][i] = changes[d][i]
  BY HistoryGrows
<1>2. changes \in [Files -> Seq(RowType)] /\ activity \in [Files -> SUBSET Kinds]
  BY DEF HistoryInv, Typed
<1>3. changes' \in [Files -> Seq(RowType)]
  BY <1>2
<1>4. \A d \in Files : DOMAIN changes[d] = 1 .. Len(changes[d])
                       /\ DOMAIN changes'[d] = 1 .. Len(changes'[d])
  BY <1>2, <1>3
<1>5. Len(changes'[c]) \in DOMAIN changes'[c] /\ changes'[c][Len(changes'[c])] = row
  BY <1>2
<1>6. QED
  BY <1>1, <1>2, <1>4, <1>5 DEF Grows, Recorded

LEMMA WriteKeepsForms ==
    ASSUME HistoryInv, FormsInv, NEW k \in Calls, WriteFile(k) \/ CreateFile(k)
    PROVE  FormsInv'
<1>1. /\ call[k] \in CallType /\ Running(k) /\ UNCHANGED <<page, activity>>
      /\ call[k].content \in Contents
  BY DEF HistoryInv, Typed, WriteFile, CreateFile, Running, CallIsBacked
<1> PICK x \in Contents : x = call[k].content
  BY <1>1
<1> PICK d \in Maybe(Files) : d = call[k].file
  BY <1>1 DEF CallType
<1>2. CASE /\ UNCHANGED changes
           /\ \E c : (call[k].file # Nothing => c = call[k].file) /\ Finish(k, c, "conflict")
  BY <1>1, <1>2, NothingLost, FinishKeepsForms
<1>3. CASE /\ call[k].pc = "read" /\ Finish(k, d, "ok")
           /\ changes' = [changes EXCEPT ![d] = Append(@, HistoryOf(k))]
  <2>1. d \in Files
    BY <1>1, <1>3 DEF HistoryInv, CallIsBacked, Running, CallType, Maybe
  <2>2. HistoryOf(k) \in RowType /\ HistoryOf(k).snapshot = call[k].content
    BY <1>1 DEF HistoryOf, RowType, CallType, Maybe
  <2>3. PICK row \in RowType : row = HistoryOf(k)
    BY <2>2
  <2>4. Grows /\ Recorded(d, row.snapshot)'
    BY <1>1, <1>3, <2>1, <2>3, WriteRecords
  <2>6. row.snapshot = x
    BY <2>2, <2>3
  <2>5. QED
    BY <1>1, <1>3, <2>1, <2>4, <2>6, FinishKeepsForms
<1>4. ASSUME NEW c \in Files, file[c].state = "none", Finish(k, c, "ok"),
             call[k].file = Nothing,
             changes' = [changes EXCEPT ![c] =
                 <<[type |-> "CREATED", previous |-> 0, new |-> 1,
                    snapshot |-> call[k].content, shown |-> Nothing,
                    refreshed |-> FALSE]>>]
      PROVE  FormsInv'
  <2>1. PICK row \in RowType : /\ changes' = [changes EXCEPT ![c] = <<row>>]
                               /\ row.snapshot = x
    <3> DEFINE new == [type |-> "CREATED", previous |-> 0, new |-> 1, snapshot |-> x,
                       shown |-> Nothing, refreshed |-> FALSE]
    <3>1. new \in RowType /\ new.snapshot = x
      BY DEF RowType, Maybe
    <3>2. changes' = [changes EXCEPT ![c] = <<new>>]
      BY <1>4
    <3> HIDE DEF new
    <3>3. QED
      BY <3>1, <3>2
  <2>2. changes' = [changes EXCEPT ![c] = Append(@, row)]
    <3>1. changes[c] = << >> /\ changes \in [Files -> Seq(RowType)]
      BY <1>4 DEF HistoryInv, Typed, Begun
    <3>2. QED
      BY <2>1, <3>1
  <2>3. Grows /\ Recorded(c, row.snapshot)'
    BY <1>1, <2>2, WriteRecords
  <2>4. QED
    BY <1>1, <1>4, <2>1, <2>3, FinishKeepsForms
<1>5. QED
  BY <1>2, <1>3, <1>4 DEF WriteFile, CreateFile

\* Every step keeps what forms are told.
LEMMA FormsStep ==
    ASSUME HistoryInv, FormsInv, [EnforcementNext]_enforcementVars PROVE FormsInv'
<1>1. CASE EnforcementOpening
  BY <1>1, OpenKeepsForms DEF EnforcementOpening
<1>2. CASE UNCHANGED <<changes, activity, page, call>>
  <2>1. Grows
    BY <1>2, NothingLost
  <2>2. QED
    BY <1>2, <2>1, AttachedStays DEF FormsInv, WaitsFor, Grows
<1>3. ASSUME NEW c \in Files, Archive(c) \/ Unarchive(c)
      PROVE  UNCHANGED <<changes, activity, page, call>>
  BY <1>3 DEF Archive, Unarchive
<1>4. CASE EnforcementWork
  BY <1>2, <1>3, <1>4, OpenKeepsForms, FillKeepsForms, SubmitKeepsForms,
     AnswerKeepsForms, StoreKeepsForms, ReadKeepsForms, WriteKeepsForms
  DEF EnforcementWork
<1>5. CASE EnforcementMishap
  BY <1>2, <1>3, <1>5, FillKeepsForms, AnswerKeepsForms, ReadKeepsForms
  DEF EnforcementMishap
<1>6. CASE UNCHANGED enforcementVars
  BY <1>2, <1>6 DEF enforcementVars
<1>7. QED
  BY <1>1, <1>4, <1>5, <1>6 DEF EnforcementNext

\* What a form of an enforcement case held when Save was pressed is in the history of
\* its case once it reports that as saved, a new case with everything attached to it,
\* whatever is saved, lost, refused or repeated in other windows, and whatever is typed
\* meanwhile (NewCaseForm.tsx:488).
THEOREM SavedFileIsStored == EnforcementSpec => []FileSavedIsStored
<1>1. EnforcementInit => FormsInv
  <2> SUFFICES ASSUME EnforcementInit PROVE FormsInv
    OBVIOUS
  <2>1. \A p \in Pages : page[p].pc = "none"
    BY EmptyTyped DEF EnforcementInit
  <2>2. QED
    BY <2>1 DEF FormsInv, Attached
<1>2. HistoryInv /\ FormsInv /\ [EnforcementNext]_enforcementVars => FormsInv'
  BY FormsStep
<1>3. FormsInv => FileSavedIsStored
  BY DEF FormsInv, Attached, Recorded, FileSavedIsStored
<1>4. QED
  BY <1>1, <1>2, <1>3, HistoryInvariance, PTL DEF EnforcementSpec

-----------------------------------------------------------------------------
(* Insurance cases.  A window may read the case and its payments at        *)
(* different times and hear late that it has saved: what it knows is only  *)
(* right as long as the version it has is still that of the case, and that *)
(* is what the invariant says.  A version that is past never comes back.   *)

Full == [general : Generals, payments : PaymentLists]
ClaimType ==
    [state : {"none", "live", "archived"}, version : Nat,
     general : Maybe(Generals), payments : Maybe(PaymentLists)]
SaveType == [form : Full, known : Forms, skipped : BOOLEAN]
WindowType ==
    [pc : {"none", "opening", "editing", "saving", "storing", "saved"},
     claim : Maybe(Claims), version : Nat, known : Forms, form : Forms,
     sent : Forms, skipped : BOOLEAN, stored : 0 .. Len(Enclosures),
     error : BOOLEAN, threw : BOOLEAN]
Replies == {Nothing, "ok", "conflict", "taken", "missing", "error"}
RequestType ==
    [pc : {"idle", "sent", "read", "written", "answered"},
     window : Maybe(Windows), kind : {"save", "payments", Nothing},
     claim : Maybe(Claims), version : Nat, form : Forms, known : Forms,
     skipped : BOOLEAN, latest : Nat, answer : Replies]
Enclosed == {Enclosures[i] : i \in DOMAIN Enclosures}

ClaimsTyped ==
    /\ claim \in [Claims -> ClaimType] /\ saves \in [Claims -> Seq(SaveType)]
    /\ enclosed \in [Claims -> SUBSET Enclosed]
    /\ window \in [Windows -> WindowType] /\ request \in [Requests -> RequestType]

\* The saves of a case are its versions, the last one is the case as it stands.
ClaimsRecorded ==
    \A c \in Claims :
        /\ Len(saves[c]) = claim[c].version
        /\ claim[c].state = "none" <=> claim[c].version = 0
        /\ claim[c].state # "none" =>
               Content(c) \in Full /\ saves[c][claim[c].version].form = Content(c)

\* Some save of the case wrote this form, or one with these payments.
Written(c, form) == \E i \in DOMAIN saves[c] : saves[c][i].form = form
PaymentsWritten(c, payments) ==
    \E i \in DOMAIN saves[c] : saves[c][i].form.payments = payments

\* What goes with a version is right as long as the version is.
Knows(c, version, skipped, known) ==
    /\ c \in Claims /\ version <= claim[c].version
    /\ ~skipped /\ version = claim[c].version => known = Content(c)

At(x, places) == x.pc \in places
WindowBacked(x) ==
    /\ At(x, {"opening"}) =>
           /\ x.claim \in Claims /\ x.version <= claim[x.claim].version
           /\ x.version # 0 /\ x.known.general # Nothing /\ ~x.skipped
           /\ x.version = claim[x.claim].version =>
                  x.known.general = claim[x.claim].general
    /\ At(x, {"editing", "saving", "storing"}) => x.form \in Full
    /\ At(x, {"editing", "saving"}) /\ x.claim # Nothing =>
           Knows(x.claim, x.version, x.skipped, x.known) /\ x.known # Unknown
    /\ At(x, {"editing", "saving"}) /\ x.claim = Nothing => x.stored = 0
    /\ At(x, {"storing", "saved"}) => x.claim \in Claims /\ Written(x.claim, x.sent)
    /\ At(x, {"storing"}) =>
           \A i \in 1 .. x.stored : Enclosures[i] \in enclosed[x.claim]
    /\ At(x, {"saved"}) /\ x.known = Unknown => enclosed[x.claim] = Enclosed

RequestBacked(y) ==
    /\ ~At(y, {"idle"}) => y.form \in Full /\ y.kind \in {"save", "payments"}
    /\ At(y, {"sent", "read"}) /\ y.claim # Nothing =>
           Knows(y.claim, y.version, y.skipped, y.known)
    /\ At(y, {"read"}) => y.claim # Nothing
    /\ At(y, {"written"}) =>
           /\ y.claim \in Claims /\ Written(y.claim, y.form)
           /\ y.version < claim[y.claim].version
           /\ claim[y.claim].version = y.version + 1 => Content(y.claim) = y.form
    /\ At(y, {"answered"}) /\ y.answer = "ok" =>
           /\ y.claim \in Claims /\ Written(y.claim, y.form)
           /\ y.kind = "payments" =>
                  Knows(y.claim, y.latest, y.latest # y.version + 1, y.form)

\* A request and the window that waits for it are about the same case; while it is
\* saving, a window keeps what it sent, whatever is edited meanwhile.
Linked(y) ==
    ~At(y, {"idle"}) =>
        /\ y.kind = "payments" =>
               /\ y.claim \in Claims
               /\ y.window # Nothing => /\ At(window[y.window], {"editing", "saving"})
                                        /\ window[y.window].claim = y.claim
        /\ y.kind = "save" =>
               /\ y.window \in Windows /\ At(window[y.window], {"saving"})
               /\ y.form = window[y.window].sent
               /\ window[y.window].claim # Nothing => y.claim = window[y.window].claim

Saving(y, w) == ~At(y, {"idle"}) /\ y.kind = "save" /\ y.window = w
OneSave ==
    \A r, q \in Requests : \A w \in Windows :
        Saving(request[r], w) /\ Saving(request[q], w) => r = q

\* The payments a window shows are stored, or under way, or it has been told.
UnderWay(w, x) ==
    \E r \in Requests : /\ ~At(request[r], {"idle"}) /\ request[r].window = w
                        /\ request[r].form.payments = x.form.payments
PaymentsTold(w, x) ==
    At(x, {"editing", "saving"}) /\ x.claim # Nothing /\ ~x.error /\ ~x.threw =>
        PaymentsWritten(x.claim, x.form.payments) \/ UnderWay(w, x)

ClaimsInv ==
    /\ ClaimsTyped /\ ClaimsRecorded /\ ClaimReplacedWasShown
    /\ \A w \in Windows : WindowBacked(window[w]) /\ PaymentsTold(w, window[w])
    /\ \A r \in Requests : RequestBacked(request[r]) /\ Linked(request[r])
    /\ OneSave

\* A case keeps its saves and its enclosures, and a version that is past stays so.
ClaimsGrow ==
    /\ claim' \in [Claims -> ClaimType] /\ saves' \in [Claims -> Seq(SaveType)]
    /\ enclosed' \in [Claims -> SUBSET Enclosed]
    /\ ClaimsRecorded' /\ ClaimReplacedWasShown'
    /\ \A c \in Claims :
           /\ claim[c].version <= claim'[c].version
           /\ claim[c].version = claim'[c].version => Content(c)' = Content(c)
           /\ enclosed[c] \subseteq enclosed'[c]
           /\ \A i \in DOMAIN saves[c] :
                  i \in DOMAIN saves'[c] /\ saves'[c][i] = saves[c][i]

\* Nothing changes where cases stay.
LEMMA ClaimsStay ==
    ASSUME ClaimsInv, UNCHANGED <<claim, saves, enclosed>> PROVE ClaimsGrow
BY DEF ClaimsInv, ClaimsTyped, ClaimsRecorded, ClaimReplacedWasShown, ClaimsGrow,
       ClaimType, Content

\* Knowledge stays right, or becomes out of date.
LEMMA KnowledgeStays ==
    ASSUME ClaimsInv, ClaimsGrow, NEW c, NEW version \in Nat, NEW skipped, NEW known,
           Knows(c, version, skipped, known)
    PROVE  Knows(c, version, skipped, known)'
<1>1. c \in Claims /\ claim[c].version \in Nat /\ claim'[c].version \in Nat
  BY DEF ClaimsInv, ClaimsTyped, ClaimType, ClaimsGrow, Knows
<1>2. claim[c].version <= claim'[c].version
      /\ (claim[c].version = claim'[c].version => Content(c)' = Content(c))
  BY <1>1 DEF ClaimsGrow
<1>3. QED
  BY <1>1, <1>2 DEF Knows

\* What is written stays written.
LEMMA WrittenStays ==
    ASSUME ClaimsGrow, NEW c \in Claims, NEW x
    PROVE  /\ Written(c, x) => Written(c, x)'
           /\ PaymentsWritten(c, x) => PaymentsWritten(c, x)'
BY DEF ClaimsGrow, Written, PaymentsWritten

\* So what was true of a window or a request that a step leaves alone stays true.
LEMMA WindowStays ==
    ASSUME ClaimsInv, ClaimsGrow, NEW x \in WindowType, WindowBacked(x)
    PROVE  WindowBacked(x)'
<1>1. At(x, {"opening"}) => WindowBacked(x)'
  <2>1. SUFFICES ASSUME x.pc = "opening" PROVE WindowBacked(x)'
    BY DEF At
  <2>2. /\ x.claim \in Claims /\ x.version <= claim[x.claim].version
        /\ x.version = claim[x.claim].version => x.known.general = claim[x.claim].general
        /\ x.version # 0 /\ x.known.general # Nothing /\ ~x.skipped
    BY <2>1 DEF WindowBacked, At
  <2>3. claim[x.claim].version \in Nat /\ claim'[x.claim].version \in Nat
    BY <2>2 DEF ClaimsInv, ClaimsTyped, ClaimType, ClaimsGrow
  <2>4. /\ claim[x.claim].version <= claim'[x.claim].version
        /\ claim[x.claim].version = claim'[x.claim].version =>
               claim'[x.claim].general = claim[x.claim].general
    BY <2>2 DEF ClaimsGrow, Content
  <2>5. x.version \in Nat
    BY DEF WindowType
  <2>6. QED
    BY <2>1, <2>2, <2>3, <2>4, <2>5 DEF WindowBacked, At
<1>2. At(x, {"editing", "saving"}) => WindowBacked(x)'
  BY KnowledgeStays DEF WindowBacked, At, WindowType
<1>3. At(x, {"storing", "saved"}) => WindowBacked(x)'
  BY WrittenStays DEF WindowBacked, At, ClaimsGrow
<1>4. At(x, {"none"}) => WindowBacked(x)'
  BY DEF WindowBacked, At
<1>5. QED
  BY <1>1, <1>2, <1>3, <1>4 DEF At, WindowType

LEMMA RequestStays ==
    ASSUME ClaimsInv, ClaimsGrow, NEW y \in RequestType, RequestBacked(y)
    PROVE  RequestBacked(y)'
<1>1. y.version \in Nat /\ y.latest \in Nat
  BY DEF RequestType
<1>2. At(y, {"sent", "read"}) => RequestBacked(y)'
  BY <1>1, KnowledgeStays DEF RequestBacked, At
<1>3. At(y, {"written"}) => RequestBacked(y)'
  <2>1. SUFFICES ASSUME y.pc = "written" PROVE RequestBacked(y)'
    BY DEF At
  <2>2. /\ y.claim \in Claims /\ Written(y.claim, y.form)
        /\ y.version < claim[y.claim].version
        /\ claim[y.claim].version = y.version + 1 => Content(y.claim) = y.form
    BY <2>1 DEF RequestBacked, At
  <2>3. /\ claim[y.claim].version \in Nat /\ claim'[y.claim].version \in Nat
        /\ claim[y.claim].version <= claim'[y.claim].version
        /\ claim[y.claim].version = claim'[y.claim].version =>
               Content(y.claim)' = Content(y.claim)
    BY <2>2 DEF ClaimsInv, ClaimsTyped, ClaimType, ClaimsGrow
  <2>4. Written(y.claim, y.form)'
    BY <2>2, WrittenStays
  <2>5. QED
    BY <1>1, <2>1, <2>2, <2>3, <2>4 DEF RequestBacked, At
<1>4. At(y, {"answered"}) => RequestBacked(y)'
  BY <1>1, KnowledgeStays, WrittenStays DEF RequestBacked, At
<1>5. At(y, {"idle"}) => RequestBacked(y)'
  BY DEF RequestBacked, At
<1>6. QED
  BY <1>2, <1>3, <1>4, <1>5 DEF At, RequestType

\* Where windows and requests are what the invariant says, alone or one by one.
LEMMA Backing ==
    ASSUME ClaimsInv
    PROVE  /\ \A w \in Windows : /\ window[w] \in WindowType /\ WindowBacked(window[w])
                                 /\ PaymentsTold(w, window[w])
           /\ \A r \in Requests : /\ request[r] \in RequestType
                                  /\ RequestBacked(request[r]) /\ Linked(request[r])
           /\ Nothing \notin Claims /\ Nothing \notin Windows
BY InsuranceAssumption DEF ClaimsInv, ClaimsTyped

\* What a window was told of its payments stays so while the requests it has under way do.
LEMMA PaymentsStay ==
    ASSUME ClaimsInv, ClaimsGrow, NEW w \in Windows, window'[w] = window[w],
           \A r \in Requests : ~At(request[r], {"idle"}) /\ request[r].window = w =>
               /\ ~At(request'[r], {"idle"}) /\ request'[r].window = w
               /\ request'[r].form = request[r].form
    PROVE  PaymentsTold(w, window[w])'
<1>1. PaymentsTold(w, window[w]) /\ window[w].claim \in Claims \cup {Nothing}
  BY Backing DEF WindowType, Maybe
<1>2. UnderWay(w, window[w]) => UnderWay(w, window[w])'
  BY DEF UnderWay
<1>3. QED
  BY <1>1, <1>2, WrittenStays DEF PaymentsTold

\* A case that is archived, restored or left alone disturbs no window and no request.
LEMMA CaseMoves ==
    ASSUME ClaimsInv, ClaimsGrow, UNCHANGED <<window, request>>
    PROVE  ClaimsInv'
<1>1. \A w \in Windows : WindowBacked(window[w])' /\ PaymentsTold(w, window[w])'
  BY Backing, WindowStays, PaymentsStay
<1>2. \A r \in Requests : RequestBacked(request[r])' /\ Linked(request[r])'
  BY Backing, RequestStays DEF Linked
<1>3. ClaimsTyped' /\ ClaimsRecorded' /\ ClaimReplacedWasShown' /\ OneSave'
  BY DEF ClaimsInv, ClaimsTyped, ClaimsGrow, OneSave
<1>4. QED
  BY <1>1, <1>2, <1>3 DEF ClaimsInv

\* A window moves on while nothing that is under way depends on where it is.
Free(w, new) ==
    \/ ~At(window[w], {"editing", "saving"})
    \/ /\ new.pc = window[w].pc /\ new.claim = window[w].claim
       /\ new.sent = window[w].sent

LEMMA WindowMoves ==
    ASSUME ClaimsInv, ClaimsGrow, UNCHANGED request, NEW w \in Windows, NEW new \in WindowType,
           window' = [window EXCEPT ![w] = new], Free(w, new),
           WindowBacked(new)', PaymentsTold(w, new)'
    PROVE  ClaimsInv'
<1>1. /\ window' \in [Windows -> WindowType] /\ window'[w] = new
      /\ \A v \in Windows : v # w => window'[v] = window[v]
  BY DEF ClaimsInv, ClaimsTyped
<1>2. \A v \in Windows : WindowBacked(window[v])' /\ PaymentsTold(v, window[v])'
  <2>1. TAKE v \in Windows
  <2>2. CASE v = w
    <3>1. WindowBacked(new)' <=> WindowBacked(window[v])'
      BY <1>1, <2>2 DEF WindowBacked
    <3>2. PaymentsTold(w, new)' <=> PaymentsTold(v, window[v])'
      BY <1>1, <2>2 DEF PaymentsTold, UnderWay
    <3>3. QED
      BY <3>1, <3>2
  <2>3. CASE v # w
    <3>1. WindowBacked(window[v])'
      BY <1>1, <2>3, Backing, WindowStays
    <3>2. QED
      BY <1>1, <2>3, <3>1, PaymentsStay
  <2>4. QED
    BY <2>2, <2>3
<1>3. \A r \in Requests : RequestBacked(request[r])' /\ Linked(request[r])'
  <2>1. TAKE r \in Requests
  <2>2. RequestBacked(request[r])' /\ Linked(request[r])
    BY Backing, RequestStays
  <2>3. request[r].window \in Windows \cup {Nothing}
    BY Backing DEF RequestType, Maybe
  <2>4. Linked(request[r])'
    BY <1>1, <2>2, <2>3 DEF Linked, Free, At
  <2>5. QED
    BY <2>2, <2>4
<1>4. ClaimsTyped' /\ ClaimsRecorded' /\ ClaimReplacedWasShown' /\ OneSave'
  BY <1>1 DEF ClaimsInv, ClaimsTyped, ClaimsGrow, OneSave
<1>5. QED
  BY <1>2, <1>3, <1>4 DEF ClaimsInv

\* A request that is sent says what its window holds, and the window waits for it.
LEMMA SendMoves ==
    ASSUME ClaimsInv, ClaimsGrow, NEW w \in Windows, NEW new \in WindowType,
           NEW r \in Requests, NEW y \in RequestType,
           window' = [window EXCEPT ![w] = new], request' = [request EXCEPT ![r] = y],
           At(window[w], {"editing", "saving"}), At(request[r], {"idle"}), At(y, {"sent"}),
           y.window = w, y.claim = window[w].claim, new.claim = y.claim, y.form = new.form,
           \/ /\ y.kind = "payments" /\ new.claim # Nothing
              /\ new.pc = window[w].pc /\ new.sent = window[w].sent
           \/ /\ y.kind = "save" /\ At(window[w], {"editing"})
              /\ At(new, {"saving"}) /\ new.sent = new.form,
           WindowBacked(new)', RequestBacked(y)'
    PROVE  ClaimsInv'
<1>1. /\ window' \in [Windows -> WindowType] /\ window'[w] = new
      /\ \A v \in Windows : v # w => window'[v] = window[v]
  BY DEF ClaimsInv, ClaimsTyped
<1>2. /\ request' \in [Requests -> RequestType] /\ request'[r] = y
      /\ \A q \in Requests : q # r => request'[q] = request[q]
  BY DEF ClaimsInv, ClaimsTyped
<1>3. ~At(y, {"idle"})
  BY DEF At
<1>4. \A v \in Windows : WindowBacked(window[v])' /\ PaymentsTold(v, window[v])'
  <2>1. TAKE v \in Windows
  <2>2. CASE v = w
    <3>1. WindowBacked(new)' <=> WindowBacked(window[v])'
      BY <1>1, <2>2 DEF WindowBacked
    <3>2. UnderWay(v, window[v])'
      BY <1>1, <1>2, <1>3, <2>2 DEF UnderWay
    <3>3. QED
      BY <3>1, <3>2 DEF PaymentsTold
  <2>3. CASE v # w
    <3>1. WindowBacked(window[v])'
      BY <1>1, <2>3, Backing, WindowStays
    <3>2. PaymentsTold(v, window[v])'
      BY <1>1, <1>2, <2>3, PaymentsStay
    <3>3. QED
      BY <1>1, <2>3, <3>1, <3>2 DEF PaymentsTold, UnderWay
  <2>4. QED
    BY <2>2, <2>3
<1>5. y.kind = "save" =>
          \A q \in Requests : ~At(request[q], {"idle"}) /\ request[q].window = w =>
              request[q].kind # "save"
  BY Backing DEF Linked, At
<1>6. \A q \in Requests : RequestBacked(request[q])' /\ Linked(request[q])'
  <2>1. TAKE q \in Requests
  <2>2. CASE q = r
    <3>1. RequestBacked(y)' <=> RequestBacked(request[q])'
      BY <1>2, <2>2 DEF RequestBacked
    <3>2. Linked(request[q])'
      <4>1. new.claim \in Claims \cup {Nothing}
        BY DEF WindowType, Maybe
      <4>2. QED
        BY <1>1, <1>2, <2>2, <4>1 DEF Linked, At
    <3>3. QED
      BY <3>1, <3>2
  <2>3. CASE q # r
    <3>1. RequestBacked(request[q])'
      BY <1>2, <2>3, Backing, RequestStays
    <3>2. Linked(request[q]) /\ request[q].window \in Windows \cup {Nothing}
      BY Backing DEF RequestType, Maybe
    <3>3. Linked(request[q])'
      BY <1>1, <1>2, <1>5, <2>3, <3>2 DEF Linked, At
    <3>4. QED
      BY <3>1, <3>3
  <2>4. QED
    BY <2>2, <2>3
<1>7. OneSave'
  BY <1>2, <1>5 DEF ClaimsInv, OneSave, Saving
<1>8. ClaimsTyped' /\ ClaimsRecorded' /\ ClaimReplacedWasShown'
  BY <1>1, <1>2 DEF ClaimsInv, ClaimsTyped, ClaimsGrow
<1>9. QED
  BY <1>4, <1>6, <1>7, <1>8 DEF ClaimsInv

\* What the server does for a request is no matter of its window yet.
LEMMA ServerMoves ==
    ASSUME ClaimsInv, ClaimsGrow, UNCHANGED window,
           NEW r \in Requests, NEW y \in RequestType,
           request' = [request EXCEPT ![r] = y],
           ~At(request[r], {"idle"}), ~At(y, {"idle"}),
           y.window = request[r].window, y.kind = request[r].kind, y.form = request[r].form,
           y.claim = request[r].claim \/ (request[r].claim = Nothing /\ y.claim \in Claims),
           RequestBacked(y)'
    PROVE  ClaimsInv'
<1>1. /\ request' \in [Requests -> RequestType] /\ request'[r] = y
      /\ \A q \in Requests : q # r => request'[q] = request[q]
  BY DEF ClaimsInv, ClaimsTyped
<1>2. \A v \in Windows : WindowBacked(window[v])' /\ PaymentsTold(v, window[v])'
  <2>1. TAKE v \in Windows
  <2>2. WindowBacked(window[v])'
    BY Backing, WindowStays
  <2>3. PaymentsTold(v, window[v])'
    BY <1>1, PaymentsStay
  <2>4. QED
    BY <2>2, <2>3
<1>3. \A q \in Requests : RequestBacked(request[q])' /\ Linked(request[q])'
  <2>1. TAKE q \in Requests
  <2>2. CASE q = r
    <3>1. RequestBacked(y)' <=> RequestBacked(request[q])'
      BY <1>1, <2>2 DEF RequestBacked
    <3>2. Linked(request[q])'
      BY <1>1, <2>2, Backing DEF Linked
    <3>3. QED
      BY <3>1, <3>2
  <2>3. CASE q # r
    <3>1. RequestBacked(request[q])'
      BY <1>1, <2>3, Backing, RequestStays
    <3>2. Linked(request[q])'
      BY <1>1, <2>3, Backing DEF Linked
    <3>3. QED
      BY <3>1, <3>2
  <2>4. QED
    BY <2>2, <2>3
<1>4. OneSave'
  BY <1>1 DEF ClaimsInv, OneSave, Saving
<1>5. ClaimsTyped' /\ ClaimsRecorded' /\ ClaimReplacedWasShown'
  BY <1>1 DEF ClaimsInv, ClaimsTyped, ClaimsGrow
<1>6. QED
  BY <1>2, <1>3, <1>4, <1>5 DEF ClaimsInv

\* A window without a case and a request that is not in use.
LEMMA Blank ==
    /\ NoWindow \in WindowType /\ NoWindow.pc = "none" /\ NoWindow.claim = Nothing
    /\ NoWindow.stored = 0 /\ NoWindow.known = Unknown /\ ~NoWindow.skipped
    /\ NoRequest \in RequestType /\ NoRequest.pc = "idle"
    /\ Unknown \in Forms /\ Unknown.general = Nothing /\ Unknown.payments = Nothing
BY InsuranceAssumption
   DEF NoWindow, NoRequest, Unknown, WindowType, RequestType, Replies, Forms, Maybe

\* An unused request asks for nothing, a window without a case promises nothing.
LEMMA BlankIsBacked ==
    /\ RequestBacked(NoRequest)' /\ Linked(NoRequest)'
    /\ WindowBacked(NoWindow)' /\ \A w \in Windows : PaymentsTold(w, NoWindow)'
BY Blank DEF RequestBacked, Linked, WindowBacked, PaymentsTold, At

\* An answer that is heard while others may be under way: the window goes on with what it
\* shows, and learns that it is stored or failed; or it was a new case, that has no others.
Told(w, r, new) ==
    /\ At(new, {"editing", "saving"})
    /\ \/ new.pc = window[w].pc /\ new.sent = window[w].sent
       \/ request[r].kind = "save"
    /\ new.claim = window[w].claim /\ new.form = window[w].form
    /\ \/ new.error \/ new.threw
       \/ /\ PaymentsWritten(new.claim, request[r].form.payments)
          /\ new.error = window[w].error /\ new.threw = window[w].threw
          /\ At(window[w], {"editing", "saving"})
LEMMA AnswerMoves ==
    ASSUME ClaimsInv, UNCHANGED <<claim, saves, enclosed>>,
           NEW r \in Requests, ~At(request[r], {"idle"}),
           request' = [request EXCEPT ![r] = NoRequest],
           NEW w \in Windows, w = request[r].window, NEW new \in WindowType,
           window' = [window EXCEPT ![w] = new], WindowBacked(new)',
           \/ Told(w, r, new)
           \/ /\ At(new, {"storing"}) /\ window[w].claim = Nothing
              /\ request[r].kind = "save"
    PROVE  ClaimsInv'
<1>1. /\ window' \in [Windows -> WindowType] /\ window'[w] = new
      /\ \A v \in Windows : v # w => window'[v] = window[v]
  BY DEF ClaimsInv, ClaimsTyped
<1>2. /\ request' \in [Requests -> RequestType] /\ request'[r] = NoRequest
      /\ \A q \in Requests : q # r => request'[q] = request[q]
  BY Blank DEF ClaimsInv, ClaimsTyped
<1>3. At(NoRequest, {"idle"}) /\ ClaimsGrow
  BY Blank, ClaimsStay DEF At
<1>4. PaymentsTold(w, new)'
  <2>1. SUFFICES ASSUME At(new, {"editing", "saving"}), new.claim # Nothing,
                        ~new.error, ~new.threw
                 PROVE  PaymentsWritten(new.claim, new.form.payments)' \/ UnderWay(w, new)'
    BY DEF PaymentsTold
  <2>2. /\ PaymentsWritten(new.claim, request[r].form.payments)
        /\ new.claim = window[w].claim /\ new.form = window[w].form
        /\ ~window[w].error /\ ~window[w].threw /\ At(window[w], {"editing", "saving"})
    BY <2>1 DEF Told, At
  <2>3. PaymentsWritten(new.claim, new.form.payments) \/ UnderWay(w, window[w])
    BY <2>1, <2>2, Backing DEF PaymentsTold
  <2>4. CASE PaymentsWritten(new.claim, new.form.payments)
    BY <2>4 DEF PaymentsWritten
  <2>5. CASE UnderWay(w, window[w])
    <3>1. PICK q \in Requests : /\ ~At(request[q], {"idle"}) /\ request[q].window = w
                                /\ request[q].form.payments = new.form.payments
      BY <2>2, <2>5 DEF UnderWay
    <3>2. CASE q = r
      BY <2>2, <3>1, <3>2 DEF PaymentsWritten
    <3>3. CASE q # r
      BY <1>2, <3>1, <3>3 DEF UnderWay
    <3>4. QED
      BY <3>2, <3>3
  <2>6. QED
    BY <2>3, <2>4, <2>5
<1>5. \A v \in Windows : WindowBacked(window[v])' /\ PaymentsTold(v, window[v])'
  <2>1. TAKE v \in Windows
  <2>2. CASE v = w
    <3>1. WindowBacked(new)' <=> WindowBacked(window[v])'
      BY <1>1, <2>2 DEF WindowBacked
    <3>2. PaymentsTold(w, new)' <=> PaymentsTold(v, window[v])'
      BY <1>1, <2>2 DEF PaymentsTold, UnderWay
    <3>3. QED
      BY <1>4, <3>1, <3>2
  <2>3. CASE v # w
    <3>1. WindowBacked(window[v])'
      BY <1>1, <1>3, <2>3, Backing, WindowStays
    <3>2. PaymentsTold(v, window[v])'
      BY <1>1, <1>2, <1>3, <2>3, PaymentsStay
    <3>3. QED
      BY <1>1, <2>3, <3>1, <3>2 DEF PaymentsTold, UnderWay
  <2>4. QED
    BY <2>2, <2>3
<1>6. ASSUME NEW q \in Requests, q # r, ~At(request[q], {"idle"}), request[q].window = w
      PROVE  /\ request[r].kind = "save" => request[q].kind = "payments"
             /\ request[q].kind = "save" => new.pc = "saving" /\ Told(w, r, new)
             /\ request[q].kind = "payments" => Told(w, r, new)
  <2>1. request[r].kind \in {"save", "payments"} /\ request[q].kind \in {"save", "payments"}
    BY <1>6, Backing DEF RequestBacked
  <2>2. request[r].kind = "save" => request[q].kind = "payments"
    BY <1>6, <2>1 DEF ClaimsInv, OneSave, Saving
  <2>3. request[q].kind = "payments" => window[w].claim # Nothing
    BY <1>6, Backing DEF Linked
  <2>4. request[q].kind = "save" => window[w].pc = "saving"
    BY <1>6, Backing DEF Linked, At
  <2>5. request[q].kind = "payments" => Told(w, r, new)
    BY <2>3
  <2>6. request[q].kind = "save" => new.pc = "saving" /\ Told(w, r, new)
    BY <2>1, <2>2, <2>4 DEF Told
  <2>7. QED
    BY <2>2, <2>5, <2>6
<1>7. \A q \in Requests : RequestBacked(request[q])' /\ Linked(request[q])'
  <2>1. TAKE q \in Requests
  <2>2. CASE q = r
    <3>1. /\ RequestBacked(NoRequest)' <=> RequestBacked(request[q])'
          /\ Linked(NoRequest)' <=> Linked(request[q])'
      BY <1>2, <2>2 DEF RequestBacked, Linked
    <3>2. QED
      BY <3>1, BlankIsBacked
  <2>3. CASE q # r
    <3>1. RequestBacked(request[q])'
      BY <1>2, <1>3, <2>3, Backing, RequestStays
    <3>2. Linked(request[q]) /\ request[q].window \in Windows \cup {Nothing}
      BY Backing DEF RequestType, Maybe
    <3>3. Linked(request[q])'
      <4>1. CASE request[q].window = w
        BY <1>1, <1>2, <1>6, <2>3, <3>2, <4>1 DEF Linked, Told, At
      <4>2. CASE request[q].window # w
        BY <1>1, <1>2, <2>3, <3>2, <4>2 DEF Linked
      <4>3. QED
        BY <4>1, <4>2
    <3>4. QED
      BY <3>1, <3>3
  <2>4. QED
    BY <2>2, <2>3
<1>8. OneSave'
  BY <1>2, <1>3 DEF ClaimsInv, OneSave, Saving
<1>9. ClaimsTyped' /\ ClaimsRecorded' /\ ClaimReplacedWasShown'
  BY <1>1, <1>2, <1>3 DEF ClaimsInv, ClaimsTyped, ClaimsGrow
<1>10. QED
  BY <1>5, <1>7, <1>8, <1>9 DEF ClaimsInv

\* An answer nobody waits for any more.
LEMMA UnheardMoves ==
    ASSUME ClaimsInv, UNCHANGED <<claim, saves, enclosed, window>>,
           NEW r \in Requests, request[r].window = Nothing,
           request' = [request EXCEPT ![r] = NoRequest]
    PROVE  ClaimsInv'
<1>1. /\ request' \in [Requests -> RequestType] /\ request'[r] = NoRequest
      /\ \A q \in Requests : q # r => request'[q] = request[q]
  BY Blank DEF ClaimsInv, ClaimsTyped
<1>2. At(NoRequest, {"idle"}) /\ ClaimsGrow
  BY Blank, ClaimsStay DEF At
<1>3. \A v \in Windows : WindowBacked(window[v])' /\ PaymentsTold(v, window[v])'
  BY <1>1, <1>2, Backing, WindowStays, PaymentsStay
<1>4. \A q \in Requests : RequestBacked(request[q])' /\ Linked(request[q])'
  <2>1. TAKE q \in Requests
  <2>2. CASE q = r
    <3>1. /\ RequestBacked(NoRequest)' <=> RequestBacked(request[q])'
          /\ Linked(NoRequest)' <=> Linked(request[q])'
      BY <1>1, <2>2 DEF RequestBacked, Linked
    <3>2. QED
      BY <3>1, BlankIsBacked
  <2>3. CASE q # r
    <3>1. RequestBacked(request[q])'
      BY <1>1, <1>2, <2>3, Backing, RequestStays
    <3>2. Linked(request[q])'
      BY <1>1, <2>3, Backing DEF Linked
    <3>3. QED
      BY <3>1, <3>2
  <2>4. QED
    BY <2>2, <2>3
<1>5. OneSave'
  BY <1>1, <1>2 DEF ClaimsInv, OneSave, Saving
<1>6. ClaimsTyped' /\ ClaimsRecorded' /\ ClaimReplacedWasShown'
  BY <1>1, <1>2 DEF ClaimsInv, ClaimsTyped, ClaimsGrow
<1>7. QED
  BY <1>3, <1>4, <1>5, <1>6 DEF ClaimsInv

\* What a request is backed by has nothing to do with the window it came from.
LEMMA LeftIsBacked ==
    ASSUME NEW y \in RequestType, RequestBacked(y)
    PROVE  /\ [y EXCEPT !.window = Nothing] \in RequestType
           /\ [y EXCEPT !.window = Nothing].window = Nothing
           /\ [y EXCEPT !.window = Nothing].pc = y.pc
           /\ [y EXCEPT !.window = Nothing].kind = y.kind
           /\ [y EXCEPT !.window = Nothing].claim = y.claim
           /\ [y EXCEPT !.window = Nothing].form = y.form
           /\ RequestBacked([y EXCEPT !.window = Nothing])
<1>1. PICK z : z = [y EXCEPT !.window = Nothing]
  OBVIOUS
<1>2. /\ z \in RequestType /\ z.window = Nothing
      /\ z.pc = y.pc /\ z.kind = y.kind /\ z.claim = y.claim /\ z.version = y.version
      /\ z.form = y.form /\ z.known = y.known /\ z.skipped = y.skipped
      /\ z.latest = y.latest /\ z.answer = y.answer
  BY <1>1 DEF RequestType, Maybe
<1>3. RequestBacked(z)
  BY <1>2 DEF RequestBacked, At
<1>4. QED
  BY <1>1, <1>2, <1>3

\* The answer to Save with which the page is left: whatever else is under way is not heard.
LEMMA LastAnswerMoves ==
    ASSUME ClaimsInv, UNCHANGED <<claim, saves, enclosed>>,
           NEW r \in Requests, ~At(request[r], {"idle"}), request[r].kind = "save",
           NEW w \in Windows, w = request[r].window, NEW new \in WindowType,
           request' = [q \in Requests |->
               IF q = r THEN NoRequest
               ELSE IF request[q].window = w
                    THEN [request[q] EXCEPT !.window = Nothing] ELSE request[q]],
           window' = [window EXCEPT ![w] = new], WindowBacked(new)',
           ~At(new, {"editing", "saving"})
    PROVE  ClaimsInv'
<1>1. /\ window' \in [Windows -> WindowType] /\ window'[w] = new
      /\ \A v \in Windows : v # w => window'[v] = window[v]
  BY DEF ClaimsInv, ClaimsTyped
<1>2. At(NoRequest, {"idle"}) /\ ClaimsGrow
  BY Blank, ClaimsStay DEF At
<1>3. /\ request'[r] = NoRequest
      /\ \A q \in Requests : q # r /\ request[q].window # w => request'[q] = request[q]
      /\ \A q \in Requests : q # r /\ request[q].window = w =>
             request'[q] = [request[q] EXCEPT !.window = Nothing]
  OBVIOUS
<1>4. ASSUME NEW q \in Requests, q # r, request[q].window = w
      PROVE  /\ request'[q] \in RequestType /\ request'[q].window = Nothing
             /\ request'[q].pc = request[q].pc /\ request'[q].kind = request[q].kind
             /\ request'[q].claim = request[q].claim /\ request'[q].form = request[q].form
             /\ RequestBacked(request[q])'
  <2>1. request[q] \in RequestType /\ RequestBacked(request[q])
    BY Backing
  <2>2. PICK y : y = [request[q] EXCEPT !.window = Nothing]
    OBVIOUS
  <2>3. /\ y \in RequestType /\ y.window = Nothing /\ y.pc = request[q].pc
        /\ y.kind = request[q].kind /\ y.claim = request[q].claim
        /\ y.form = request[q].form /\ RequestBacked(y)
    BY <2>1, <2>2, LeftIsBacked
  <2>4. RequestBacked(y)'
    BY <1>2, <2>3, RequestStays
  <2>5. request'[q] = y
    BY <1>3, <1>4, <2>2
  <2>6. RequestBacked(y)' <=> RequestBacked(request[q])'
    BY <2>5 DEF RequestBacked
  <2>7. QED
    BY <2>3, <2>4, <2>5, <2>6
<1>5. request' \in [Requests -> RequestType]
  BY <1>3, <1>4, Blank, Backing
<1>6. \A v \in Windows : WindowBacked(window[v])' /\ PaymentsTold(v, window[v])'
  <2>1. TAKE v \in Windows
  <2>2. CASE v = w
    <3>1. WindowBacked(new)' <=> WindowBacked(window[v])'
      BY <1>1, <2>2 DEF WindowBacked
    <3>2. PaymentsTold(v, window[v])'
      BY <1>1, <2>2 DEF PaymentsTold, At
    <3>3. QED
      BY <3>1, <3>2
  <2>3. CASE v # w
    <3>1. WindowBacked(window[v])'
      BY <1>1, <1>2, <2>3, Backing, WindowStays
    <3>2. PaymentsTold(v, window[v])'
      BY <1>1, <1>2, <1>3, <2>3, PaymentsStay
    <3>3. QED
      BY <1>1, <2>3, <3>1, <3>2 DEF PaymentsTold, UnderWay
  <2>4. QED
    BY <2>2, <2>3
<1>7. \A q \in Requests : RequestBacked(request[q])' /\ Linked(request[q])'
  <2>1. TAKE q \in Requests
  <2>2. CASE q = r
    <3>1. /\ RequestBacked(NoRequest)' <=> RequestBacked(request[q])'
          /\ Linked(NoRequest)' <=> Linked(request[q])'
      BY <1>3, <2>2 DEF RequestBacked, Linked
    <3>2. QED
      BY <3>1, BlankIsBacked
  <2>3. CASE q # r /\ request[q].window # w
    <3>1. RequestBacked(request[q])'
      BY <1>2, <1>3, <2>3, Backing, RequestStays
    <3>2. Linked(request[q]) /\ request[q].window \in Windows \cup {Nothing}
      BY Backing DEF RequestType, Maybe
    <3>3. Linked(request[q])'
      BY <1>1, <1>3, <2>3, <3>2 DEF Linked
    <3>4. QED
      BY <3>1, <3>3
  <2>4. CASE q # r /\ request[q].window = w
    <3>1. ~At(request[q], {"idle"}) => request[q].kind # "save"
      BY <2>4 DEF ClaimsInv, OneSave, Saving
    <3>2. Linked(request[q])'
      BY <1>4, <2>4, <3>1, Backing DEF Linked, At
    <3>3. QED
      BY <1>4, <2>4, <3>2
  <2>5. QED
    BY <2>2, <2>3, <2>4
<1>8. OneSave'
  <2>1. \A q \in Requests : \A v \in Windows :
            Saving(request[q], v)' => q # r /\ request'[q] = request[q]
    BY <1>2, <1>3, <1>4, Backing DEF Saving
  <2>2. QED
    BY <2>1 DEF ClaimsInv, OneSave, Saving
<1>9. ClaimsTyped' /\ ClaimsRecorded' /\ ClaimReplacedWasShown'
  BY <1>1, <1>2, <1>5 DEF ClaimsInv, ClaimsTyped, ClaimsGrow
<1>10. QED
  BY <1>6, <1>7, <1>8, <1>9 DEF ClaimsInv

-----------------------------------------------------------------------------
(* Insurance cases: the window                                             *)

\* A new case, whose form is filled from the start.
LEMMA NewClaimStep ==
    ASSUME ClaimsInv, NEW w \in Windows, NewClaim(w) PROVE ClaimsInv'
<1>1. PICK g \in Generals, l \in PaymentLists :
          window' = [window EXCEPT ![w] =
              [NoWindow EXCEPT !.pc = "editing", !.form = [general |-> g, payments |-> l]]]
  BY DEF NewClaim
<1>2. PICK new : new = [NoWindow EXCEPT !.pc = "editing",
                                        !.form = [general |-> g, payments |-> l]]
  OBVIOUS
<1>3. PICK form : form = [general |-> g, payments |-> l]
  OBVIOUS
<1>4. form \in Full /\ form \in Forms
  BY <1>3 DEF Full, Forms
<1>5. /\ new \in WindowType /\ new.pc = "editing" /\ new.claim = Nothing /\ new.stored = 0
      /\ new.form = form
  BY <1>2, <1>3, <1>4, Blank DEF WindowType
<1>6. WindowBacked(new)' /\ PaymentsTold(w, new)'
  BY <1>4, <1>5 DEF WindowBacked, PaymentsTold, At
<1>7. UNCHANGED <<claim, saves, enclosed, request>> /\ Free(w, new)
  BY DEF NewClaim, Free, At
<1>8. QED
  BY <1>1, <1>2, <1>5, <1>6, <1>7, ClaimsStay, WindowMoves

\* The case is read, and what was read with it is of its version.
LEMMA ReadRowStep ==
    ASSUME ClaimsInv, NEW w \in Windows, NEW c \in Claims, ReadRow(w, c) PROVE ClaimsInv'
<1>1. PICK new : new = [NoWindow EXCEPT !.pc = "opening", !.claim = c,
                            !.version = claim[c].version, !.known.general = claim[c].general]
  OBVIOUS
<1>2. /\ claim[c].version \in Nat /\ claim[c].general \in Generals
      /\ claim[c].general # Nothing /\ claim[c].version # 0
  BY InsuranceAssumption
     DEF ClaimsInv, ClaimsTyped, ClaimsRecorded, ClaimType, Full, Content, ReadRow, Open
<1>3. PICK known : known = [NoWindow.known EXCEPT !.general = claim[c].general]
  OBVIOUS
<1>4. known \in Forms /\ known.general = claim[c].general
  BY <1>2, <1>3, Blank DEF Forms
<1>5. /\ new \in WindowType /\ new.pc = "opening" /\ new.claim = c
      /\ new.version = claim[c].version /\ new.known = known /\ ~new.skipped
  BY <1>1, <1>2, <1>3, <1>4, Blank DEF WindowType, Maybe
<1>6. UNCHANGED <<claim, saves, enclosed, request>> /\ Free(w, new)
      /\ window' = [window EXCEPT ![w] = new]
  BY <1>1 DEF ReadRow, Free, At
<1>7. WindowBacked(new)' /\ PaymentsTold(w, new)'
  BY <1>2, <1>4, <1>5, <1>6 DEF WindowBacked, PaymentsTold, At
<1>8. QED
  BY <1>5, <1>6, <1>7, ClaimsStay, WindowMoves

\* Its payments are read when the case may have a newer version.
LEMMA ReadPaymentsStep ==
    ASSUME ClaimsInv, NEW w \in Windows, ReadPayments(w) PROVE ClaimsInv'
<1> DEFINE c == window[w].claim
<1>1. PICK read : read = [window[w].known EXCEPT !.payments = claim[c].payments]
  OBVIOUS
<1>2. /\ window[w] \in WindowType /\ window[w].pc = "opening" /\ WindowBacked(window[w])
  BY Backing DEF ReadPayments
<1>3. /\ c \in Claims /\ window[w].version <= claim[c].version
      /\ window[w].version # 0 /\ window[w].known.general # Nothing
      /\ ~window[w].skipped
      /\ window[w].version = claim[c].version =>
             window[w].known.general = claim[c].general
  BY <1>2 DEF WindowBacked, At
<1>4. /\ claim[c].version \in Nat /\ claim[c].payments \in Maybe(PaymentLists)
      /\ claim[c].version # 0 => Content(c) \in Full
  BY <1>3 DEF ClaimsInv, ClaimsTyped, ClaimsRecorded, ClaimType
<1>5. window[w].version \in Nat /\ window[w].known \in Forms
  BY <1>2 DEF WindowType
<1>6. /\ read \in Forms /\ read.general = window[w].known.general
      /\ read.payments = claim[c].payments
  BY <1>1, <1>4, <1>5 DEF Forms, Maybe
<1>7. Content(c) \in Full /\ read \in Full /\ read # Unknown
  <2>1. claim[c].version # 0
    BY <1>3, <1>4, <1>5
  <2>2. Content(c) \in Full
    BY <1>4, <2>1
  <2>3. read.payments \in PaymentLists
    BY <1>6, <2>2 DEF Full, Content
  <2>4. QED
    BY <1>3, <1>6, <2>2, <2>3, Blank DEF Full, Forms
<1>8. window[w].version = claim[c].version => read = Content(c)
  <2>1. window[w].version = claim[c].version => read.general = claim[c].general
    BY <1>3, <1>6
  <2>2. QED
    BY <1>6, <1>7, <2>1 DEF Full, Content
<1>9. PICK new : new = [window[w] EXCEPT !.pc = "editing", !.known = read, !.form = read]
  OBVIOUS
<1>10. /\ new \in WindowType /\ new.pc = "editing" /\ new.claim = c
       /\ new.version = window[w].version /\ new.known = read /\ new.form = read
       /\ ~new.skipped /\ new.error = window[w].error /\ new.threw = window[w].threw
  BY <1>2, <1>3, <1>6, <1>9 DEF WindowType
<1>11. /\ window' = [window EXCEPT ![w] = new] /\ UNCHANGED <<claim, saves, enclosed, request>>
       /\ Free(w, new)
  BY <1>1, <1>9 DEF ReadPayments, Free, At, ClaimsInv, ClaimsTyped
<1>12. WindowBacked(new)'
  <2>1. Knows(c, new.version, new.skipped, read)
    BY <1>3, <1>8, <1>10 DEF Knows
  <2>2. Knows(new.claim, new.version, new.skipped, new.known)'
    BY <1>10, <2>1, KnowledgeStays, ClaimsStay, <1>5, <1>11
  <2>3. new.claim # Nothing
    BY <1>3, <1>10, Backing
  <2>4. QED
    BY <1>7, <1>10, <2>2, <2>3 DEF WindowBacked, At
<1>13. PaymentsTold(w, new)'
  <2>1. /\ saves[c] \in Seq(SaveType) /\ Len(saves[c]) = claim[c].version
        /\ claim[c].version # 0 /\ saves[c][claim[c].version].form = Content(c)
    BY <1>3, <1>4, <1>5 DEF ClaimsInv, ClaimsTyped, ClaimsRecorded
  <2>2. claim[c].version \in DOMAIN saves[c]
    BY <1>4, <2>1
  <2>3. PaymentsWritten(c, claim[c].payments)
    BY <2>1, <2>2 DEF PaymentsWritten, Content
  <2>4. PaymentsWritten(new.claim, new.form.payments)'
    BY <1>3, <1>6, <1>10, <1>11, <2>3, WrittenStays, ClaimsStay
  <2>5. QED
    BY <2>4 DEF PaymentsTold
<1>14. QED
  BY <1>10, <1>11, <1>12, <1>13, ClaimsStay, WindowMoves

\* A form that is filled in stays one that is filled in.
LEMMA FormStaysFull ==
    ASSUME NEW form \in Full
    PROVE  /\ form \in Forms /\ form # Unknown
           /\ \A g \in Generals :
                  /\ [form EXCEPT !.general = g] \in Full
                  /\ [form EXCEPT !.general = g].payments = form.payments
           /\ \A l \in PaymentLists : [form EXCEPT !.payments = l] \in Full
BY InsuranceAssumption, Blank DEF Full, Forms

\* What a window is while it can be edited.
LEMMA Writing ==
    ASSUME ClaimsInv, NEW w \in Windows, Writable(w)
    PROVE  /\ window[w] \in WindowType /\ window[w].form \in Full
           /\ window[w].claim \in Claims \cup {Nothing}
           /\ window[w].claim # Nothing /\ At(window[w], {"editing", "saving"}) =>
                  /\ Knows(window[w].claim, window[w].version, window[w].skipped,
                           window[w].known)
                  /\ window[w].known # Unknown
<1>1. window[w] \in WindowType /\ WindowBacked(window[w])
  BY Backing
<1>2. QED
  BY <1>1 DEF WindowBacked, At, WindowType, Maybe, Writable

\* So a window with another form, or saving what it shows, is as right as before.
LEMMA EditedIsBacked ==
    ASSUME ClaimsInv, ClaimsGrow, NEW w \in Windows, Writable(w),
           NEW new \in WindowType, new.form \in Full,
           \/ new.pc = window[w].pc /\ new.sent = window[w].sent
           \/ window[w].pc = "editing" /\ new.pc = "saving",
           new.claim = window[w].claim, new.version = window[w].version,
           new.skipped = window[w].skipped, new.known = window[w].known,
           new.stored = window[w].stored
    PROVE  WindowBacked(new)'
<1>1. WindowBacked(window[w])
  BY Backing
<1>2. WindowBacked(new)
  BY <1>1 DEF WindowBacked, At, Writable
<1>3. QED
  BY <1>2, WindowStays

LEMMA EditGeneralStep ==
    ASSUME ClaimsInv, NEW w \in Windows, EditGeneral(w) PROVE ClaimsInv'
<1>1. PICK g \in Generals : window' = [window EXCEPT ![w].form.general = g]
  BY DEF EditGeneral
<1>2. Writable(w) /\ UNCHANGED <<claim, saves, enclosed, request>>
  BY DEF EditGeneral
<1>3. window[w] \in WindowType /\ window[w].form \in Full
  BY <1>2, Writing
<1>4. PICK form : form = [window[w].form EXCEPT !.general = g]
  OBVIOUS
<1>5. form \in Full /\ form \in Forms /\ form.payments = window[w].form.payments
  BY <1>3, <1>4, FormStaysFull
<1>6. PICK new : new = [window[w] EXCEPT !.form = form]
  OBVIOUS
<1>7. /\ new \in WindowType /\ new.pc = window[w].pc /\ new.form = form
      /\ new.claim = window[w].claim /\ new.version = window[w].version
      /\ new.skipped = window[w].skipped /\ new.known = window[w].known
      /\ new.stored = window[w].stored /\ new.sent = window[w].sent
      /\ new.error = window[w].error /\ new.threw = window[w].threw
  BY <1>2, <1>3, <1>5, <1>6 DEF WindowType
<1>8. window' = [window EXCEPT ![w] = new]
  BY <1>1, <1>4, <1>6
<1>9. ClaimsGrow /\ Free(w, new)
  BY <1>2, <1>7, ClaimsStay DEF Free
<1>10. WindowBacked(new)'
  BY <1>2, <1>5, <1>7, <1>9, EditedIsBacked
<1>11. PaymentsTold(w, new)'
  <2>1. PaymentsTold(w, window[w])
    BY Backing
  <2>2. PaymentsTold(w, new)
    BY <1>2, <1>5, <1>7, <2>1 DEF PaymentsTold, UnderWay, At
  <2>3. QED
    BY <1>2, <2>2 DEF PaymentsTold, UnderWay, PaymentsWritten
<1>12. QED
  BY <1>2, <1>7, <1>8, <1>9, <1>10, <1>11, WindowMoves

\* The request that says what the form of a window is.
LEMMA SentIsBacked ==
    ASSUME ClaimsInv, UNCHANGED <<claim, saves, enclosed>>,
           NEW w \in Windows, At(window[w], {"editing", "saving"}), NEW form \in Full,
           NEW kind \in {"save", "payments"}, SendForm(w, kind, form)
    PROVE  \E r \in Requests, y \in RequestType :
               /\ request' = [request EXCEPT ![r] = y]
               /\ At(request[r], {"idle"}) /\ At(y, {"sent"})
               /\ y.window = w /\ y.kind = kind /\ y.claim = window[w].claim
               /\ y.form = form /\ RequestBacked(y)'
<1>1. PICK r \in Requests :
          /\ request[r].pc = "idle"
          /\ request' = [request EXCEPT ![r] =
                 [NoRequest EXCEPT !.pc = "sent", !.window = w, !.kind = kind, !.form = form,
                      !.claim = window[w].claim, !.version = window[w].version,
                      !.known = window[w].known, !.skipped = window[w].skipped]]
  BY DEF SendForm
<1>2. PICK y :
          y = [NoRequest EXCEPT !.pc = "sent", !.window = w, !.kind = kind, !.form = form,
                   !.claim = window[w].claim, !.version = window[w].version,
                   !.known = window[w].known, !.skipped = window[w].skipped]
  OBVIOUS
<1>3. /\ window[w].claim \in Claims \cup {Nothing} /\ window[w].version \in Nat
      /\ window[w].known \in Forms /\ window[w].skipped \in BOOLEAN /\ form \in Forms
  BY Writing, FormStaysFull DEF WindowType, Writable, At
<1>4. /\ y \in RequestType /\ y.pc = "sent" /\ y.window = w /\ y.kind = kind
      /\ y.form = form /\ y.claim = window[w].claim /\ y.version = window[w].version
      /\ y.known = window[w].known /\ y.skipped = window[w].skipped
  BY <1>2, <1>3, Blank DEF RequestType, Maybe
<1>5. RequestBacked(y)
  BY <1>4, Writing DEF RequestBacked, At, Writable
<1>6. RequestBacked(y)'
  BY <1>4, <1>5, ClaimsStay, RequestStays
<1>7. QED
  BY <1>1, <1>2, <1>4, <1>6 DEF At

LEMMA ChangePaymentsStep ==
    ASSUME ClaimsInv, NEW w \in Windows, ChangePayments(w) PROVE ClaimsInv'
<1>1. PICK l \in PaymentLists :
          /\ window' = [window EXCEPT
                 ![w].form = [window[w].form EXCEPT !.payments = l],
                 ![w].error = @ /\ IsNew(w)]
          /\ IF IsNew(w) THEN UNCHANGED request
             ELSE SendForm(w, "payments", [window[w].form EXCEPT !.payments = l])
  BY DEF ChangePayments
<1>2. Writable(w) /\ UNCHANGED <<claim, saves, enclosed>>
  BY DEF ChangePayments
<1>3. window[w] \in WindowType /\ window[w].form \in Full
  BY <1>2, Writing
<1>4. PICK form : form = [window[w].form EXCEPT !.payments = l]
  OBVIOUS
<1>5. form \in Full /\ form \in Forms
  BY <1>3, <1>4, FormStaysFull
<1>6. PICK error \in BOOLEAN : error = (window[w].error /\ IsNew(w))
  OBVIOUS
<1>7. PICK new : new = [window[w] EXCEPT !.form = form, !.error = error]
  OBVIOUS
<1>8. /\ new \in WindowType /\ new.pc = window[w].pc /\ new.form = form
      /\ new.claim = window[w].claim /\ new.version = window[w].version
      /\ new.skipped = window[w].skipped /\ new.known = window[w].known
      /\ new.stored = window[w].stored /\ new.sent = window[w].sent
  BY <1>2, <1>3, <1>5, <1>7 DEF WindowType
<1>9. window' = [window EXCEPT ![w] = new]
  BY <1>1, <1>3, <1>4, <1>6, <1>7 DEF WindowType
<1>10. ClaimsGrow /\ Free(w, new)
  BY <1>2, <1>8, ClaimsStay DEF Free
<1>11. WindowBacked(new)'
  BY <1>2, <1>5, <1>8, <1>10, EditedIsBacked
<1>12. CASE IsNew(w)
  <2>1. PaymentsTold(w, new)'
    BY <1>8, <1>12 DEF PaymentsTold, IsNew, At
  <2>2. UNCHANGED request
    BY <1>1, <1>12
  <2>3. QED
    BY <1>2, <1>8, <1>9, <1>10, <1>11, <2>1, <2>2, WindowMoves
<1>13. CASE ~IsNew(w)
  <2>1. /\ SendForm(w, "payments", form) /\ window[w].claim # Nothing
        /\ At(window[w], {"editing", "saving"})
    BY <1>1, <1>2, <1>4, <1>13 DEF IsNew, Writable, At
  <2>2. PICK r \in Requests, y \in RequestType :
            /\ request' = [request EXCEPT ![r] = y]
            /\ At(request[r], {"idle"}) /\ At(y, {"sent"})
            /\ y.window = w /\ y.kind = "payments" /\ y.claim = window[w].claim
            /\ y.form = form /\ RequestBacked(y)'
    BY <1>2, <1>5, <2>1, SentIsBacked
  <2>3. QED
    BY <1>8, <1>9, <1>10, <1>11, <2>1, <2>2, SendMoves
<1>14. QED
  BY <1>12, <1>13

LEMMA SaveAllStep ==
    ASSUME ClaimsInv, NEW w \in Windows, SaveAll(w) PROVE ClaimsInv'
<1>1. /\ window[w].pc = "editing" /\ UNCHANGED <<claim, saves, enclosed>>
      /\ window' = [window EXCEPT ![w].pc = "saving", ![w].error = FALSE,
                                  ![w].sent = window[w].form]
      /\ SendForm(w, "save", window[w].form)
  BY DEF SaveAll
<1>2. window[w] \in WindowType /\ window[w].form \in Full /\ window[w].form \in Forms
      /\ Writable(w)
  BY <1>1, Writing, FormStaysFull DEF Writable
<1>3. PICK new : new = [window[w] EXCEPT !.pc = "saving", !.error = FALSE,
                                         !.sent = window[w].form]
  OBVIOUS
<1>4. /\ new \in WindowType /\ new.pc = "saving" /\ new.form = window[w].form
      /\ new.claim = window[w].claim /\ new.version = window[w].version
      /\ new.skipped = window[w].skipped /\ new.known = window[w].known
      /\ new.stored = window[w].stored /\ new.sent = new.form
  BY <1>2, <1>3 DEF WindowType
<1>5. window' = [window EXCEPT ![w] = new]
  BY <1>1, <1>3
<1>6. /\ ClaimsGrow /\ At(new, {"saving"})
      /\ At(window[w], {"editing"}) /\ At(window[w], {"editing", "saving"})
  BY <1>1, <1>4, ClaimsStay DEF At
<1>7. WindowBacked(new)'
  BY <1>1, <1>2, <1>4, <1>6, EditedIsBacked
<1>8. PICK r \in Requests, y \in RequestType :
          /\ request' = [request EXCEPT ![r] = y]
          /\ At(request[r], {"idle"}) /\ At(y, {"sent"})
          /\ y.window = w /\ y.kind = "save" /\ y.claim = window[w].claim
          /\ y.form = window[w].form /\ RequestBacked(y)'
  BY <1>1, <1>2, <1>6, SentIsBacked
<1>9. QED
  BY <1>4, <1>5, <1>6, <1>7, <1>8, SendMoves

\* The enclosures of a new case are stored one by one, up to the first that fails.
LEMMA EncloseGrows ==
    ASSUME ClaimsInv, UNCHANGED <<claim, saves>>, NEW c \in Claims, NEW e \in Enclosed,
           enclosed' = [enclosed EXCEPT ![c] = @ \cup {e}]
    PROVE  ClaimsGrow
<1>1. ClaimsRecorded' /\ ClaimReplacedWasShown'
  BY DEF ClaimsInv, ClaimsRecorded, ClaimReplacedWasShown, Content
<1>2. claim' \in [Claims -> ClaimType] /\ saves' \in [Claims -> Seq(SaveType)]
  BY DEF ClaimsInv, ClaimsTyped
<1>3. enclosed' \in [Claims -> SUBSET Enclosed]
  BY DEF ClaimsInv, ClaimsTyped
<1>4. \A d \in Claims : enclosed[d] \subseteq enclosed'[d]
  BY DEF ClaimsInv, ClaimsTyped
<1>5. \A d \in Claims : /\ claim[d].version <= claim'[d].version
                        /\ Content(d)' = Content(d)
                        /\ saves'[d] = saves[d]
  BY DEF ClaimsInv, ClaimsTyped, ClaimType, Content
<1>6. QED
  BY <1>1, <1>2, <1>3, <1>4, <1>5 DEF ClaimsGrow

LEMMA EncloseStep ==
    ASSUME ClaimsInv, NEW w \in Windows, Enclose(w) PROVE ClaimsInv'
<1> DEFINE next == window[w].stored + 1
           c == window[w].claim
<1>1. /\ window[w].pc = "storing" /\ next <= Len(Enclosures)
      /\ UNCHANGED <<claim, saves, request>>
  BY DEF Enclose
<1>2. window[w] \in WindowType /\ WindowBacked(window[w])
  BY Backing
<1>3. /\ c \in Claims /\ Written(c, window[w].sent) /\ window[w].form \in Full
      /\ \A i \in 1 .. window[w].stored : Enclosures[i] \in enclosed[c]
  BY <1>1, <1>2 DEF WindowBacked, At
<1>4. Enclosures \in Seq(Enclosed)
  BY InsuranceAssumption DEF Enclosed
<1>5. window[w].stored \in Nat /\ next \in 1 .. Len(Enclosures)
      /\ Enclosures[next] \in Enclosed
  BY <1>1, <1>2, <1>4 DEF WindowType, Enclosed
<1>6. CASE /\ enclosed' = [enclosed EXCEPT ![c] = @ \cup {Enclosures[next]}]
           /\ window' = [window EXCEPT ![w].stored = next]
  <2>1. ClaimsGrow
    BY <1>1, <1>3, <1>5, <1>6, EncloseGrows
  <2>2. PICK new : new = [window[w] EXCEPT !.stored = next]
    OBVIOUS
  <2>3. /\ new \in WindowType /\ new.pc = "storing" /\ new.claim = c
        /\ new.form = window[w].form /\ new.sent = window[w].sent /\ new.stored = next
    BY <1>1, <1>2, <1>4, <1>5, <2>2 DEF WindowType
  <2>4. window' = [window EXCEPT ![w] = new]
    BY <1>6, <2>2
  <2>5. Written(new.claim, new.sent)'
    BY <1>3, <2>1, <2>3, WrittenStays
  <2>6. \A i \in 1 .. new.stored : Enclosures[i] \in enclosed'[new.claim]
    <3>1. \A i \in 1 .. window[w].stored : Enclosures[i] \in enclosed'[c]
      BY <1>3, <2>1 DEF ClaimsGrow
    <3>2. Enclosures[next] \in enclosed'[c]
      BY <1>3, <1>6 DEF ClaimsInv, ClaimsTyped
    <3>3. \A i \in 1 .. next : i = next \/ i \in 1 .. window[w].stored
      BY <1>5
    <3>4. QED
      BY <2>3, <3>1, <3>2, <3>3
  <2>7. WindowBacked(new)' /\ PaymentsTold(w, new)'
    BY <1>3, <2>3, <2>5, <2>6 DEF WindowBacked, PaymentsTold, At
  <2>8. Free(w, new)
    BY <1>1 DEF Free, At
  <2>9. QED
    BY <1>1, <2>1, <2>3, <2>4, <2>7, <2>8, WindowMoves
<1>7. CASE /\ window' = [window EXCEPT ![w] =
                  [@ EXCEPT !.pc = "editing", !.claim = Nothing, !.sent = Unknown,
                            !.stored = 0, !.error = TRUE]]
           /\ UNCHANGED enclosed
  <2>1. PICK new : new = [window[w] EXCEPT !.pc = "editing", !.claim = Nothing,
                              !.sent = Unknown, !.stored = 0, !.error = TRUE]
    OBVIOUS
  <2>2. 0 \in 0 .. Len(Enclosures)
    BY <1>4
  <2>3. /\ new \in WindowType /\ new.pc = "editing" /\ new.claim = Nothing
        /\ new.form = window[w].form /\ new.stored = 0 /\ new.error = TRUE
    BY <1>2, <2>1, <2>2, Blank DEF WindowType, Maybe
  <2>4. window' = [window EXCEPT ![w] = new]
    BY <1>7, <2>1
  <2>5. WindowBacked(new)' /\ PaymentsTold(w, new)'
    BY <1>3, <2>3 DEF WindowBacked, PaymentsTold, At
  <2>6. Free(w, new)
    BY <1>1 DEF Free, At
  <2>7. QED
    BY <1>1, <1>7, <2>3, <2>4, <2>5, <2>6, ClaimsStay, WindowMoves
<1>8. QED
  BY <1>6, <1>7 DEF Enclose

LEMMA EnclosedAllStep ==
    ASSUME ClaimsInv, NEW w \in Windows, EnclosedAll(w) PROVE ClaimsInv'
<1> DEFINE c == window[w].claim
<1>1. /\ window[w].pc = "storing" /\ window[w].stored = Len(Enclosures)
      /\ window' = [window EXCEPT ![w].pc = "saved"]
      /\ UNCHANGED <<claim, saves, enclosed, request>>
  BY DEF EnclosedAll
<1>2. window[w] \in WindowType /\ WindowBacked(window[w])
  BY Backing
<1>3. /\ c \in Claims /\ Written(c, window[w].sent)
      /\ \A i \in 1 .. Len(Enclosures) : Enclosures[i] \in enclosed[c]
  BY <1>1, <1>2 DEF WindowBacked, At
<1>4. enclosed[c] = Enclosed
  <2>1. DOMAIN Enclosures = 1 .. Len(Enclosures)
    BY InsuranceAssumption
  <2>2. enclosed[c] \subseteq Enclosed
    BY <1>3 DEF ClaimsInv, ClaimsTyped
  <2>3. QED
    BY <1>3, <2>1, <2>2 DEF Enclosed
<1>5. PICK new : new = [window[w] EXCEPT !.pc = "saved"]
  OBVIOUS
<1>6. /\ new \in WindowType /\ new.pc = "saved" /\ new.claim = c
      /\ new.sent = window[w].sent
  BY <1>2, <1>5 DEF WindowType
<1>7. Written(c, new.sent)'
  BY <1>1, <1>3, <1>6, ClaimsStay, WrittenStays
<1>8. WindowBacked(new)' /\ PaymentsTold(w, new)'
  BY <1>1, <1>3, <1>4, <1>6, <1>7 DEF WindowBacked, PaymentsTold, At
<1>9. Free(w, new) /\ window' = [window EXCEPT ![w] = new]
  BY <1>1, <1>5 DEF Free, At
<1>10. QED
  BY <1>1, <1>6, <1>8, <1>9, ClaimsStay, WindowMoves

-----------------------------------------------------------------------------
(* Insurance cases: the server                                             *)

\* A save adds a version, which is what it wrote.
LEMMA SaveRecorded ==
    ASSUME ClaimsInv, NEW c \in Claims, NEW row \in ClaimType, NEW save \in SaveType,
           claim' = [claim EXCEPT ![c] = row],
           saves' = [saves EXCEPT ![c] = Append(saves[c], save)],
           enclosed' = enclosed,
           row.state # "none", row.version = claim[c].version + 1,
           row.general = save.form.general, row.payments = save.form.payments,
           claim[c].state # "none" /\ ~save.skipped => save.known = Content(c)
    PROVE  ClaimsGrow /\ Written(c, save.form)' /\ Content(c)' = save.form
<1>1. /\ claim' \in [Claims -> ClaimType] /\ claim'[c] = row
      /\ \A d \in Claims : d # c => claim'[d] = claim[d]
  BY DEF ClaimsInv, ClaimsTyped
<1>2. /\ saves \in [Claims -> Seq(SaveType)] /\ saves[c] \in Seq(SaveType)
      /\ Len(saves[c]) = claim[c].version /\ claim[c].version \in Nat
      /\ claim[c].state = "none" <=> claim[c].version = 0
      /\ claim[c].state # "none" => saves[c][claim[c].version].form = Content(c)
  BY DEF ClaimsInv, ClaimsTyped, ClaimsRecorded, ClaimType
<1>3. PICK list : list = Append(saves[c], save)
  OBVIOUS
<1>4. /\ list \in Seq(SaveType) /\ Len(list) = Len(saves[c]) + 1
      /\ DOMAIN list = 1 .. Len(saves[c]) + 1
      /\ \A i \in DOMAIN saves[c] : i \in DOMAIN list /\ list[i] = saves[c][i]
      /\ list[Len(saves[c]) + 1] = save
  BY <1>2, <1>3
<1>5. /\ saves' \in [Claims -> Seq(SaveType)] /\ saves'[c] = list
      /\ \A d \in Claims : d # c => saves'[d] = saves[d]
  BY <1>2, <1>3, <1>4
<1>6. save.form \in Full
  BY DEF SaveType
<1>7. Content(c)' = save.form
  BY <1>1, <1>6 DEF Full, Content
<1>8. \A d \in Claims : d # c => Content(d)' = Content(d)
  BY <1>1 DEF Content
<1>9. ClaimsRecorded'
  <2>1. SUFFICES ASSUME NEW d \in Claims
                 PROVE  /\ Len(saves'[d]) = claim'[d].version
                        /\ claim'[d].state = "none" <=> claim'[d].version = 0
                        /\ claim'[d].state # "none" =>
                               /\ Content(d)' \in Full
                               /\ saves'[d][claim'[d].version].form = Content(d)'
    BY DEF ClaimsRecorded
  <2>2. CASE d = c
    BY <1>1, <1>2, <1>4, <1>5, <1>6, <1>7, <2>2
  <2>3. CASE d # c
    BY <1>1, <1>5, <1>8, <2>3 DEF ClaimsInv, ClaimsRecorded
  <2>4. QED
    BY <2>2, <2>3
<1>10. ClaimReplacedWasShown'
  <2>1. SUFFICES ASSUME NEW d \in Claims, NEW i \in DOMAIN saves'[d], i > 1,
                        ~saves'[d][i].skipped
                 PROVE  saves'[d][i].known = saves'[d][i-1].form
    BY DEF ClaimReplacedWasShown
  <2>2. CASE d # c
    BY <1>5, <2>1, <2>2 DEF ClaimsInv, ClaimReplacedWasShown
  <2>3. CASE d = c /\ i \in DOMAIN saves[c]
    <3>1. DOMAIN saves[c] = 1 .. Len(saves[c])
      BY <1>2
    <3>2. i - 1 \in DOMAIN saves[c]
      BY <1>2, <2>1, <2>3, <3>1
    <3>3. QED
      BY <1>4, <1>5, <2>1, <2>3, <3>2 DEF ClaimsInv, ClaimReplacedWasShown
  <2>4. CASE d = c /\ i \notin DOMAIN saves[c]
    <3>1. i = Len(saves[c]) + 1
      BY <1>2, <1>4, <1>5, <2>4
    <3>2. /\ saves'[d][i] = save /\ i - 1 = claim[c].version
          /\ claim[c].version # 0 /\ claim[c].version \in DOMAIN saves[c]
      BY <1>2, <1>4, <1>5, <2>1, <2>4, <3>1
    <3>3. saves'[d][i-1].form = Content(c) /\ save.known = Content(c)
      BY <1>2, <1>4, <1>5, <2>1, <2>4, <3>2
    <3>4. QED
      BY <3>2, <3>3
  <2>5. QED
    BY <2>2, <2>3, <2>4
<1>11. \A d \in Claims :
           /\ claim[d].version <= claim'[d].version
           /\ claim[d].version = claim'[d].version => Content(d)' = Content(d)
           /\ \A i \in DOMAIN saves[d] :
                  i \in DOMAIN saves'[d] /\ saves'[d][i] = saves[d][i]
  <2>1. \A d \in Claims : claim[d].version \in Nat
    BY DEF ClaimsInv, ClaimsTyped, ClaimType
  <2>2. QED
    BY <1>1, <1>4, <1>5, <1>8, <2>1
<1>12. ClaimsGrow
  BY <1>1, <1>5, <1>9, <1>10, <1>11 DEF ClaimsGrow, ClaimsInv, ClaimsTyped
<1>13. Written(c, save.form)'
  BY <1>2, <1>4, <1>5 DEF Written
<1>14. QED
  BY <1>7, <1>12, <1>13

\* A request that is under way on the server.
LEMMA Serving ==
    ASSUME ClaimsInv, NEW r \in Requests, request[r].pc # "idle"
    PROVE  /\ request[r] \in RequestType /\ ~At(request[r], {"idle"})
           /\ request[r].form \in Full /\ request[r].kind \in {"save", "payments"}
           /\ request[r].claim \in Claims \cup {Nothing}
           /\ request[r].claim = Nothing => request[r].kind = "save"
           /\ request[r].pc \in {"sent", "read"} /\ request[r].claim # Nothing =>
                  Knows(request[r].claim, request[r].version, request[r].skipped,
                        request[r].known)
<1>1. request[r] \in RequestType /\ RequestBacked(request[r]) /\ Linked(request[r])
  BY Backing
<1>2. QED
  BY <1>1, Backing DEF RequestBacked, Linked, At, RequestType, Maybe

\* What is answered to it, unless that the case is saved.
LEMMA RefusalMoves ==
    ASSUME ClaimsInv, UNCHANGED <<claim, saves, enclosed, window>>,
           NEW r \in Requests, request[r].pc # "idle",
           NEW answer \in Replies \ {"ok"}, Reply(r, request[r].claim, answer)
    PROVE  ClaimsInv'
<1>1. PICK y : y = [request[r] EXCEPT !.pc = "answered", !.claim = request[r].claim,
                                      !.answer = answer]
  OBVIOUS
<1>2. /\ y \in RequestType /\ y.pc = "answered" /\ y.window = request[r].window
      /\ y.kind = request[r].kind /\ y.form = request[r].form
      /\ y.claim = request[r].claim /\ y.answer = answer
  BY <1>1, Serving DEF RequestType
<1>3. request' = [request EXCEPT ![r] = y]
  BY <1>1 DEF Reply
<1>4. RequestBacked(y)' /\ ~At(y, {"idle"}) /\ ~At(request[r], {"idle"})
  BY <1>2, Serving DEF RequestBacked, At
<1>5. QED
  BY <1>2, <1>3, <1>4, ClaimsStay, ServerMoves

LEMMA CreateClaimStep ==
    ASSUME ClaimsInv, NEW r \in Requests, CreateClaim(r) PROVE ClaimsInv'
<1>1. /\ request[r].pc = "sent" /\ request[r].claim = Nothing
      /\ UNCHANGED <<enclosed, window>>
  BY DEF CreateClaim
<1>2. PICK form : form = request[r].form
  OBVIOUS
<1>3. /\ request[r] \in RequestType /\ ~At(request[r], {"idle"}) /\ form \in Full
      /\ request[r].kind = "save"
  BY <1>1, <1>2, Serving
<1>4. CASE \E c \in Claims :
               /\ claim[c].state = "none" /\ ~NumberTaken(form.general, c)
               /\ claim' = [claim EXCEPT ![c] = [state |-> "live", version |-> 1,
                                general |-> form.general, payments |-> form.payments]]
               /\ saves' = [saves EXCEPT ![c] =
                      <<[form |-> form, known |-> Unknown, skipped |-> FALSE]>>]
               /\ Reply(r, c, "ok")
  <2>1. PICK c \in Claims :
            /\ claim[c].state = "none"
            /\ claim' = [claim EXCEPT ![c] = [state |-> "live", version |-> 1,
                             general |-> form.general, payments |-> form.payments]]
            /\ saves' = [saves EXCEPT ![c] =
                   <<[form |-> form, known |-> Unknown, skipped |-> FALSE]>>]
            /\ Reply(r, c, "ok")
    BY <1>4
  <2>2. PICK row : row = [state |-> "live", version |-> 1,
                          general |-> form.general, payments |-> form.payments]
    OBVIOUS
  <2>3. PICK save : save = [form |-> form, known |-> Unknown, skipped |-> FALSE]
    OBVIOUS
  <2>4. /\ row \in ClaimType /\ row.state = "live" /\ row.version = 1
        /\ row.general = form.general /\ row.payments = form.payments
    BY <1>3, <2>2 DEF ClaimType, Full, Maybe
  <2>5. save \in SaveType /\ save.form = form
    BY <1>3, <2>3, Blank DEF SaveType
  <2>6. claim[c].version = 0 /\ Append(saves[c], save) = <<save>>
    <3>1. saves[c] \in Seq(SaveType) /\ claim[c].version = 0 /\ Len(saves[c]) = 0
      BY <2>1 DEF ClaimsInv, ClaimsTyped, ClaimsRecorded
    <3>2. saves[c] = << >>
      BY <3>1
    <3>3. QED
      BY <3>1, <3>2
  <2>7. ClaimsGrow /\ Written(c, form)' /\ Content(c)' = form
    <3>1. claim' = [claim EXCEPT ![c] = row]
      BY <2>1, <2>2
    <3>2. saves' = [saves EXCEPT ![c] = Append(saves[c], save)]
      BY <2>1, <2>3, <2>6
    <3>3. row.state # "none" /\ row.version = claim[c].version + 1
      BY <2>4, <2>6
    <3>4. QED
      BY <1>1, <2>1, <2>4, <2>5, <3>1, <3>2, <3>3, SaveRecorded
  <2>8. PICK y : y = [request[r] EXCEPT !.pc = "answered", !.claim = c, !.answer = "ok"]
    OBVIOUS
  <2>9. /\ y \in RequestType /\ y.pc = "answered" /\ y.window = request[r].window
        /\ y.kind = "save" /\ y.form = form /\ y.claim = c /\ y.answer = "ok"
    BY <1>2, <1>3, <2>8 DEF RequestType, Maybe, Replies
  <2>10. request' = [request EXCEPT ![r] = y]
    BY <2>1, <2>8 DEF Reply
  <2>11. RequestBacked(y)' /\ ~At(y, {"idle"})
    BY <1>3, <2>7, <2>9 DEF RequestBacked, At
  <2>12. QED
    BY <1>1, <1>2, <1>3, <2>7, <2>9, <2>10, <2>11, ServerMoves
<1>5. CASE /\ Reply(r, Nothing, "taken")
           /\ UNCHANGED <<claim, saves>>
  BY <1>1, <1>5, RefusalMoves DEF Replies
<1>6. QED
  BY <1>2, <1>4, <1>5 DEF CreateClaim

LEMMA ReadClaimStep ==
    ASSUME ClaimsInv, NEW r \in Requests, ReadClaim(r) PROVE ClaimsInv'
<1>1. /\ request[r].pc = "sent" /\ request[r].claim # Nothing
      /\ UNCHANGED <<claim, saves, enclosed, window>>
  BY DEF ReadClaim
<1>2. CASE request' = [request EXCEPT ![r].pc = "read"]
  <2>1. PICK y : y = [request[r] EXCEPT !.pc = "read"]
    OBVIOUS
  <2>2. /\ y \in RequestType /\ y.pc = "read" /\ y.window = request[r].window
        /\ y.kind = request[r].kind /\ y.form = request[r].form
        /\ y.claim = request[r].claim /\ y.version = request[r].version
        /\ y.known = request[r].known /\ y.skipped = request[r].skipped
    BY <1>1, <2>1, Serving DEF RequestType
  <2>3. request' = [request EXCEPT ![r] = y]
    BY <1>2, <2>1
  <2>4. RequestBacked(y)
    BY <1>1, <2>2, Serving DEF RequestBacked, At
  <2>5. RequestBacked(y)' /\ ~At(y, {"idle"}) /\ ~At(request[r], {"idle"})
    BY <1>1, <2>2, <2>4, ClaimsStay, RequestStays DEF At
  <2>6. QED
    BY <1>1, <2>2, <2>3, <2>5, ClaimsStay, ServerMoves
<1>3. CASE \E answer \in {"conflict", "missing"} : Reply(r, request[r].claim, answer)
  BY <1>1, <1>3, RefusalMoves DEF Replies
<1>4. QED
  BY <1>2, <1>3 DEF ReadClaim

LEMMA WriteClaimStep ==
    ASSUME ClaimsInv, NEW r \in Requests, WriteClaim(r) PROVE ClaimsInv'
<1>1. request[r].pc = "read" /\ UNCHANGED <<enclosed, window>>
  BY DEF WriteClaim
<1>2. PICK form : form = request[r].form
  OBVIOUS
<1>3. PICK c : c = request[r].claim
  OBVIOUS
<1>4. /\ request[r] \in RequestType /\ ~At(request[r], {"idle"}) /\ form \in Full
      /\ RequestBacked(request[r])
  BY <1>1, <1>2, Serving, Backing
<1>5. /\ c \in Claims
      /\ Knows(c, request[r].version, request[r].skipped, request[r].known)
  BY <1>1, <1>3, <1>4, Serving DEF RequestBacked, At
<1>6. CASE /\ RowSame(r)
           /\ claim' = [claim EXCEPT ![c].general = form.general,
                  ![c].payments = form.payments, ![c].version = @ + 1]
           /\ saves' = [saves EXCEPT ![c] = Append(@,
                  [form |-> form, known |-> request[r].known,
                   skipped |-> request[r].skipped])]
           /\ request' = [request EXCEPT ![r].pc = "written"]
  <2>1. /\ claim[c] \in ClaimType /\ claim[c].state = "live"
        /\ claim[c].version = request[r].version /\ claim[c].version \in Nat
    BY <1>3, <1>5, <1>6 DEF RowSame, Open, ClaimsInv, ClaimsTyped, ClaimType
  <2>2. PICK row : row = [claim[c] EXCEPT !.general = form.general,
                              !.payments = form.payments, !.version = claim[c].version + 1]
    OBVIOUS
  <2>3. PICK save : save = [form |-> form, known |-> request[r].known,
                            skipped |-> request[r].skipped]
    OBVIOUS
  <2>4. /\ row \in ClaimType /\ row.state = "live" /\ row.version = claim[c].version + 1
        /\ row.general = form.general /\ row.payments = form.payments
    <3>1. form.general \in Maybe(Generals) /\ form.payments \in Maybe(PaymentLists)
      BY <1>4 DEF Full, Maybe
    <3>2. claim[c].version + 1 \in Nat
      BY <2>1
    <3>3. QED
      BY <2>1, <2>2, <3>1, <3>2 DEF ClaimType
  <2>5. /\ save \in SaveType /\ save.form = form /\ save.known = request[r].known
        /\ save.skipped = request[r].skipped
    BY <1>4, <2>3 DEF SaveType, RequestType
  <2>6. ~save.skipped => save.known = Content(c)
    BY <1>5, <2>1, <2>5 DEF Knows
  <2>7. claim' = [claim EXCEPT ![c] = row]
    BY <1>6, <2>2
  <2>8. saves' = [saves EXCEPT ![c] = Append(saves[c], save)]
    BY <1>6, <2>3
  <2>9. ClaimsGrow /\ Written(c, form)' /\ Content(c)' = form
    BY <1>1, <1>5, <2>4, <2>5, <2>6, <2>7, <2>8, SaveRecorded
  <2>10. claim'[c].version = request[r].version + 1
    BY <1>5, <2>1, <2>4, <2>7 DEF ClaimsInv, ClaimsTyped
  <2>11. PICK y : y = [request[r] EXCEPT !.pc = "written"]
    OBVIOUS
  <2>12. /\ y \in RequestType /\ y.pc = "written" /\ y.window = request[r].window
         /\ y.kind = request[r].kind /\ y.form = form /\ y.claim = c
         /\ y.version = request[r].version
    BY <1>2, <1>3, <1>4, <2>11 DEF RequestType
  <2>13. request' = [request EXCEPT ![r] = y]
    BY <1>6, <2>11
  <2>14. RequestBacked(y)' /\ ~At(y, {"idle"})
    <3>1. y.kind \in {"save", "payments"}
      BY <1>1, <2>12, Serving
    <3>2. y.version \in Nat /\ y.version < claim'[y.claim].version
      BY <2>1, <2>10, <2>12
    <3>3. QED
      BY <1>4, <1>5, <2>9, <2>12, <3>1, <3>2 DEF RequestBacked, At
  <2>15. QED
    BY <1>1, <1>2, <1>3, <1>4, <2>9, <2>12, <2>13, <2>14, ServerMoves
<1>7. CASE /\ \E answer \in {"conflict", "taken"} : Reply(r, request[r].claim, answer)
           /\ UNCHANGED <<claim, saves>>
  BY <1>1, <1>7, RefusalMoves DEF Replies
<1>8. QED
  BY <1>2, <1>3, <1>6, <1>7 DEF WriteClaim, RowUnchanged

\* The version that is read back is the own save's or a later one.
LEMMA ReadBackStep ==
    ASSUME ClaimsInv, NEW r \in Requests, ReadBack(r) PROVE ClaimsInv'
<1>1. request[r].pc = "written" /\ UNCHANGED <<claim, saves, enclosed, window>>
  BY DEF ReadBack
<1>2. /\ request[r] \in RequestType /\ ~At(request[r], {"idle"})
      /\ request[r].form \in Full /\ request[r].kind \in {"save", "payments"}
      /\ RequestBacked(request[r])
  BY <1>1, Serving, Backing
<1>3. PICK c : c = request[r].claim
  OBVIOUS
<1>4. /\ c \in Claims /\ Written(c, request[r].form)
      /\ request[r].version < claim[c].version
      /\ claim[c].version = request[r].version + 1 => Content(c) = request[r].form
  BY <1>1, <1>2, <1>3 DEF RequestBacked, At
<1>5. claim[c].version \in Nat
  BY <1>4 DEF ClaimsInv, ClaimsTyped, ClaimType
<1>6. PICK answer \in {"ok", "missing"} : answer = IF Open(c) THEN "ok" ELSE "missing"
  OBVIOUS
<1>7. PICK y : y = [request[r] EXCEPT !.pc = "answered", !.latest = claim[c].version,
                                      !.answer = answer]
  OBVIOUS
<1>8. /\ y \in RequestType /\ y.pc = "answered" /\ y.window = request[r].window
      /\ y.kind = request[r].kind /\ y.form = request[r].form /\ y.claim = c
      /\ y.version = request[r].version /\ y.latest = claim[c].version
  BY <1>2, <1>3, <1>5, <1>7 DEF RequestType, Replies
<1>9. request' = [request EXCEPT ![r] = y]
  BY <1>3, <1>6, <1>7 DEF ReadBack
<1>10. Knows(c, y.latest, y.latest # y.version + 1, y.form)
  BY <1>4, <1>5, <1>8 DEF Knows
<1>11. RequestBacked(y)
  BY <1>2, <1>4, <1>8, <1>10 DEF RequestBacked, At
<1>12. RequestBacked(y)' /\ ~At(y, {"idle"})
  BY <1>1, <1>8, <1>11, ClaimsStay, RequestStays DEF At
<1>13. QED
  BY <1>1, <1>2, <1>3, <1>8, <1>9, <1>12, ClaimsStay, ServerMoves

LEMMA FailRequestStep ==
    ASSUME ClaimsInv, NEW r \in Requests, FailRequest(r) PROVE ClaimsInv'
BY RefusalMoves DEF FailRequest, Replies

-----------------------------------------------------------------------------
(* Insurance cases: the answers                                            *)

\* What is known of a window that hears an answer.
LEMMA Hearing ==
    ASSUME ClaimsInv, NEW r \in Requests, request[r].pc # "idle"
    PROVE  /\ request[r].kind = "payments" /\ request[r].window # Nothing =>
                  /\ request[r].window \in Windows /\ request[r].claim \in Claims
                  /\ At(window[request[r].window], {"editing", "saving"})
                  /\ window[request[r].window].claim = request[r].claim
           /\ request[r].kind = "save" =>
                  /\ request[r].window \in Windows
                  /\ window[request[r].window].pc = "saving"
                  /\ window[request[r].window].sent = request[r].form
                  /\ window[request[r].window].claim # Nothing =>
                         request[r].claim = window[request[r].window].claim
           /\ request[r].pc = "answered" /\ request[r].answer = "ok" =>
                  request[r].claim \in Claims /\ Written(request[r].claim, request[r].form)
<1>1. /\ request[r] \in RequestType /\ RequestBacked(request[r]) /\ Linked(request[r])
  BY Backing
<1>2. request[r].window \in Windows \cup {Nothing}
  BY <1>1 DEF RequestType, Maybe
<1>3. QED
  BY <1>1, <1>2 DEF RequestBacked, Linked, At

\* A window that hears that its change failed, or hears nothing, knows that it does not know.
LEMMA FailureIsTold ==
    ASSUME ClaimsInv, UNCHANGED <<claim, saves, enclosed>>,
           NEW r \in Requests, request[r].pc # "idle",
           request' = [request EXCEPT ![r] = NoRequest],
           NEW w \in Windows, w = request[r].window, NEW new \in WindowType,
           window' = [window EXCEPT ![w] = new],
           \/ /\ request[r].kind = "payments" /\ new.pc = window[w].pc
              /\ new.sent = window[w].sent
           \/ request[r].kind = "save" /\ new.pc = "editing",
           new.error \/ new.threw,
           new.claim = window[w].claim, new.form = window[w].form,
           new.version = window[w].version, new.skipped = window[w].skipped,
           new.known = window[w].known, new.stored = window[w].stored
    PROVE  ClaimsInv'
<1>1. At(window[w], {"editing", "saving"}) /\ At(new, {"editing", "saving"})
  BY Hearing, Backing DEF At
<1>2. WindowBacked(new)
  BY <1>1, Backing DEF WindowBacked, At
<1>3. WindowBacked(new)' /\ ~At(request[r], {"idle"})
  BY <1>2, ClaimsStay, WindowStays DEF At
<1>4. Told(w, r, new)
  BY <1>1 DEF Told
<1>5. QED
  BY <1>3, <1>4, AnswerMoves

LEMMA PaymentsAnsweredStep ==
    ASSUME ClaimsInv, NEW r \in Requests, PaymentsAnswered(r) PROVE ClaimsInv'
<1>1. PICK w : w = request[r].window
  OBVIOUS
<1>2. /\ request[r].pc = "answered" /\ request[r].kind = "payments"
      /\ request' = [request EXCEPT ![r] = NoRequest]
      /\ UNCHANGED <<claim, saves, enclosed>>
  BY DEF PaymentsAnswered, Receive
<1>3. CASE w = Nothing
  BY <1>1, <1>2, <1>3, UnheardMoves DEF PaymentsAnswered
<1>4. CASE w # Nothing /\ request[r].answer = "ok"
  <2>1. /\ w \in Windows /\ request[r].claim \in Claims /\ window[w].claim = request[r].claim
        /\ At(window[w], {"editing", "saving"})
        /\ Written(request[r].claim, request[r].form)
    BY <1>1, <1>2, <1>4, Hearing
  <2>2. /\ window[w] \in WindowType /\ WindowBacked(window[w])
        /\ request[r] \in RequestType /\ RequestBacked(request[r])
    BY <2>1, Backing
  <2>3. PICK skipped \in BOOLEAN :
            skipped = (request[r].latest # request[r].version + 1)
    OBVIOUS
  <2>4. PICK new : new = [window[w] EXCEPT !.version = request[r].latest,
                              !.known = request[r].form, !.skipped = skipped]
    OBVIOUS
  <2>5. /\ new \in WindowType /\ new.pc = window[w].pc /\ new.claim = window[w].claim
        /\ new.form = window[w].form /\ new.stored = window[w].stored
        /\ new.error = window[w].error /\ new.threw = window[w].threw
        /\ new.version = request[r].latest /\ new.known = request[r].form
        /\ new.skipped = skipped /\ new.sent = window[w].sent
    BY <2>2, <2>4 DEF WindowType, RequestType
  <2>6. window' = [window EXCEPT ![w] = new]
    BY <1>1, <1>4, <2>3, <2>4 DEF PaymentsAnswered, KnowOwnSave
  <2>7. Knows(new.claim, new.version, new.skipped, new.known) /\ new.known # Unknown
    <3>1. request[r].form \in Full
      BY <1>2, Serving
    <3>2. Knows(request[r].claim, request[r].latest, skipped, request[r].form)
      BY <1>2, <1>4, <2>2, <2>3 DEF RequestBacked, At
    <3>3. QED
      BY <2>1, <2>5, <3>1, <3>2, FormStaysFull
  <2>8. new.claim # Nothing
    BY <2>1, <2>5, Backing
  <2>9. WindowBacked(new)
    BY <2>1, <2>2, <2>5, <2>7, <2>8 DEF WindowBacked, At
  <2>10. WindowBacked(new)' /\ ~At(request[r], {"idle"})
    BY <1>2, <2>5, <2>9, ClaimsStay, WindowStays DEF At
  <2>11. Told(w, r, new)
    BY <2>1, <2>5 DEF Told, At, Written, PaymentsWritten
  <2>12. QED
    BY <1>1, <1>2, <2>1, <2>5, <2>6, <2>10, <2>11, AnswerMoves
<1>5. CASE w # Nothing /\ request[r].answer # "ok"
  <2>1. w \in Windows /\ window[w] \in WindowType
    BY <1>1, <1>2, <1>5, Hearing, Backing
  <2>2. PICK new : new = [window[w] EXCEPT !.error = TRUE]
    OBVIOUS
  <2>3. /\ new \in WindowType /\ new.pc = window[w].pc /\ new.claim = window[w].claim
        /\ new.form = window[w].form /\ new.stored = window[w].stored
        /\ new.version = window[w].version /\ new.skipped = window[w].skipped
        /\ new.known = window[w].known /\ new.error /\ new.sent = window[w].sent
    BY <2>1, <2>2 DEF WindowType
  <2>4. window' = [window EXCEPT ![w] = new]
    BY <1>1, <1>5, <2>2 DEF PaymentsAnswered, ShowError
  <2>5. QED
    BY <1>1, <1>2, <2>1, <2>3, <2>4, FailureIsTold
<1>6. QED
  BY <1>3, <1>4, <1>5

LEMMA LoseReplyStep ==
    ASSUME ClaimsInv, NEW r \in Requests, LoseReply(r) PROVE ClaimsInv'
<1>1. PICK w : w = request[r].window
  OBVIOUS
<1>2. /\ request[r].pc = "answered" /\ request[r].pc # "idle"
      /\ request' = [request EXCEPT ![r] = NoRequest]
      /\ UNCHANGED <<claim, saves, enclosed>>
  BY DEF LoseReply, Receive
<1>3. request[r].kind \in {"save", "payments"}
  BY <1>2, Serving
<1>4. CASE request[r].kind = "save"
  <2>1. w \in Windows /\ window[w] \in WindowType
    BY <1>1, <1>2, <1>4, Hearing, Backing
  <2>2. PICK new : new = [window[w] EXCEPT !.pc = "editing", !.sent = Unknown,
                                           !.error = TRUE]
    OBVIOUS
  <2>3. /\ new \in WindowType /\ new.pc = "editing" /\ new.claim = window[w].claim
        /\ new.form = window[w].form /\ new.stored = window[w].stored
        /\ new.version = window[w].version /\ new.skipped = window[w].skipped
        /\ new.known = window[w].known /\ new.error
    BY <2>1, <2>2, Blank DEF WindowType
  <2>4. window' = [window EXCEPT ![w] = new]
    BY <1>1, <1>4, <2>2 DEF LoseReply, SaveFailed
  <2>5. QED
    BY <1>1, <1>2, <1>4, <2>1, <2>3, <2>4, FailureIsTold
<1>5. CASE request[r].kind = "payments" /\ w = Nothing
  BY <1>1, <1>2, <1>5, UnheardMoves DEF LoseReply
<1>6. CASE request[r].kind = "payments" /\ w # Nothing
  <2>1. w \in Windows /\ window[w] \in WindowType
    BY <1>1, <1>2, <1>6, Hearing, Backing
  <2>2. PICK new : new = [window[w] EXCEPT !.threw = TRUE]
    OBVIOUS
  <2>3. /\ new \in WindowType /\ new.pc = window[w].pc /\ new.claim = window[w].claim
        /\ new.form = window[w].form /\ new.stored = window[w].stored
        /\ new.version = window[w].version /\ new.skipped = window[w].skipped
        /\ new.known = window[w].known /\ new.threw /\ new.sent = window[w].sent
    BY <2>1, <2>2 DEF WindowType
  <2>4. window' = [window EXCEPT ![w] = new]
    BY <1>1, <1>6, <2>2 DEF LoseReply
  <2>5. QED
    BY <1>1, <1>2, <1>6, <2>1, <2>3, <2>4, FailureIsTold
<1>7. QED
  BY <1>3, <1>4, <1>5, <1>6

\* The answer to Save: a new case goes on to its enclosures, an edited one is left.
LEMMA SaveAnsweredStep ==
    ASSUME ClaimsInv, NEW r \in Requests, SaveAnswered(r) PROVE ClaimsInv'
<1>1. PICK w : w = request[r].window
  OBVIOUS
<1>2. /\ request[r].pc = "answered" /\ request[r].pc # "idle" /\ request[r].kind = "save"
      /\ ~At(request[r], {"idle"}) /\ UNCHANGED <<claim, saves, enclosed>>
  BY DEF SaveAnswered, Receive, ReceiveLast, At
<1>3. /\ w \in Windows /\ window[w].pc = "saving" /\ window[w].sent = request[r].form
      /\ window[w].claim # Nothing => request[r].claim = window[w].claim
      /\ window[w] \in WindowType /\ request[r] \in RequestType
      /\ WindowBacked(window[w])
  BY <1>1, <1>2, Hearing, Backing
<1>4. CASE /\ request[r].answer = "ok" /\ window[w].claim = Nothing
           /\ Receive(r)
           /\ window' = [window EXCEPT ![w].pc = "storing", ![w].claim = request[r].claim]
  <2>1. request[r].claim \in Claims /\ Written(request[r].claim, request[r].form)
    BY <1>2, <1>4, Hearing
  <2>2. PICK new : new = [window[w] EXCEPT !.pc = "storing", !.claim = request[r].claim]
    OBVIOUS
  <2>3. /\ new \in WindowType /\ new.pc = "storing" /\ new.claim = request[r].claim
        /\ new.sent = request[r].form /\ new.form = window[w].form
        /\ new.stored = window[w].stored
    BY <1>3, <2>1, <2>2 DEF WindowType, Maybe
  <2>4. new.stored = 0
    BY <1>3, <1>4, <2>3 DEF WindowBacked, At
  <2>5. Written(new.claim, new.sent)'
    BY <1>2, <2>1, <2>3, ClaimsStay, WrittenStays
  <2>6. WindowBacked(new)' /\ At(new, {"storing"})
    <3>1. \A i \in 1 .. new.stored : FALSE
      BY <2>4
    <3>2. QED
      BY <1>3, <2>1, <2>3, <2>5, <3>1 DEF WindowBacked, At
  <2>7. window' = [window EXCEPT ![w] = new] /\ request' = [request EXCEPT ![r] = NoRequest]
    BY <1>4, <2>2 DEF Receive
  <2>8. QED
    BY <1>1, <1>2, <1>3, <1>4, <2>3, <2>6, <2>7, AnswerMoves
<1>5. CASE /\ request[r].answer = "ok" /\ window[w].claim # Nothing
           /\ ReceiveLast(r)
           /\ window' = [window EXCEPT ![w].pc = "saved"]
  <2>1. request[r].claim \in Claims /\ Written(request[r].claim, request[r].form)
    BY <1>2, <1>5, Hearing
  <2>2. PICK new : new = [window[w] EXCEPT !.pc = "saved"]
    OBVIOUS
  <2>3. /\ new \in WindowType /\ new.pc = "saved" /\ new.claim = request[r].claim
        /\ new.sent = request[r].form /\ new.known = window[w].known
    BY <1>3, <1>5, <2>2 DEF WindowType
  <2>4. Written(new.claim, new.sent)'
    BY <1>2, <2>1, <2>3, ClaimsStay, WrittenStays
  <2>5. new.known # Unknown
    BY <1>3, <1>5, <2>3 DEF WindowBacked, At
  <2>6. WindowBacked(new)' /\ ~At(new, {"editing", "saving"})
    BY <2>1, <2>3, <2>4, <2>5 DEF WindowBacked, At
  <2>7. window' = [window EXCEPT ![w] = new]
    BY <1>5, <2>2
  <2>8. QED
    BY <1>1, <1>2, <1>3, <1>5, <2>3, <2>6, <2>7, LastAnswerMoves DEF ReceiveLast
<1>6. CASE ReceiveLast(r) /\ window' = [window EXCEPT ![w] = NoWindow]
  <2>1. ~At(NoWindow, {"editing", "saving"}) /\ WindowBacked(NoWindow)'
    BY Blank, BlankIsBacked DEF At
  <2>2. QED
    BY <1>1, <1>2, <1>3, <1>6, <2>1, Blank, LastAnswerMoves DEF ReceiveLast
<1>7. CASE Receive(r) /\ window' = SaveFailed(w)
  <2>1. PICK new : new = [window[w] EXCEPT !.pc = "editing", !.sent = Unknown,
                                           !.error = TRUE]
    OBVIOUS
  <2>2. /\ new \in WindowType /\ new.pc = "editing" /\ new.claim = window[w].claim
        /\ new.form = window[w].form /\ new.stored = window[w].stored
        /\ new.version = window[w].version /\ new.skipped = window[w].skipped
        /\ new.known = window[w].known /\ new.error
    BY <1>3, <2>1, Blank DEF WindowType
  <2>3. window' = [window EXCEPT ![w] = new] /\ request' = [request EXCEPT ![r] = NoRequest]
    BY <1>7, <2>1 DEF Receive, SaveFailed
  <2>4. QED
    BY <1>1, <1>2, <1>3, <2>2, <2>3, FailureIsTold
<1>8. QED
  BY <1>1, <1>4, <1>5, <1>6, <1>7 DEF SaveAnswered

-----------------------------------------------------------------------------
(* Insurance cases: the specification                                      *)

\* A case that is archived or restored keeps its content, version and saves.
LEMMA StateMoves ==
    ASSUME ClaimsInv, NEW c \in Claims, NEW state \in {"live", "archived"},
           claim[c].state # "none", claim' = [claim EXCEPT ![c].state = state],
           UNCHANGED <<saves, enclosed, window, request>>
    PROVE  ClaimsInv'
<1>1. /\ claim' \in [Claims -> ClaimType]
      /\ \A d \in Claims : /\ claim'[d].version = claim[d].version
                           /\ claim'[d].general = claim[d].general
                           /\ claim'[d].payments = claim[d].payments
                           /\ claim'[d].state = "none" <=> claim[d].state = "none"
  BY DEF ClaimsInv, ClaimsTyped, ClaimType
<1>2. \A d \in Claims : Content(d)' = Content(d) /\ claim[d].version \in Nat
  BY <1>1 DEF Content, ClaimsInv, ClaimsTyped, ClaimType
<1>3. ClaimsRecorded'
  BY <1>1, <1>2 DEF ClaimsInv, ClaimsRecorded
<1>4. ClaimReplacedWasShown'
  BY DEF ClaimsInv, ClaimReplacedWasShown
<1>5. ClaimsGrow
  BY <1>1, <1>2, <1>3, <1>4 DEF ClaimsGrow, ClaimsInv, ClaimsTyped
<1>6. QED
  BY <1>5, CaseMoves

LEMMA ArchiveClaimStep ==
    ASSUME ClaimsInv, NEW c \in Claims, ArchiveClaim(c) PROVE ClaimsInv'
BY StateMoves DEF ArchiveClaim, Open

LEMMA RestoreClaimStep ==
    ASSUME ClaimsInv, NEW c \in Claims, RestoreClaim(c) PROVE ClaimsInv'
BY StateMoves DEF RestoreClaim

LEMMA ClaimsBegin ==
    ASSUME InsuranceInit PROVE ClaimsInv
<1>1. /\ claim \in [Claims -> ClaimType] /\ saves \in [Claims -> Seq(SaveType)]
      /\ enclosed \in [Claims -> SUBSET Enclosed]
      /\ \A c \in Claims : /\ claim[c].state = "none" /\ claim[c].version = 0
                           /\ saves[c] = << >>
  BY DEF InsuranceInit, ClaimType, Maybe
<1>2. /\ window \in [Windows -> WindowType] /\ request \in [Requests -> RequestType]
      /\ \A w \in Windows : window[w] = NoWindow
      /\ \A r \in Requests : request[r] = NoRequest
  BY Blank DEF InsuranceInit
<1>3. ClaimsRecorded /\ ClaimReplacedWasShown
  BY <1>1 DEF ClaimsRecorded, ClaimReplacedWasShown
<1>4. \A w \in Windows : WindowBacked(window[w]) /\ PaymentsTold(w, window[w])
  BY <1>2, Blank DEF WindowBacked, PaymentsTold, At
<1>5. \A r \in Requests : RequestBacked(request[r]) /\ Linked(request[r])
  BY <1>2, Blank DEF RequestBacked, Linked, At
<1>6. OneSave
  BY <1>2, Blank DEF OneSave, Saving, At
<1>7. QED
  BY <1>1, <1>2, <1>3, <1>4, <1>5, <1>6 DEF ClaimsInv, ClaimsTyped

LEMMA ClaimsStep == ClaimsInv /\ [InsuranceNext]_insuranceVars => ClaimsInv'
<1> SUFFICES ASSUME ClaimsInv, [InsuranceNext]_insuranceVars PROVE ClaimsInv'
  OBVIOUS
<1>1. CASE InsuranceOpening
  BY <1>1, NewClaimStep, ChangePaymentsStep, ReadRowStep DEF InsuranceOpening
<1>2. CASE InsuranceWork
  <2>1. CASE \E w \in Windows : \/ ReadPayments(w) \/ EditGeneral(w) \/ SaveAll(w)
                                \/ Enclose(w) \/ EnclosedAll(w)
    BY <2>1, ReadPaymentsStep, EditGeneralStep, SaveAllStep, EncloseStep, EnclosedAllStep
  <2>2. CASE \E r \in Requests : CreateClaim(r) \/ ReadClaim(r) \/ WriteClaim(r) \/ ReadBack(r)
    BY <2>2, CreateClaimStep, ReadClaimStep, WriteClaimStep, ReadBackStep
  <2>3. CASE \E r \in Requests : PaymentsAnswered(r) \/ SaveAnswered(r)
    BY <2>3, PaymentsAnsweredStep, SaveAnsweredStep
  <2>4. CASE \E c \in Claims : RestoreClaim(c)
    <3>1. PICK c \in Claims : RestoreClaim(c)
      BY <2>4
    <3>2. QED
      BY <3>1, RestoreClaimStep
  <2>5. QED
    BY <1>2, <2>1, <2>2, <2>3, <2>4 DEF InsuranceWork
<1>3. CASE InsuranceMishap
  <2>1. CASE \E r \in Requests : FailRequest(r) \/ LoseReply(r)
    BY <2>1, FailRequestStep, LoseReplyStep
  <2>2. CASE \E c \in Claims : ArchiveClaim(c)
    BY <2>2, ArchiveClaimStep
  <2>3. QED
    BY <1>3, <2>1, <2>2 DEF InsuranceMishap
<1>4. CASE UNCHANGED insuranceVars
  BY <1>4, ClaimsStay, CaseMoves DEF insuranceVars
<1>5. QED
  BY <1>1, <1>2, <1>3, <1>4 DEF InsuranceNext

\* What the invariant says of what windows report.
LEMMA ReportsAreTrue == ClaimsInv => ClaimSavedIsStored
<1> SUFFICES ASSUME ClaimsInv, NEW w \in Windows, window[w].claim # Nothing
             PROVE
      LET c == window[w].claim
          quiet == \A r \in Requests : request[r].window # w
      IN  /\ window[w].pc = "saved" =>
                 \E i \in DOMAIN saves[c] : saves[c][i].form = window[w].sent
          /\ window[w].pc = "saved" /\ window[w].known = Unknown =>
                 enclosed[c] = {Enclosures[i] : i \in DOMAIN Enclosures}
          /\ window[w].pc = "editing" /\ quiet /\ ~window[w].error /\ ~window[w].threw =>
                 \E i \in DOMAIN saves[c] :
                     saves[c][i].form.payments = window[w].form.payments
  BY DEF ClaimSavedIsStored
<1>1. WindowBacked(window[w]) /\ PaymentsTold(w, window[w])
  BY Backing
<1>2. QED
  BY <1>1 DEF WindowBacked, PaymentsTold, UnderWay, Written, PaymentsWritten, Enclosed, At

\* The types of insurance cases, and that the last save of a case is the case as it is.
THEOREM InsuranceTypes == InsuranceSpec => []InsuranceTypeOK
<1>1. ClaimsInv => InsuranceTypeOK
  <2>1. SUFFICES ASSUME ClaimsInv PROVE InsuranceTypeOK
    OBVIOUS
  <2>2. \A c \in Claims :
            /\ Len(saves[c]) = claim[c].version
            /\ saves[c] # << >> => saves[c][Len(saves[c])].form = Content(c)
    <3>1. TAKE c \in Claims
    <3>2. /\ saves[c] \in Seq(SaveType) /\ Len(saves[c]) = claim[c].version
          /\ claim[c].state = "none" <=> claim[c].version = 0
          /\ claim[c].state # "none" => saves[c][claim[c].version].form = Content(c)
      BY <2>1 DEF ClaimsInv, ClaimsTyped, ClaimsRecorded
    <3>3. QED
      BY <3>2
  <2>3. QED
    BY <2>1, <2>2 DEF InsuranceTypeOK, ClaimsInv, ClaimsTyped, ClaimType, WindowType,
                      RequestType, Replies, Enclosed, Maybe
<1>2. QED
  BY <1>1, ClaimsBegin, ClaimsStep, PTL DEF InsuranceSpec

\* No save of an insurance case replaces fields or payments its window was not opened with
\* and did not write itself, except the one whose window was told of a version it skipped
\* (service.ts:117).
THEOREM ClaimReplaced == InsuranceSpec => []ClaimReplacedWasShown
<1>1. ClaimsInv => ClaimReplacedWasShown
  BY DEF ClaimsInv
<1>2. QED
  BY <1>1, ClaimsBegin, ClaimsStep, PTL DEF InsuranceSpec

\* What a window of an insurance case held when Save was pressed is stored once it reports
\* the case as saved, with its enclosures, and so are the payments it shows while it waits
\* for nothing and shows no error.
THEOREM ClaimSaved == InsuranceSpec => []ClaimSavedIsStored
<1>1. ClaimsInv => ClaimSavedIsStored
  BY ReportsAreTrue
<1>2. QED
  BY <1>1, ClaimsBegin, ClaimsStep, PTL DEF InsuranceSpec

\* Both kinds of forms keep both promises, whatever the other kind does meanwhile.
THEOREM FormsAreRight ==
    EnforcementSpec /\ InsuranceSpec => []ReplacedWasShown /\ []SavedIsStored
<1>1. FileReplacedWasShown /\ ClaimReplacedWasShown => ReplacedWasShown
  BY DEF ReplacedWasShown
<1>2. FileSavedIsStored /\ ClaimSavedIsStored => SavedIsStored
  BY DEF SavedIsStored
<1>3. QED
  BY <1>1, <1>2, OnlyRefreshedFormsOverwrite, SavedFileIsStored, ClaimReplaced, ClaimSaved, PTL
=============================================================================
