---------------------------- MODULE GeneralCases ----------------------------
(***************************************************************************)
(* One general case with its financial entries and notes, edited in the    *)
(* wizard and, at the same time, through the bookings and process entries  *)
(* of the API: apps/web/src/lib/general-legal-cases, the routes under      *)
(* api/general-legal-cases, GeneralCaseWizard.tsx and NoteStep.tsx.        *)
(* Cases share nothing but the sequence their references are drawn from.   *)
(*                                                                         *)
(* Transactions run at READ COMMITTED: each statement sees what had been   *)
(* committed when it began and what its own transaction wrote; a statement *)
(* that writes a row another transaction has written waits for its end.    *)
(***************************************************************************)
EXTENDS Null, Naturals, FiniteSets, Functions

CONSTANTS
    Users, Admins,
    Entries,      \* financial entries, of which only collections are of interest
    Amounts,      \* what a collection may amount to
    NoteTexts,
    Drafts,       \* [restricted, people, expected, status, stage]: what is filled in,
                  \* expected is Nothing where a payload has no finance
    Beginnings,   \* [amounts, notes]: what a new case comes with
    Stages        \* the stages a process entry may change the case to

Statuses == {"DRAFT", "ACTIVE", "DECISION", "APPEAL", "COMPLETED", "CLOSED"}

ASSUME GeneralAssumption ==
    /\ IsFiniteSet(Entries) /\ Amounts \subseteq Nat \ {0} /\ Admins \subseteq Users
    /\ \A d \in Drafts : /\ d.expected \in Nat \cup {Nothing} /\ d.people \subseteq Users
                         /\ d.restricted \in BOOLEAN /\ d.status \in Statuses
    /\ \A b \in Beginnings : /\ b.amounts \in [Entries -> Amounts \cup {0}]
                             /\ b.notes \subseteq [text : NoteTexts, private : BOOLEAN]
    /\ Nothing \notin Users \cup Stages \cup Nat

VARIABLES
    suit,       \* the row of the case
    entry,      \* the last row of each financial entry
    note,       \* the live notes
    wizard,     \* the wizard each user has open
    booking     \* the booking each user has under way

generalVars == <<suit, entry, note, wizard, booking>>

NoSuit == [state |-> "none", version |-> 0, creator |-> Nothing, savedBy |-> Nothing,
           restricted |-> FALSE, people |-> {}, expected |-> 0, raced |-> FALSE,
           cleared |-> FALSE, collection |-> "NOT_COLLECTED", status |-> "DRAFT",
           stage |-> "CASE_OPENING"]
NoEntry == [live |-> FALSE, amount |-> 0, row |-> 0, version |-> 0]
NoWizard == [pc |-> "none", version |-> 0, seenAt |-> 0, entries |-> {}, kept |-> {},
             notes |-> {}, draft |-> Nothing]
NoBooking == [pc |-> "idle", entry |-> Nothing, new |-> NoEntry, status |-> Nothing,
              readAt |-> 0]

GeneralInit ==
    /\ suit = NoSuit
    /\ entry = [e \in Entries |-> NoEntry]
    /\ note = {}
    /\ wizard = [u \in Users |-> NoWizard]
    /\ booking = [u \in Users |-> NoBooking]

\* generalCaseAccessWhere
MaySee(u) ==
    suit.state = "live" /\ (\/ u \in Admins \/ ~suit.restricted
                            \/ suit.creator = u \/ u \in suit.people)
\* canRetainRestrictedAccess
RetainsAccess(u, d) ==
    ~d.restricted \/ u \in Admins \/ suit.creator = u \/ u \in d.people
RetainsAccessAsItWas(u, d) == MaySee(u)                               \* mutant
Retains(u, d) == RetainsAccess(u, d)

\* The closed case has the closed stage, and no other has.
Valid(d) == d.status = "CLOSED" <=> d.stage = "CLOSED"

CollectionStatus(expected, collected) ==
    IF collected = 0 THEN "NOT_COLLECTED"
    ELSE IF collected >= expected THEN "COLLECTED" ELSE "PARTIAL"

Shown(n, u) == ~n.private \/ n.author = u
AllNotes(n, u) == TRUE                                                \* mutant
Replaceable(n, u) == Shown(n, u)

LiveRow(e) == [entry |-> e, amount |-> entry[e].amount, row |-> entry[e].row,
               version |-> entry[e].version]
LiveRows == {LiveRow(e) : e \in {e \in Entries : entry[e].live}}
CollectedBy(rows) ==
    SumFunction([e \in {x \in Entries : rows[x].live} |-> rows[e].amount])

CaseRowLocked == \E u \in Users : wizard[u].pc = "locked"
HeldBy(e, u) == booking[u].pc \in {"held", "summed"} /\ booking[u].entry = e

-----------------------------------------------------------------------------
(* The wizard                                                              *)

\* createGeneralLegalCase, with the entries, an amount each (0: no such entry), and notes
\* it begins with.  Entries are refused without the finances they belong to.
CreateSuit(u) ==
    /\ suit.state = "none"
    /\ \E d \in Drafts, b \in Beginnings :
           LET new == [e \in Entries |->
                   IF b.amounts[e] = 0 THEN NoEntry
                   ELSE [live |-> TRUE, amount |-> b.amounts[e], row |-> 1, version |-> 1]]
               expected == IF d.expected = Nothing THEN 0 ELSE d.expected
           IN
           /\ Valid(d) /\ (d.expected = Nothing => \A e \in Entries : ~new[e].live)
           /\ suit' = [NoSuit EXCEPT !.state = "live", !.version = 1, !.creator = u,
                  !.savedBy = u, !.restricted = d.restricted, !.people = d.people,
                  !.expected = expected, !.status = d.status, !.stage = d.stage,
                  !.collection = CollectionStatus(expected, CollectedBy(new))]
           /\ entry' = new
           /\ note' = note \cup {[text |-> n.text, author |-> u, private |-> n.private] :
                                    n \in b.notes}
    /\ UNCHANGED <<wizard, booking>>

\* getGeneralCaseOverview reads the case and its lists side by side.
OpenWizard(u) ==
    /\ wizard[u].pc = "none" /\ MaySee(u)
    /\ wizard' = [wizard EXCEPT ![u] = [NoWizard EXCEPT !.pc = "opening"]]
    /\ UNCHANGED <<suit, entry, note, booking>>
ReadSuit(u) ==
    /\ wizard[u].pc = "opening" /\ wizard[u].version = 0
    /\ wizard' = [wizard EXCEPT ![u] = IF ~MaySee(u) THEN NoWizard
           ELSE [@ EXCEPT !.version = suit.version,
                          !.pc = IF wizard[u].seenAt = 0 THEN "opening" ELSE "editing"]]
    /\ UNCHANGED <<suit, entry, note, booking>>
ReadLists(u) ==
    /\ wizard[u].pc = "opening" /\ wizard[u].seenAt = 0
    /\ wizard' = [wizard EXCEPT ![u] = IF ~MaySee(u) THEN NoWizard
           ELSE [@ EXCEPT !.seenAt = suit.version, !.entries = LiveRows,
                          !.notes = {n \in note : Shown(n, u)},
                          !.pc = IF wizard[u].version = 0 THEN "opening" ELSE "editing"]]
    /\ UNCHANGED <<suit, entry, note, booking>>

\* NoteStep calls the server for each note of an existing case; the version stays.
AddNote(u) ==
    /\ wizard[u].pc = "editing" /\ MaySee(u)
    /\ \E text \in NoteTexts, private \in BOOLEAN :
           LET n == [text |-> text, author |-> u, private |-> private] IN
           /\ n \notin note
           /\ note' = note \cup {n}
           /\ wizard' = [wizard EXCEPT ![u].notes = @ \cup {n}]
    /\ UNCHANGED <<suit, entry, booking>>
RemoveNote(u, n) ==
    /\ wizard[u].pc = "editing" /\ MaySee(u) /\ n \in wizard[u].notes \cap note
    /\ Shown(n, u)
    /\ note' = note \ {n}
    /\ wizard' = [wizard EXCEPT ![u].notes = @ \ {n}]
    /\ UNCHANGED <<suit, entry, booking>>

\* The wizard always sends the finances; a payload may be without, and without entries.
SubmitWizard(u) ==
    /\ wizard[u].pc = "editing"
    /\ \E d \in Drafts, kept \in SUBSET wizard[u].entries :
           /\ Valid(d) /\ (d.expected = Nothing => kept = {})
           /\ wizard' = [wizard EXCEPT ![u].pc = "sent", ![u].draft = d, ![u].kept = kept]
    /\ UNCHANGED <<suit, entry, note, booking>>

\* updateGeneralLegalCase: the checks and the case by its version, which keeps the
\* row of the case from everybody else until the transaction ends.
SameSuit(u) == suit.version = wizard[u].version
AnySuit(u) == TRUE                                                    \* mutant
Matched(u) == SameSuit(u)
SaveRow(u) ==
    /\ wizard[u].pc = "sent" /\ ~CaseRowLocked
    /\ wizard' = [wizard EXCEPT ![u].pc =
           IF MaySee(u) /\ Matched(u) /\ Retains(u, wizard[u].draft)
           THEN "locked" ELSE "editing"]
    /\ UNCHANGED <<suit, entry, note, booking>>

\* All entries of the case deleted and those of the form created; all notes shown to
\* the user deleted and those of the form created as the user's own.  Without finances
\* the amount expected and the status stay, though the entries are deleted.
SaveLists(u) ==
    LET d == wizard[u].draft
        kept == {r.entry : r \in wizard[u].kept}
        amount(e) == (CHOOSE r \in wizard[u].kept : r.entry = e).amount
        collected == SumFunction([e \in kept |-> amount(e)])
        finances == d.expected # Nothing
        computed == [suit EXCEPT !.raced = FALSE, !.cleared = FALSE, !.expected = d.expected,
                         !.collection = CollectionStatus(d.expected, collected)]
        uncomputed == [suit EXCEPT !.cleared = TRUE]
    IN
    /\ wizard[u].pc = "locked"
    /\ \A e \in Entries, v \in Users \ {u} : HeldBy(e, v) => ~entry[e].live /\ e \notin kept
    /\ suit' = [IF finances THEN computed ELSE uncomputed EXCEPT
           !.version = @ + 1, !.savedBy = u, !.restricted = d.restricted,
           !.people = d.people, !.status = d.status, !.stage = d.stage]
    /\ entry' = [e \in Entries |->
           IF e \in kept THEN [live |-> TRUE, amount |-> amount(e),
                               row |-> entry[e].row + 1, version |-> 1]
           ELSE [entry[e] EXCEPT !.live = FALSE]]
    /\ note' = {n \in note : ~Replaceable(n, u)}
                 \cup {[n EXCEPT !.author = u] : n \in wizard[u].notes}
    /\ wizard' = [wizard EXCEPT ![u].pc = "saved"]
    /\ UNCHANGED booking

\* An error, or the deadlock PostgreSQL breaks when a booking of an entry waits for the
\* row of the case; nothing was written.
FailSave(u) ==
    /\ wizard[u].pc \in {"sent", "locked"}
    /\ wizard' = [wizard EXCEPT ![u].pc = "editing"]
    /\ UNCHANGED <<suit, entry, note, booking>>
\* No answer, though all was written: the wizard stays with what it had.
LoseSaved(u) ==
    /\ wizard[u].pc = "saved"
    /\ wizard' = [wizard EXCEPT ![u].pc = "editing"]
    /\ UNCHANGED <<suit, entry, note, booking>>
LeaveWizard(u) ==
    /\ wizard[u].pc \in {"editing", "saved"}
    /\ wizard' = [wizard EXCEPT ![u] = NoWizard]
    /\ UNCHANGED <<suit, entry, note, booking>>

-----------------------------------------------------------------------------
(* Bookings and process entries                                            *)

\* create-, update- and deleteGeneralCaseFinancialEntry: the entry first.
Book(u, e, new) ==
    /\ booking[u].pc = "idle" /\ MaySee(u)
    /\ \A v \in Users : ~HeldBy(e, v)
    /\ booking' = [booking EXCEPT ![u] =
           [NoBooking EXCEPT !.pc = "held", !.entry = e, !.new = new]]
    /\ UNCHANGED <<suit, entry, note, wizard>>
CreateEntry(u, e) ==
    /\ ~entry[e].live
    /\ \E a \in Amounts : Book(u, e, [live |-> TRUE, amount |-> a, version |-> 1,
                                      row |-> entry[e].row + 1])
UpdateEntry(u, e) ==
    /\ entry[e].live
    /\ \E a \in Amounts : Book(u, e, [entry[e] EXCEPT !.amount = a, !.version = @ + 1])
DeleteEntry(u, e) ==
    /\ entry[e].live
    /\ Book(u, e, [entry[e] EXCEPT !.live = FALSE, !.version = @ + 1])

\* refreshCollectionStatus reads what is expected and what is collected ...
Collected(u) ==
    CollectedBy([e \in Entries |-> IF HeldBy(e, u) THEN booking[u].new ELSE entry[e]])
CollectedBefore(u) == CollectedBy(entry)                              \* mutant
SumFor(u) == Collected(u)
RefreshCollection(u) ==
    /\ booking[u].pc = "held"
    /\ booking' = [booking EXCEPT ![u].pc = "summed", ![u].readAt = suit.version,
                       ![u].status = CollectionStatus(suit.expected, SumFor(u))]
    /\ UNCHANGED <<suit, entry, note, wizard>>
\* ... and updates the case, whatever its version is by then.
FinishBooking(u) ==
    /\ booking[u].pc = "summed" /\ ~CaseRowLocked
    /\ suit' = [suit EXCEPT !.version = @ + 1, !.collection = booking[u].status,
                            !.raced = booking[u].readAt # suit.version,
                            !.cleared = FALSE]
    /\ entry' = [entry EXCEPT ![booking[u].entry] = booking[u].new]
    /\ booking' = [booking EXCEPT ![u] = NoBooking]
    /\ UNCHANGED <<note, wizard>>
FailBooking(u) ==
    /\ booking[u].pc \in {"held", "summed"}
    /\ booking' = [booking EXCEPT ![u] = NoBooking]
    /\ UNCHANGED <<suit, entry, note, wizard>>

\* updateGeneralCaseFinance; the version keeps any booking from coming in between.
UpdateFinance(u) ==
    /\ MaySee(u) /\ ~CaseRowLocked
    /\ \E expected \in {d.expected : d \in Drafts} \ {suit.expected, Nothing} :
           suit' = [suit EXCEPT !.version = @ + 1, !.expected = expected,
               !.raced = FALSE, !.cleared = FALSE,
               !.collection = CollectionStatus(expected, CollectedBy(entry))]
    /\ UNCHANGED <<entry, note, wizard, booking>>

StatusForStage(stage) ==
    CASE stage = "CLOSED"   -> "CLOSED"
      [] stage = "DECISION" -> "DECISION"
      [] stage \in {"APPEAL", "CASSATION"} -> "APPEAL"
      [] OTHER -> "ACTIVE"
\* touchCase, for process entries and, without a stage, for hearings.
TouchCase(u) ==
    /\ MaySee(u) /\ ~CaseRowLocked
    /\ \/ suit' = [suit EXCEPT !.version = @ + 1]
       \/ \E stage \in Stages :
              suit' = [suit EXCEPT !.version = @ + 1, !.stage = stage,
                                   !.status = StatusForStage(stage)]
    /\ UNCHANGED <<entry, note, wizard, booking>>

ArchiveSuit ==
    /\ suit.state = "live" /\ ~CaseRowLocked
    /\ suit' = [suit EXCEPT !.state = "archived"]
    /\ UNCHANGED <<entry, note, wizard, booking>>
RestoreSuit ==
    /\ suit.state = "archived"
    /\ suit' = [suit EXCEPT !.state = "live"]
    /\ UNCHANGED <<entry, note, wizard, booking>>

GeneralOpening ==
    \E u \in Users :
        \/ OpenWizard(u) \/ AddNote(u) \/ UpdateFinance(u) \/ TouchCase(u)
        \/ \E e \in Entries : CreateEntry(u, e) \/ UpdateEntry(u, e) \/ DeleteEntry(u, e)
GeneralWork ==
    \E u \in Users :
        \/ CreateSuit(u) \/ ReadSuit(u) \/ ReadLists(u)
        \/ \E n \in note : RemoveNote(u, n)
        \/ SubmitWizard(u) \/ SaveRow(u) \/ SaveLists(u) \/ LeaveWizard(u)
        \/ RefreshCollection(u) \/ FinishBooking(u)
        \/ RestoreSuit
GeneralMishap ==
    \/ \E u \in Users : FailSave(u) \/ LoseSaved(u) \/ FailBooking(u)
    \/ ArchiveSuit
GeneralNext == GeneralOpening \/ GeneralWork \/ GeneralMishap
GeneralSpec == GeneralInit /\ [][GeneralNext]_generalVars

-----------------------------------------------------------------------------
(* Properties                                                              *)

Rows == [entry : Entries, amount : Nat, row : Nat, version : Nat]
NoteRows == [text : NoteTexts, author : Users, private : BOOLEAN]
GeneralTypeOK ==
    /\ suit \in [state : {"none", "live", "archived"}, version : Nat,
                 creator : Users \cup {Nothing}, savedBy : Users \cup {Nothing},
                 restricted : BOOLEAN, people : SUBSET Users, expected : Nat,
                 raced : BOOLEAN, cleared : BOOLEAN, status : Statuses,
                 collection : {"NOT_COLLECTED", "PARTIAL", "COLLECTED"},
                 stage : Stages \cup {d.stage : d \in Drafts} \cup {"CASE_OPENING"}]
    /\ suit.status = "CLOSED" <=> suit.stage = "CLOSED"
    /\ entry \in [Entries -> [live : BOOLEAN, amount : Nat, row : Nat, version : Nat]]
    /\ note \subseteq NoteRows
    /\ wizard \in [Users -> [
           pc : {"none", "opening", "editing", "sent", "locked", "saved"},
           version : Nat, seenAt : Nat, entries : SUBSET Rows, kept : SUBSET Rows,
           notes : SUBSET NoteRows, draft : Drafts \cup {Nothing}]]
    /\ booking \in [Users -> [
           pc : {"idle", "held", "summed"}, entry : Entries \cup {Nothing},
           new : [live : BOOLEAN, amount : Nat, row : Nat, version : Nat],
           status : {"NOT_COLLECTED", "PARTIAL", "COLLECTED", Nothing}, readAt : Nat]]

\* Who has saved a restricted case can still open it (RESTRICTED_ACCESS_REQUIRED,
\* [id]/route.ts:40), until somebody else saves it.
AccessIsKept == suit.state = "live" /\ suit.savedBy # Nothing => MaySee(suit.savedBy)

\* The collection status is that of the entries and of the amount expected.  Excepted is
\* the case after a booking that another change of it overlapped (refreshCollectionStatus),
\* until a change that none overlaps, and after a save without finances (update.ts:62),
\* which leaves nothing collected under the status it found, until the next booking or
\* change of the finances.
StatusIsTheSum ==
    /\ ~suit.raced /\ ~suit.cleared =>
           suit.collection = CollectionStatus(suit.expected, CollectedBy(entry))
    /\ suit.cleared => CollectedBy(entry) = 0

\* A save deletes no financial entry that its wizard did not show, as it was shown
\* (update.ts:62).  Excepted is the wizard whose overview was torn: its lists were read
\* before the version it came with.
EntriesReplacedWereShown ==
    [][\A u \in Users :
          /\ wizard[u].pc = "locked" /\ wizard'[u].pc = "saved"
          /\ wizard[u].seenAt >= wizard[u].version
          => LiveRows \subseteq wizard[u].entries]_generalVars

\* The private note of a user is deleted and made public by no step of others.
PrivateNotesAreKept ==
    [][\A n \in note \ note' : n.private => wizard'[n.author] # wizard[n.author]]_generalVars
=============================================================================
