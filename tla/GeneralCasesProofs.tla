------------------------- MODULE GeneralCasesProofs -------------------------
(***************************************************************************)
(* Proofs about a general case: who can open it, what its collection       *)
(* status says, which entries a save deletes and whose notes, for any      *)
(* number of users, entries and amounts.                                   *)
(***************************************************************************)
EXTENDS GeneralCases, TLAPS

-----------------------------------------------------------------------------
(* The inductive invariant                                                 *)

Maybe(S) == S \cup {Nothing}
Collections == {"NOT_COLLECTED", "PARTIAL", "COLLECTED"}
SuitType ==
    [state : {"none", "live", "archived"}, version : Nat, creator : Maybe(Users),
     savedBy : Maybe(Users), restricted : BOOLEAN, people : SUBSET Users, expected : Nat,
     raced : BOOLEAN, cleared : BOOLEAN, status : Statuses, collection : Collections,
     stage : Stages \cup {d.stage : d \in Drafts} \cup {"CASE_OPENING"}]
EntryType == [live : BOOLEAN, amount : Nat, row : Nat, version : Nat]
WizardType ==
    [pc : {"none", "opening", "editing", "sent", "locked", "saved"},
     version : Nat, seenAt : Nat, entries : SUBSET Rows, kept : SUBSET Rows,
     notes : SUBSET NoteRows, draft : Maybe(Drafts)]
BookingType ==
    [pc : {"idle", "held", "summed"}, entry : Maybe(Entries), new : EntryType,
     status : Maybe(Collections), readAt : Nat]

GeneralTyped ==
    /\ suit \in SuitType /\ entry \in [Entries -> EntryType] /\ note \subseteq NoteRows
    /\ wizard \in [Users -> WizardType] /\ booking \in [Users -> BookingType]

\* Before the case is created nobody has anything to do with it.
Born ==
    /\ suit.state = "none" <=> suit.version = 0
    /\ suit.state = "none" =>
           /\ suit.savedBy = Nothing /\ suit.expected = 0
           /\ suit.collection = "NOT_COLLECTED" /\ ~suit.raced /\ ~suit.cleared
           /\ \A e \in Entries : ~entry[e].live
           /\ \A u \in Users : wizard[u].pc = "none" /\ booking[u].pc = "idle"

\* Who could open the case if it were not archived.
MayOpen(u) == u \in Admins \/ ~suit.restricted \/ suit.creator = u \/ u \in suit.people
SaverMayOpen == suit.savedBy # Nothing => MayOpen(suit.savedBy)
SuitIsValid == suit.status = "CLOSED" <=> suit.stage = "CLOSED"

\* What can be sent: entries belong to finances.
Sendable(w) ==
    w.draft \in Drafts /\ Valid(w.draft) /\ (w.draft.expected = Nothing => w.kept = {})

\* What a wizard shows is right as long as the case has the version it was read at; the
\* one that has locked the case has the case's version.
WizardBacked(u, w) ==
    /\ w.seenAt <= suit.version
    /\ w.seenAt = suit.version => LiveRows \subseteq w.entries
    /\ w.pc \in {"sent", "locked"} => Sendable(w)
    /\ w.pc = "locked" => w.version = suit.version /\ RetainsAccess(u, w.draft)

\* The status a booking has computed is right as long as the case has that version.
BookingBacked(u, b) ==
    /\ b.pc # "idle" => b.entry \in Entries
    /\ b.pc = "summed" => /\ b.readAt <= suit.version /\ b.status \in Collections
                          /\ b.readAt = suit.version =>
                                 b.status = CollectionStatus(suit.expected, Collected(u))

OneLock ==
    \A u, v \in Users : wizard[u].pc = "locked" /\ wizard[v].pc = "locked" => u = v

GeneralInv ==
    /\ GeneralTyped /\ Born /\ SaverMayOpen /\ SuitIsValid /\ StatusIsTheSum /\ OneLock
    /\ \A u \in Users : WizardBacked(u, wizard[u]) /\ BookingBacked(u, booking[u])

-----------------------------------------------------------------------------
(* Facts about the operators                                               *)

\* The sum of nothing.
LEMMA EmptySum == ASSUME NEW f, DOMAIN f = {} PROVE SumFunction(f) = 0
<1> DEFINE body(iter) ==
        [s \in SUBSET {} |-> IF s = {} THEN 0
                             ELSE LET x == CHOOSE x \in s : TRUE IN f[x] + iter[s \ {x}]]
<1>1. body([s \in {{}} |-> 0]) = [s \in {{}} |-> 0]
  OBVIOUS
<1>2. (CHOOSE iter : iter = body(iter)) = body(CHOOSE iter : iter = body(iter))
  BY <1>1
<1>3. QED
  BY <1>1 DEF SumFunction, SumFunctionOnSet, FoldFunctionOnSet, MapThenFoldSet

\* So nothing is collected where no entry is live.
LEMMA NothingCollected ==
    ASSUME NEW rows, \A e \in Entries : ~rows[e].live PROVE CollectedBy(rows) = 0
<1>1. {x \in Entries : rows[x].live} = {}
  OBVIOUS
<1>2. DOMAIN [e \in {x \in Entries : rows[x].live} |-> rows[e].amount] = {}
  BY <1>1
<1>3. QED
  BY <1>2, EmptySum DEF CollectedBy

\* What is collected depends on the live entries and their amounts alone.
LEMMA SameCollected ==
    ASSUME NEW S \in SUBSET Entries, NEW amount, NEW rows,
           \A e \in Entries : rows[e].live <=> e \in S,
           \A e \in S : rows[e].amount = amount[e]
    PROVE  CollectedBy(rows) = SumFunction([e \in S |-> amount[e]])
<1>1. {x \in Entries : rows[x].live} = S
  OBVIOUS
<1>2. [e \in {x \in Entries : rows[x].live} |-> rows[e].amount] = [e \in S |-> amount[e]]
  BY <1>1
<1>3. QED
  BY <1>2 DEF CollectedBy

\* The three statuses.
LEMMA CollectionTyped ==
    /\ \A expected, collected : CollectionStatus(expected, collected) \in Collections
    /\ \A expected : CollectionStatus(expected, 0) = "NOT_COLLECTED"
BY DEF CollectionStatus, Collections

\* The empty case, entry, wizard and booking.
LEMMA EmptyRecords ==
    /\ NoSuit \in SuitType /\ NoSuit.state = "none" /\ NoSuit.version = 0
    /\ NoSuit.savedBy = Nothing /\ NoSuit.expected = 0
    /\ ~NoSuit.raced /\ ~NoSuit.cleared
    /\ NoSuit.collection = "NOT_COLLECTED"
    /\ NoSuit.status = "DRAFT" /\ NoSuit.stage = "CASE_OPENING"
    /\ NoEntry \in EntryType /\ ~NoEntry.live
    /\ NoWizard \in WizardType /\ NoWizard.pc = "none" /\ NoWizard.seenAt = 0
    /\ NoBooking \in BookingType /\ NoBooking.pc = "idle"
BY DEF NoSuit, NoEntry, NoWizard, NoBooking, SuitType, EntryType, WizardType, BookingType,
       Maybe, Collections, Statuses

\* Rows and notes have their types.
LEMMA RowsTyped == ASSUME GeneralTyped PROVE LiveRows \subseteq Rows
<1>1. ASSUME NEW e \in Entries PROVE LiveRow(e) \in Rows
  <2>1. entry[e] \in EntryType
    BY DEF GeneralTyped
  <2>2. QED
    BY <2>1 DEF LiveRow, Rows, EntryType
<1>2. QED
  BY <1>1 DEF LiveRows

\* What the invariant says, user by user.
LEMMA Standing ==
    ASSUME GeneralInv, NEW u \in Users
    PROVE  /\ wizard[u] \in WizardType /\ WizardBacked(u, wizard[u])
           /\ booking[u] \in BookingType /\ BookingBacked(u, booking[u])
           /\ suit \in SuitType /\ suit.version \in Nat
BY DEF GeneralInv, GeneralTyped, SuitType

-----------------------------------------------------------------------------
(* Steps of one wizard, of one booking and of the case                     *)

\* What a wizard does leaves what others know as it is.
LEMMA WizardMoves ==
    ASSUME GeneralInv, NEW u \in Users, NEW w \in WizardType,
           wizard' = [wizard EXCEPT ![u] = w], UNCHANGED <<suit, entry, booking>>,
           note' \subseteq NoteRows,
           suit.state # "none" \/ w.pc = "none",
           WizardBacked(u, w), w.pc = "locked" => ~CaseRowLocked
    PROVE  GeneralInv'
<1>1. /\ wizard' \in [Users -> WizardType] /\ wizard'[u] = w
      /\ \A v \in Users : v # u => wizard'[v] = wizard[v]
  BY DEF GeneralInv, GeneralTyped
<1>2. \A v \in Users : WizardBacked(v, wizard[v])' /\ BookingBacked(v, booking[v])'
  <2>1. TAKE v \in Users
  <2>2. WizardBacked(v, wizard[v]) /\ BookingBacked(v, booking[v])
    BY Standing
  <2>3. BookingBacked(v, booking[v])'
    BY <2>2 DEF BookingBacked, Collected, CollectedBy, HeldBy
  <2>4. WizardBacked(v, wizard'[v])
    BY <1>1, <2>2
  <2>5. WizardBacked(v, wizard[v])'
    BY <2>4 DEF WizardBacked, LiveRows, LiveRow, RetainsAccess, Sendable, Valid
  <2>6. QED
    BY <2>3, <2>5
<1>3. OneLock'
  BY <1>1 DEF GeneralInv, OneLock, CaseRowLocked
<1>4. GeneralTyped' /\ Born' /\ SaverMayOpen' /\ SuitIsValid'
  BY <1>1 DEF GeneralInv, GeneralTyped, Born, SaverMayOpen, MayOpen, SuitIsValid
<1>5. StatusIsTheSum'
  BY DEF GeneralInv, StatusIsTheSum, CollectedBy
<1>6. QED
  BY <1>2, <1>3, <1>4, <1>5 DEF GeneralInv

\* Neither does what a booking does before it is finished.
LEMMA BookingMoves ==
    ASSUME GeneralInv, NEW u \in Users, NEW b \in BookingType,
           booking' = [booking EXCEPT ![u] = b], UNCHANGED <<suit, entry, note, wizard>>,
           suit.state # "none" \/ b.pc = "idle", BookingBacked(u, b)'
    PROVE  GeneralInv'
<1>1. /\ booking' \in [Users -> BookingType] /\ booking'[u] = b
      /\ \A v \in Users : v # u => booking'[v] = booking[v]
  BY DEF GeneralInv, GeneralTyped
<1>2. \A v \in Users : WizardBacked(v, wizard[v])' /\ BookingBacked(v, booking[v])'
  <2>1. TAKE v \in Users
  <2>2. WizardBacked(v, wizard[v]) /\ BookingBacked(v, booking[v])
    BY Standing
  <2>3. WizardBacked(v, wizard[v])'
    BY <2>2 DEF WizardBacked, LiveRows, LiveRow, RetainsAccess, Sendable, Valid
  <2>4. CASE v = u
    <3>1. BookingBacked(u, b)' <=> BookingBacked(v, booking[v])'
      BY <1>1, <2>4 DEF BookingBacked
    <3>2. QED
      BY <2>3, <3>1
  <2>5. CASE v # u
    <3>1. booking'[v] = booking[v]
      BY <1>1, <2>5
    <3>2. Collected(v)' = Collected(v)
      <4>1. \A e \in Entries : HeldBy(e, v)' <=> HeldBy(e, v)
        BY <3>1 DEF HeldBy
      <4>2. [e \in Entries |-> IF HeldBy(e, v)' THEN booking'[v].new ELSE entry'[e]]
            = [e \in Entries |-> IF HeldBy(e, v) THEN booking[v].new ELSE entry[e]]
        BY <3>1, <4>1
      <4>3. QED
        BY <4>2 DEF Collected
    <3>3. BookingBacked(v, booking[v])'
      BY <2>2, <3>1, <3>2 DEF BookingBacked
    <3>4. QED
      BY <2>3, <3>3
  <2>6. QED
    BY <2>4, <2>5
<1>3. GeneralTyped' /\ Born' /\ SaverMayOpen' /\ SuitIsValid' /\ OneLock'
  BY <1>1 DEF GeneralInv, GeneralTyped, Born, SaverMayOpen, MayOpen, SuitIsValid, OneLock
<1>4. StatusIsTheSum'
  BY DEF GeneralInv, StatusIsTheSum, CollectedBy
<1>5. QED
  BY <1>2, <1>3, <1>4 DEF GeneralInv

\* A new version of the case makes all that anybody knows of it out of date.
LEMMA VersionMoves ==
    ASSUME GeneralInv, suit' \in SuitType, entry' \in [Entries -> EntryType],
           note' \subseteq NoteRows,
           wizard' \in [Users -> WizardType], booking' \in [Users -> BookingType],
           suit'.state # "none", suit'.version = suit.version + 1,
           \A v \in Users : /\ wizard'[v].seenAt = wizard[v].seenAt
                            /\ wizard'[v].draft = wizard[v].draft
                            /\ wizard'[v].kept = wizard[v].kept
                            /\ wizard'[v].pc # "locked"
                            /\ wizard'[v].pc = "sent" => wizard[v].pc = "sent",
           \A v \in Users : booking'[v] = booking[v] \/ booking'[v].pc = "idle",
           SaverMayOpen', SuitIsValid', StatusIsTheSum'
    PROVE  GeneralInv'
<1>1. suit.version \in Nat
  BY DEF GeneralInv, GeneralTyped, SuitType
<1>2. Born'
  BY <1>1 DEF Born
<1>3. \A v \in Users : WizardBacked(v, wizard[v])' /\ BookingBacked(v, booking[v])'
  <2>1. TAKE v \in Users
  <2>2. /\ WizardBacked(v, wizard[v]) /\ BookingBacked(v, booking[v])
        /\ wizard[v].seenAt \in Nat /\ booking[v].readAt \in Nat
    BY Standing DEF WizardType, BookingType
  <2>3. wizard'[v].seenAt <= suit'.version /\ wizard'[v].seenAt # suit'.version
    BY <1>1, <2>2 DEF WizardBacked
  <2>4. WizardBacked(v, wizard[v])'
    BY <2>2, <2>3 DEF WizardBacked, Sendable, Valid
  <2>5. BookingBacked(v, booking[v])'
    <3>1. CASE booking'[v].pc = "idle"
      BY <3>1 DEF BookingBacked
    <3>2. CASE booking'[v] = booking[v]
      BY <1>1, <2>2, <3>2 DEF BookingBacked
    <3>3. QED
      BY <3>1, <3>2
  <2>6. QED
    BY <2>4, <2>5
<1>4. OneLock' /\ GeneralTyped'
  BY DEF OneLock, GeneralTyped
<1>5. QED
  BY <1>2, <1>3, <1>4 DEF GeneralInv

-----------------------------------------------------------------------------
(* The wizard                                                              *)

\* The wizard that is not open shows what there is before the case is created: nothing.
LEMMA NoWizardIsBacked ==
    ASSUME GeneralInv, NEW u \in Users PROVE WizardBacked(u, NoWizard)
<1>1. suit.version \in Nat /\ (suit.version = 0 => LiveRows = {})
  BY Standing DEF GeneralInv, Born, LiveRows
<1>2. QED
  BY <1>1, EmptyRecords DEF WizardBacked

\* A wizard that shows what it showed.
LEMMA ShownIsBacked ==
    ASSUME GeneralInv, NEW u \in Users, NEW w,
           w.seenAt = wizard[u].seenAt, w.entries = wizard[u].entries,
           w.pc \in {"sent", "locked"} => Sendable(w),
           w.pc = "locked" => w.version = suit.version /\ RetainsAccess(u, w.draft)
    PROVE  WizardBacked(u, w)
BY Standing DEF WizardBacked

\* Who has a wizard or a booking, or may see the case, does so after it was created.
LEMMA AfterBirth ==
    ASSUME GeneralInv, NEW u \in Users,
           wizard[u].pc # "none" \/ booking[u].pc # "idle" \/ MaySee(u)
    PROVE  suit.state # "none" /\ suit.version # 0
BY DEF GeneralInv, Born, MaySee

LEMMA OpenWizardStep ==
    ASSUME GeneralInv, NEW u \in Users, OpenWizard(u) PROVE GeneralInv'
<1>1. PICK w : w = [NoWizard EXCEPT !.pc = "opening"]
  OBVIOUS
<1>2. /\ w \in WizardType /\ w.pc = "opening" /\ w.seenAt = 0
  BY <1>1, EmptyRecords DEF WizardType
<1>3. suit.state # "none" /\ suit.version # 0 /\ suit.version \in Nat
  BY AfterBirth, Standing DEF OpenWizard
<1>4. WizardBacked(u, w)
  BY <1>2, <1>3 DEF WizardBacked
<1>5. /\ wizard' = [wizard EXCEPT ![u] = w] /\ UNCHANGED <<suit, entry, booking>>
      /\ note' \subseteq NoteRows
  BY <1>1 DEF OpenWizard, GeneralInv, GeneralTyped
<1>6. QED
  BY <1>2, <1>3, <1>4, <1>5, WizardMoves

LEMMA ReadSuitStep ==
    ASSUME GeneralInv, NEW u \in Users, ReadSuit(u) PROVE GeneralInv'
<1>1. /\ wizard[u].pc = "opening" /\ UNCHANGED <<suit, entry, note, booking>>
      /\ wizard' = [wizard EXCEPT ![u] = IF ~MaySee(u) THEN NoWizard
             ELSE [@ EXCEPT !.version = suit.version,
                            !.pc = IF wizard[u].seenAt = 0 THEN "opening" ELSE "editing"]]
  BY DEF ReadSuit
<1>2. note' \subseteq NoteRows /\ suit.state # "none"
  BY <1>1, AfterBirth DEF GeneralInv, GeneralTyped
<1>3. CASE ~MaySee(u)
  <2>1. wizard' = [wizard EXCEPT ![u] = NoWizard]
    BY <1>1, <1>3
  <2>2. QED
    BY <1>1, <1>2, <2>1, EmptyRecords, NoWizardIsBacked, WizardMoves
<1>4. CASE MaySee(u)
  <2>1. PICK pc \in {"opening", "editing"} :
            pc = IF wizard[u].seenAt = 0 THEN "opening" ELSE "editing"
    OBVIOUS
  <2>2. PICK w : w = [wizard[u] EXCEPT !.version = suit.version, !.pc = pc]
    OBVIOUS
  <2>3. /\ w \in WizardType /\ w.pc = pc /\ w.seenAt = wizard[u].seenAt
        /\ w.entries = wizard[u].entries
    BY <2>2, Standing DEF WizardType
  <2>4. WizardBacked(u, w) /\ w.pc # "locked"
    BY <2>1, <2>3, ShownIsBacked
  <2>5. wizard' = [wizard EXCEPT ![u] = w]
    BY <1>1, <1>4, <2>1, <2>2
  <2>6. QED
    BY <1>1, <1>2, <2>3, <2>4, <2>5, WizardMoves
<1>5. QED
  BY <1>3, <1>4

LEMMA ReadListsStep ==
    ASSUME GeneralInv, NEW u \in Users, ReadLists(u) PROVE GeneralInv'
<1>1. /\ wizard[u].pc = "opening" /\ UNCHANGED <<suit, entry, note, booking>>
      /\ wizard' = [wizard EXCEPT ![u] = IF ~MaySee(u) THEN NoWizard
             ELSE [@ EXCEPT !.seenAt = suit.version, !.entries = LiveRows,
                            !.notes = {n \in note : Shown(n, u)},
                            !.pc = IF wizard[u].version = 0 THEN "opening" ELSE "editing"]]
  BY DEF ReadLists
<1>2. note' \subseteq NoteRows /\ suit.state # "none"
  BY <1>1, AfterBirth DEF GeneralInv, GeneralTyped
<1>3. CASE ~MaySee(u)
  <2>1. wizard' = [wizard EXCEPT ![u] = NoWizard]
    BY <1>1, <1>3
  <2>2. QED
    BY <1>1, <1>2, <2>1, EmptyRecords, NoWizardIsBacked, WizardMoves
<1>4. CASE MaySee(u)
  <2>1. PICK pc \in {"opening", "editing"} :
            pc = IF wizard[u].version = 0 THEN "opening" ELSE "editing"
    OBVIOUS
  <2>2. PICK rows \in SUBSET Rows : rows = LiveRows
    BY RowsTyped DEF GeneralInv
  <2>3. PICK notes \in SUBSET NoteRows : notes = {n \in note : Shown(n, u)}
    BY DEF GeneralInv, GeneralTyped
  <2>4. PICK w : w = [wizard[u] EXCEPT !.seenAt = suit.version, !.entries = rows,
                          !.notes = notes, !.pc = pc]
    OBVIOUS
  <2>5. /\ w \in WizardType /\ w.pc = pc /\ w.seenAt = suit.version /\ w.entries = rows
    BY <2>4, Standing DEF WizardType
  <2>6. WizardBacked(u, w) /\ w.pc # "locked"
    BY <2>1, <2>2, <2>5, Standing DEF WizardBacked
  <2>7. wizard' = [wizard EXCEPT ![u] = w]
    BY <1>1, <1>4, <2>1, <2>2, <2>3, <2>4
  <2>8. QED
    BY <1>1, <1>2, <2>5, <2>6, <2>7, WizardMoves
<1>5. QED
  BY <1>3, <1>4

\* The notes of an open wizard.
LEMMA NotesStep ==
    ASSUME GeneralInv, NEW u \in Users, wizard[u].pc = "editing",
           NEW notes \in SUBSET NoteRows, wizard' = [wizard EXCEPT ![u].notes = notes],
           note' \subseteq NoteRows, UNCHANGED <<suit, entry, booking>>
    PROVE  GeneralInv'
<1>1. PICK w : w = [wizard[u] EXCEPT !.notes = notes]
  OBVIOUS
<1>2. /\ w \in WizardType /\ w.pc = "editing" /\ w.seenAt = wizard[u].seenAt
      /\ w.entries = wizard[u].entries
  BY <1>1, Standing DEF WizardType
<1>3. WizardBacked(u, w) /\ suit.state # "none"
  BY <1>2, ShownIsBacked, AfterBirth
<1>4. wizard' = [wizard EXCEPT ![u] = w]
  BY <1>1
<1>5. QED
  BY <1>2, <1>3, <1>4, WizardMoves

LEMMA AddNoteStep ==
    ASSUME GeneralInv, NEW u \in Users, AddNote(u) PROVE GeneralInv'
<1>1. PICK text \in NoteTexts, private \in BOOLEAN :
          /\ note' = note \cup {[text |-> text, author |-> u, private |-> private]}
          /\ wizard' = [wizard EXCEPT ![u].notes =
                 @ \cup {[text |-> text, author |-> u, private |-> private]}]
  BY DEF AddNote
<1>2. PICK n : n = [text |-> text, author |-> u, private |-> private]
  OBVIOUS
<1>3. n \in NoteRows
  BY <1>2 DEF NoteRows
<1>4. wizard[u].notes \cup {n} \in SUBSET NoteRows /\ note' \subseteq NoteRows
  BY <1>1, <1>2, <1>3, Standing DEF WizardType, GeneralInv, GeneralTyped
<1>5. wizard' = [wizard EXCEPT ![u].notes = wizard[u].notes \cup {n}]
  BY <1>1, <1>2
<1>6. QED
  BY <1>4, <1>5, NotesStep DEF AddNote

LEMMA RemoveNoteStep ==
    ASSUME GeneralInv, NEW u \in Users, NEW n, RemoveNote(u, n) PROVE GeneralInv'
<1>1. /\ wizard' = [wizard EXCEPT ![u].notes = wizard[u].notes \ {n}]
      /\ note' = note \ {n}
  BY DEF RemoveNote
<1>2. wizard[u].notes \ {n} \in SUBSET NoteRows /\ note' \subseteq NoteRows
  BY <1>1, Standing DEF WizardType, GeneralInv, GeneralTyped
<1>3. QED
  BY <1>1, <1>2, NotesStep DEF RemoveNote

LEMMA SubmitWizardStep ==
    ASSUME GeneralInv, NEW u \in Users, SubmitWizard(u) PROVE GeneralInv'
<1>1. PICK d \in Drafts, kept \in SUBSET wizard[u].entries :
          /\ Valid(d) /\ (d.expected = Nothing => kept = {})
          /\ wizard' = [wizard EXCEPT ![u].pc = "sent", ![u].draft = d, ![u].kept = kept]
  BY DEF SubmitWizard
<1>2. PICK w : w = [wizard[u] EXCEPT !.pc = "sent", !.draft = d, !.kept = kept]
  OBVIOUS
<1>3. kept \in SUBSET Rows
  BY Standing DEF WizardType
<1>4. /\ w \in WizardType /\ w.pc = "sent" /\ w.draft = d /\ w.seenAt = wizard[u].seenAt
      /\ w.kept = kept /\ w.entries = wizard[u].entries
  BY <1>2, <1>3, Standing DEF WizardType, Maybe
<1>5. WizardBacked(u, w) /\ suit.state # "none"
  BY <1>1, <1>4, ShownIsBacked, AfterBirth DEF SubmitWizard, Sendable
<1>6. wizard' = [wizard EXCEPT ![u] = w] /\ UNCHANGED <<suit, entry, booking>>
      /\ note' \subseteq NoteRows
  BY <1>1, <1>2 DEF SubmitWizard, GeneralInv, GeneralTyped
<1>7. QED
  BY <1>4, <1>5, <1>6, WizardMoves

\* A wizard that only changes where it stands.
LEMMA PlaceMoves ==
    ASSUME GeneralInv, NEW u \in Users, wizard[u].pc # "none",
           NEW pc \in {"editing", "locked"}, wizard' = [wizard EXCEPT ![u].pc = pc],
           pc = "locked" =>
               /\ ~CaseRowLocked /\ wizard[u].pc = "sent"
               /\ wizard[u].version = suit.version /\ RetainsAccess(u, wizard[u].draft),
           UNCHANGED <<suit, entry, note, booking>>
    PROVE  GeneralInv'
<1>1. PICK w : w = [wizard[u] EXCEPT !.pc = pc]
  OBVIOUS
<1>2. /\ w \in WizardType /\ w.pc = pc /\ w.seenAt = wizard[u].seenAt
      /\ w.entries = wizard[u].entries /\ w.draft = wizard[u].draft
      /\ w.version = wizard[u].version /\ w.kept = wizard[u].kept
  BY <1>1, Standing DEF WizardType
<1>3. pc = "locked" => Sendable(w)
  BY <1>2, Standing DEF WizardBacked, Sendable
<1>4. WizardBacked(u, w)
  BY <1>2, <1>3, ShownIsBacked
<1>5. wizard' = [wizard EXCEPT ![u] = w] /\ note' \subseteq NoteRows
  BY <1>1 DEF GeneralInv, GeneralTyped
<1>6. QED
  BY <1>2, <1>4, <1>5, AfterBirth, WizardMoves

LEMMA SaveRowStep ==
    ASSUME GeneralInv, NEW u \in Users, SaveRow(u) PROVE GeneralInv'
<1>1. /\ wizard[u].pc = "sent" /\ ~CaseRowLocked /\ UNCHANGED <<suit, entry, note, booking>>
      /\ wizard' = [wizard EXCEPT ![u].pc =
             IF MaySee(u) /\ Matched(u) /\ Retains(u, wizard[u].draft)
             THEN "locked" ELSE "editing"]
  BY DEF SaveRow
<1>2. CASE MaySee(u) /\ Matched(u) /\ Retains(u, wizard[u].draft)
  <2>1. wizard[u].version = suit.version /\ RetainsAccess(u, wizard[u].draft)
    BY <1>2 DEF Matched, SameSuit, Retains
  <2>2. wizard' = [wizard EXCEPT ![u].pc = "locked"]
    BY <1>1, <1>2
  <2>3. QED
    BY <1>1, <2>1, <2>2, PlaceMoves
<1>3. CASE ~(MaySee(u) /\ Matched(u) /\ Retains(u, wizard[u].draft))
  <2>1. wizard' = [wizard EXCEPT ![u].pc = "editing"]
    BY <1>1, <1>3
  <2>2. QED
    BY <1>1, <2>1, PlaceMoves
<1>4. QED
  BY <1>2, <1>3

LEMMA LeaveStep ==
    ASSUME GeneralInv, NEW u \in Users, FailSave(u) \/ LoseSaved(u) \/ LeaveWizard(u)
    PROVE  GeneralInv'
<1>1. CASE FailSave(u)
  BY <1>1, PlaceMoves DEF FailSave
<1>2. CASE LoseSaved(u)
  BY <1>2, PlaceMoves DEF LoseSaved
<1>3. CASE LeaveWizard(u)
  <2>1. /\ wizard' = [wizard EXCEPT ![u] = NoWizard] /\ UNCHANGED <<suit, entry, booking>>
        /\ note' \subseteq NoteRows
    BY <1>3 DEF LeaveWizard, GeneralInv, GeneralTyped
  <2>2. QED
    BY <2>1, EmptyRecords, NoWizardIsBacked, WizardMoves
<1>4. QED
  BY <1>1, <1>2, <1>3

-----------------------------------------------------------------------------
(* Bookings                                                                *)

LEMMA BookStep ==
    ASSUME GeneralInv, NEW u \in Users, NEW e \in Entries, NEW new \in EntryType,
           Book(u, e, new)
    PROVE  GeneralInv'
<1>1. PICK b : b = [NoBooking EXCEPT !.pc = "held", !.entry = e, !.new = new]
  OBVIOUS
<1>2. b \in BookingType /\ b.pc = "held" /\ b.entry = e
  BY <1>1, EmptyRecords DEF BookingType, Maybe
<1>3. /\ booking' = [booking EXCEPT ![u] = b] /\ UNCHANGED <<suit, entry, note, wizard>>
      /\ suit.state # "none"
  BY <1>1, AfterBirth DEF Book
<1>4. BookingBacked(u, b)'
  BY <1>2 DEF BookingBacked
<1>5. QED
  BY <1>2, <1>3, <1>4, BookingMoves

LEMMA EntrySteps ==
    ASSUME GeneralInv, NEW u \in Users, NEW e \in Entries,
           CreateEntry(u, e) \/ UpdateEntry(u, e) \/ DeleteEntry(u, e)
    PROVE  GeneralInv'
<1>1. entry[e] \in EntryType
  BY DEF GeneralInv, GeneralTyped
<1>2. entry[e].row + 1 \in Nat /\ entry[e].version + 1 \in Nat
  BY <1>1 DEF EntryType
<1>3. \A a \in Amounts : a \in Nat
  BY GeneralAssumption
<1>4. CASE CreateEntry(u, e)
  <2>1. PICK a \in Amounts : Book(u, e, [live |-> TRUE, amount |-> a, version |-> 1,
                                         row |-> entry[e].row + 1])
    BY <1>4 DEF CreateEntry
  <2>2. [live |-> TRUE, amount |-> a, version |-> 1, row |-> entry[e].row + 1] \in EntryType
    BY <1>2, <1>3 DEF EntryType
  <2>3. QED
    BY <2>1, <2>2, BookStep
<1>5. CASE UpdateEntry(u, e)
  <2>1. PICK a \in Amounts :
            Book(u, e, [entry[e] EXCEPT !.amount = a, !.version = @ + 1])
    BY <1>5 DEF UpdateEntry
  <2>2. [entry[e] EXCEPT !.amount = a, !.version = @ + 1] \in EntryType
    BY <1>1, <1>2, <1>3 DEF EntryType
  <2>3. QED
    BY <2>1, <2>2, BookStep
<1>6. CASE DeleteEntry(u, e)
  <2>1. [entry[e] EXCEPT !.live = FALSE, !.version = @ + 1] \in EntryType
    BY <1>1, <1>2 DEF EntryType
  <2>2. QED
    BY <1>6, <2>1, BookStep DEF DeleteEntry
<1>7. QED
  BY <1>4, <1>5, <1>6

LEMMA RefreshStep ==
    ASSUME GeneralInv, NEW u \in Users, RefreshCollection(u) PROVE GeneralInv'
<1>1. /\ booking[u].pc = "held" /\ UNCHANGED <<suit, entry, note, wizard>>
      /\ booking' = [booking EXCEPT ![u].pc = "summed", ![u].readAt = suit.version,
                         ![u].status = CollectionStatus(suit.expected, Collected(u))]
  BY DEF RefreshCollection, SumFor
<1>2. PICK status \in Collections : status = CollectionStatus(suit.expected, Collected(u))
  BY CollectionTyped
<1>3. PICK b : b = [booking[u] EXCEPT !.pc = "summed", !.readAt = suit.version,
                        !.status = status]
  OBVIOUS
<1>4. /\ b \in BookingType /\ b.pc = "summed" /\ b.entry = booking[u].entry
      /\ b.new = booking[u].new /\ b.readAt = suit.version /\ b.status = status
  BY <1>3, Standing DEF BookingType, Maybe
<1>5. booking' = [booking EXCEPT ![u] = b] /\ suit.state # "none"
  BY <1>1, <1>2, <1>3, AfterBirth
<1>6. booking'[u] = b
  BY <1>5 DEF GeneralInv, GeneralTyped
<1>7. Collected(u)' = Collected(u)
  <2>1. \A e \in Entries : HeldBy(e, u)' <=> HeldBy(e, u)
    BY <1>1, <1>4, <1>6 DEF HeldBy
  <2>2. [e \in Entries |-> IF HeldBy(e, u)' THEN booking'[u].new ELSE entry'[e]]
        = [e \in Entries |-> IF HeldBy(e, u) THEN booking[u].new ELSE entry[e]]
    BY <1>1, <1>4, <1>6, <2>1
  <2>3. QED
    BY <2>2 DEF Collected
<1>8. BookingBacked(u, b)'
  <2>1. b.entry \in Entries
    BY <1>1, <1>4, Standing DEF BookingBacked
  <2>2. b.readAt \in Nat
    BY <1>4, Standing
  <2>3. QED
    BY <1>1, <1>2, <1>4, <1>7, <2>1, <2>2 DEF BookingBacked
<1>9. QED
  BY <1>1, <1>4, <1>5, <1>8, BookingMoves

LEMMA FailBookingStep ==
    ASSUME GeneralInv, NEW u \in Users, FailBooking(u) PROVE GeneralInv'
<1>1. /\ booking' = [booking EXCEPT ![u] = NoBooking]
      /\ UNCHANGED <<suit, entry, note, wizard>>
  BY DEF FailBooking
<1>2. BookingBacked(u, NoBooking)'
  BY EmptyRecords DEF BookingBacked
<1>3. QED
  BY <1>1, <1>2, EmptyRecords, BookingMoves

\* A booking that no other change of the case came into writes the status of the entries
\* as it leaves them.
LEMMA FinishBookingStep ==
    ASSUME GeneralInv, NEW u \in Users, FinishBooking(u) PROVE GeneralInv'
<1>1. /\ booking[u].pc = "summed" /\ ~CaseRowLocked /\ UNCHANGED <<note, wizard>>
      /\ suit' = [suit EXCEPT !.version = @ + 1, !.collection = booking[u].status,
                              !.raced = booking[u].readAt # suit.version,
                              !.cleared = FALSE]
      /\ entry' = [entry EXCEPT ![booking[u].entry] = booking[u].new]
      /\ booking' = [booking EXCEPT ![u] = NoBooking]
  BY DEF FinishBooking
<1>2. /\ suit \in SuitType /\ booking[u] \in BookingType
      /\ suit.state # "none" /\ booking[u].entry \in Entries
      /\ booking[u].status \in Collections /\ booking[u].new \in EntryType
      /\ booking[u].readAt = suit.version =>
             booking[u].status = CollectionStatus(suit.expected, Collected(u))
  BY <1>1, Standing, AfterBirth DEF BookingBacked, BookingType
<1>3. PICK raced \in BOOLEAN : raced = (booking[u].readAt # suit.version)
  OBVIOUS
<1>4. suit' = [suit EXCEPT !.version = suit.version + 1, !.collection = booking[u].status,
                           !.raced = raced, !.cleared = FALSE]
  BY <1>1, <1>3
<1>5. /\ suit' \in SuitType /\ suit'.state = suit.state /\ suit'.version = suit.version + 1
      /\ suit'.creator = suit.creator /\ suit'.savedBy = suit.savedBy
      /\ suit'.restricted = suit.restricted /\ suit'.people = suit.people
      /\ suit'.expected = suit.expected /\ suit'.status = suit.status
      /\ suit'.stage = suit.stage /\ suit'.collection = booking[u].status
      /\ suit'.raced = raced /\ ~suit'.cleared
  <2>1. suit.version + 1 \in Nat
    BY <1>2 DEF SuitType
  <2>2. QED
    BY <1>2, <1>4, <2>1 DEF SuitType
<1>6. /\ entry' \in [Entries -> EntryType] /\ note' \subseteq NoteRows
      /\ wizard' \in [Users -> WizardType] /\ booking' \in [Users -> BookingType]
      /\ \A v \in Users : booking'[v] = booking[v] \/ booking'[v].pc = "idle"
  BY <1>1, <1>2, EmptyRecords DEF GeneralInv, GeneralTyped
<1>7. \A v \in Users : wizard'[v] = wizard[v] /\ wizard[v].pc # "locked"
  BY <1>1 DEF CaseRowLocked
<1>8. SaverMayOpen' /\ SuitIsValid'
  BY <1>5 DEF SaverMayOpen, MayOpen, SuitIsValid, GeneralInv
<1>9. StatusIsTheSum'
  <2>1. [e \in Entries |-> IF HeldBy(e, u) THEN booking[u].new ELSE entry[e]] = entry'
    <3>1. \A e \in Entries : HeldBy(e, u) <=> e = booking[u].entry
      BY <1>1 DEF HeldBy
    <3>2. \A e \in Entries :
              entry'[e] = IF e = booking[u].entry THEN booking[u].new ELSE entry[e]
      BY <1>1, <1>2 DEF GeneralInv, GeneralTyped
    <3>3. QED
      BY <1>6, <3>1, <3>2
  <2>2. Collected(u) = CollectedBy(entry)'
    BY <2>1 DEF Collected
  <2>3. QED
    BY <1>2, <1>3, <1>5, <2>2 DEF StatusIsTheSum
<1>10. QED
  BY <1>2, <1>5, <1>6, <1>7, <1>8, <1>9, VersionMoves

-----------------------------------------------------------------------------
(* The case                                                                *)

LEMMA CreateSuitStep ==
    ASSUME GeneralInv, NEW u \in Users, CreateSuit(u) PROVE GeneralInv'
<1> DEFINE Rows0(b) == [e \in Entries |->
               IF b.amounts[e] = 0 THEN NoEntry
               ELSE [live |-> TRUE, amount |-> b.amounts[e], row |-> 1, version |-> 1]]
           Expected0(d) == IF d.expected = Nothing THEN 0 ELSE d.expected
           Suit0(d, expected, rows) == [NoSuit EXCEPT !.state = "live", !.version = 1,
               !.creator = u, !.savedBy = u, !.restricted = d.restricted,
               !.people = d.people, !.expected = expected, !.status = d.status,
               !.stage = d.stage,
               !.collection = CollectionStatus(expected, CollectedBy(rows))]
           Created(d, b) ==
               /\ Valid(d) /\ suit' = Suit0(d, Expected0(d), Rows0(b)) /\ entry' = Rows0(b)
               /\ note' = note \cup {[text |-> n.text, author |-> u, private |-> n.private] :
                                        n \in b.notes}
<1>0. \E d \in Drafts, b \in Beginnings : Created(d, b)
  BY Zenon DEF CreateSuit
<1>1a. PICK d \in Drafts, b \in Beginnings : Created(d, b)
  <2> HIDE DEF Created
  <2>1. QED
    BY <1>0
<1>1. PICK expected, rows :
          /\ rows = Rows0(b) /\ expected = Expected0(d) /\ Valid(d)
          /\ suit' = Suit0(d, expected, rows) /\ entry' = rows
          /\ note' = note \cup {[text |-> n.text, author |-> u, private |-> n.private] :
                                   n \in b.notes}
  <2> HIDE DEF Rows0, Expected0, Suit0
  <2>1. QED
    BY <1>1a
<1>2. suit.state = "none" /\ UNCHANGED <<wizard, booking>>
  BY DEF CreateSuit
<1>3. /\ expected \in Nat /\ d.people \subseteq Users /\ d.restricted \in BOOLEAN
      /\ d.status \in Statuses
  <2>1. d.expected \in Nat \cup {Nothing} /\ d.people \subseteq Users
        /\ d.restricted \in BOOLEAN /\ d.status \in Statuses
    <3>1. d \in Drafts
      BY <1>1
    <3>2. QED
      BY <3>1, GeneralAssumption
  <2>2. expected = IF d.expected = Nothing THEN 0 ELSE d.expected
    BY <1>1
  <2>3. QED
    BY <2>1, <2>2
<1>4. PICK status \in Collections : status = CollectionStatus(expected, CollectedBy(rows))
  BY CollectionTyped
<1>5. /\ suit' \in SuitType /\ suit'.state = "live" /\ suit'.version = 1
      /\ suit'.creator = u /\ suit'.savedBy = u /\ suit'.status = d.status
      /\ suit'.stage = d.stage /\ ~suit'.cleared /\ suit'.expected = expected
      /\ suit'.collection = status
  <2>1. suit' = [NoSuit EXCEPT !.state = "live", !.version = 1, !.creator = u,
                 !.savedBy = u, !.restricted = d.restricted, !.people = d.people,
                 !.expected = expected, !.status = d.status, !.stage = d.stage,
                 !.collection = status]
    BY <1>1, <1>4
  <2>2. QED
    BY <1>3, <2>1, EmptyRecords DEF SuitType, Maybe
<1>6. suit.version = 0 /\ \A v \in Users : wizard[v].pc = "none"
  BY <1>2 DEF GeneralInv, Born
<1>7. SaverMayOpen' /\ SuitIsValid'
  BY <1>1, <1>5 DEF SaverMayOpen, MayOpen, SuitIsValid, Valid
<1>8. StatusIsTheSum'
  BY <1>1, <1>4, <1>5 DEF StatusIsTheSum
<1>9. entry' \in [Entries -> EntryType]
  <2>1. ASSUME NEW e \in Entries PROVE rows[e] \in EntryType
    <3>1. b.amounts[e] \in Nat
      <4>1. b \in Beginnings
        BY <1>1
      <4>2. b.amounts \in [Entries -> Amounts \cup {0}] /\ Amounts \subseteq Nat
        BY <4>1, GeneralAssumption
      <4>3. b.amounts[e] \in Amounts \cup {0}
        BY <4>2, Zenon
      <4>4. \A n \in Amounts \cup {0} : n \in Nat
        BY <4>2
      <4>5. QED
        BY <4>3, <4>4, Zenon
    <3>2. CASE b.amounts[e] = 0
      BY <1>1, <3>2, EmptyRecords
    <3>3. CASE b.amounts[e] # 0
      <4>1. rows[e] = [live |-> TRUE, amount |-> b.amounts[e], row |-> 1, version |-> 1]
        BY <1>1, <3>3
      <4>2. QED
        BY <3>1, <4>1 DEF EntryType
    <3>4. QED
      BY <3>2, <3>3
  <2>2. QED
    BY <1>1, <2>1
<1>10. note' \subseteq NoteRows
  <2>1. \A n \in b.notes : n.text \in NoteTexts /\ n.private \in BOOLEAN
    BY GeneralAssumption
  <2>2. \A n \in b.notes :
            [text |-> n.text, author |-> u, private |-> n.private] \in NoteRows
    BY <2>1 DEF NoteRows
  <2>3. QED
    BY <1>1, <2>2 DEF GeneralInv, GeneralTyped
<1>11. /\ wizard' \in [Users -> WizardType] /\ booking' \in [Users -> BookingType]
       /\ suit'.version = suit.version + 1
  BY <1>2, <1>5, <1>6 DEF GeneralInv, GeneralTyped
<1>12. QED
  BY <1>2, <1>5, <1>6, <1>7, <1>8, <1>9, <1>10, <1>11, VersionMoves

\* A save writes the entries of the form, and the status of what they amount to, unless it
\* comes without finances and so without entries; and who saves keeps access to the case.
LEMMA SaveListsStep ==
    ASSUME GeneralInv, NEW u \in Users, SaveLists(u) PROVE GeneralInv'
<1> DEFINE d == wizard[u].draft
           kept == {r.entry : r \in wizard[u].kept}
           amount(e) == (CHOOSE r \in wizard[u].kept : r.entry = e).amount
           sum == SumFunction([e \in kept |-> amount(e)])
           computed == [suit EXCEPT !.raced = FALSE, !.cleared = FALSE,
                            !.expected = d.expected,
                            !.collection = CollectionStatus(d.expected, sum)]
           uncomputed == [suit EXCEPT !.cleared = TRUE]
<1>1. /\ wizard[u].pc = "locked" /\ UNCHANGED booking
      /\ suit' = [IF d.expected # Nothing THEN computed ELSE uncomputed EXCEPT
             !.version = @ + 1, !.savedBy = u, !.restricted = d.restricted,
             !.people = d.people, !.status = d.status, !.stage = d.stage]
      /\ entry' = [e \in Entries |->
             IF e \in kept THEN [live |-> TRUE, amount |-> amount(e),
                                 row |-> entry[e].row + 1, version |-> 1]
             ELSE [entry[e] EXCEPT !.live = FALSE]]
      /\ note' = {n \in note : ~Replaceable(n, u)}
                   \cup {[n EXCEPT !.author = u] : n \in wizard[u].notes}
      /\ wizard' = [wizard EXCEPT ![u].pc = "saved"]
  BY DEF SaveLists
<1>2. /\ suit \in SuitType /\ wizard[u] \in WizardType
      /\ d \in Drafts /\ Valid(d) /\ RetainsAccess(u, d) /\ suit.state # "none"
      /\ d.expected = Nothing => wizard[u].kept = {}
  BY <1>1, Standing, AfterBirth DEF WizardBacked, Sendable
<1>3. /\ d.expected \in Nat \cup {Nothing} /\ d.people \subseteq Users
      /\ d.restricted \in BOOLEAN /\ d.status \in Statuses
  BY <1>2, GeneralAssumption
<1>4. PICK status \in Collections : status = CollectionStatus(d.expected, sum)
  BY CollectionTyped
<1>5. /\ suit' \in SuitType /\ suit'.state = suit.state /\ suit'.version = suit.version + 1
      /\ suit'.creator = suit.creator /\ suit'.savedBy = u
      /\ suit'.restricted = d.restricted /\ suit'.people = d.people
      /\ suit'.status = d.status /\ suit'.stage = d.stage
      /\ IF d.expected # Nothing
         THEN suit'.expected = d.expected /\ suit'.collection = status /\ ~suit'.cleared
         ELSE suit'.cleared
  <2>1. suit.version + 1 \in Nat
    BY <1>2 DEF SuitType
  <2>2. d.stage \in Stages \cup {x.stage : x \in Drafts} \cup {"CASE_OPENING"}
    BY <1>2
  <2>3. CASE d.expected # Nothing
    <3>1. suit' = [suit EXCEPT !.version = suit.version + 1, !.savedBy = u, !.raced = FALSE,
               !.cleared = FALSE, !.restricted = d.restricted, !.people = d.people,
               !.expected = d.expected, !.status = d.status, !.stage = d.stage,
               !.collection = status]
      BY <1>1, <1>2, <1>4, <2>3 DEF SuitType
    <3>2. QED
      BY <1>2, <1>3, <2>1, <2>2, <2>3, <3>1 DEF SuitType, Maybe
  <2>4. CASE d.expected = Nothing
    <3>1. suit' = [suit EXCEPT !.version = suit.version + 1, !.savedBy = u,
               !.cleared = TRUE, !.restricted = d.restricted, !.people = d.people,
               !.status = d.status, !.stage = d.stage]
      BY <1>1, <1>2, <2>4 DEF SuitType
    <3>2. QED
      BY <1>2, <1>3, <2>1, <2>2, <2>4, <3>1 DEF SuitType, Maybe
  <2>5. QED
    BY <2>3, <2>4
<1>6. \A e \in kept : e \in Entries /\ amount(e) \in Nat
  <2>1. SUFFICES ASSUME NEW e \in kept PROVE e \in Entries /\ amount(e) \in Nat
    OBVIOUS
  <2>2. PICK r : r = CHOOSE x \in wizard[u].kept : x.entry = e
    OBVIOUS
  <2>3. r \in wizard[u].kept /\ r.entry = e
    BY <2>2
  <2>4. r \in Rows
    BY <1>2, <2>3 DEF WizardType
  <2>5. QED
    BY <2>2, <2>3, <2>4 DEF Rows
<1>7. entry' \in [Entries -> EntryType]
  <2>1. ASSUME NEW e \in Entries PROVE entry'[e] \in EntryType
    <3>1. entry[e] \in EntryType /\ entry[e].row + 1 \in Nat
      BY DEF GeneralInv, GeneralTyped, EntryType
    <3>2. CASE e \in kept
      <4>1. entry'[e] = [live |-> TRUE, amount |-> amount(e),
                         row |-> entry[e].row + 1, version |-> 1]
        BY <1>1, <3>2
      <4>2. QED
        BY <1>6, <3>1, <3>2, <4>1 DEF EntryType
    <3>3. CASE e \notin kept
      <4>1. entry'[e] = [entry[e] EXCEPT !.live = FALSE]
        BY <1>1, <3>3
      <4>2. QED
        BY <3>1, <4>1 DEF EntryType
    <3>4. QED
      BY <3>2, <3>3
  <2>2. QED
    BY <1>1, <2>1
<1>8. StatusIsTheSum'
  <2>1. PICK rows : rows = entry'
    OBVIOUS
  <2>2. PICK amounts : amounts = [e \in kept |-> amount(e)]
    OBVIOUS
  <2>3. \A e \in Entries : rows[e].live <=> e \in kept
    <3>1. TAKE e \in Entries
    <3>2. CASE e \in kept
      BY <1>1, <2>1, <3>2
    <3>3. CASE e \notin kept
      <4>1. rows[e] = [entry[e] EXCEPT !.live = FALSE] /\ entry[e] \in EntryType
        BY <1>1, <2>1, <3>3 DEF GeneralInv, GeneralTyped
      <4>2. QED
        BY <3>3, <4>1 DEF EntryType
    <3>4. QED
      BY <3>2, <3>3
  <2>4. \A e \in kept : rows[e].amount = amounts[e]
    <3>1. TAKE e \in kept
    <3>2. rows[e] = [live |-> TRUE, amount |-> amount(e),
                     row |-> entry[e].row + 1, version |-> 1]
      BY <1>1, <1>6, <2>1
    <3>3. QED
      BY <2>2, <3>2
  <2>5. CollectedBy(rows) = SumFunction([e \in kept |-> amounts[e]])
    BY <1>6, <2>3, <2>4, SameCollected
  <2>6. [e \in kept |-> amounts[e]] = [e \in kept |-> amount(e)]
    BY <2>2
  <2>7. CollectedBy(entry)' = sum
    BY <2>1, <2>5, <2>6
  <2>8. d.expected = Nothing => CollectedBy(entry)' = 0
    BY <1>2, <2>1, <2>3, NothingCollected
  <2>9. QED
    BY <1>4, <1>5, <2>7, <2>8 DEF StatusIsTheSum
<1>9. SaverMayOpen' /\ SuitIsValid'
  BY <1>2, <1>5 DEF SaverMayOpen, MayOpen, RetainsAccess, SuitIsValid, Valid
<1>10. note' \subseteq NoteRows
  <2>1. \A n \in wizard[u].notes : [n EXCEPT !.author = u] \in NoteRows
    BY <1>2 DEF WizardType, NoteRows
  <2>2. QED
    BY <1>1, <2>1 DEF GeneralInv, GeneralTyped
<1>11. PICK w : w = [wizard[u] EXCEPT !.pc = "saved"]
  OBVIOUS
<1>12. /\ w \in WizardType /\ w.pc = "saved" /\ w.seenAt = wizard[u].seenAt
       /\ w.draft = wizard[u].draft /\ w.kept = wizard[u].kept
  BY <1>2, <1>11 DEF WizardType
<1>13. /\ wizard' \in [Users -> WizardType] /\ wizard'[u] = w
       /\ \A v \in Users : v # u => wizard'[v] = wizard[v] /\ wizard[v].pc # "locked"
  BY <1>1, <1>11, <1>12 DEF GeneralInv, GeneralTyped, OneLock
<1>14. /\ booking' \in [Users -> BookingType]
       /\ \A v \in Users : booking'[v] = booking[v] \/ booking'[v].pc = "idle"
       /\ \A v \in Users : /\ wizard'[v].seenAt = wizard[v].seenAt
                           /\ wizard'[v].draft = wizard[v].draft
                           /\ wizard'[v].kept = wizard[v].kept
                           /\ wizard'[v].pc # "locked"
                           /\ wizard'[v].pc = "sent" => wizard[v].pc = "sent"
  BY <1>1, <1>12, <1>13 DEF GeneralInv, GeneralTyped
<1>15. suit'.state # "none" /\ suit'.version = suit.version + 1
  BY <1>2, <1>5
<1>16. QED
  BY <1>5, <1>7, <1>8, <1>9, <1>10, <1>13, <1>14, <1>15, VersionMoves

\* A change of the case row alone, while no save has locked it.
LEMMA RowMoves ==
    ASSUME GeneralInv, NEW u \in Users, MaySee(u), ~CaseRowLocked,
           UNCHANGED <<entry, note, wizard, booking>>,
           suit' \in SuitType, suit'.state = suit.state, suit'.version = suit.version + 1,
           suit'.creator = suit.creator, suit'.savedBy = suit.savedBy,
           suit'.restricted = suit.restricted, suit'.people = suit.people,
           SuitIsValid', StatusIsTheSum'
    PROVE  GeneralInv'
<1>1. SaverMayOpen'
  BY DEF GeneralInv, SaverMayOpen, MayOpen
<1>2. /\ entry' \in [Entries -> EntryType] /\ note' \subseteq NoteRows
      /\ wizard' \in [Users -> WizardType] /\ booking' \in [Users -> BookingType]
  BY DEF GeneralInv, GeneralTyped
<1>3. suit'.state # "none"
  BY AfterBirth
<1>4. \A v \in Users : wizard'[v] = wizard[v] /\ wizard[v].pc # "locked"
  BY DEF CaseRowLocked
<1>5. QED
  BY <1>1, <1>2, <1>3, <1>4, VersionMoves

LEMMA UpdateFinanceStep ==
    ASSUME GeneralInv, NEW u \in Users, UpdateFinance(u) PROVE GeneralInv'
<1>1. PICK expected \in {d.expected : d \in Drafts} \ {Nothing} :
          suit' = [suit EXCEPT !.version = @ + 1, !.expected = expected,
              !.raced = FALSE, !.cleared = FALSE,
              !.collection = CollectionStatus(expected, CollectedBy(entry))]
  BY DEF UpdateFinance
<1>2. /\ MaySee(u) /\ ~CaseRowLocked /\ UNCHANGED <<entry, note, wizard, booking>>
  BY DEF UpdateFinance
<1>3. PICK status \in Collections : status = CollectionStatus(expected, CollectedBy(entry))
  BY CollectionTyped
<1>4. suit \in SuitType /\ suit.version + 1 \in Nat /\ expected \in Nat
  BY Standing, GeneralAssumption
<1>5. suit' = [suit EXCEPT !.version = suit.version + 1, !.expected = expected,
                           !.raced = FALSE, !.cleared = FALSE, !.collection = status]
  BY <1>1, <1>3
<1>6. /\ suit' \in SuitType /\ suit'.state = suit.state /\ suit'.version = suit.version + 1
      /\ suit'.creator = suit.creator /\ suit'.savedBy = suit.savedBy
      /\ suit'.restricted = suit.restricted /\ suit'.people = suit.people
      /\ suit'.expected = expected /\ suit'.status = suit.status
      /\ suit'.stage = suit.stage /\ suit'.collection = status /\ ~suit'.cleared
  BY <1>4, <1>5 DEF SuitType
<1>7. SuitIsValid'
  BY <1>6 DEF GeneralInv, SuitIsValid
<1>8. CollectedBy(entry)' = CollectedBy(entry)
  BY <1>2
<1>9. StatusIsTheSum'
  BY <1>3, <1>6, <1>8 DEF StatusIsTheSum
<1>10. QED
  BY <1>2, <1>6, <1>7, <1>9, RowMoves

LEMMA TouchCaseStep ==
    ASSUME GeneralInv, NEW u \in Users, TouchCase(u) PROVE GeneralInv'
<1>1. /\ MaySee(u) /\ ~CaseRowLocked /\ UNCHANGED <<entry, note, wizard, booking>>
  BY DEF TouchCase
<1>2. suit \in SuitType /\ suit.version + 1 \in Nat /\ SuitIsValid
  BY Standing DEF GeneralInv
<1>3. PICK status \in Statuses,
           stage \in Stages \cup {d.stage : d \in Drafts} \cup {"CASE_OPENING"} :
          /\ suit' = [suit EXCEPT !.version = suit.version + 1, !.stage = stage,
                                  !.status = status]
          /\ status = "CLOSED" <=> stage = "CLOSED"
  <2>1. CASE suit' = [suit EXCEPT !.version = @ + 1]
    <3>1. suit' = [suit EXCEPT !.version = suit.version + 1, !.stage = suit.stage,
                               !.status = suit.status]
      BY <1>2, <2>1 DEF SuitType
    <3>2. suit.status \in Statuses
          /\ suit.stage \in Stages \cup {d.stage : d \in Drafts} \cup {"CASE_OPENING"}
      BY <1>2 DEF SuitType
    <3>3. QED
      BY <1>2, <3>1, <3>2 DEF SuitIsValid
  <2>2. CASE \E stage \in Stages :
                 suit' = [suit EXCEPT !.version = @ + 1, !.stage = stage,
                                      !.status = StatusForStage(stage)]
    <3>1. PICK stage \in Stages :
              suit' = [suit EXCEPT !.version = @ + 1, !.stage = stage,
                                   !.status = StatusForStage(stage)]
      BY <2>2
    <3>2. /\ StatusForStage(stage) \in Statuses
          /\ StatusForStage(stage) = "CLOSED" <=> stage = "CLOSED"
      BY DEF StatusForStage, Statuses
    <3>3. QED
      BY <3>1, <3>2
  <2>3. QED
    BY <2>1, <2>2 DEF TouchCase
<1>4. /\ suit' \in SuitType /\ suit'.state = suit.state /\ suit'.version = suit.version + 1
      /\ suit'.creator = suit.creator /\ suit'.savedBy = suit.savedBy
      /\ suit'.restricted = suit.restricted /\ suit'.people = suit.people
      /\ suit'.expected = suit.expected /\ suit'.status = status
      /\ suit'.stage = stage /\ suit'.collection = suit.collection
      /\ suit'.raced = suit.raced /\ suit'.cleared = suit.cleared
  BY <1>2, <1>3 DEF SuitType
<1>5. SuitIsValid'
  BY <1>3, <1>4 DEF SuitIsValid
<1>6. CollectedBy(entry)' = CollectedBy(entry)
  BY <1>1
<1>7. StatusIsTheSum'
  BY <1>4, <1>6 DEF GeneralInv, StatusIsTheSum
<1>8. QED
  BY <1>1, <1>4, <1>5, <1>7, RowMoves

\* Archiving and restoring change nothing that anybody knows of the case.
LEMMA SuitStateMoves ==
    ASSUME GeneralInv, NEW state \in {"live", "archived"}, suit.state # "none",
           suit' = [suit EXCEPT !.state = state], UNCHANGED <<entry, note, wizard, booking>>
    PROVE  GeneralInv'
<1>1. /\ suit' \in SuitType /\ suit'.state = state /\ suit'.version = suit.version
      /\ suit'.creator = suit.creator /\ suit'.savedBy = suit.savedBy
      /\ suit'.restricted = suit.restricted /\ suit'.people = suit.people
      /\ suit'.expected = suit.expected /\ suit'.status = suit.status
      /\ suit'.stage = suit.stage /\ suit'.collection = suit.collection
      /\ suit'.raced = suit.raced /\ suit'.cleared = suit.cleared
  BY DEF GeneralInv, GeneralTyped, SuitType
<1>2. GeneralTyped' /\ Born' /\ SaverMayOpen' /\ SuitIsValid' /\ OneLock'
  BY <1>1 DEF GeneralInv, GeneralTyped, Born, SaverMayOpen, MayOpen, SuitIsValid, OneLock
<1>3. CollectedBy(entry)' = CollectedBy(entry) /\ LiveRows' = LiveRows
  BY DEF LiveRows, LiveRow
<1>4. StatusIsTheSum'
  BY <1>1, <1>3 DEF GeneralInv, StatusIsTheSum
<1>5. \A v \in Users : WizardBacked(v, wizard[v])' /\ BookingBacked(v, booking[v])'
  <2>1. TAKE v \in Users
  <2>2. WizardBacked(v, wizard[v]) /\ BookingBacked(v, booking[v])
    BY Standing
  <2>3. WizardBacked(v, wizard[v])'
    BY <1>1, <1>3, <2>2 DEF WizardBacked, RetainsAccess, Sendable, Valid
  <2>4. Collected(v)' = Collected(v)
    <3>1. \A e \in Entries : HeldBy(e, v)' <=> HeldBy(e, v)
      BY DEF HeldBy
    <3>2. [e \in Entries |-> IF HeldBy(e, v)' THEN booking'[v].new ELSE entry'[e]]
          = [e \in Entries |-> IF HeldBy(e, v) THEN booking[v].new ELSE entry[e]]
      BY <3>1
    <3>3. QED
      BY <3>2 DEF Collected
  <2>5. BookingBacked(v, booking[v])'
    BY <1>1, <2>2, <2>4 DEF BookingBacked
  <2>6. QED
    BY <2>3, <2>5
<1>6. QED
  BY <1>2, <1>4, <1>5 DEF GeneralInv

-----------------------------------------------------------------------------
(* The specification                                                       *)

LEMMA GeneralBegins == GeneralInit => GeneralInv
<1> SUFFICES ASSUME GeneralInit PROVE GeneralInv
  OBVIOUS
<1>1. /\ suit = NoSuit /\ note = {} /\ \A e \in Entries : entry[e] = NoEntry
      /\ \A u \in Users : wizard[u] = NoWizard /\ booking[u] = NoBooking
  BY DEF GeneralInit
<1>2. GeneralTyped
  BY EmptyRecords DEF GeneralInit, GeneralTyped
<1>3. Born /\ SaverMayOpen /\ SuitIsValid /\ OneLock
  BY <1>1, EmptyRecords DEF Born, SaverMayOpen, SuitIsValid, OneLock
<1>4. StatusIsTheSum
  <2>1. CollectedBy(entry) = 0
    BY <1>1, EmptyRecords, NothingCollected
  <2>2. QED
    BY <1>1, <2>1, EmptyRecords, CollectionTyped DEF StatusIsTheSum
<1>5. LiveRows = {}
  BY <1>1, EmptyRecords DEF LiveRows
<1>6. \A u \in Users : WizardBacked(u, wizard[u]) /\ BookingBacked(u, booking[u])
  BY <1>1, <1>5, EmptyRecords DEF WizardBacked, BookingBacked
<1>7. QED
  BY <1>2, <1>3, <1>4, <1>6 DEF GeneralInv

LEMMA GeneralStep == GeneralInv /\ [GeneralNext]_generalVars => GeneralInv'
<1> SUFFICES ASSUME GeneralInv, [GeneralNext]_generalVars PROVE GeneralInv'
  OBVIOUS
<1>1. CASE GeneralOpening
  <2>1. PICK u \in Users :
            \/ OpenWizard(u) \/ AddNote(u) \/ UpdateFinance(u) \/ TouchCase(u)
            \/ \E e \in Entries : CreateEntry(u, e) \/ UpdateEntry(u, e) \/ DeleteEntry(u, e)
    BY <1>1 DEF GeneralOpening
  <2>2. CASE \E e \in Entries : CreateEntry(u, e) \/ UpdateEntry(u, e) \/ DeleteEntry(u, e)
    BY <2>2, EntrySteps
  <2>3. QED
    BY <2>1, <2>2, OpenWizardStep, AddNoteStep, UpdateFinanceStep, TouchCaseStep
<1>2. CASE GeneralWork
  <2>1. PICK u \in Users :
            \/ CreateSuit(u) \/ ReadSuit(u) \/ ReadLists(u)
            \/ \E n \in note : RemoveNote(u, n)
            \/ SubmitWizard(u) \/ SaveRow(u) \/ SaveLists(u) \/ LeaveWizard(u)
            \/ RefreshCollection(u) \/ FinishBooking(u)
            \/ RestoreSuit
    BY <1>2 DEF GeneralWork
  <2>2. CASE RestoreSuit
    BY <2>2, SuitStateMoves DEF RestoreSuit
  <2>3. CASE CreateSuit(u) \/ ReadSuit(u) \/ ReadLists(u) \/ \E n \in note : RemoveNote(u, n)
    BY <2>3, CreateSuitStep, ReadSuitStep, ReadListsStep, RemoveNoteStep
  <2>4. CASE SubmitWizard(u) \/ SaveRow(u) \/ SaveLists(u) \/ LeaveWizard(u)
    BY <2>4, SubmitWizardStep, SaveRowStep, SaveListsStep, LeaveStep
  <2>5. CASE RefreshCollection(u) \/ FinishBooking(u)
    BY <2>5, RefreshStep, FinishBookingStep
  <2>6. QED
    BY <2>1, <2>2, <2>3, <2>4, <2>5
<1>3. CASE GeneralMishap
  <2>1. CASE ArchiveSuit
    BY <2>1, SuitStateMoves DEF ArchiveSuit
  <2>2. CASE \E u \in Users : FailSave(u) \/ LoseSaved(u) \/ FailBooking(u)
    BY <2>2, LeaveStep, FailBookingStep
  <2>3. QED
    BY <1>3, <2>1, <2>2 DEF GeneralMishap
<1>4. CASE UNCHANGED generalVars
  <2>1. UNCHANGED <<suit, entry, note, wizard, booking>>
    BY <1>4 DEF generalVars
  <2>2. CASE suit.state = "none"
    <3>1. \A v \in Users : Collected(v)' = Collected(v)
      <4>1. TAKE v \in Users
      <4>2. \A e \in Entries : HeldBy(e, v)' <=> HeldBy(e, v)
        BY <2>1 DEF HeldBy
      <4>3. [e \in Entries |-> IF HeldBy(e, v)' THEN booking'[v].new ELSE entry'[e]]
            = [e \in Entries |-> IF HeldBy(e, v) THEN booking[v].new ELSE entry[e]]
        BY <2>1, <4>2
      <4>4. QED
        BY <4>3 DEF Collected
    <3>2. CollectedBy(entry)' = CollectedBy(entry) /\ LiveRows' = LiveRows
      BY <2>1 DEF LiveRows, LiveRow
    <3>3. \A v \in Users : WizardBacked(v, wizard[v])' /\ BookingBacked(v, booking[v])'
      BY <2>1, <3>1, <3>2, Standing DEF WizardBacked, BookingBacked, RetainsAccess, Sendable, Valid
    <3>4. StatusIsTheSum'
      BY <2>1, <3>2 DEF GeneralInv, StatusIsTheSum
    <3>5. QED
      BY <2>1, <3>3, <3>4
         DEF GeneralInv, GeneralTyped, Born, SaverMayOpen, MayOpen, SuitIsValid, OneLock
  <2>3. CASE suit.state # "none"
    <3>1. suit.state \in {"live", "archived"} /\ suit' = [suit EXCEPT !.state = suit.state]
      BY <2>1, <2>3 DEF GeneralInv, GeneralTyped, SuitType
    <3>2. QED
      BY <2>1, <2>3, <3>1, SuitStateMoves
  <2>4. QED
    BY <2>2, <2>3
<1>5. QED
  BY <1>1, <1>2, <1>3, <1>4 DEF GeneralNext

LEMMA GeneralInvariance == GeneralSpec => []GeneralInv
BY GeneralBegins, GeneralStep, PTL DEF GeneralSpec

\* The types of a general case, and that it has the closed status in the closed stage only.
THEOREM GeneralTypes == GeneralSpec => []GeneralTypeOK
<1>1. GeneralInv => GeneralTypeOK
  BY DEF GeneralInv, GeneralTyped, SuitIsValid, GeneralTypeOK, SuitType, EntryType,
         WizardType, BookingType, Maybe, Collections
<1>2. QED
  BY <1>1, GeneralInvariance, PTL

\* Who has saved a restricted case can still open it.
THEOREM SaverKeepsAccess == GeneralSpec => []AccessIsKept
<1>1. GeneralInv => AccessIsKept
  BY DEF GeneralInv, SaverMayOpen, MayOpen, MaySee, AccessIsKept
<1>2. QED
  BY <1>1, GeneralInvariance, PTL

\* The collection status is that of the entries and the amount expected, unless another
\* change of the case came into the last booking, or the last save came without finances,
\* after which nothing is collected.
THEOREM CollectionIsRight == GeneralSpec => []StatusIsTheSum
<1>1. GeneralInv => StatusIsTheSum
  BY DEF GeneralInv
<1>2. QED
  BY <1>1, GeneralInvariance, PTL

\* A save deletes no financial entry that its wizard did not show as it is, unless the
\* lists were read before the version (update.ts:62).
THEOREM DeletedEntriesWereShown == GeneralSpec => EntriesReplacedWereShown
<1>1. GeneralInv /\ [GeneralNext]_generalVars =>
          [\A u \in Users : /\ wizard[u].pc = "locked" /\ wizard'[u].pc = "saved"
                            /\ wizard[u].seenAt >= wizard[u].version
                            => LiveRows \subseteq wizard[u].entries]_generalVars
  <2>1. SUFFICES ASSUME GeneralInv, NEW u \in Users, wizard[u].pc = "locked",
                        wizard[u].seenAt >= wizard[u].version
                 PROVE  LiveRows \subseteq wizard[u].entries
    OBVIOUS
  <2>2. /\ wizard[u].version = suit.version /\ wizard[u].seenAt <= suit.version
        /\ wizard[u].seenAt = suit.version => LiveRows \subseteq wizard[u].entries
        /\ wizard[u].seenAt \in Nat /\ suit.version \in Nat
    BY <2>1, Standing DEF WizardBacked, WizardType
  <2>3. QED
    BY <2>1, <2>2
<1>2. QED
  BY <1>1, GeneralInvariance, PTL DEF GeneralSpec, EntriesReplacedWereShown

\* Only two steps take a note away.
LEMMA NoteLeaves ==
    ASSUME GeneralNext, NEW n \in note, n \notin note'
    PROVE  \E u \in Users : RemoveNote(u, n) \/ SaveLists(u)
<1>1. ASSUME GeneralOpening PROVE FALSE
  <2>1. PICK u \in Users :
            \/ OpenWizard(u) \/ AddNote(u) \/ UpdateFinance(u) \/ TouchCase(u)
            \/ \E e \in Entries : CreateEntry(u, e) \/ UpdateEntry(u, e) \/ DeleteEntry(u, e)
    BY <1>1 DEF GeneralOpening
  <2>2. CASE OpenWizard(u)
    BY <2>2 DEF OpenWizard
  <2>3. CASE AddNote(u)
    <3>1. note \subseteq note'
      BY <2>3 DEF AddNote
    <3>2. QED
      BY <3>1
  <2>4. CASE UpdateFinance(u)
    BY <2>4 DEF UpdateFinance
  <2>5. CASE TouchCase(u)
    BY <2>5 DEF TouchCase
  <2>6. CASE \E e \in Entries : CreateEntry(u, e) \/ UpdateEntry(u, e) \/ DeleteEntry(u, e)
    BY <2>6 DEF CreateEntry, UpdateEntry, DeleteEntry, Book
  <2>7. QED
    BY <2>1, <2>2, <2>3, <2>4, <2>5, <2>6
<1>2. ASSUME GeneralWork PROVE \E u \in Users : RemoveNote(u, n) \/ SaveLists(u)
  <2>1. PICK u \in Users :
            \/ CreateSuit(u) \/ ReadSuit(u) \/ ReadLists(u)
            \/ \E m \in note : RemoveNote(u, m)
            \/ SubmitWizard(u) \/ SaveRow(u) \/ SaveLists(u) \/ LeaveWizard(u)
            \/ RefreshCollection(u) \/ FinishBooking(u)
            \/ RestoreSuit
    BY <1>2 DEF GeneralWork
  <2>2. CASE \E m \in note : RemoveNote(u, m)
    <3>1. PICK m \in note : RemoveNote(u, m)
      BY <2>2
    <3>2. note' = note \ {m}
      BY <3>1 DEF RemoveNote
    <3>3. m = n
      BY <3>2
    <3>4. QED
      BY <3>1, <3>3
  <2>3. CASE CreateSuit(u)
    <3>1. note \subseteq note'
      BY <2>3 DEF CreateSuit
    <3>2. QED
      BY <3>1
  <2>4. CASE ReadSuit(u)
    BY <2>4 DEF ReadSuit
  <2>5. CASE ReadLists(u)
    BY <2>5 DEF ReadLists
  <2>6. CASE SubmitWizard(u)
    BY <2>6 DEF SubmitWizard
  <2>7. CASE SaveRow(u)
    BY <2>7 DEF SaveRow
  <2>8. CASE LeaveWizard(u)
    BY <2>8 DEF LeaveWizard
  <2>9. CASE RefreshCollection(u)
    BY <2>9 DEF RefreshCollection
  <2>10. CASE FinishBooking(u)
    BY <2>10 DEF FinishBooking
  <2>11. CASE RestoreSuit
    BY <2>11 DEF RestoreSuit
  <2>12. QED
    BY <2>1, <2>2, <2>3, <2>4, <2>5, <2>6, <2>7, <2>8, <2>9, <2>10, <2>11
<1>3. ASSUME GeneralMishap PROVE FALSE
  BY <1>3 DEF GeneralMishap, FailSave, LoseSaved, FailBooking, ArchiveSuit
<1>4. QED
  BY <1>1, <1>2, <1>3 DEF GeneralNext

\* The private note of a user is deleted and made public by no step of others: whoever
\* takes it away is its author, whose wizard moves in the same step.
THEOREM PrivateNotesStay == GeneralSpec => PrivateNotesAreKept
<1>1. GeneralInv /\ [GeneralNext]_generalVars =>
          [\A n \in note \ note' : n.private => wizard'[n.author] # wizard[n.author]]_generalVars
  <2>1. SUFFICES ASSUME GeneralInv, GeneralNext, NEW n \in note, n \notin note', n.private
                 PROVE  wizard'[n.author] # wizard[n.author]
    OBVIOUS
  <2>2. wizard \in [Users -> WizardType]
    BY <2>1 DEF GeneralInv, GeneralTyped
  <2>3. ASSUME NEW u \in Users, RemoveNote(u, n)
        PROVE  wizard'[n.author] # wizard[n.author]
    <3>1. n.author = u
      BY <2>1, <2>3 DEF RemoveNote, Shown
    <3>2. n \in wizard[u].notes
      BY <2>3 DEF RemoveNote
    <3>3. wizard[u] \in WizardType
      BY <2>2
    <3>4. wizard'[u] = [wizard[u] EXCEPT !.notes = @ \ {n}]
      BY <2>2, <2>3 DEF RemoveNote
    <3>5. wizard'[u].notes = wizard[u].notes \ {n}
      BY <3>3, <3>4 DEF WizardType
    <3>6. QED
      BY <3>1, <3>2, <3>5
  <2>4. ASSUME NEW u \in Users, SaveLists(u)
        PROVE  wizard'[n.author] # wizard[n.author]
    <3>1. {m \in note : ~Replaceable(m, u)} \subseteq note'
      BY <2>4 DEF SaveLists
    <3>2. n.author = u
      BY <3>1, <2>1 DEF Replaceable, Shown
    <3>3. wizard[u].pc = "locked" /\ wizard' = [wizard EXCEPT ![u].pc = "saved"]
      BY <2>4 DEF SaveLists
    <3>4. wizard[u] \in WizardType
      BY <2>2
    <3>5. wizard'[u] = [wizard[u] EXCEPT !.pc = "saved"]
      BY <2>2, <3>3
    <3>6. wizard'[u].pc = "saved"
      BY <3>4, <3>5 DEF WizardType
    <3>7. QED
      BY <3>2, <3>3, <3>6
  <2>5. QED
    BY <2>1, <2>3, <2>4, NoteLeaves
<1>2. QED
  BY <1>1, GeneralInvariance, PTL DEF GeneralSpec, PrivateNotesAreKept
=============================================================================
