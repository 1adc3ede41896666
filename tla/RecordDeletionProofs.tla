------------------------ MODULE RecordDeletionProofs ------------------------
(***************************************************************************)
(* Proofs about RecordDeletion: types, what the purge may delete, files    *)
(* and rows, the last administrator, and the limits of documents.          *)
(***************************************************************************)
EXTENDS RecordDeletion, FiniteSetTheorems, TLAPS

-----------------------------------------------------------------------------
(* Types                                                                   *)

\* A date set by the policy is a date.
LEMMA DueAtNat ==
    ASSUME NEW t \in Nat PROVE DeletionDueAt(t) \in Nat /\ DeletionDueAt(t) > t
  BY RetentionAssumption DEF DeletionDueAt

\* A request past its session's check has an actor and a subject, which TypeOK
\* alone does not say.
RequestNamed ==
    \A q \in AdminRequests :
        qpc[q] # "idle" => actor[q] \in Users /\ subject[q] \in Users

UserTyped == UserTypeOK /\ RequestNamed

LEMMA ForgetTypes ==
    ASSUME UserTyped, NEW q \in AdminRequests, Forget(q),
           UNCHANGED <<role, requested, userDueAt, recalled>>,
           banned' \subseteq Users, sessions' \subseteq Users
    PROVE  UserTyped'
  BY DEF UserTyped, UserTypeOK, RequestNamed, Forget

LEMMA UserTypes ==
    ASSUME UserTyped, clock \in Nat, UserStep PROVE UserTyped'
<1> USE DEF UserTyped, UserTypeOK, RequestNamed, accountVars, requestVars
<1>1. ASSUME NEW u \in Users, SignIn(u) \/ RecallUser(u) PROVE UserTyped'
  BY <1>1 DEF SignIn, RecallUser
<1>2. ASSUME NEW q \in AdminRequests, NEW a \in {"ban", "unban", "delete"},
             NEW u \in Users, NEW s \in Users, Submit(q, a, u, s)
      PROVE  UserTyped'
  BY <1>2 DEF Submit
<1>3. ASSUME NEW q \in AdminRequests, TakeStatusLock(q) PROVE UserTyped'
  BY <1>3 DEF TakeStatusLock
<1>4. ASSUME NEW q \in AdminRequests, CheckStatus(q) PROVE UserTyped'
  <2>1. CASE Forget(q)
    BY <1>4, <2>1, ForgetTypes DEF CheckStatus
  <2>2. CASE ~Forget(q)
    BY <1>4, <2>2 DEF CheckStatus
  <2>3. QED BY <2>1, <2>2
<1>5. ASSUME NEW q \in AdminRequests, CommitStatus(q) PROVE UserTyped'
  <2>1. subject[q] \in Users
    BY <1>5 DEF CommitStatus
  <2>2. banned' \subseteq Users /\ sessions' \subseteq Users
    BY <1>5, <2>1 DEF CommitStatus
  <2>3. QED BY <1>5, <2>2, ForgetTypes DEF CommitStatus
<1>6. ASSUME NEW q \in AdminRequests, CheckDeletion(q) PROVE UserTyped'
  <2>1. CASE Forget(q)
    BY <1>6, <2>1, ForgetTypes DEF CheckDeletion
  <2>2. CASE ~Forget(q)
    BY <1>6, <2>2 DEF CheckDeletion
  <2>3. QED BY <2>1, <2>2
<1>7. ASSUME NEW q \in AdminRequests, CommitDeletion(q) PROVE UserTyped'
  BY <1>7, DueAtNat DEF CommitDeletion, Forget
<1>8. ASSUME RestoreUser PROVE UserTyped'
  BY <1>8 DEF RestoreUser, NoDate
<1>9. QED
  BY <1>1, <1>2, <1>3, <1>4, <1>5, <1>6, <1>7, <1>8 DEF UserStep

\* An upload that has begun has a case.
UploadAimed == \A u \in Uploads : upc[u] # "new" => target[u] \in Cases

CaseTyped == CaseTypeOK /\ UploadAimed

LEMMA UploadTypes ==
    ASSUME CaseTyped, NEW u \in Uploads,
           UploadStep(u) \/ InsertRow(u) \/ CleanUp(u) \/ TimeOut(u) \/ CrashUpload(u)
    PROVE  CaseTyped'
<1> USE CaseAssumption
    DEF CaseTyped, CaseTypeOK, UploadAimed, Goto, EndTransaction,
        caseVars, uploadVars, documentVars
<1>1. ASSUME NEW c \in Cases, NEW n \in Sizes, BeginUpload(u, c, n)
      PROVE  CaseTyped'
  BY <1>1 DEF BeginUpload
<1>2. CASE TakeStorageLock(u)
  BY <1>2 DEF TakeStorageLock
<1>3. CASE CheckUpload(u)
  <2>1. PICK passes \in BOOLEAN :
          /\ UNCHANGED <<target, size, caseVars, documentVars>>
          /\ \/ /\ u \in open /\ passes
                /\ Goto(u, "locked", "checked")
                /\ UNCHANGED <<open, storageLock>>
             \/ /\ u \in open /\ ~passes
                /\ Goto(u, "locked", "failed")
                /\ EndTransaction(u)
    BY <1>3 DEF CheckUpload, Visible, WithinQuota
  <2>2. QED BY <2>1
<1>4. CASE WriteFile(u)
  BY <1>4 DEF WriteFile
<1>5. CASE InsertRow(u)
  BY <1>5 DEF InsertRow
<1>6. CASE NoticeTimeout(u)
  BY <1>6 DEF NoticeTimeout
<1>7. CASE CleanUp(u)
  BY <1>7 DEF CleanUp
<1>8. CASE TimeOut(u)
  BY <1>8 DEF TimeOut
<1>9. CASE CrashUpload(u)
  BY <1>9 DEF CrashUpload
<1>10. CASE DeleteDocument(u)
  BY <1>10 DEF DeleteDocument
<1>11. QED
  BY <1>1, <1>2, <1>3, <1>4, <1>5, <1>6, <1>7, <1>8, <1>9, <1>10 DEF UploadStep

LEMMA CaseTypes ==
    ASSUME CaseTyped, clock \in Nat, CaseStep PROVE CaseTyped'
<1> USE DEF CaseTyped, CaseTypeOK, UploadAimed, uploadVars, documentVars
<1>1. ASSUME NEW c \in Cases, Archive(c) PROVE CaseTyped'
  BY <1>1, DueAtNat DEF Archive
<1>2. ASSUME NEW c \in Cases, RecallCase(c) PROVE CaseTyped'
  BY <1>2 DEF RecallCase
<1>3. CASE RestoreCase
  BY <1>3 DEF RestoreCase, NoDate
<1>4. QED
  BY <1>1, <1>2, <1>3 DEF CaseStep

PurgeTypeOK ==
    /\ ppc \in [Purgers -> {"idle", "listed", "unlinking"}]
    /\ asOf \in [Purgers -> Nat]
    /\ foundCases \in [Purgers -> SUBSET Cases]
    /\ foundUsers \in [Purgers -> SUBSET Users]
    /\ keys \in [Purgers -> SUBSET Uploads]
    /\ overtaken \subseteq Uploads /\ lostActive \subseteq Users

TimeTypeOK == clock \in 0 .. MaxTime /\ events \in 0 .. MaxEvents

\* The lists of a purge were read in the past.
ListsAreOld == \A p \in Purgers : asOf[p] <= clock

\* The inductive strengthening of TypeOK.
Typed ==
    TimeTypeOK /\ UserTyped /\ CaseTyped /\ PurgeTypeOK /\ ListsAreOld

LEMMA TypedIsTypeOK == Typed => TypeOK
  BY DEF Typed, TimeTypeOK, UserTyped, CaseTyped, PurgeTypeOK, TypeOK

\* One query's rows are some of those it asked for.
LEMMA BatchIsPart ==
    ASSUME NEW all, NEW some \in Batches(all) PROVE some \subseteq all
  BY DEF Batches

\* A purge lists cases and users whose date has passed, with every document.
LEMMA Listing ==
    ASSUME NEW p \in Purgers, ListExpired(p)
    PROVE  \E cases \in SUBSET ExpiredCases(clock),
              users \in SUBSET ExpiredUsers(clock) :
              /\ foundCases' = [foundCases EXCEPT ![p] = cases]
              /\ keys' = [keys EXCEPT ![p] = StorageKeys(cases)]
              /\ foundUsers' = [foundUsers EXCEPT ![p] = users]
<1>1. PICK enforcement \in Batches(ExpiredCases(clock) \cap EnforcementCases),
           insurance \in Batches(ExpiredCases(clock) \cap InsuranceCases),
           general \in Batches(ExpiredCases(clock) \cap GeneralCases),
           users \in Batches(ExpiredUsers(clock)) :
          LET cases == enforcement \cup insurance \cup general
          IN  /\ foundCases' = [foundCases EXCEPT ![p] = cases]
              /\ keys' = [keys EXCEPT ![p] = StorageKeys(cases)]
              /\ foundUsers' = [foundUsers EXCEPT ![p] = users]
  BY DEF ListExpired
<1>2. enforcement \cup insurance \cup general \in SUBSET ExpiredCases(clock)
  BY BatchIsPart
<1>3. users \in SUBSET ExpiredUsers(clock)
  BY BatchIsPart
<1>4. QED
  BY <1>1, <1>2, <1>3

LEMMA ListTypes ==
    ASSUME Typed, NEW p \in Purgers, ListExpired(p) PROVE Typed'
<1> USE DEF Typed, timeVars, userVars, accountVars, requestVars, fileVars,
            caseVars, uploadVars, documentVars
<1>1. PICK cases \in SUBSET ExpiredCases(clock), users \in SUBSET ExpiredUsers(clock) :
          /\ foundCases' = [foundCases EXCEPT ![p] = cases]
          /\ keys' = [keys EXCEPT ![p] = StorageKeys(cases)]
          /\ foundUsers' = [foundUsers EXCEPT ![p] = users]
  BY Listing
<1>2. cases \subseteq Cases /\ users \subseteq Users /\ StorageKeys(cases) \subseteq Uploads
  BY DEF ExpiredCases, ExpiredUsers, StorageKeys, Documents,
         UserTyped, UserTypeOK, CaseTyped, CaseTypeOK
<1>3. PurgeTypeOK'
  BY <1>1, <1>2 DEF ListExpired, PurgeTypeOK, TimeTypeOK
<1>4. ListsAreOld'
  BY DEF ListExpired, ListsAreOld, TimeTypeOK, PurgeTypeOK
<1>5. TimeTypeOK' /\ UserTyped' /\ CaseTyped'
  BY DEF ListExpired, TimeTypeOK, UserTyped, UserTypeOK, RequestNamed,
         CaseTyped, CaseTypeOK, UploadAimed
<1>6. QED
  BY <1>3, <1>4, <1>5

LEMMA PurgeTypes ==
    ASSUME Typed, NEW p \in Purgers, PurgeStep(p) \/ CrashPurge(p) PROVE Typed'
<1> USE DEF Typed, timeVars, userVars, accountVars, requestVars, fileVars,
            caseVars, uploadVars, documentVars, TimeTypeOK, UserTyped, UserTypeOK,
            RequestNamed, CaseTyped, CaseTypeOK, UploadAimed, PurgeTypeOK, ListsAreOld
<1>1. CASE PurgeTransaction(p)
  <2>1. StillExpired(p) \subseteq Cases /\ foundUsers[p] \subseteq Users
    BY DEF StillExpired
  <2>2. UserTyped'
    BY <1>1, <2>1 DEF PurgeTransaction, Anonymise, NoDate
  <2>3. CaseTyped'
    BY <1>1, <2>1 DEF PurgeTransaction, DeleteCases, Documents
  <2>4. PurgeTypeOK' /\ ListsAreOld' /\ TimeTypeOK'
    BY <1>1, <2>1 DEF PurgeTransaction
  <2>5. QED
    BY <2>2, <2>3, <2>4
<1>2. ASSUME NEW u \in Uploads, Unlink(p, u) PROVE Typed'
  BY <1>2, RetentionAssumption DEF Unlink, Disturbance
<1>3. CASE EndPurge(p)
  BY <1>3 DEF EndPurge
<1>4. CASE CrashPurge(p)
  BY <1>4, RetentionAssumption DEF CrashPurge, Disturbance
<1>5. QED
  BY <1>1, <1>2, <1>3, <1>4, ListTypes DEF PurgeStep

\* What a step of OfficeStep leaves alone keeps its type.
LEMMA OfficeTypes == ASSUME Typed, OfficeStep PROVE Typed'
<1> USE DEF Typed, TimeTypeOK
<1>1. ASSUME UserStep, UNCHANGED <<timeVars, fileVars, purgeVars, overtaken, lostActive>>
      PROVE  Typed'
  <2>1. UserTyped'
    BY <1>1, UserTypes
  <2>2. CaseTyped'
    BY <1>1 DEF CaseTyped, CaseTypeOK, UploadAimed,
                fileVars, caseVars, uploadVars, documentVars
  <2>3. PurgeTypeOK' /\ ListsAreOld' /\ TimeTypeOK'
    BY <1>1 DEF PurgeTypeOK, ListsAreOld, purgeVars, timeVars
  <2>4. QED
    BY <2>1, <2>2, <2>3
<1>2. ASSUME CaseStep, NoteOvertaken,
             UNCHANGED <<timeVars, userVars, purgeVars, lostActive>>
      PROVE  Typed'
  <2>1. CaseTyped'
    BY <1>2, CaseTypes
  <2>2. UserTyped'
    BY <1>2 DEF UserTyped, UserTypeOK, RequestNamed,
                userVars, accountVars, requestVars
  <2>3. overtaken' \subseteq Uploads
    BY <1>2 DEF NoteOvertaken, PurgeTypeOK, CaseTyped, CaseTypeOK
  <2>4. PurgeTypeOK' /\ ListsAreOld' /\ TimeTypeOK'
    BY <1>2, <2>3 DEF PurgeTypeOK, ListsAreOld, purgeVars, timeVars
  <2>5. QED
    BY <2>1, <2>2, <2>4
<1>3. ASSUME NEW u \in Uploads,
             \/ UploadStep(u) /\ UNCHANGED events
             \/ InsertRow(u) \/ CleanUp(u) \/ TimeOut(u) \/ CrashUpload(u),
             UNCHANGED <<clock, userVars, purgeVars, overtaken, lostActive>>
      PROVE  Typed'
  <2>1. CaseTyped'
    BY <1>3, UploadTypes
  <2>2. UserTyped'
    BY <1>3 DEF UserTyped, UserTypeOK, RequestNamed,
                userVars, accountVars, requestVars
  <2>3. events' \in 0 .. MaxEvents
    BY <1>3, RetentionAssumption
    DEF InsertRow, CleanUp, TimeOut, CrashUpload, Disturbance
  <2>4. PurgeTypeOK' /\ ListsAreOld' /\ TimeTypeOK'
    BY <1>3, <2>3 DEF PurgeTypeOK, ListsAreOld, purgeVars
  <2>5. QED
    BY <2>1, <2>2, <2>4
<1>4. QED
  BY <1>1, <1>2, <1>3 DEF OfficeStep

LEMMA TypedInit == Init => Typed
<1> SUFFICES ASSUME Init PROVE Typed
  OBVIOUS
<1>1. TimeTypeOK /\ PurgeTypeOK /\ ListsAreOld
  BY RetentionAssumption DEF Init, TimeTypeOK, PurgeTypeOK, ListsAreOld
<1>2. UserTyped
  BY DEF Init, UserInit, UserTyped, UserTypeOK, RequestNamed, NoDate
<1>3. CaseTyped
  BY DEF Init, CaseInit, CaseTyped, CaseTypeOK, UploadAimed, NoDate
<1>4. QED
  BY <1>1, <1>2, <1>3 DEF Typed

LEMMA TypedStep == Typed /\ [Next]_vars => Typed'
<1> SUFFICES ASSUME Typed, [Next]_vars PROVE Typed'
  OBVIOUS
<1>1. CASE OfficeStep
  BY <1>1, OfficeTypes
<1>2. ASSUME NEW p \in Purgers, PurgeStep(p) \/ CrashPurge(p) PROVE Typed'
  BY <1>2, PurgeTypes
<1>3. CASE Tick
  BY <1>3, RetentionAssumption
  DEF Tick, Typed, TimeTypeOK, UserTyped, UserTypeOK, RequestNamed, CaseTyped,
      CaseTypeOK, UploadAimed, PurgeTypeOK, ListsAreOld, userVars, accountVars,
      requestVars, fileVars, caseVars, uploadVars, documentVars, purgeVars
<1>4. CASE UNCHANGED vars
  BY <1>4
  DEF vars, timeVars, Typed, TimeTypeOK, UserTyped, UserTypeOK, RequestNamed, CaseTyped,
      CaseTypeOK, UploadAimed, PurgeTypeOK, ListsAreOld, userVars, accountVars,
      requestVars, fileVars, caseVars, uploadVars, documentVars, purgeVars
<1>5. QED
  BY <1>1, <1>2, <1>3, <1>4 DEF Next

LEMMA AlwaysTyped == Spec => []Typed
  BY TypedInit, TypedStep, PTL DEF Spec

\* Every variable keeps its type, for any users, cases, uploads and purges.
THEOREM TypeCorrect == Spec => []TypeOK
  BY AlwaysTyped, TypedIsTypeOK, PTL

-----------------------------------------------------------------------------
(* What the purge may delete                                               *)

\* A case is deleted for good only when its date has passed: the delete asks for
\* the date again, as of a time that is over.
THEOREM DeletedWhenExpired == Spec => OnlyExpiredAreDeleted
<1>1. ASSUME Typed, [Next]_vars, NEW c \in gone' \ gone
      PROVE  Expired(purgeAt[c], clock)
  <2>1. ASSUME OfficeStep PROVE gone' = gone
    BY <2>1 DEF OfficeStep, fileVars, caseVars, CaseStep, Archive, RecallCase,
                RestoreCase, UploadStep, BeginUpload, TakeStorageLock, CheckUpload,
                WriteFile, NoticeTimeout, CleanUp, DeleteDocument, InsertRow, TimeOut,
                CrashUpload
  <2>2. PICK p \in Purgers : PurgeTransaction(p)
    BY <1>1, <2>1 DEF Next, vars, Tick, fileVars, caseVars, PurgeStep, ListExpired,
                      Unlink, EndPurge, CrashPurge
  <2>3. c \in ExpiredCases(asOf[p])
    BY <1>1, <2>2 DEF PurgeTransaction, DeleteCases, StillExpired
  <2>4. asOf[p] \in Nat /\ clock \in Nat /\ asOf[p] <= clock /\ purgeAt[c] \in Nat
    BY <1>1, <2>3 DEF Typed, TimeTypeOK, PurgeTypeOK, ListsAreOld, CaseTyped,
                      CaseTypeOK, ExpiredCases
  <2>5. QED
    BY <2>3, <2>4 DEF ExpiredCases, Expired
<1>2. Typed /\ [Next]_vars => [\A c \in gone' \ gone : Expired(purgeAt[c], clock)]_vars
  BY <1>1
<1>3. QED
  BY <1>2, AlwaysTyped, PTL DEF Spec, OnlyExpiredAreDeleted

-----------------------------------------------------------------------------
(* Files and rows                                                          *)

\* A document with a row, or on a purge's list, is no longer being uploaded.
RowsAreOver ==
    \A u \in Uploads :
        u \in rows \/ (\E p \in Purgers : u \in keys[p]) => upc[u] \in {"failed", "done"}

\* An upload past its check goes to a case whose date has not passed.
UploadsInTime ==
    \A u \in Uploads :
        upc[u] \in {"checked", "written"} /\ target[u] \notin gone
            => ~Expired(purgeAt[target[u]], clock)

\* What a purge is about to delete is on its list of files.
ListsComplete ==
    \A p \in Purgers, u \in rows :
        ppc[p] = "listed" /\ target[u] \in StillExpired(p) => u \in keys[p]

\* A listed document that keeps its row belongs to a case that came back.
ListsOvertaken ==
    \A p \in Purgers, u \in rows :
        u \in keys[p] =>
            /\ ppc[p] = "listed" => u \in overtaken \/ target[u] \in StillExpired(p)
            /\ ppc[p] = "unlinking" => u \in overtaken

WrittenIsThere == \A u \in Uploads : upc[u] = "written" => u \in files

FailedIsDoubted == \A u \in rows : upc[u] = "failed" => u \in doubted

FileInv ==
    /\ RowsAreOver /\ UploadsInTime
    /\ ListsComplete /\ ListsOvertaken
    /\ WrittenIsThere /\ FailedIsDoubted
    /\ RowKeepsFile /\ NoOrphanFile

LEMMA FileInit == Init => FileInv
  BY DEF Init, CaseInit, FileInv, RowsAreOver, UploadsInTime, ListsComplete,
         ListsOvertaken, WrittenIsThere, FailedIsDoubted, RowKeepsFile, NoOrphanFile

\* What has expired at an earlier time has expired.
LEMMA ExpiredStays ==
    ASSUME NEW date \in Nat, NEW s \in Nat, NEW t \in Nat, s <= t, Expired(date, s)
    PROVE  Expired(date, t)
  BY DEF Expired

LEMMA InsertKeepsFiles ==
    ASSUME Typed, FileInv, NEW u \in Uploads, InsertRow(u),
           UNCHANGED <<clock, purgeVars, overtaken>>
    PROVE  FileInv'
<1> USE DEF FileInv, InsertRow, EndTransaction, Goto, caseVars, purgeVars,
            CaseTyped, CaseTypeOK
<1>0. CaseTyped
  BY DEF Typed
<1>1. u \notin rows /\ upc[u] = "written"
  BY <1>0 DEF RowsAreOver
<1>2. u \in files /\ \A p \in Purgers : u \notin keys[p]
  BY <1>0, <1>1 DEF RowsAreOver, WrittenIsThere
<1>3. target[u] \notin gone =>
        \A p \in Purgers : target[u] \notin StillExpired(p)
  <2>1. SUFFICES ASSUME target[u] \notin gone, NEW p \in Purgers,
                        target[u] \in StillExpired(p)
                 PROVE  FALSE
    OBVIOUS
  <2>2. Expired(purgeAt[target[u]], asOf[p]) /\ purgeAt[target[u]] \in Nat
    BY <1>0, <2>1 DEF StillExpired, ExpiredCases
  <2>3. asOf[p] \in Nat /\ clock \in Nat /\ asOf[p] <= clock
    BY DEF Typed, TimeTypeOK, PurgeTypeOK, ListsAreOld
  <2>4. QED
    BY <1>1, <2>1, <2>2, <2>3, ExpiredStays DEF UploadsInTime
<1>4. RowsAreOver'
  BY <1>0, <1>1, <1>2 DEF RowsAreOver
<1>5. UploadsInTime'
  BY <1>0, <1>1 DEF UploadsInTime
<1>6. ListsComplete'
  BY <1>0, <1>3 DEF ListsComplete, StillExpired, ExpiredCases
<1>7. ListsOvertaken'
  BY <1>0, <1>2 DEF ListsOvertaken, StillExpired, ExpiredCases
<1>8. WrittenIsThere' /\ FailedIsDoubted'
  BY <1>0, <1>1 DEF WrittenIsThere, FailedIsDoubted
<1>9. RowKeepsFile'
  BY <1>0, <1>2 DEF RowKeepsFile
<1>10. NoOrphanFile'
  BY <1>0, <1>1 DEF NoOrphanFile
<1>11. QED
  BY <1>4, <1>5, <1>6, <1>7, <1>8, <1>9, <1>10

\* The steps of an upload before its row, and after, change little at a time.
LEMMA UploadKeepsFiles ==
    ASSUME Typed, FileInv, NEW u \in Uploads,
           UploadStep(u) \/ CleanUp(u) \/ TimeOut(u) \/ CrashUpload(u),
           UNCHANGED <<clock, purgeVars, overtaken>>
    PROVE  FileInv'
<1> USE DEF FileInv, EndTransaction, Goto, caseVars, uploadVars, documentVars, purgeVars,
            CaseTyped, CaseTypeOK, RowsAreOver, UploadsInTime, ListsComplete,
            ListsOvertaken, WrittenIsThere, FailedIsDoubted, RowKeepsFile, NoOrphanFile,
            StillExpired, ExpiredCases
<1>0. CaseTyped
  BY DEF Typed
<1>1. ASSUME NEW c \in Cases, NEW n \in Sizes, BeginUpload(u, c, n) PROVE FileInv'
  BY <1>0, <1>1 DEF BeginUpload
<1>2. CASE TakeStorageLock(u)
  BY <1>0, <1>2 DEF TakeStorageLock
<1>3. CASE CheckUpload(u)
  <2>1. /\ UNCHANGED <<target, size, caseVars, documentVars>>
        /\ \/ Goto(u, "locked", "checked") /\ Visible(target[u])
           \/ Goto(u, "locked", "failed")
    BY <1>3 DEF CheckUpload
  <2>2. Visible(target[u]) => ~Expired(purgeAt[target[u]], clock)
    BY DEF Visible, Expired
  <2>3. QED
    BY <1>0, <2>1, <2>2
<1>4. CASE WriteFile(u)
  BY <1>0, <1>4 DEF WriteFile
<1>5. CASE NoticeTimeout(u)
  BY <1>0, <1>5 DEF NoticeTimeout
<1>6. CASE CleanUp(u)
  BY <1>0, <1>6 DEF CleanUp
<1>7. CASE TimeOut(u)
  BY <1>0, <1>7 DEF TimeOut
<1>8. CASE CrashUpload(u)
  BY <1>0, <1>8 DEF CrashUpload
<1>9. CASE DeleteDocument(u)
  BY <1>0, <1>9 DEF DeleteDocument
<1>10. QED
  BY <1>1, <1>2, <1>3, <1>4, <1>5, <1>6, <1>7, <1>8, <1>9 DEF UploadStep

\* Archiving sets a date ahead, restoring takes one back: no list grows by it.
LEMMA CasesKeepFiles ==
    ASSUME Typed, FileInv, CaseStep, NoteOvertaken, UNCHANGED <<timeVars, purgeVars>>
    PROVE  FileInv'
<1> USE DEF FileInv, timeVars, uploadVars, documentVars, purgeVars
<1>0. CaseTyped /\ clock \in Nat /\ \A p \in Purgers : asOf[p] \in Nat /\ asOf[p] <= clock
  BY DEF Typed, TimeTypeOK, PurgeTypeOK, ListsAreOld
<1>1. gone' = gone /\ UNCHANGED <<uploadVars, documentVars>> /\ overtaken \subseteq overtaken'
  BY DEF CaseStep, Archive, RecallCase, RestoreCase, NoteOvertaken
<1>2. \A c \in Cases : \/ purgeAt'[c] = purgeAt[c] \/ purgeAt'[c] = NoDate
                       \/ purgeAt[c] = NoDate /\ purgeAt'[c] > clock
  <2>1. ASSUME NEW d \in Cases, Archive(d), NEW c \in Cases
        PROVE  purgeAt'[c] = purgeAt[c] \/ (purgeAt[c] = NoDate /\ purgeAt'[c] > clock)
    BY <1>0, <2>1, DueAtNat DEF Archive, Visible, CaseTyped, CaseTypeOK
  <2>2. ASSUME RestoreCase, NEW c \in Cases
        PROVE  purgeAt'[c] = purgeAt[c] \/ purgeAt'[c] = NoDate
    BY <1>0, <2>2 DEF RestoreCase, CaseTyped, CaseTypeOK
  <2>3. ASSUME NEW d \in Cases, RecallCase(d) PROVE purgeAt' = purgeAt
    BY <2>3 DEF RecallCase
  <2>4. QED
    BY <2>1, <2>2, <2>3 DEF CaseStep
<1>3. ASSUME NEW c \in Cases, NEW t \in Nat, t <= clock, Expired(purgeAt'[c], t)
      PROVE  Expired(purgeAt[c], t)
  <2>1. purgeAt'[c] \in Nat
    BY <1>0, CaseTypes DEF CaseTyped, CaseTypeOK
  <2>2. purgeAt'[c] # NoDate /\ ~(purgeAt'[c] > clock)
    BY <1>0, <1>3, <2>1 DEF Expired
  <2>3. QED
    BY <1>2, <1>3, <2>2
<1>4. \A p \in Purgers : StillExpired(p)' \subseteq StillExpired(p)
  BY <1>0, <1>1, <1>3 DEF StillExpired, ExpiredCases
<1>5. \A p \in Purgers, u \in rows :
         u \in keys[p] /\ target[u] \in StillExpired(p)
             => u \in overtaken' \/ target[u] \in StillExpired(p)'
  <2>1. SUFFICES ASSUME NEW p \in Purgers, NEW u \in rows, u \in keys[p],
                        target[u] \in StillExpired(p), target[u] \notin StillExpired(p)'
                 PROVE  u \in overtaken'
    OBVIOUS
  <2>2. purgeAt[target[u]] # NoDate /\ purgeAt'[target[u]] = NoDate
    BY <1>0, <1>1, <1>2, <2>1 DEF StillExpired, ExpiredCases, Expired
  <2>3. QED
    BY <2>1, <2>2 DEF NoteOvertaken, Doomed
<1>6. RowsAreOver' /\ WrittenIsThere' /\ FailedIsDoubted' /\ NoOrphanFile'
  BY <1>1 DEF RowsAreOver, WrittenIsThere, FailedIsDoubted, NoOrphanFile
<1>7. UploadsInTime'
  <2>1. \A u \in Uploads : upc[u] \in {"checked", "written"} => target[u] \in Cases
    BY <1>0 DEF CaseTyped, UploadAimed
  <2>2. QED
    BY <1>0, <1>1, <1>3, <2>1 DEF UploadsInTime
<1>8. ListsComplete'
  BY <1>1, <1>4 DEF ListsComplete
<1>9. ListsOvertaken'
  BY <1>1, <1>5 DEF ListsOvertaken
<1>10. RowKeepsFile'
  BY <1>1 DEF RowKeepsFile
<1>11. QED
  BY <1>6, <1>7, <1>8, <1>9, <1>10

LEMMA ListKeepsFiles ==
    ASSUME Typed, FileInv, NEW p \in Purgers, ListExpired(p) PROVE FileInv'
<1> USE DEF FileInv, timeVars, fileVars, caseVars, uploadVars, documentVars
<1>0. CaseTyped /\ PurgeTypeOK
  BY DEF Typed
<1>1. PICK cases \in SUBSET ExpiredCases(clock) :
          /\ foundCases' = [foundCases EXCEPT ![p] = cases]
          /\ keys' = [keys EXCEPT ![p] = StorageKeys(cases)]
  BY Listing
<1>2. /\ ppc' = [ppc EXCEPT ![p] = "listed"] /\ asOf' = [asOf EXCEPT ![p] = clock]
      /\ ppc[p] = "idle"
      /\ UNCHANGED <<clock, purgeAt, gone, upc, target, files, rows, removed,
                     abandoned, doubted, overtaken>>
  BY DEF ListExpired
<1>3. StillExpired(p)' = cases
  BY <1>0, <1>1, <1>2 DEF StillExpired, ExpiredCases, PurgeTypeOK
<1>4. keys'[p] = {u \in rows : target[u] \in cases}
  BY <1>0, <1>1 DEF StorageKeys, Documents, PurgeTypeOK
<1>5. \A q \in Purgers \ {p} :
         keys'[q] = keys[q] /\ ppc'[q] = ppc[q] /\ StillExpired(q)' = StillExpired(q)
  BY <1>0, <1>1, <1>2 DEF StillExpired, ExpiredCases, PurgeTypeOK
<1>6. RowsAreOver'
  <2>1. ASSUME NEW u \in Uploads, u \in rows' \/ \E q \in Purgers : u \in keys'[q]
        PROVE  u \in rows \/ \E q \in Purgers : u \in keys[q]
    BY <1>2, <1>4, <1>5, <2>1
  <2>2. QED
    BY <1>2, <2>1 DEF RowsAreOver
<1>7. UploadsInTime' /\ WrittenIsThere' /\ FailedIsDoubted' /\ RowKeepsFile'
  BY <1>2 DEF UploadsInTime, WrittenIsThere, FailedIsDoubted, RowKeepsFile
<1>8. ListsComplete' /\ ListsOvertaken'
  BY <1>0, <1>2, <1>3, <1>4, <1>5 DEF ListsComplete, ListsOvertaken, PurgeTypeOK
<1>9. NoOrphanFile'
  BY <1>0, <1>2, <1>5 DEF NoOrphanFile, PurgeTypeOK
<1>10. QED
  BY <1>6, <1>7, <1>8, <1>9

\* The transaction: every row that goes is on the list, every listed row that
\* stays belongs to a case that came back.
LEMMA PurgeKeepsFiles ==
    ASSUME Typed, FileInv, NEW p \in Purgers, PurgeTransaction(p) PROVE FileInv'
<1> USE DEF FileInv, timeVars, uploadVars
<1>0. CaseTyped /\ PurgeTypeOK
  BY DEF Typed
<1>1. /\ ppc[p] = "listed" /\ ppc' = [ppc EXCEPT ![p] = "unlinking"]
      /\ gone' = gone \cup StillExpired(p)
      /\ rows' = rows \ Documents(StillExpired(p))
      /\ foundCases' = [foundCases EXCEPT ![p] = {}]
      /\ UNCHANGED <<clock, purgeAt, upc, target, files, abandoned, doubted,
                     asOf, keys, overtaken>>
  BY DEF PurgeTransaction, DeleteCases
<1>2. \A u \in rows : u \in rows' <=> target[u] \notin StillExpired(p)
  BY <1>1 DEF Documents
<1>3. rows' \subseteq rows
  BY <1>1
<1>4. \A q \in Purgers \ {p} :
         ppc'[q] = ppc[q] /\ StillExpired(q)' = StillExpired(q) \ StillExpired(p)
  BY <1>0, <1>1 DEF StillExpired, ExpiredCases, PurgeTypeOK
<1>5. RowsAreOver' /\ UploadsInTime' /\ WrittenIsThere' /\ FailedIsDoubted' /\ RowKeepsFile'
  BY <1>1, <1>3
  DEF RowsAreOver, UploadsInTime, WrittenIsThere, FailedIsDoubted, RowKeepsFile
<1>6. ListsComplete'
  BY <1>0, <1>1, <1>3, <1>4 DEF ListsComplete, PurgeTypeOK
<1>7. ListsOvertaken'
  BY <1>0, <1>1, <1>2, <1>3, <1>4 DEF ListsOvertaken, PurgeTypeOK
<1>8. NoOrphanFile'
  <2>1. SUFFICES ASSUME NEW u \in files, u \notin rows'
                 PROVE  \/ upc[u] \in {"written", "failed"} \/ u \in abandoned
                        \/ \E q \in Purgers : ppc'[q] = "unlinking" /\ u \in keys[q]
    BY <1>1 DEF NoOrphanFile
  <2>2. CASE u \in rows
    BY <1>0, <1>1, <1>2, <2>1, <2>2 DEF ListsComplete, PurgeTypeOK
  <2>3. CASE u \notin rows
    BY <1>0, <1>1, <1>4, <2>3 DEF NoOrphanFile, PurgeTypeOK
  <2>4. QED
    BY <2>2, <2>3
<1>9. QED
  BY <1>5, <1>6, <1>7, <1>8

\* The end of a purge, one file at a time or all at once.
LEMMA UnlinkKeepsFiles ==
    ASSUME Typed, FileInv, NEW p \in Purgers,
           (\E u \in Uploads : Unlink(p, u)) \/ EndPurge(p) \/ CrashPurge(p)
    PROVE  FileInv'
<1> USE DEF FileInv, timeVars, fileVars, caseVars, uploadVars, documentVars,
            RowsAreOver, UploadsInTime, ListsComplete, ListsOvertaken, WrittenIsThere,
            FailedIsDoubted, RowKeepsFile, NoOrphanFile, StillExpired, ExpiredCases,
            CaseTyped, CaseTypeOK, PurgeTypeOK
<1>0. CaseTyped /\ PurgeTypeOK
  BY DEF Typed
<1>1. ASSUME NEW u \in Uploads, Unlink(p, u) PROVE FileInv'
  BY <1>0, <1>1 DEF Unlink
<1>2. CASE EndPurge(p)
  BY <1>0, <1>2 DEF EndPurge
<1>3. CASE CrashPurge(p)
  BY <1>0, <1>3 DEF CrashPurge
<1>4. QED
  BY <1>1, <1>2, <1>3

\* Nothing changes for files and rows.
LEMMA FilesFrame ==
    ASSUME FileInv, UNCHANGED <<clock, fileVars, purgeVars, overtaken>> PROVE FileInv'
  BY DEF fileVars, caseVars, uploadVars, documentVars, purgeVars, FileInv,
         RowsAreOver, UploadsInTime, ListsComplete, ListsOvertaken, WrittenIsThere,
         FailedIsDoubted, RowKeepsFile, NoOrphanFile, StillExpired, ExpiredCases

LEMMA FileStep == Typed /\ FileInv /\ [Next]_vars => FileInv'
<1> SUFFICES ASSUME Typed, FileInv, [Next]_vars PROVE FileInv'
  OBVIOUS
<1>1. CASE OfficeStep
  BY <1>1, FilesFrame, CasesKeepFiles, InsertKeepsFiles, UploadKeepsFiles
  DEF OfficeStep, timeVars, purgeVars
<1>2. ASSUME NEW p \in Purgers, PurgeStep(p) \/ CrashPurge(p) PROVE FileInv'
  BY <1>2, ListKeepsFiles, PurgeKeepsFiles, UnlinkKeepsFiles DEF PurgeStep
<1>3. CASE Tick
  BY <1>3 DEF Tick, fileVars, caseVars, uploadVars, documentVars, purgeVars, FileInv,
      RowsAreOver, UploadsInTime, ListsComplete, ListsOvertaken, WrittenIsThere,
      FailedIsDoubted, RowKeepsFile, NoOrphanFile, StillExpired, ExpiredCases
<1>4. CASE UNCHANGED vars
  BY <1>4, FilesFrame DEF vars, timeVars
<1>5. QED
  BY <1>1, <1>2, <1>3, <1>4 DEF Next

LEMMA AlwaysFiled == Spec => []FileInv
  BY AlwaysTyped, FileInit, FileStep, PTL DEF Spec

\* Every file without a row is accounted for.
THEOREM NoOrphans == Spec => []NoOrphanFile
  BY AlwaysFiled, PTL DEF FileInv

\* Every row has its file, but for the two ways the code can lose one.
THEOREM RowsKeepFiles == Spec => []RowKeepsFile
  BY AlwaysFiled, PTL DEF FileInv

-----------------------------------------------------------------------------
(* The last administrator                                                  *)

\* The status lock is held from the check to the commit.
LockIsHeld ==
    \A q \in AdminRequests :
        qpc[q] \in {"locked", "checked"} /\ action[q] # "delete" => statusLock = q

\* Who is about to deactivate another is an active administrator and stays one,
\* unless the purge takes him.
ActorStays ==
    \A q \in AdminRequests :
        qpc[q] = "checked" /\ action[q] = "ban" =>
            actor[q] # subject[q] /\ (lostActive # {} \/ Active(actor[q]))

AdminInv == LockIsHeld /\ ActorStays /\ ActiveAdminRemains /\ AnonymisedIsOut

LEMMA AdminInit == Init => AdminInv
  BY DEF Init, UserInit, AdminInv, LockIsHeld, ActorStays, ActiveAdminRemains,
         AnonymisedIsOut, Active

LEMMA CommitKeepsAdmin ==
    ASSUME Typed, AdminInv, NEW q \in AdminRequests, CommitStatus(q),
           UNCHANGED lostActive
    PROVE  AdminInv'
<1> USE DEF AdminInv, Active
<1>0. UserTyped
  BY DEF Typed
<1>1. \A r \in AdminRequests \ {q} : qpc[r] \in {"locked", "checked"} => action[r] = "delete"
  BY <1>0, UserAssumption DEF CommitStatus, LockIsHeld, UserTyped, UserTypeOK
<1>2. LockIsHeld' /\ ActorStays'
  BY <1>0, <1>1
  DEF CommitStatus, Forget, LockIsHeld, ActorStays, UserTyped, UserTypeOK
<1>3. ActiveAdminRemains'
  <2>1. CASE action[q] = "ban"
    <3>1. actor[q] \in Users /\ actor[q] # subject[q]
      BY <1>0, <2>1 DEF CommitStatus, UserTyped, RequestNamed, ActorStays
    <3>2. lostActive # {} \/ (role'[actor[q]] = "admin" /\ actor[q] \notin banned')
      BY <2>1, <3>1 DEF CommitStatus, ActorStays
    <3>3. QED
      BY <3>1, <3>2 DEF ActiveAdminRemains, CommitStatus
  <2>2. CASE action[q] # "ban"
    BY <2>2 DEF CommitStatus, ActiveAdminRemains
  <2>3. QED
    BY <2>1, <2>2
<1>4. AnonymisedIsOut'
  BY DEF CommitStatus, AnonymisedIsOut
<1>5. QED
  BY <1>2, <1>3, <1>4

LEMMA UsersKeepAdmin ==
    ASSUME Typed, AdminInv, UserStep, UNCHANGED lostActive PROVE AdminInv'
<1> USE DEF AdminInv, Active, accountVars, requestVars, UserTyped, UserTypeOK,
            LockIsHeld, ActorStays, ActiveAdminRemains, AnonymisedIsOut
<1>0. UserTyped
  BY DEF Typed
<1>1. ASSUME NEW u \in Users, SignIn(u) \/ RecallUser(u) PROVE AdminInv'
  BY <1>0, <1>1 DEF SignIn, RecallUser
<1>2. ASSUME NEW q \in AdminRequests, NEW a \in {"ban", "unban", "delete"},
             NEW u \in Users, NEW s \in Users, Submit(q, a, u, s)
      PROVE  AdminInv'
  BY <1>0, <1>2 DEF Submit
<1>3. ASSUME NEW q \in AdminRequests, TakeStatusLock(q) PROVE AdminInv'
  BY <1>0, <1>3, UserAssumption DEF TakeStatusLock
<1>4. ASSUME NEW q \in AdminRequests, CheckStatus(q) PROVE AdminInv'
  BY <1>0, <1>4 DEF CheckStatus, StatusChangeAllowed, Forget
<1>5. ASSUME NEW q \in AdminRequests, CommitStatus(q) PROVE AdminInv'
  BY <1>5, CommitKeepsAdmin
<1>6. ASSUME NEW q \in AdminRequests, CheckDeletion(q) \/ CommitDeletion(q) PROVE AdminInv'
  BY <1>0, <1>6 DEF CheckDeletion, CommitDeletion, Forget
<1>7. ASSUME RestoreUser PROVE AdminInv'
  BY <1>0, <1>7 DEF RestoreUser
<1>8. QED
  BY <1>1, <1>2, <1>3, <1>4, <1>5, <1>6, <1>7 DEF UserStep

\* A purge that anonymises an active administrator is on record; any other
\* leaves active administrators alone.
LEMMA PurgeKeepsAdmin ==
    ASSUME Typed, AdminInv, NEW p \in Purgers, PurgeTransaction(p) PROVE AdminInv'
<1> USE DEF AdminInv, Active, PurgeTransaction, Anonymise, requestVars, PurgeTypeOK,
            UserTyped, UserTypeOK
<1>0. UserTyped /\ foundUsers[p] \subseteq Users
  BY DEF Typed
<1>1. lostActive' # {} \/ \A u \in Users : Active(u) => Active(u)'
  BY <1>0
<1>2. lostActive \subseteq lostActive'
  OBVIOUS
<1>3. LockIsHeld'
  BY DEF LockIsHeld
<1>4. ActorStays'
  BY <1>0, <1>1, <1>2 DEF ActorStays, RequestNamed
<1>5. ActiveAdminRemains'
  BY <1>1, <1>2 DEF ActiveAdminRemains
<1>6. AnonymisedIsOut'
  BY <1>0 DEF AnonymisedIsOut
<1>7. QED
  BY <1>3, <1>4, <1>5, <1>6

LEMMA AdminFrame == ASSUME AdminInv, UNCHANGED <<userVars, lostActive>> PROVE AdminInv'
  BY DEF AdminInv, LockIsHeld, ActorStays, ActiveAdminRemains, AnonymisedIsOut, Active,
         userVars, accountVars, requestVars

LEMMA AdminStep == Typed /\ AdminInv /\ [Next]_vars => AdminInv'
<1> SUFFICES ASSUME Typed, AdminInv, [Next]_vars PROVE AdminInv'
  OBVIOUS
<1>1. CASE OfficeStep
  BY <1>1, AdminFrame, UsersKeepAdmin DEF OfficeStep
<1>2. ASSUME NEW p \in Purgers, PurgeStep(p) \/ CrashPurge(p) PROVE AdminInv'
  BY <1>2, AdminFrame, PurgeKeepsAdmin
  DEF PurgeStep, ListExpired, Unlink, EndPurge, CrashPurge
<1>3. CASE Tick \/ UNCHANGED vars
  BY <1>3, AdminFrame DEF Tick, vars
<1>4. QED
  BY <1>1, <1>2, <1>3 DEF Next

LEMMA AlwaysAdmin == Spec => []AdminInv
  BY AlwaysTyped, AdminInit, AdminStep, PTL DEF Spec

\* The last active administrator is never deactivated; only the purge can take him.
THEOREM AdminRemains == Spec => []ActiveAdminRemains
  BY AlwaysAdmin, PTL DEF AdminInv

\* Whoever was anonymised has no session.
THEOREM Anonymised == Spec => []AnonymisedIsOut
  BY AlwaysAdmin, PTL DEF AdminInv

-----------------------------------------------------------------------------
(* The limit of documents per case                                         *)

\* An upload whose transaction is open holds the lock from its check on.
StorageLockIsHeld ==
    \A u \in open : upc[u] \in {"locked", "checked", "written"} => storageLock = u

\* It found room, and nobody has taken it since.
RoomIsKept ==
    \A u \in open, c \in Cases :
        upc[u] \in {"checked", "written"} /\ target[u] = c
            => Cardinality(Live(c)) < MaxDocumentsPerCase

LimitInv == StorageLockIsHeld /\ RoomIsKept /\ CaseWithinLimit

LEMMA LimitInit == Init => LimitInv
<1> SUFFICES ASSUME Init PROVE LimitInv
  OBVIOUS
<1>1. \A c \in Cases : Live(c) = {}
  BY DEF Init, CaseInit, Live
<1>2. QED
  BY <1>1, FS_EmptySet, CaseAssumption
  DEF Init, CaseInit, LimitInv, StorageLockIsHeld, RoomIsKept, CaseWithinLimit

\* Fewer documents are fewer to count.
LEMMA FewerLive ==
    ASSUME Typed, NEW c, Live(c)' \subseteq Live(c)
    PROVE  Cardinality(Live(c)') <= Cardinality(Live(c))
<1>1. Live(c) \subseteq Uploads
  BY DEF Live, Typed, CaseTyped, CaseTypeOK
<1>2. IsFiniteSet(Live(c))
  BY <1>1, FS_Subset, CaseAssumption
<1>3. QED
  BY <1>2, FS_Subset

LEMMA LiveCounts ==
    ASSUME Typed, NEW c PROVE IsFiniteSet(Live(c)) /\ Cardinality(Live(c)) \in Nat
<1>1. Live(c) \subseteq Uploads
  BY DEF Live, Typed, CaseTyped, CaseTypeOK
<1>2. QED
  BY <1>1, FS_Subset, FS_CardinalityType, CaseAssumption

\* A step that inserts no row, moves no upload to another case and lets none past
\* its check keeps the limit, whatever it deletes.
LEMMA NoInsertKeepsLimit ==
    ASSUME Typed, Typed', LimitInv, StorageLockIsHeld',
           rows' \subseteq rows,
           \A u \in rows' \cap removed : u \in removed',
           \A u \in rows : target'[u] = target[u],
           open' \subseteq open \/ (\A u \in open' \ open : upc'[u] = "waiting"),
           \A u \in open' :
               upc'[u] \in {"checked", "written"}
                   => /\ target'[u] = target[u] /\ u \in open
                      /\ upc[u] \in {"checked", "written"}
    PROVE  LimitInv'
<1>1. \A c : Live(c)' \subseteq Live(c)
  BY DEF Live
<1>2. \A c : Cardinality(Live(c)') <= Cardinality(Live(c))
  BY <1>1, FewerLive
<1>3. \A c : Cardinality(Live(c)) \in Nat /\ Cardinality(Live(c)') \in Nat
  BY <1>1, LiveCounts, FS_Subset, FS_CardinalityType
<1>4. RoomIsKept'
  BY <1>2, <1>3, CaseAssumption DEF LimitInv, RoomIsKept
<1>5. CaseWithinLimit'
  BY <1>2, <1>3, CaseAssumption DEF LimitInv, CaseWithinLimit
<1>6. QED
  BY <1>4, <1>5 DEF LimitInv

LEMMA CheckKeepsLimit ==
    ASSUME Typed, LimitInv, NEW u \in Uploads, CheckUpload(u) PROVE LimitInv'
<1> USE DEF LimitInv, Goto, EndTransaction, caseVars, documentVars
<1>0. CaseTyped
  BY DEF Typed
<1>1. \A c : Live(c)' = Live(c)
  BY DEF CheckUpload, Live
<1>2. /\ UNCHANGED target /\ upc[u] = "locked"
      /\ \/ /\ upc' = [upc EXCEPT ![u] = "checked"]
            /\ Cardinality(Counted(u)) < MaxDocumentsPerCase
            /\ UNCHANGED <<open, storageLock>>
         \/ upc' = [upc EXCEPT ![u] = "failed"] /\ EndTransaction(u)
  BY DEF CheckUpload, WithinQuota
<1>3. ASSUME Cardinality(Counted(u)) < MaxDocumentsPerCase, NEW c, target[u] = c
      PROVE  Cardinality(Live(c)) < MaxDocumentsPerCase
  <2>1. Counted(u) \subseteq Uploads /\ Live(c) \subseteq Counted(u)
    BY <1>0, <1>3 DEF Counted, Live, CaseTyped, CaseTypeOK
  <2>2. /\ Cardinality(Live(c)) \in Nat /\ Cardinality(Counted(u)) \in Nat
        /\ Cardinality(Live(c)) <= Cardinality(Counted(u))
    BY <2>1, FS_Subset, FS_CardinalityType, CaseAssumption
  <2>3. QED
    BY <1>3, <2>2, CaseAssumption
<1>4. StorageLockIsHeld'
  BY <1>0, <1>2 DEF StorageLockIsHeld, CaseTyped, CaseTypeOK
<1>5. RoomIsKept'
  BY <1>0, <1>1, <1>2, <1>3 DEF RoomIsKept, CaseTyped, CaseTypeOK
<1>6. CaseWithinLimit'
  BY <1>1 DEF CaseWithinLimit
<1>7. QED
  BY <1>4, <1>5, <1>6

\* The one who inserts holds the lock, so nobody else is past the check with an
\* open transaction, and the room found is still there.
LEMMA InsertKeepsLimit ==
    ASSUME Typed, LimitInv, NEW u \in Uploads, InsertRow(u) PROVE LimitInv'
<1> USE DEF LimitInv, InsertRow, Goto, EndTransaction, caseVars
<1>0. CaseTyped
  BY DEF Typed
<1>1. upc[u] = "written" /\ u \in open /\ target[u] \in Cases
  BY <1>0 DEF CaseTyped, UploadAimed
<1>2. \A v \in open' : upc'[v] \notin {"locked", "checked", "written"}
  BY <1>0, <1>1, CaseAssumption DEF StorageLockIsHeld, CaseTyped, CaseTypeOK
<1>3. \A c : c # target[u] => Live(c)' \subseteq Live(c)
  BY DEF Live
<1>4. ASSUME NEW c \in Cases PROVE Cardinality(Live(c)') <= MaxDocumentsPerCase
  <2>1. CASE c = target[u]
    <3>1. Live(c)' \subseteq Live(c) \cup {u}
      BY DEF Live
    <3>2. Cardinality(Live(c)) < MaxDocumentsPerCase
      BY <1>1, <2>1 DEF RoomIsKept
    <3>3. IsFiniteSet(Live(c)) /\ Cardinality(Live(c)) \in Nat
      BY LiveCounts
    <3>4. /\ IsFiniteSet(Live(c) \cup {u})
          /\ Cardinality(Live(c) \cup {u}) <= Cardinality(Live(c)) + 1
      BY ONLY <3>3, FS_AddElement
    <3>5. /\ Cardinality(Live(c) \cup {u}) \in Nat /\ Cardinality(Live(c)') \in Nat
          /\ Cardinality(Live(c)') <= Cardinality(Live(c) \cup {u})
      BY ONLY <3>1, <3>4, FS_Subset, FS_CardinalityType
    <3>6. QED
      BY <3>2, <3>3, <3>4, <3>5, CaseAssumption
  <2>2. CASE c # target[u]
    <3>1. Cardinality(Live(c)') <= Cardinality(Live(c))
      BY <1>3, <2>2, FewerLive
    <3>2. Cardinality(Live(c)) \in Nat /\ Cardinality(Live(c)') \in Nat
      BY <1>3, <2>2, LiveCounts, FS_Subset, FS_CardinalityType
    <3>3. QED
      BY <3>1, <3>2, CaseAssumption DEF CaseWithinLimit
  <2>3. QED
    BY <2>1, <2>2
<1>5. CaseWithinLimit'
  BY <1>4 DEF CaseWithinLimit
<1>6. QED
  BY <1>2, <1>5 DEF StorageLockIsHeld, RoomIsKept

LEMMA UploadKeepsLimit ==
    ASSUME Typed, Typed', FileInv, LimitInv, NEW u \in Uploads,
           UploadStep(u) \/ CleanUp(u) \/ TimeOut(u) \/ CrashUpload(u)
    PROVE  LimitInv'
<1> USE DEF LimitInv, Goto, EndTransaction, caseVars, uploadVars, documentVars,
            StorageLockIsHeld, CaseTyped, CaseTypeOK
<1>0. CaseTyped /\ CaseTyped'
  BY DEF Typed
<1>1. ASSUME NEW c \in Cases, NEW n \in Sizes, BeginUpload(u, c, n) PROVE LimitInv'
  <2>1. u \notin rows
    BY <1>1 DEF FileInv, RowsAreOver, BeginUpload
  <2>2. QED
    BY <1>0, <1>1, <2>1, NoInsertKeepsLimit DEF BeginUpload
<1>2. CASE TakeStorageLock(u)
  BY <1>0, <1>2, NoInsertKeepsLimit, CaseAssumption DEF TakeStorageLock
<1>3. CASE CheckUpload(u)
  BY <1>3, CheckKeepsLimit
<1>4. CASE WriteFile(u)
  BY <1>0, <1>4, NoInsertKeepsLimit DEF WriteFile
<1>5. CASE NoticeTimeout(u)
  BY <1>0, <1>5, NoInsertKeepsLimit DEF NoticeTimeout
<1>6. CASE CleanUp(u)
  BY <1>0, <1>6, NoInsertKeepsLimit DEF CleanUp
<1>7. CASE TimeOut(u)
  BY <1>0, <1>7, NoInsertKeepsLimit DEF TimeOut
<1>8. CASE CrashUpload(u)
  BY <1>0, <1>8, NoInsertKeepsLimit DEF CrashUpload
<1>9. CASE DeleteDocument(u)
  BY <1>0, <1>9, NoInsertKeepsLimit DEF DeleteDocument
<1>10. QED
  BY <1>1, <1>2, <1>3, <1>4, <1>5, <1>6, <1>7, <1>8, <1>9 DEF UploadStep

\* What uploads do not see.
LEMMA LimitFrame ==
    ASSUME LimitInv, UNCHANGED <<uploadVars, rows, removed>> PROVE LimitInv'
  BY DEF LimitInv, StorageLockIsHeld, RoomIsKept, CaseWithinLimit, Live, uploadVars

LEMMA LimitStep == Typed /\ FileInv /\ LimitInv /\ [Next]_vars => LimitInv'
<1> SUFFICES ASSUME Typed, FileInv, LimitInv, [Next]_vars PROVE LimitInv'
  OBVIOUS
<1> USE DEF fileVars, documentVars
<1>0. Typed'
  BY TypedStep
<1>1. CASE OfficeStep
  <2>1. CASE UserStep /\ UNCHANGED fileVars
    BY <2>1, LimitFrame
  <2>2. CASE CaseStep
    BY <2>2, LimitFrame DEF CaseStep, Archive, RecallCase, RestoreCase
  <2>3. ASSUME NEW u \in Uploads,
               UploadStep(u) \/ InsertRow(u) \/ CleanUp(u) \/ TimeOut(u) \/ CrashUpload(u)
        PROVE  LimitInv'
    BY <1>0, <2>3, UploadKeepsLimit, InsertKeepsLimit
  <2>4. QED
    BY <1>1, <2>1, <2>2, <2>3 DEF OfficeStep
<1>2. ASSUME NEW p \in Purgers, PurgeTransaction(p) PROVE LimitInv'
  <2>1. /\ UNCHANGED uploadVars
        /\ rows' = rows \ Documents(StillExpired(p))
        /\ removed' = removed \ Documents(StillExpired(p))
    BY <1>2 DEF PurgeTransaction, DeleteCases
  <2>2. QED
    BY <1>0, <2>1, NoInsertKeepsLimit DEF LimitInv, StorageLockIsHeld, uploadVars
<1>3. ASSUME NEW p \in Purgers, PurgeStep(p) \/ CrashPurge(p), ~PurgeTransaction(p)
      PROVE  LimitInv'
  BY <1>3, LimitFrame DEF PurgeStep, ListExpired, Unlink, EndPurge, CrashPurge
<1>4. CASE Tick \/ UNCHANGED vars
  BY <1>4, LimitFrame DEF Tick, vars
<1>5. QED
  BY <1>1, <1>2, <1>3, <1>4 DEF Next

LEMMA AlwaysLimited == Spec => []LimitInv
  BY AlwaysTyped, AlwaysFiled, LimitInit, LimitStep, PTL DEF Spec

\* No case holds more documents than it may, whatever uploads run at once, time
\* out or die.
THEOREM WithinLimit == Spec => []CaseWithinLimit
<1>1. LimitInv => CaseWithinLimit
  BY DEF LimitInv
<1>2. QED
  BY <1>1, AlwaysLimited, PTL

-----------------------------------------------------------------------------
(* The quota of the directory                                              *)

\* BytesOf and Bytes for given sizes, so that two states can be compared.
Parts(documents, sizes) == {{u} \X (1 .. sizes[u]) : u \in documents}
Volume(documents, sizes) == Cardinality(UNION Parts(documents, sizes))

LEMMA PartsFinite ==
    ASSUME NEW sizes \in [Uploads -> Nat], NEW documents \in SUBSET Uploads
    PROVE  IsFiniteSet(UNION Parts(documents, sizes))
<1> DEFINE Of(u) == {u} \X (1 .. sizes[u])
<1>1. ASSUME NEW u \in documents PROVE IsFiniteSet(Of(u))
  <2>1. sizes[u] \in Int
    BY <1>1
  <2>2. IsFiniteSet({u})
    BY FS_Singleton, Zenon
  <2>3. IsFiniteSet(1 .. sizes[u])
    BY ONLY <2>1, FS_Interval
  <2>4. QED
    BY <2>2, <2>3, FS_Product
<1>2. IsFiniteSet(documents)
  BY CaseAssumption, FS_Subset
<1>3. PICK f : f = [u \in documents |-> Of(u)]
  OBVIOUS
<1>4. IsFiniteSet(Parts(documents, sizes))
  <2>1. f \in Surjection(documents, Parts(documents, sizes))
    BY <1>3 DEF Surjection, Parts
  <2>2. QED
    BY ONLY <1>2, <2>1, FS_Surjection
<1>5. \A T \in Parts(documents, sizes) : IsFiniteSet(T)
  BY <1>1 DEF Parts
<1>6. QED
  BY ONLY <1>4, <1>5, FS_UNION

\* Fewer documents, each as large as before, have no more bytes.
LEMMA FewerBytes ==
    ASSUME NEW sizes \in [Uploads -> Nat], NEW documents \in SUBSET Uploads,
           NEW after \in [Uploads -> Nat], NEW others \in SUBSET documents,
           \A u \in others : after[u] = sizes[u]
    PROVE  /\ Volume(documents, sizes) \in Nat /\ Volume(others, after) \in Nat
           /\ Volume(others, after) <= Volume(documents, sizes)
<1>1. UNION Parts(others, after) \subseteq UNION Parts(documents, sizes)
  BY DEF Parts
<1>2. IsFiniteSet(UNION Parts(documents, sizes))
  BY PartsFinite
<1>3. QED
  BY ONLY <1>1, <1>2, FS_Subset, FS_CardinalityType DEF Volume

\* One document more adds no more than its own bytes.
LEMMA OneMoreDocument ==
    ASSUME NEW sizes \in [Uploads -> Nat], NEW documents \in SUBSET Uploads,
           NEW u \in Uploads
    PROVE  /\ Volume(documents, sizes) \in Nat
           /\ Volume(documents \cup {u}, sizes) \in Nat
           /\ Volume(documents \cup {u}, sizes) <= Volume(documents, sizes) + sizes[u]
<1> DEFINE Old == UNION Parts(documents, sizes)
           New == {u} \X (1 .. sizes[u])
<1>1. UNION Parts(documents \cup {u}, sizes) = Old \cup New
  BY DEF Parts
<1>2. IsFiniteSet(Old) /\ Cardinality(Old) \in Nat
  BY PartsFinite, FS_CardinalityType
<1>3. sizes[u] \in Nat
  OBVIOUS
<1>4. IsFiniteSet({u}) /\ Cardinality({u}) = 1
  BY FS_Singleton, Zenon
<1>5. IsFiniteSet(1 .. sizes[u]) /\ Cardinality(1 .. sizes[u]) = sizes[u]
  BY ONLY <1>3, FS_Interval
<1>6. IsFiniteSet(New) /\ Cardinality(New) = Cardinality({u}) * Cardinality(1 .. sizes[u])
  BY ONLY <1>4, <1>5, FS_Product
<1>7. Cardinality(New) = sizes[u]
  BY ONLY <1>3, <1>4, <1>5, <1>6
<1> HIDE DEF Old, New
<1>8. IsFiniteSet(Old \cap New) /\ Cardinality(Old \cap New) \in Nat
  BY ONLY <1>2, FS_Subset, FS_CardinalityType
<1>9. Cardinality(Old \cup New) = Cardinality(Old) + Cardinality(New) - Cardinality(Old \cap New)
  BY ONLY <1>2, <1>6, FS_Union
<1>10. IsFiniteSet(Old \cup New)
  BY ONLY <1>2, <1>6, FS_Union
<1>11. Cardinality(Old \cup New) \in Nat
  BY ONLY <1>10, FS_CardinalityType
<1>12. Cardinality(Old \cup New) <= Cardinality(Old) + sizes[u]
  BY ONLY <1>2, <1>3, <1>7, <1>8, <1>9
<1>13. Volume(documents, sizes) = Cardinality(Old)
  BY DEF Volume, Old
<1>14. Volume(documents \cup {u}, sizes) = Cardinality(Old \cup New)
  BY <1>1 DEF Volume
<1>15. QED
  BY ONLY <1>2, <1>11, <1>12, <1>13, <1>14

\* The larger of two numbers is one of them and no smaller than either.
LEMMA LargerOfTwo ==
    ASSUME NEW a \in Nat, NEW b \in Nat
    PROVE  Max({a, b}) \in Nat /\ Max({a, b}) >= a /\ Max({a, b}) >= b
<1>1. PICK m \in {a, b} : \A x \in {a, b} : m >= x
  <2>1. CASE a >= b
    BY <2>1
  <2>2. CASE b >= a
    BY <2>2
  <2>3. QED
    BY <2>1, <2>2
<1>2. Max({a, b}) \in {a, b} /\ \A x \in {a, b} : Max({a, b}) >= x
  BY <1>1 DEF Max
<1>3. QED
  BY <1>2

\* Who is past the check left room for its file beside all that has been committed.
BytesAreLeft ==
    \A u \in open :
        upc[u] \in {"checked", "written"}
            => Bytes(files \cap rows) + size[u] <= MaxStorageBytes

QuotaInv == BytesAreLeft /\ CommittedWithinQuota

LEMMA BytesIsVolume ==
    ASSUME NEW documents PROVE Bytes(documents) = Volume(documents, size)
  BY DEF Bytes, BytesOf, Volume, Parts

LEMMA QuotaInit == Init => QuotaInv
<1> SUFFICES ASSUME Init PROVE QuotaInv
  OBVIOUS
<1>1. files \cap rows = {} /\ open = {}
  BY DEF Init, CaseInit
<1>2. BytesOf({}) = {}
  BY DEF BytesOf
<1>3. Bytes(files \cap rows) = 0
  BY <1>1, <1>2, FS_EmptySet DEF Bytes
<1>4. QED
  BY <1>1, <1>3, CaseAssumption DEF QuotaInv, BytesAreLeft, CommittedWithinQuota

\* A step after which no more files have a row, and which lets no upload past its
\* check, keeps the quota.
LEMMA NothingCommitted ==
    ASSUME Typed, Typed', QuotaInv,
           files' \cap rows' \subseteq files \cap rows,
           \A u \in files \cap rows : size'[u] = size[u],
           \A u \in open' :
               upc'[u] \in {"checked", "written"}
                   => u \in open /\ upc[u] \in {"checked", "written"} /\ size'[u] = size[u]
    PROVE  QuotaInv'
<1> DEFINE Before == Bytes(files \cap rows)
           After == Bytes(files \cap rows)'
<1>1. /\ size \in [Uploads -> Nat] /\ size' \in [Uploads -> Nat]
      /\ files \cap rows \subseteq Uploads /\ open' \subseteq Uploads
  BY DEF Typed, CaseTyped, CaseTypeOK
<1>2. Before = Volume(files \cap rows, size) /\ After = Volume(files' \cap rows', size')
  BY DEF Bytes, BytesOf, Volume, Parts
<1>3. Before \in Nat /\ After \in Nat /\ After <= Before
  BY <1>1, <1>2, FewerBytes
<1>4. After <= MaxStorageBytes
  BY <1>3, CaseAssumption DEF QuotaInv, CommittedWithinQuota
<1>5. ASSUME NEW u \in open', upc'[u] \in {"checked", "written"}
      PROVE  After + size'[u] <= MaxStorageBytes
  <2>1. Before + size[u] <= MaxStorageBytes /\ size'[u] = size[u]
    BY <1>5 DEF QuotaInv, BytesAreLeft
  <2>2. size[u] \in Nat
    BY <1>1, <1>5
  <2>3. QED
    BY <1>3, <2>1, <2>2, CaseAssumption
<1>6. QED
  BY <1>4, <1>5 DEF QuotaInv, BytesAreLeft, CommittedWithinQuota

LEMMA CheckKeepsQuota ==
    ASSUME Typed, QuotaInv, NEW u \in Uploads, CheckUpload(u) PROVE QuotaInv'
<1> DEFINE own == {v \in rows : target[v] \in CHOOSE k \in Kinds : target[u] \in k}
<1>1. /\ size \in [Uploads -> Nat] /\ files \subseteq Uploads /\ own \subseteq Uploads
      /\ upc \in [Uploads -> {"new", "waiting", "locked", "checked", "written",
                              "failed", "done"}]
      /\ open \subseteq Uploads
  BY DEF Typed, CaseTyped, CaseTypeOK
<1>2. /\ UNCHANGED <<size, files, rows>>
      /\ \/ /\ upc' = [upc EXCEPT ![u] = "checked"]
            /\ Max({Bytes(own), Bytes(files)}) + size[u] <= MaxStorageBytes
            /\ UNCHANGED open
         \/ upc' = [upc EXCEPT ![u] = "failed"] /\ open' = open \ {u}
  BY DEF CheckUpload, WithinQuota, Goto, EndTransaction, documentVars
<1>3. Bytes(files \cap rows)' = Bytes(files \cap rows)
  BY <1>2 DEF Bytes, BytesOf
<1>4. ASSUME Max({Bytes(own), Bytes(files)}) + size[u] <= MaxStorageBytes
      PROVE  Bytes(files \cap rows) + size[u] <= MaxStorageBytes
  <2> HIDE DEF own
  <2>1. Bytes(own) \in Nat /\ Bytes(files) \in Nat
    BY <1>1, FewerBytes, BytesIsVolume
  <2>2. Max({Bytes(own), Bytes(files)}) \in Nat /\ Max({Bytes(own), Bytes(files)}) >= Bytes(files)
    BY <2>1, LargerOfTwo
  <2>3. Bytes(files \cap rows) \in Nat /\ Bytes(files \cap rows) <= Bytes(files)
    <3>1. files \cap rows \in SUBSET files
      OBVIOUS
    <3>2. QED
      BY <1>1, <3>1, FewerBytes, BytesIsVolume
  <2>4. size[u] \in Nat
    BY <1>1
  <2>5. QED
    BY ONLY <1>4, <2>1, <2>2, <2>3, <2>4, CaseAssumption
<1>5. CommittedWithinQuota'
  BY <1>3 DEF QuotaInv, CommittedWithinQuota
<1>6. BytesAreLeft'
  BY <1>1, <1>2, <1>3, <1>4 DEF QuotaInv, BytesAreLeft
<1>7. QED
  BY <1>5, <1>6 DEF QuotaInv

\* The one who inserts holds the lock, so nobody else is past the check with an
\* open transaction, and the bytes found free still are.
LEMMA InsertKeepsQuota ==
    ASSUME Typed, StorageLockIsHeld, QuotaInv, NEW u \in Uploads, InsertRow(u)
    PROVE  QuotaInv'
<1>1. /\ size \in [Uploads -> Nat] /\ files \cap rows \subseteq Uploads
      /\ upc \in [Uploads -> {"new", "waiting", "locked", "checked", "written",
                              "failed", "done"}]
      /\ open \subseteq Uploads /\ u \in Uploads
  BY DEF Typed, CaseTyped, CaseTypeOK
<1>2. /\ upc[u] = "written" /\ u \in open /\ UNCHANGED <<size, files>>
      /\ rows' \subseteq rows \cup {u} /\ open' = open \ {u}
      /\ \A v \in Uploads \ {u} : upc'[v] = upc[v]
  BY <1>1 DEF InsertRow, Goto, EndTransaction
<1>3. \A v \in open' : upc'[v] \notin {"checked", "written"}
  BY <1>1, <1>2, CaseAssumption DEF StorageLockIsHeld
<1>4. Bytes(files \cap rows) + size[u] <= MaxStorageBytes
  BY <1>2 DEF QuotaInv, BytesAreLeft
<1>5. files' \cap rows' \subseteq (files \cap rows) \cup {u}
  BY <1>2
<1>6. Bytes(files \cap rows)' = Volume(files' \cap rows', size)
  BY <1>2 DEF Bytes, BytesOf, Volume, Parts
<1>7. /\ Volume(files' \cap rows', size) \in Nat
      /\ Volume((files \cap rows) \cup {u}, size) \in Nat
      /\ Volume(files' \cap rows', size) <= Volume((files \cap rows) \cup {u}, size)
  BY <1>1, <1>5, FewerBytes
<1>8. /\ Volume(files \cap rows, size) \in Nat
      /\ Volume((files \cap rows) \cup {u}, size)
            <= Volume(files \cap rows, size) + size[u]
  BY <1>1, OneMoreDocument
<1>9. Bytes(files \cap rows) = Volume(files \cap rows, size)
  BY BytesIsVolume
<1>10. size[u] \in Nat
  BY <1>1
<1>11. Bytes(files \cap rows)' <= MaxStorageBytes
  BY ONLY <1>4, <1>6, <1>7, <1>8, <1>9, <1>10, CaseAssumption
<1>12. QED
  BY <1>3, <1>11 DEF QuotaInv, BytesAreLeft, CommittedWithinQuota

LEMMA UploadKeepsQuota ==
    ASSUME Typed, Typed', FileInv, QuotaInv, NEW u \in Uploads,
           UploadStep(u) \/ CleanUp(u) \/ TimeOut(u) \/ CrashUpload(u)
    PROVE  QuotaInv'
<1> USE DEF Goto, EndTransaction, caseVars, uploadVars, documentVars,
            CaseTyped, CaseTypeOK
<1>0. CaseTyped /\ CaseTyped'
  BY DEF Typed
<1>1. ASSUME NEW c \in Cases, NEW n \in Sizes, BeginUpload(u, c, n) PROVE QuotaInv'
  <2>1. u \notin rows
    BY <1>1 DEF FileInv, RowsAreOver, BeginUpload
  <2>2. QED
    BY <1>0, <1>1, <2>1, NothingCommitted DEF BeginUpload
<1>2. CASE TakeStorageLock(u)
  BY <1>0, <1>2, NothingCommitted DEF TakeStorageLock
<1>3. CASE CheckUpload(u)
  BY <1>3, CheckKeepsQuota
<1>4. CASE WriteFile(u)
  <2>1. u \notin rows
    BY <1>4 DEF FileInv, RowsAreOver, WriteFile
  <2>2. QED
    BY <1>0, <1>4, <2>1, NothingCommitted DEF WriteFile
<1>5. CASE NoticeTimeout(u)
  BY <1>0, <1>5, NothingCommitted DEF NoticeTimeout
<1>6. CASE CleanUp(u)
  BY <1>0, <1>6, NothingCommitted DEF CleanUp
<1>7. CASE TimeOut(u)
  BY <1>0, <1>7, NothingCommitted DEF TimeOut
<1>8. CASE CrashUpload(u)
  BY <1>0, <1>8, NothingCommitted DEF CrashUpload
<1>9. CASE DeleteDocument(u)
  BY <1>0, <1>9, NothingCommitted DEF DeleteDocument
<1>10. QED
  BY <1>1, <1>2, <1>3, <1>4, <1>5, <1>6, <1>7, <1>8, <1>9 DEF UploadStep

LEMMA QuotaStep == Typed /\ FileInv /\ LimitInv /\ QuotaInv /\ [Next]_vars => QuotaInv'
<1> SUFFICES ASSUME Typed, FileInv, LimitInv, QuotaInv, [Next]_vars PROVE QuotaInv'
  OBVIOUS
<1> USE DEF fileVars, documentVars
<1>0. Typed'
  BY TypedStep
<1>1. CASE OfficeStep
  <2>1. CASE UserStep /\ UNCHANGED fileVars
    BY <1>0, <2>1, NothingCommitted DEF uploadVars
  <2>2. CASE CaseStep
    BY <1>0, <2>2, NothingCommitted
    DEF CaseStep, Archive, RecallCase, RestoreCase, uploadVars
  <2>3. ASSUME NEW u \in Uploads,
               UploadStep(u) \/ InsertRow(u) \/ CleanUp(u) \/ TimeOut(u) \/ CrashUpload(u)
        PROVE  QuotaInv'
    BY <1>0, <2>3, UploadKeepsQuota, InsertKeepsQuota DEF LimitInv
  <2>4. QED
    BY <1>1, <2>1, <2>2, <2>3 DEF OfficeStep
<1>2. ASSUME NEW p \in Purgers, PurgeTransaction(p) PROVE QuotaInv'
  <2>1. UNCHANGED <<uploadVars, files>> /\ rows' \subseteq rows
    BY <1>2 DEF PurgeTransaction, DeleteCases
  <2>2. QED
    BY <1>0, <2>1, NothingCommitted DEF uploadVars
<1>3. ASSUME NEW p \in Purgers, PurgeStep(p) \/ CrashPurge(p), ~PurgeTransaction(p)
      PROVE  QuotaInv'
  <2>1. UNCHANGED <<uploadVars, rows>> /\ files' \subseteq files
    BY <1>3 DEF PurgeStep, ListExpired, Unlink, EndPurge, CrashPurge
  <2>2. QED
    BY <1>0, <2>1, NothingCommitted DEF uploadVars
<1>4. CASE Tick \/ UNCHANGED vars
  BY <1>0, <1>4, NothingCommitted DEF Tick, vars, uploadVars
<1>5. QED
  BY <1>1, <1>2, <1>3, <1>4 DEF Next

\* The documents that have a row and a file never exceed the quota of the directory,
\* for any number and any sizes of uploads to cases of any kind, also when the
\* database gives a transaction up while its process goes on.
THEOREM QuotaHolds == Spec => []CommittedWithinQuota
<1>1. QuotaInv => CommittedWithinQuota
  BY DEF QuotaInv
<1>2. QED
  BY <1>1, AlwaysTyped, AlwaysFiled, AlwaysLimited, QuotaInit, QuotaStep, PTL DEF Spec
=============================================================================
