--------------------------- MODULE CaseDocuments ----------------------------
(***************************************************************************)
(* Documents of the three kinds of case: rows in the database and files in *)
(* one directory (apps/web/src/lib/document-storage.ts and its siblings in *)
(* insurance-arbitration/ and general-legal-cases/), next to the archiving *)
(* of cases (recoverable-deletion.ts) and the operator's script that takes *)
(* it back (scripts/restore-deleted-record.ts).                            *)
(*                                                                         *)
(* An upload is a process.  Its transaction holds one advisory lock for    *)
(* all three kinds; between its check of the quota and its row it touches  *)
(* the file system only, so a transaction the database has given up is     *)
(* noticed late.                                                           *)
(***************************************************************************)
EXTENDS Retention, FiniteSetsExt

CONSTANTS
    EnforcementCases, InsuranceCases, GeneralCases,
    Uploads,           \* requests to store, each with the document it stores
    Sizes,             \* sizes of uploads
    MaxStorageBytes, MaxDocumentsPerCase,
    None

Kinds == {EnforcementCases, InsuranceCases, GeneralCases}
Cases == UNION Kinds

ASSUME CaseAssumption ==
    /\ None \notin Cases \cup Uploads
    /\ IsFiniteSet(Uploads)
    /\ Sizes \subseteq Nat
    /\ MaxStorageBytes \in Nat /\ MaxDocumentsPerCase \in Nat

VARIABLES
    purgeAt,           \* purgeAfter, set and cleared with archivedAt
    gone,              \* cases whose row was deleted for good
    upc, target, size,
    open,              \* uploads whose transaction the database still holds
    storageLock,       \* holder of DOCUMENT_STORAGE_LOCK_ID
    files,             \* documents whose file is on disk
    rows, removed,     \* documents with a row, and with deletedAt set
    recalledCase,      \* case the restore script has found, or None
    abandoned,         \* history: files without a row left by a process that
                       \* died, or that could not unlink them
    doubted            \* history: rows whose commit was taken for a failure

caseVars == <<purgeAt, gone, recalledCase>>
uploadVars == <<upc, target, size, open, storageLock>>
documentVars == <<files, rows, removed, abandoned, doubted>>
fileVars == <<caseVars, uploadVars, documentVars>>

CaseInit ==
    /\ purgeAt = [c \in Cases |-> NoDate]
    /\ gone = {} /\ recalledCase = None
    /\ upc = [u \in Uploads |-> "new"]
    /\ target = [u \in Uploads |-> None]
    /\ size = [u \in Uploads |-> 0]
    /\ open = {} /\ storageLock = None
    /\ files = {} /\ rows = {} /\ removed = {}
    /\ abandoned = {} /\ doubted = {}

CaseTypeOK ==
    /\ purgeAt \in [Cases -> Nat]
    /\ gone \subseteq Cases
    /\ recalledCase \in Cases \cup {None}
    /\ upc \in [Uploads -> {"new", "waiting", "locked", "checked", "written",
                            "failed", "done"}]
    /\ target \in [Uploads -> Cases \cup {None}]
    /\ size \in [Uploads -> Nat]
    /\ open \subseteq Uploads
    /\ storageLock \in Uploads \cup {None}
    /\ files \subseteq Uploads /\ rows \subseteq Uploads /\ removed \subseteq rows
    /\ abandoned \subseteq Uploads /\ doubted \subseteq Uploads

\* The case exists and is not archived.
Visible(c) == c \notin gone /\ purgeAt[c] = NoDate

-----------------------------------------------------------------------------
(* Uploads                                                                 *)

Goto(u, from, to) == upc[u] = from /\ upc' = [upc EXCEPT ![u] = to]

\* The transaction ends, with or without effect, and gives its lock back.
EndTransaction(u) ==
    /\ open' = open \ {u}
    /\ storageLock' = IF storageLock = u THEN None ELSE storageLock

BeginUpload(u, c, n) ==
    /\ Goto(u, "new", "waiting")
    /\ target' = [target EXCEPT ![u] = c]
    /\ size' = [size EXCEPT ![u] = n]
    /\ open' = open \cup {u}
    /\ UNCHANGED <<storageLock, caseVars, documentVars>>

NoStorageLock(u) ==                                                   \* mutant
    /\ u \in open /\ Goto(u, "waiting", "locked")
    /\ UNCHANGED <<target, size, open, storageLock, caseVars, documentVars>>
TakeStorageLock(u) ==
    /\ u \in open /\ storageLock = None
    /\ Goto(u, "waiting", "locked")
    /\ storageLock' = u
    /\ UNCHANGED <<target, size, open, caseVars, documentVars>>

\* The bytes of the documents, numbered within each, and how many they are.
BytesOf(documents) == UNION {{u} \X (1 .. size[u]) : u \in documents}
Bytes(documents) == Cardinality(BytesOf(documents))

\* assertDocumentQuota, given what counts as a document of the case.  The bytes
\* are those of all rows of this kind of case or of all files, if they are more.
WithinQuota(u, kind, counted) ==
    LET own == {v \in rows : target[v] \in kind}
        stored == Max({Bytes(own), Bytes(files)})
    IN
    /\ Cardinality(counted) < MaxDocumentsPerCase
    /\ stored + size[u] <= MaxStorageBytes

\* Enforcement and insurance cases count the documents not deleted, general
\* cases all.
Counted(u) ==
    {v \in rows : target[v] = target[u]
                  /\ (target[u] \in GeneralCases \/ v \notin removed)}

\* The case is looked up and the quota checked, or the upload fails.
CheckUpload(u) ==
    LET kind == CHOOSE k \in Kinds : target[u] \in k
        passes == Visible(target[u]) /\ WithinQuota(u, kind, Counted(u))
    IN
    /\ UNCHANGED <<target, size, caseVars, documentVars>>
    /\ \/ /\ u \in open /\ passes
          /\ Goto(u, "locked", "checked")
          /\ UNCHANGED <<open, storageLock>>
       \/ /\ u \in open /\ ~passes
          /\ Goto(u, "locked", "failed")
          /\ EndTransaction(u)

\* The file is written, or writing it fails with or without a file left.
WriteFile(u) ==
    /\ UNCHANGED <<target, size, caseVars, rows, removed, abandoned, doubted>>
    /\ \/ /\ Goto(u, "checked", "written")
          /\ files' = files \cup {u}
          /\ UNCHANGED <<open, storageLock>>
       \/ /\ Goto(u, "checked", "failed")
          /\ files' \in {files, files \cup {u}}
          /\ EndTransaction(u)

\* The row is inserted and the transaction committed; the row's foreign key
\* fails if the case is gone.  A lost reply makes a commit look like a failure.
InsertRow(u) ==
    /\ u \in open
    /\ EndTransaction(u)
    /\ UNCHANGED <<target, size, caseVars, files, removed, abandoned>>
    /\ \/ /\ target[u] \notin gone
          /\ Goto(u, "written", "done")
          /\ rows' = rows \cup {u}
          /\ UNCHANGED <<events, doubted>>
       \/ /\ target[u] \notin gone
          /\ Goto(u, "written", "failed")
          /\ rows' = rows \cup {u} /\ doubted' = doubted \cup {u}
          /\ Disturbance
       \/ /\ target[u] \in gone
          /\ Goto(u, "written", "failed")
          /\ UNCHANGED <<events, rows, doubted>>

\* The next call of a transaction the database has given up throws.
NoticeTimeout(u) ==
    /\ u \notin open /\ upc[u] \in {"waiting", "locked", "written"}
    /\ upc' = [upc EXCEPT ![u] = "failed"]
    /\ UNCHANGED <<target, size, open, storageLock, caseVars, documentVars>>

\* The catch block unlinks the file, if one was created, and swallows the error
\* if that fails: the file stays, with a row or without.
CleanUp(u) ==
    /\ Goto(u, "failed", "done")
    /\ UNCHANGED <<target, size, open, storageLock, caseVars, rows, removed, doubted>>
    /\ \/ /\ files' = files \ {u}
          /\ UNCHANGED <<events, abandoned>>
       \/ /\ u \in files /\ Disturbance
          /\ abandoned' = abandoned \cup ({u} \ rows)
          /\ UNCHANGED files

\* The database gives the transaction up after thirty seconds.
TimeOut(u) ==
    /\ u \in open /\ Disturbance
    /\ EndTransaction(u)
    /\ UNCHANGED <<upc, target, size, caseVars, documentVars>>

\* The process dies.
CrashUpload(u) ==
    /\ upc[u] \notin {"new", "done"} /\ Disturbance
    /\ upc' = [upc EXCEPT ![u] = "done"]
    /\ EndTransaction(u)
    /\ abandoned' = abandoned \cup ({u} \cap (files \ rows))
    /\ UNCHANGED <<target, size, caseVars, files, rows, removed, doubted>>

\* deletedAt is set; row and file stay.
DeleteDocument(u) ==
    /\ u \in rows \ removed /\ Visible(target[u])
    /\ removed' = removed \cup {u}
    /\ UNCHANGED <<caseVars, uploadVars, files, rows, abandoned, doubted>>

UploadStep(u) ==
    \/ \E c \in Cases, n \in Sizes : BeginUpload(u, c, n)
    \/ TakeStorageLock(u) \/ CheckUpload(u) \/ WriteFile(u)
    \/ NoticeTimeout(u) \/ DeleteDocument(u)

-----------------------------------------------------------------------------
(* Archiving and restoring cases                                           *)

\* archiveEnforcementCase, archiveInsuranceCase, archiveGeneralCase.  Two requests
\* that both found the case visible set nearly the same date.
Archive(c) ==
    /\ Visible(c)
    /\ purgeAt' = [purgeAt EXCEPT ![c] = DeletionDueAt(clock)]
    /\ UNCHANGED <<gone, recalledCase, uploadVars, documentVars>>

RecallCase(c) ==
    /\ recalledCase = None
    /\ c \notin gone /\ StillAhead(purgeAt[c], clock)
    /\ recalledCase' = c
    /\ UNCHANGED <<purgeAt, gone, uploadVars, documentVars>>

\* The update goes by the identifier found, and throws if the row is gone.
RestoreCase ==
    /\ recalledCase # None
    /\ purgeAt' = IF recalledCase \in gone THEN purgeAt
                  ELSE [purgeAt EXCEPT ![recalledCase] = NoDate]
    /\ recalledCase' = None
    /\ UNCHANGED <<gone, uploadVars, documentVars>>

CaseStep ==
    \/ \E c \in Cases : Archive(c) \/ RecallCase(c)
    \/ RestoreCase

-----------------------------------------------------------------------------
(* The cases' part of the purge                                            *)

ExpiredCases(t) == {c \in Cases \ gone : Expired(purgeAt[c], t)}

Documents(found) == {u \in rows : target[u] \in found}

\* Deleting a case deletes its document rows with it.
DeleteCases(found) ==
    /\ gone' = gone \cup found
    /\ rows' = rows \ Documents(found)
    /\ removed' = removed \ Documents(found)
=============================================================================
