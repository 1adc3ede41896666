--------------------------- MODULE RecordDeletion ---------------------------
(***************************************************************************)
(* The purge of what was deleted longer than the retention period ago,     *)
(* apps/web/src/lib/deletion-cleanup.ts, run by any number of processes of *)
(* scripts/purge-deleted-records.ts, next to the users of UserAccounts and *)
(* CaseDocuments.                                                          *)
(*                                                                         *)
(* A purge reads its lists, deletes in one transaction, and then unlinks   *)
(* the files it had listed, one by one.                                    *)
(***************************************************************************)
EXTENDS UserAccounts, CaseDocuments

CONSTANTS
    Purgers,
    PurgeBatch         \* "take" of each list

ASSUME PurgeAssumption == PurgeBatch \in Nat \ {0}

VARIABLES
    ppc, asOf, foundCases, foundUsers, keys,
    overtaken,         \* history: documents of cases restored while listed
    lostActive         \* history: users who were active when anonymised

purgeVars == <<ppc, asOf, foundCases, foundUsers, keys>>
vars == <<timeVars, userVars, fileVars, purgeVars, overtaken, lostActive>>

Init ==
    /\ clock = 0 /\ events = 0
    /\ UserInit /\ CaseInit
    /\ ppc = [p \in Purgers |-> "idle"]
    /\ asOf = [p \in Purgers |-> 0]
    /\ foundCases = [p \in Purgers |-> {}]
    /\ foundUsers = [p \in Purgers |-> {}]
    /\ keys = [p \in Purgers |-> {}]
    /\ overtaken = {} /\ lostActive = {}

TypeOK ==
    /\ clock \in 0 .. MaxTime /\ events \in 0 .. MaxEvents
    /\ UserTypeOK /\ CaseTypeOK
    /\ ppc \in [Purgers -> {"idle", "listed", "unlinking"}]
    /\ asOf \in [Purgers -> Nat]
    /\ foundCases \in [Purgers -> SUBSET Cases]
    /\ foundUsers \in [Purgers -> SUBSET Users]
    /\ keys \in [Purgers -> SUBSET Uploads]
    /\ overtaken \subseteq Uploads /\ lostActive \subseteq Users

-----------------------------------------------------------------------------
(* The purge                                                               *)

\* What one query may return: PurgeBatch of the rows, in no particular order.
Batches(all) ==
    {some \in SUBSET all :
        Cardinality(some) = IF Cardinality(all) < PurgeBatch
                            THEN Cardinality(all) ELSE PurgeBatch}

LiveKeys(found) == Documents(found) \ removed                         \* mutant
\* The files to unlink: those of every document of the cases, deleted or not.
StorageKeys(found) == Documents(found)

ListExpired(p) ==
    /\ ppc[p] = "idle"
    /\ ExpiredCases(clock) # {} \/ ExpiredUsers(clock) # {}
    /\ ppc' = [ppc EXCEPT ![p] = "listed"]
    /\ asOf' = [asOf EXCEPT ![p] = clock]
    /\ \E enforcement \in Batches(ExpiredCases(clock) \cap EnforcementCases),
          insurance \in Batches(ExpiredCases(clock) \cap InsuranceCases),
          general \in Batches(ExpiredCases(clock) \cap GeneralCases),
          users \in Batches(ExpiredUsers(clock)) :
          LET cases == enforcement \cup insurance \cup general
          IN  /\ foundCases' = [foundCases EXCEPT ![p] = cases]
              /\ keys' = [keys EXCEPT ![p] = StorageKeys(cases)]
              /\ foundUsers' = [foundUsers EXCEPT ![p] = users]
    /\ UNCHANGED <<timeVars, userVars, fileVars, overtaken, lostActive>>

AllListed(p) == foundCases[p] \ gone                                  \* mutant
\* "id in the list, purgeAfter lte now"
StillExpired(p) == foundCases[p] \cap ExpiredCases(asOf[p])

PurgeTransaction(p) ==
    /\ ppc[p] = "listed"
    /\ ppc' = [ppc EXCEPT ![p] = "unlinking"]
    /\ DeleteCases(StillExpired(p))
    /\ Anonymise(foundUsers[p])
    /\ lostActive' = lostActive \cup {u \in foundUsers[p] : Active(u)}
    /\ foundCases' = [foundCases EXCEPT ![p] = {}]
    /\ foundUsers' = [foundUsers EXCEPT ![p] = {}]
    /\ UNCHANGED <<timeVars, requestVars, recalled, purgeAt, recalledCase,
                   uploadVars, files, abandoned, doubted, asOf, keys, overtaken>>

UnlinkEarly(p, u) ==                                                  \* mutant
    /\ ppc[p] # "idle" /\ u \in keys[p]
    /\ files' = files \ {u}
    /\ keys' = [keys EXCEPT ![p] = @ \ {u}]
    /\ UNCHANGED <<timeVars, userVars, caseVars, uploadVars, rows, removed, abandoned,
                   doubted, ppc, asOf, foundCases, foundUsers, overtaken, lostActive>>
\* One listed file; a file that is not there is no error.  A file that cannot be
\* removed, or has no path the purge accepts, is passed over for good.
Unlink(p, u) ==
    /\ ppc[p] = "unlinking" /\ u \in keys[p]
    /\ keys' = [keys EXCEPT ![p] = @ \ {u}]
    /\ UNCHANGED <<clock, userVars, caseVars, uploadVars, rows, removed,
                   doubted, ppc, asOf, foundCases, foundUsers, overtaken, lostActive>>
    /\ \/ /\ files' = files \ {u}
          /\ UNCHANGED <<events, abandoned>>
       \/ /\ u \in files /\ Disturbance
          /\ abandoned' = abandoned \cup ({u} \ rows)
          /\ UNCHANGED files

EndPurge(p) ==
    /\ ppc[p] = "unlinking" /\ keys[p] = {}
    /\ ppc' = [ppc EXCEPT ![p] = "idle"]
    /\ asOf' = [asOf EXCEPT ![p] = 0]
    /\ UNCHANGED <<timeVars, userVars, fileVars, foundCases, foundUsers, keys,
                   overtaken, lostActive>>

\* The process dies, or its transaction fails.
CrashPurge(p) ==
    /\ ppc[p] # "idle" /\ Disturbance
    /\ ppc' = [ppc EXCEPT ![p] = "idle"]
    /\ asOf' = [asOf EXCEPT ![p] = 0]
    /\ foundCases' = [foundCases EXCEPT ![p] = {}]
    /\ foundUsers' = [foundUsers EXCEPT ![p] = {}]
    /\ keys' = [keys EXCEPT ![p] = {}]
    /\ abandoned' = abandoned \cup ((keys[p] \cap files) \ rows)
    /\ UNCHANGED <<clock, userVars, caseVars, uploadVars, files, rows, removed,
                   doubted, overtaken, lostActive>>

PurgeStep(p) ==
    \/ ListExpired(p) \/ PurgeTransaction(p) \/ EndPurge(p)
    \/ \E u \in Uploads : Unlink(p, u)

-----------------------------------------------------------------------------

\* Documents some purge will unlink.
Doomed == UNION {keys[p] : p \in Purgers}

NoteOvertaken ==
    overtaken' = overtaken \cup
        {u \in rows \cap Doomed : purgeAt[target[u]] # NoDate /\ purgeAt'[target[u]] = NoDate}

\* Days pass, but not during a transaction of thirty seconds.
Tick ==
    /\ clock < MaxTime /\ clock' = clock + 1
    /\ \A u \in Uploads : upc[u] \in {"new", "failed", "done"}
    /\ UNCHANGED <<events, userVars, fileVars, purgeVars, overtaken, lostActive>>

OfficeStep ==
    \/ /\ UserStep
       /\ UNCHANGED <<timeVars, fileVars, purgeVars, overtaken, lostActive>>
    \/ /\ CaseStep /\ NoteOvertaken
       /\ UNCHANGED <<timeVars, userVars, purgeVars, lostActive>>
    \/ \E u \in Uploads :
          /\ \/ UploadStep(u) /\ UNCHANGED events
             \/ InsertRow(u) \/ CleanUp(u) \/ TimeOut(u) \/ CrashUpload(u)
          /\ UNCHANGED <<clock, userVars, purgeVars, overtaken, lostActive>>

Next ==
    \/ OfficeStep
    \/ \E p \in Purgers : PurgeStep(p) \/ CrashPurge(p)
    \/ Tick

Spec == Init /\ [][Next]_vars

-----------------------------------------------------------------------------
(* Files and rows                                                          *)

\* A file without a row is still in the hands of the upload that wrote it or of
\* the purge that deleted its row, unless that process died or could not remove
\* it: no timeout, lost reply, restored case or overlap of purges leaves one.
NoOrphanFile ==
    \A u \in files \ rows :
        \/ upc[u] \in {"written", "failed"}
        \/ \E p \in Purgers : ppc[p] = "unlinking" /\ u \in keys[p]
        \/ u \in abandoned

\* A row has its file, unless its commit was taken for a failure, or its case
\* was restored while a purge had the file on its list.
RowKeepsFile == rows \subseteq files \cup doubted \cup overtaken

\* What the lock is for: uploads to cases of any kind, one of them possibly
\* given up by the database half way, never fill the directory with more than
\* the quota in documents that have a row.
CommittedWithinQuota == Bytes(files \cap rows) <= MaxStorageBytes

\* The documents of a case that are not deleted.
Live(c) == {u \in rows \ removed : target[u] = c}

\* Nor does a case ever hold more documents than it may.
CaseWithinLimit == \A c \in Cases : Cardinality(Live(c)) <= MaxDocumentsPerCase

\* A case is deleted for good only when a date set for it has passed that was
\* not taken back, however old the list of the purge is.
OnlyExpiredAreDeleted ==
    [][\A c \in gone' \ gone : Expired(purgeAt[c], clock)]_vars

-----------------------------------------------------------------------------
(* Users                                                                   *)

\* The status route never takes the last administrator, whatever other requests
\* do meanwhile: if none is left, a purge anonymised one who was active.
ActiveAdminRemains ==
    Users # {} => lostActive # {} \/ \E u \in Users : Active(u)

\* Nobody who was anonymised is logged in, or can log in, again.
AnonymisedIsOut == \A u \in Users : role[u] = "deleted" => u \notin sessions

-----------------------------------------------------------------------------
(* What the application says of itself                                     *)

\* deletion-policy.ts:5: "Kullanıcı silinmeden önce pasifleştirilmelidir."  A
\* user marked for deletion has been deactivated, and stays so.
ScheduledIsInactive == requested \subseteq banned

\* AppShell.tsx:504: "Hesap 30 gün boyunca geri getirilebilir".  A user whose
\* deletion was taken back is not anonymised.
RestoredUserIsKept ==
    [][\A u \in Users : role[u] # "deleted" /\ role'[u] = "deleted"
           => u \in requested]_vars
=============================================================================
