---------------------------- MODULE ProfileImages ----------------------------
(***************************************************************************)
(* The profile image of one user: profile-image-storage.ts of              *)
(* apps/web/src/lib and api/profile/image/route.ts.  The image is one of   *)
(* three files, named after the user and the type of the image; the row of *)
(* the user says whether there is one.                                     *)
(***************************************************************************)
EXTENDS Null, Naturals, FiniteSets, Sequences

CONSTANTS
    Uploads,               \* requests that store or remove an image
    MaxRequests            \* bound: how many are made

\* In the order in which readProfileImage looks for them.
Types == <<"jpg", "png", "webp">>
TypeSet == {Types[i] : i \in DOMAIN Types}

ASSUME ImageAssumption == IsFiniteSet(Uploads)

VARIABLES
    disk,        \* [type -> number of the upload in that file, 0 without a file]
    temporary,   \* the uploads that have a temporary file
    hasImage,    \* whether the row of the user names an image
    upload,      \* requests: [pc, kind, type, number, left, alone]
    requests,    \* history: how many requests there were
    final        \* history: the image there should be, Nothing when nobody can say

imageVars == <<disk, temporary, hasImage, upload, requests, final>>

NoUpload == [pc |-> "idle", kind |-> Nothing, type |-> Nothing, number |-> 0,
             left |-> {}, alone |-> TRUE]

ImageInit ==
    /\ disk = [t \in TypeSet |-> 0] /\ temporary = {}
    /\ hasImage = FALSE /\ requests = 0 /\ final = 0
    /\ upload = [r \in Uploads |-> NoUpload]

Running(r) == upload[r].pc # "idle"
\* From now on no request that is under way is alone any more.
Begin(r, request) ==
    LET alone == \A q \in Uploads : ~Running(q) IN
    /\ ~Running(r) /\ requests < MaxRequests
    /\ upload' = [q \in Uploads |->
           IF q = r THEN [request EXCEPT !.alone = alone, !.number = requests + 1]
           ELSE [upload[q] EXCEPT !.alone = ~Running(q)]]
    /\ requests' = requests + 1
    /\ final' = Nothing

\* storeProfileImage: the temporary file, the removal of all three files, the rename.
LeftToRemove(type) == TypeSet
OnlyOwnType(type) == {type}                                           \* mutant
ToRemove(type) == LeftToRemove(type)
BeginStore(r) ==
    /\ \E t \in TypeSet :
           Begin(r, [NoUpload EXCEPT !.pc = "removing", !.kind = "store", !.type = t,
                                     !.left = ToRemove(t)])
    /\ temporary' = temporary \cup {requests + 1}
    /\ UNCHANGED <<disk, hasImage>>

\* The row first, then the files.
BeginRemove(r) ==
    /\ Begin(r, [NoUpload EXCEPT !.pc = "removing", !.kind = "remove", !.left = TypeSet])
    /\ hasImage' = FALSE
    /\ UNCHANGED <<disk, temporary>>

Unlink(r, t) ==
    /\ upload[r].pc \in {"removing", "failed"} /\ t \in upload[r].left
    /\ disk' = [disk EXCEPT ![t] = 0]
    /\ upload' = [upload EXCEPT ![r].left = @ \ {t}]
    /\ UNCHANGED <<temporary, hasImage, requests, final>>

EndUpload(r, number) ==
    /\ upload' = [upload EXCEPT ![r] = NoUpload]
    /\ final' = IF upload[r].alone THEN number ELSE Nothing
    /\ UNCHANGED requests
Rename(r) ==
    /\ upload[r].pc = "removing" /\ upload[r].kind = "store" /\ upload[r].left = {}
    /\ disk' = [disk EXCEPT ![upload[r].type] = upload[r].number]
    /\ temporary' = temporary \ {upload[r].number}
    /\ upload' = [upload EXCEPT ![r].pc = "renamed"]
    /\ UNCHANGED <<hasImage, requests, final>>
NameImage(r) ==
    /\ upload[r].pc = "renamed"
    /\ hasImage' = TRUE
    /\ EndUpload(r, upload[r].number)
    /\ UNCHANGED <<disk, temporary>>
FinishRemove(r) ==
    /\ upload[r].pc = "removing" /\ upload[r].kind = "remove" /\ upload[r].left = {}
    /\ EndUpload(r, 0)
    /\ UNCHANGED <<disk, temporary, hasImage>>

\* A file cannot be removed or renamed, or the row not be updated; the temporary file
\* goes, unless the process itself ended.  Removals that had begun may still take place.
FailUpload(r) ==
    /\ upload[r].pc \in {"removing", "renamed"}
    /\ temporary' \in {temporary, temporary \ {upload[r].number}}
    /\ upload' = [upload EXCEPT ![r].pc = "failed"]
    /\ final' = Nothing
    /\ UNCHANGED <<disk, hasImage, requests>>

GiveUp(r) ==
    /\ upload[r].pc = "failed"
    /\ upload' = [upload EXCEPT ![r] = NoUpload]
    /\ UNCHANGED <<disk, temporary, hasImage, requests, final>>

ImageWork ==
    \E r \in Uploads :
        \/ BeginStore(r) \/ BeginRemove(r) \/ Rename(r) \/ NameImage(r)
        \/ FinishRemove(r) \/ GiveUp(r)
        \/ \E t \in TypeSet : Unlink(r, t)
ImageMishap == \E r \in Uploads : FailUpload(r)
ImageNext == ImageWork \/ ImageMishap
ImageSpec == ImageInit /\ [][ImageNext]_imageVars

-----------------------------------------------------------------------------
(* Properties                                                              *)

ImageTypeOK ==
    /\ disk \in [TypeSet -> Nat] /\ temporary \subseteq Nat /\ hasImage \in BOOLEAN
    /\ upload \in [Uploads -> [pc : {"idle", "removing", "renamed", "failed"},
                               kind : {"store", "remove", Nothing},
                               type : TypeSet \cup {Nothing}, number : Nat,
                               left : SUBSET TypeSet, alone : BOOLEAN]]
    /\ requests \in Nat /\ final \in Nat \cup {Nothing}

\* readProfileImage
ImageRead ==
    IF \A t \in TypeSet : disk[t] = 0 THEN 0
    ELSE disk[Types[CHOOSE i \in DOMAIN Types :
                        disk[Types[i]] # 0 /\ \A j \in 1 .. i - 1 : disk[Types[j]] = 0]]

\* A request that no other overlapped leaves the image it was about, whatever failed
\* requests and overlapping ones of different types left behind before.
LastImageIsShown == final # Nothing => ImageRead = final /\ (hasImage <=> final # 0)
=============================================================================
