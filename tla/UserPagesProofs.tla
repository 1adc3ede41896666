---------------------------- MODULE UserPagesProofs ----------------------------
(***************************************************************************)
(* Proofs about what one user does in pages of their own: the password of  *)
(* the account, the profile image, lists and panels as answers come in,    *)
(* and amounts from the field to the database; for any numbers of          *)
(* requests, passwords, uploads, rows and items.                           *)
(***************************************************************************)
EXTENDS PasswordChange, ProfileImages, PageData, CaseInput, SequenceTheorems, TLAPS

-----------------------------------------------------------------------------
(* Passwords: the inductive invariant                                      *)

\* Nothing has happened to an account that is not complete.
NothingYet ==
    account.state # "live" =>
        /\ ~account.verified /\ ~account.must /\ account.password = Nothing
        /\ sessions = {} /\ reset = "idle" /\ broken = {}
        /\ \A c \in Changes : change[c].pc = "idle"

\* What a request carries, and what it has behind it.
Passed(c) == change[c].pc \in {"set", "cleared"}
ChangeIsBacked ==
    \A c \in Changes :
        /\ change[c].pc # "idle" => change[c].new \in Passwords
        /\ Passed(c) => account.password # Nothing
        /\ change[c].pc = "cleared" => ~account.must
ResetIsBacked ==
    /\ reset # "idle" => account.password # Nothing
    /\ reset = "cleared" => ~account.must

\* Sessions from before the last choice are still to be ended by a first password's
\* request or by a reset; any other change ends them with the choice.
SessionsAreDue ==
    \/ broken # {} \/ reset # "idle"
    \/ \E c \in Changes : Passed(c) /\ change[c].initial
    \/ \A s \in sessions : s = account.chosen

PasswordInv ==
    /\ PasswordTypeOK /\ NothingYet /\ ChangeIsBacked /\ ResetIsBacked
    /\ SessionsAreDue /\ DemandCanBeMet /\ DemandUntilChosen

AccountType ==
    [state : {"none", "created", "live"}, verified : BOOLEAN, must : BOOLEAN,
     password : Passwords \cup {Nothing}, chosen : Nat]
ChangeType ==
    [pc : {"idle", "asked", "read", "set", "cleared"}, initial : BOOLEAN,
     current : Passwords \cup {Nothing}, new : Passwords \cup {Nothing}]

\* An idle request carries nothing.
LEMMA NoChangeTyped == NoChange \in ChangeType /\ NoChange.pc = "idle"
BY DEF NoChange, ChangeType

\* The account with a password chosen.
LEMMA Chosen ==
    ASSUME account \in AccountType, NEW p \in Passwords
    PROVE  /\ account.chosen + 1 \in Nat
           /\ [account EXCEPT !.password = p, !.chosen = @ + 1] \in AccountType
<1>1. PICK n \in Nat : n = account.chosen + 1
  BY DEF AccountType
<1>2. [account EXCEPT !.password = p, !.chosen = n] \in AccountType
  BY DEF AccountType
<1>3. [account EXCEPT !.password = p, !.chosen = @ + 1] =
          [account EXCEPT !.password = p, !.chosen = n]
  BY <1>1 DEF AccountType
<1>4. QED
  BY <1>1, <1>2, <1>3

\* The invariant holds of the beginning.
LEMMA InitPassword == PasswordInit => PasswordInv
BY PasswordAssumption
DEF PasswordInit, PasswordInv, PasswordTypeOK, NothingYet, ChangeIsBacked, ResetIsBacked,
    SessionsAreDue, DemandCanBeMet, DemandUntilChosen, Changing, NoChange, Passed

\* The creation of the account.
LEMMA CreationStep ==
    ASSUME PasswordInv, CreateAccount \/ DemandPassword \/ FailDemand
    PROVE  PasswordInv'
<1> USE PasswordAssumption
    DEF PasswordInv, NothingYet, ChangeIsBacked, ResetIsBacked, SessionsAreDue,
        DemandCanBeMet, DemandUntilChosen, Changing, Passed, PasswordTypeOK
<1>1. CASE CreateAccount
  BY <1>1 DEF CreateAccount
<1>2. CASE DemandPassword
  BY <1>2 DEF DemandPassword
<1>3. CASE FailDemand
  BY <1>3 DEF FailDemand
<1>4. QED
  BY <1>1, <1>2, <1>3

\* New sessions.
LEMMA SessionStep ==
    ASSUME PasswordInv, FollowVerification \/ SignIn
    PROVE  PasswordInv'
<1> USE PasswordAssumption
    DEF PasswordInv, NothingYet, ChangeIsBacked, ResetIsBacked, SessionsAreDue,
        DemandCanBeMet, DemandUntilChosen, Changing, Passed, PasswordTypeOK
<1>1. CASE FollowVerification
  BY <1>1 DEF FollowVerification
<1>2. CASE SignIn
  BY <1>2 DEF SignIn
<1>3. QED
  BY <1>1, <1>2

\* The steps of a request.
LEMMA AskStep ==
    ASSUME PasswordInv, NEW c \in Changes,
           AskChange(c) \/ ReadAccount(c) \/ RefuseChange(c)
    PROVE  PasswordInv'
<1> USE PasswordAssumption DEF PasswordInv, Passed
<1>1. /\ change' \in [Changes -> ChangeType]
      /\ change'[c].pc # "idle" => change'[c].new \in Passwords
  <2>1. CASE AskChange(c)
    <3>1. PICK new \in Passwords, current \in Passwords \cup {Nothing} :
              change' = [change EXCEPT ![c] = [NoChange EXCEPT !.pc = "asked",
                                                   !.current = current, !.new = new]]
      BY <2>1 DEF AskChange
    <3>2. QED
      BY <3>1, NoChangeTyped DEF PasswordTypeOK, ChangeType
  <2>2. CASE ReadAccount(c)
    <3> DEFINE b == account.verified /\ account.must /\ account.password = Nothing
    <3>1. /\ change[c].pc = "asked" /\ b \in BOOLEAN
          /\ change' = [change EXCEPT ![c].pc = "read", ![c].initial = b]
      BY <2>2, Zenon DEF ReadAccount
    <3> HIDE DEF b
    <3>2. [change[c] EXCEPT !.pc = "read", !.initial = b] \in ChangeType
      BY <3>1 DEF PasswordTypeOK, ChangeType
    <3>3. /\ change' = [change EXCEPT ![c] = [@ EXCEPT !.pc = "read", !.initial = b]]
          /\ [change[c] EXCEPT !.pc = "read", !.initial = b].new = change[c].new
      BY <3>1 DEF PasswordTypeOK
    <3>4. QED
      BY <3>1, <3>2, <3>3 DEF PasswordTypeOK, ChangeIsBacked, ChangeType
  <2>3. CASE RefuseChange(c)
    BY <2>3, NoChangeTyped DEF RefuseChange, PasswordTypeOK, ChangeType
  <2>4. QED
    BY <2>1, <2>2, <2>3
<1>2. /\ UNCHANGED <<account, sessions, reset, broken>> /\ account.state = "live"
      /\ ~Passed(c) /\ ~Passed(c)'
      /\ \A d \in Changes : d # c => change'[d] = change[d]
  <2>1. CASE AskChange(c)
    <3>1. PICK new \in Passwords, current \in Passwords \cup {Nothing} :
              change' = [change EXCEPT ![c] = [NoChange EXCEPT !.pc = "asked",
                                                   !.current = current, !.new = new]]
      BY <2>1 DEF AskChange
    <3>2. QED
      BY <2>1, <3>1, NoChangeTyped DEF AskChange, PasswordTypeOK, NothingYet, ChangeType
  <2>2. CASE ReadAccount(c)
    BY <2>2 DEF ReadAccount, PasswordTypeOK, NothingYet
  <2>3. CASE RefuseChange(c)
    BY <2>3, NoChangeTyped DEF RefuseChange, PasswordTypeOK, NothingYet
  <2>4. QED
    BY <2>1, <2>2, <2>3
<1>3. PasswordTypeOK' /\ NothingYet'
  BY <1>1, <1>2 DEF PasswordTypeOK, NothingYet, ChangeType
<1>4. ChangeIsBacked' /\ ResetIsBacked'
  BY <1>1, <1>2 DEF ChangeIsBacked, ResetIsBacked
<1>5. SessionsAreDue'
  BY <1>2 DEF SessionsAreDue
<1>6. DemandCanBeMet' /\ DemandUntilChosen'
  BY <1>2 DEF DemandCanBeMet, DemandUntilChosen, Changing
<1>7. QED
  BY <1>3, <1>4, <1>5, <1>6

\* The password itself is the step the others have to make up for.
LEMMA SetStep ==
    ASSUME PasswordInv, NEW c \in Changes, SetPassword(c)
    PROVE  PasswordInv'
<1> USE PasswordAssumption
    DEF PasswordInv, Passed
<1> DEFINE new == change[c].new
<1>1. /\ new \in Passwords /\ account.state = "live"
      /\ change' = [change EXCEPT ![c].pc = "set"] /\ reset' = reset /\ broken' = {}
      /\ account' = [account EXCEPT !.password = new, !.chosen = @ + 1]
      /\ sessions' = IF change[c].initial THEN sessions ELSE {account'.chosen}
  BY DEF SetPassword, Choose, ChangeIsBacked, NothingYet
<1>2. PasswordTypeOK'
  <2> HIDE DEF new
  <2>1. account' \in AccountType
    BY <1>1, Chosen DEF PasswordTypeOK, AccountType
  <2>2. sessions' \subseteq Nat
    BY <1>1, <2>1 DEF PasswordTypeOK, AccountType
  <2>3. change' \in [Changes -> ChangeType]
    BY <1>1 DEF PasswordTypeOK, ChangeType
  <2>4. QED
    BY <1>1, <2>1, <2>2, <2>3 DEF PasswordTypeOK, AccountType, ChangeType
<1>3. NothingYet' /\ ChangeIsBacked' /\ ResetIsBacked'
  BY <1>1 DEF PasswordTypeOK, NothingYet, ChangeIsBacked, ResetIsBacked
<1>4. SessionsAreDue'
  BY <1>1 DEF PasswordTypeOK, SessionsAreDue
<1>5. DemandCanBeMet' /\ DemandUntilChosen'
  BY <1>1 DEF PasswordTypeOK, DemandCanBeMet, DemandUntilChosen, Changing
<1>6. QED
  BY <1>2, <1>3, <1>4, <1>5

\* What makes up for it, or fails to.
LEMMA FinishStep ==
    ASSUME PasswordInv, NEW c \in Changes,
           ClearDemand(c) \/ RevokeSessions(c) \/ FailChange(c)
    PROVE  PasswordInv'
<1> USE PasswordAssumption
    DEF PasswordInv, NothingYet, ChangeIsBacked, ResetIsBacked, SessionsAreDue,
        DemandCanBeMet, DemandUntilChosen, Changing, Passed, PasswordTypeOK, NoChange
<1>1. CASE ClearDemand(c)
  BY <1>1 DEF ClearDemand, MayClear, PasswordSet
<1>2. CASE RevokeSessions(c)
  BY <1>2 DEF RevokeSessions, AfterInitial, EndSessions
<1>3. CASE FailChange(c)
  BY <1>3 DEF FailChange
<1>4. QED
  BY <1>1, <1>2, <1>3

\* The steps of a reset.
LEMMA ResetStep ==
    ASSUME PasswordInv, ResetPassword \/ ClearReset \/ RevokeOnReset \/ FailReset
    PROVE  PasswordInv'
<1> USE PasswordAssumption
    DEF PasswordInv, NothingYet, ChangeIsBacked, ResetIsBacked, SessionsAreDue,
        DemandCanBeMet, DemandUntilChosen, Changing, Passed, PasswordTypeOK
<1>1. CASE ResetPassword
  <2>1. PICK p \in Passwords :
            account' = [account EXCEPT !.password = p, !.chosen = @ + 1]
    BY <1>1 DEF ResetPassword, Choose
  <2>2. account' \in AccountType
    BY <2>1, Chosen DEF AccountType
  <2>3. /\ account.state = "live" /\ reset = "idle" /\ reset' = "set" /\ broken' = {}
        /\ UNCHANGED <<sessions, change>>
    BY <1>1 DEF ResetPassword
  <2>4. PasswordTypeOK' /\ account'.state = "live" /\ account'.password # Nothing
    BY <2>1, <2>2, <2>3 DEF AccountType
  <2>5. QED
    BY <2>1, <2>3, <2>4
<1>2. CASE ClearReset
  BY <1>2 DEF ClearReset, OnPasswordReset, ClearOnReset
<1>3. CASE RevokeOnReset
  BY <1>3 DEF RevokeOnReset
<1>4. CASE FailReset
  BY <1>4 DEF FailReset
<1>5. QED
  BY <1>1, <1>2, <1>3, <1>4

\* Every step keeps it.
LEMMA PasswordStep ==
    ASSUME PasswordInv, [PasswordNext]_passwordVars PROVE PasswordInv'
<1>1. CASE PasswordWork
  BY <1>1, CreationStep, SessionStep, AskStep, SetStep, FinishStep, ResetStep
  DEF PasswordWork
<1>2. CASE PasswordMishap
  BY <1>2, CreationStep, FinishStep, ResetStep DEF PasswordMishap
<1>3. CASE UNCHANGED passwordVars
  BY <1>3
  DEF passwordVars, PasswordInv, NothingYet, ChangeIsBacked, ResetIsBacked,
      SessionsAreDue, DemandCanBeMet, DemandUntilChosen, Changing, Passed, PasswordTypeOK
<1>4. QED
  BY <1>1, <1>2, <1>3 DEF PasswordNext

\* So it always holds.
LEMMA PasswordInvariance == PasswordSpec => []PasswordInv
BY InitPassword, PasswordStep, PTL DEF PasswordSpec

-----------------------------------------------------------------------------
(* Passwords: what follows                                                 *)

\* The types of the account, its sessions and its requests.
THEOREM PasswordTypes == PasswordSpec => []PasswordTypeOK
<1>1. PasswordInv => PasswordTypeOK
  BY DEF PasswordInv
<1>2. QED
  BY <1>1, PasswordInvariance, PTL

\* A demand for a password can always be met, but for who failed midway in a change
\* or a reset: change-password/route.ts and onPasswordReset clear it by the time they
\* are through, however they overlap.
THEOREM DemandIsMet == PasswordSpec => []DemandCanBeMet
<1>1. PasswordInv => DemandCanBeMet
  BY DEF PasswordInv
<1>2. QED
  BY <1>1, PasswordInvariance, PTL

\* The demand of the hook in auth.ts goes only when there is a password.
THEOREM DemandStays == PasswordSpec => []DemandUntilChosen
<1>1. PasswordInv => DemandUntilChosen
  BY DEF PasswordInv
<1>2. QED
  BY <1>1, PasswordInvariance, PTL

\* No session outlives the change or the reset that should have ended it, in whatever
\* order several of them end theirs.
THEOREM SessionsEnd == PasswordSpec => []OldSessionsAreGone
<1>1. PasswordInv => OldSessionsAreGone
  BY DEF PasswordInv, SessionsAreDue, OldSessionsAreGone, Changing, Passed
<1>2. QED
  BY <1>1, PasswordInvariance, PTL
-----------------------------------------------------------------------------
(* The profile image: the inductive invariant                              *)

UploadType ==
    [pc : {"idle", "removing", "renamed", "failed"}, kind : {"store", "remove", Nothing},
     type : TypeSet \cup {Nothing}, number : Nat, left : SUBSET TypeSet, alone : BOOLEAN]

\* What a request that still runs was begun with.
UploadIsWhole(u) ==
    /\ u.pc = "removing" => u.kind \in {"store", "remove"}
    /\ u.pc = "renamed" => u.kind = "store"
    /\ u.pc # "idle" /\ u.kind = "store" => u.type \in TypeSet /\ u.number # 0

\* What is on the disk of what a request that is alone has removed and stored.
DiskFollows(u) ==
    /\ u.pc = "removing" => \A t \in TypeSet \ u.left : disk[t] = 0
    /\ u.pc = "renamed" => /\ disk[u.type] = u.number
                           /\ \A t \in TypeSet \ {u.type} : disk[t] = 0
    /\ u.kind = "remove" => ~hasImage

\* Requests are marked when another begins beside them.
AloneOnly ==
    \A r \in Uploads : upload[r].alone /\ Running(r) => \A q \in Uploads \ {r} : ~Running(q)

ImageInv ==
    /\ ImageTypeOK /\ AloneOnly /\ LastImageIsShown
    /\ \A r \in Uploads : /\ UploadIsWhole(upload[r])
                          /\ upload[r].alone /\ Running(r) => DiskFollows(upload[r])
                          /\ final # Nothing => ~Running(r)


LEMMA NoUploadTyped == NoUpload \in UploadType /\ NoUpload.pc = "idle" /\ NoUpload.alone
BY DEF NoUpload, UploadType

\* The types of images are three.
LEMMA ThreeTypes ==
    /\ DOMAIN Types = 1 .. 3 /\ TypeSet = {"jpg", "png", "webp"}
    /\ Types[1] = "jpg" /\ Types[2] = "png" /\ Types[3] = "webp"
BY DEF Types, TypeSet

\* No file, no image; one file, and that is the image.
LEMMA NothingRead ==
    ASSUME \A t \in TypeSet : disk[t] = 0 PROVE ImageRead = 0
BY DEF ImageRead
LEMMA OneRead ==
    ASSUME NEW t \in TypeSet, disk[t] # 0, \A s \in TypeSet \ {t} : disk[s] = 0
    PROVE  ImageRead = disk[t]
<1> DEFINE First(i) == disk[Types[i]] # 0 /\ \A j \in 1 .. i - 1 : disk[Types[j]] = 0
<1>1. PICK i \in 1 .. 3 : Types[i] = t
  BY ThreeTypes
<1>2. \A j \in 1 .. 3 : j # i => Types[j] # t /\ Types[j] \in TypeSet
  BY <1>1, ThreeTypes
<1>3. \A j \in 1 .. i - 1 : disk[Types[j]] = 0
  BY <1>2
<1>4. First(i) /\ i \in DOMAIN Types
  BY <1>1, <1>3, ThreeTypes
<1>5. \A j \in DOMAIN Types : First(j) => j = i
  BY <1>2, ThreeTypes
<1>6. (CHOOSE j \in DOMAIN Types : First(j)) = i
  BY <1>4, <1>5
<1>7. QED
  BY <1>1, <1>6 DEF ImageRead

\* The invariant holds of the beginning.
LEMMA InitImage == ImageInit => ImageInv
<1> SUFFICES ASSUME ImageInit PROVE ImageInv
  OBVIOUS
<1>1. \A r \in Uploads : upload[r] = NoUpload /\ ~Running(r)
  BY NoUploadTyped DEF ImageInit, Running
<1>2. ImageTypeOK
  BY NoUploadTyped DEF ImageInit, ImageTypeOK, UploadType
<1>3. LastImageIsShown
  BY NothingRead DEF ImageInit, LastImageIsShown
<1>4. \A r \in Uploads : UploadIsWhole(upload[r])
  BY <1>1, ImageAssumption DEF UploadIsWhole, NoUpload
<1>5. QED
  BY <1>1, <1>2, <1>3, <1>4 DEF ImageInv, AloneOnly

\* The beginning of a request, which leaves no other alone.
LEMMA BeginStep ==
    ASSUME ImageInv, NEW r \in Uploads, NEW request \in UploadType,
           request.pc = "removing", request.kind \in {"store", "remove"},
           request.kind = "store" => request.type \in TypeSet,
           request.left = TypeSet, Begin(r, request), disk' = disk,
           temporary' \subseteq Nat, hasImage' \in BOOLEAN,
           request.kind = "remove" => ~hasImage',
           request.kind = "store" => hasImage' = hasImage
    PROVE  ImageInv'
<1> DEFINE alone == \A q \in Uploads : ~Running(q)
           first == [request EXCEPT !.alone = alone, !.number = requests + 1]
           second(q) == [upload[q] EXCEPT !.alone = ~Running(q)]
<1>1. /\ requests \in Nat /\ upload \in [Uploads -> UploadType]
      /\ \A q \in Uploads : UploadIsWhole(upload[q])
  BY DEF ImageInv, ImageTypeOK, UploadType
<1>2. /\ ~Running(r) /\ requests' = requests + 1 /\ final' = Nothing
      /\ upload' = [q \in Uploads |-> IF q = r THEN first ELSE second(q)]
  BY DEF Begin
<1>3. alone \in BOOLEAN /\ requests + 1 \in Nat /\ requests + 1 # 0
  BY <1>1
<1> HIDE DEF alone
<1>4. /\ first \in UploadType /\ first.pc = "removing" /\ first.kind = request.kind
      /\ first.type = request.type /\ first.number # 0 /\ first.left = TypeSet
      /\ first.alone = alone
  BY <1>3 DEF UploadType
<1>5. ASSUME NEW q \in Uploads
      PROVE  /\ second(q) \in UploadType /\ second(q).alone = ~Running(q)
             /\ second(q).pc = upload[q].pc /\ second(q).kind = upload[q].kind
             /\ second(q).type = upload[q].type /\ second(q).number = upload[q].number
  BY <1>1 DEF UploadType, Running
<1> HIDE DEF first, second
<1>6. upload' \in [Uploads -> UploadType]
  BY <1>2, <1>4, <1>5
<1>7. ImageTypeOK'
  BY <1>2, <1>3, <1>6 DEF ImageTypeOK, ImageInv, UploadType
<1>8. /\ upload'[r] = first
      /\ \A q \in Uploads \ {r} : /\ upload'[q] = second(q)
                                  /\ Running(q)' <=> Running(q)
  BY <1>2, <1>5 DEF Running
<1>9. ASSUME NEW q \in Uploads, upload'[q].alone, Running(q)'
      PROVE  q = r /\ alone
  BY <1>4, <1>5, <1>8, <1>9
<1>10. AloneOnly'
  BY <1>8, <1>9 DEF AloneOnly, alone
<1>11. ASSUME NEW q \in Uploads
       PROVE  /\ UploadIsWhole(upload'[q])
              /\ upload'[q].alone /\ Running(q)' => DiskFollows(upload[q])'
  <2>1. UploadIsWhole(upload'[q])
    BY <1>1, <1>4, <1>5, <1>8 DEF UploadIsWhole
  <2>2. upload'[q].alone /\ Running(q)' => DiskFollows(upload[q])'
    BY <1>4, <1>8, <1>9 DEF DiskFollows
  <2>3. QED
    BY <2>1, <2>2
<1>12. QED
  BY <1>2, <1>7, <1>10, <1>11 DEF ImageInv, LastImageIsShown

LEMMA BeginsStep ==
    ASSUME ImageInv, NEW r \in Uploads, BeginStore(r) \/ BeginRemove(r) PROVE ImageInv'
<1>1. requests \in Nat /\ temporary \subseteq Nat /\ hasImage \in BOOLEAN
  BY DEF ImageInv, ImageTypeOK
<1>2. CASE BeginStore(r)
  <2>1. PICK t \in TypeSet :
            Begin(r, [NoUpload EXCEPT !.pc = "removing", !.kind = "store", !.type = t,
                                      !.left = ToRemove(t)])
    BY <1>2 DEF BeginStore
  <2>2. PICK new : new = [NoUpload EXCEPT !.pc = "removing", !.kind = "store", !.type = t,
                                          !.left = ToRemove(t)]
    OBVIOUS
  <2>3. /\ new \in UploadType /\ new.pc = "removing" /\ new.kind = "store"
        /\ new.type = t /\ new.left = TypeSet
    BY <2>2, NoUploadTyped DEF UploadType, ToRemove, LeftToRemove
  <2>4. /\ disk' = disk /\ hasImage' = hasImage
        /\ temporary' = temporary \cup {requests + 1}
    BY <1>2 DEF BeginStore
  <2>5. Begin(r, new)
    BY <2>1, <2>2
  <2>6. temporary' \subseteq Nat /\ hasImage' \in BOOLEAN /\ new.kind # "remove"
    BY <1>1, <2>3, <2>4
  <2>7. QED
    BY <2>3, <2>4, <2>5, <2>6, BeginStep
<1>3. CASE BeginRemove(r)
  <2>1. PICK new : new = [NoUpload EXCEPT !.pc = "removing", !.kind = "remove",
                                          !.left = TypeSet]
    OBVIOUS
  <2>2. /\ new \in UploadType /\ new.pc = "removing" /\ new.kind = "remove"
        /\ new.left = TypeSet
    BY <2>1, NoUploadTyped DEF UploadType
  <2>3. /\ disk' = disk /\ hasImage' = FALSE /\ temporary' = temporary /\ Begin(r, new)
    BY <1>3, <2>1 DEF BeginRemove
  <2>4. QED
    BY <1>1, <2>2, <2>3, BeginStep
<1>4. QED
  BY <1>2, <1>3

\* What any other step of one request has to show of it; the others are left alone.
LEMMA OneUpload ==
    ASSUME ImageInv, NEW r \in Uploads, Running(r), NEW u \in UploadType,
           upload' = [upload EXCEPT ![r] = u], requests' = requests, u.pc # "idle",
           u.alone = upload[r].alone, UploadIsWhole(u),
           disk' \in [TypeSet -> Nat], temporary' \subseteq Nat, hasImage' \in BOOLEAN,
           final' = final \/ final' = Nothing, u.alone => DiskFollows(u)'
    PROVE  ImageInv'
<1>1. upload \in [Uploads -> UploadType]
  BY DEF ImageInv, ImageTypeOK, UploadType
<1>2. /\ upload'[r] = u /\ upload' \in [Uploads -> UploadType]
      /\ \A q \in Uploads \ {r} : upload'[q] = upload[q]
  BY <1>1
<1>3. final = Nothing /\ final' = Nothing
  BY DEF ImageInv
<1>4. ImageTypeOK' /\ LastImageIsShown'
  BY <1>2, <1>3 DEF ImageInv, ImageTypeOK, UploadType, LastImageIsShown
<1>5. /\ Running(r)'
      /\ \A q \in Uploads \ {r} : Running(q)' <=> Running(q)
  BY <1>2 DEF Running
<1>6. AloneOnly'
  BY <1>2, <1>5 DEF ImageInv, AloneOnly
<1>7. ASSUME NEW q \in Uploads
      PROVE  /\ UploadIsWhole(upload'[q])
             /\ upload'[q].alone /\ Running(q)' => DiskFollows(upload[q])'
  <2>1. CASE q = r
    BY <1>2, <2>1
  <2>2. CASE q # r
    BY <1>2, <1>5, <2>2 DEF ImageInv, AloneOnly
  <2>3. QED
    BY <2>1, <2>2
<1>8. QED
  BY <1>3, <1>4, <1>6, <1>7 DEF ImageInv

\* The end of a request.
LEMMA UploadEnds ==
    ASSUME ImageInv, NEW r \in Uploads, Running(r), upload' = [upload EXCEPT ![r] = NoUpload],
           requests' = requests, disk' = disk, temporary' = temporary,
           hasImage' \in BOOLEAN, final' \in Nat \cup {Nothing},
           final' # Nothing => /\ upload[r].alone /\ ImageRead = final'
                               /\ hasImage' <=> final' # 0
    PROVE  ImageInv'
<1>1. upload \in [Uploads -> UploadType]
  BY DEF ImageInv, ImageTypeOK, UploadType
<1>2. /\ upload'[r] = NoUpload /\ upload' \in [Uploads -> UploadType]
      /\ \A q \in Uploads \ {r} : upload'[q] = upload[q]
  BY <1>1, NoUploadTyped
<1>3. /\ ~Running(r)'
      /\ \A q \in Uploads \ {r} : Running(q)' <=> Running(q)
  BY <1>2, NoUploadTyped DEF Running
<1>4. ImageTypeOK'
  BY <1>2 DEF ImageInv, ImageTypeOK, UploadType
<1>5. AloneOnly'
  BY <1>2, <1>3 DEF ImageInv, AloneOnly
<1>6. ImageRead' = ImageRead
  BY DEF ImageRead
<1>7. LastImageIsShown'
  BY <1>6 DEF LastImageIsShown
<1>8. ASSUME NEW q \in Uploads
      PROVE  /\ UploadIsWhole(upload'[q])
             /\ upload'[q].alone /\ Running(q)' => DiskFollows(upload[q])'
             /\ final' # Nothing => ~Running(q)'
  <2>1. CASE q = r
    BY <1>2, <1>3, <2>1, NoUploadTyped DEF UploadIsWhole
  <2>2. CASE q # r
    <3>1. UploadIsWhole(upload'[q])
      BY <1>2, <2>2 DEF ImageInv
    <3>2. upload[q].alone => ~Running(q)
      BY <2>2 DEF ImageInv, AloneOnly
    <3>3. final' # Nothing => ~Running(q)
      BY <2>2 DEF ImageInv, AloneOnly
    <3>4. QED
      BY <1>2, <1>3, <2>2, <3>1, <3>2, <3>3
  <2>3. QED
    BY <2>1, <2>2
<1>9. QED
  BY <1>4, <1>5, <1>7, <1>8 DEF ImageInv

\* The steps of a request on the disk.
LEMMA DiskStep ==
    ASSUME ImageInv, NEW r \in Uploads,
           Rename(r) \/ FailUpload(r) \/ \E t \in TypeSet : Unlink(r, t)
    PROVE  ImageInv'
<1>1. /\ upload \in [Uploads -> UploadType] /\ disk \in [TypeSet -> Nat]
      /\ temporary \subseteq Nat /\ hasImage \in BOOLEAN
  BY DEF ImageInv, ImageTypeOK, UploadType
<1> DEFINE u == upload[r]
<1>2. u \in UploadType /\ UploadIsWhole(u)
  BY <1>1 DEF ImageInv
<1>3. u.alone /\ u.pc # "idle" => DiskFollows(u)
  BY DEF ImageInv, Running
<1>4. CASE \E t \in TypeSet : Unlink(r, t)
  <2>1. PICK t \in TypeSet : Unlink(r, t)
    BY <1>4
  <2>2. PICK new : new = [u EXCEPT !.left = @ \ {t}]
    OBVIOUS
  <2>3. /\ new \in UploadType /\ new.pc = u.pc /\ new.kind = u.kind /\ new.type = u.type
        /\ new.number = u.number /\ new.alone = u.alone /\ new.left = u.left \ {t}
    BY <1>2, <2>2 DEF UploadType
  <2>4. /\ u.pc \in {"removing", "failed"} /\ disk' = [disk EXCEPT ![t] = 0]
        /\ upload' = [upload EXCEPT ![r] = new]
        /\ UNCHANGED <<temporary, hasImage, requests, final>>
    BY <2>1, <2>2 DEF Unlink
  <2>5. UploadIsWhole(new) /\ Running(r) /\ new.pc # "idle"
    BY <1>2, <2>3, <2>4 DEF UploadIsWhole, Running
  <2>6. disk' \in [TypeSet -> Nat]
    BY <1>1, <2>4
  <2>7. new.alone => DiskFollows(new)'
    BY <1>1, <1>3, <2>3, <2>4 DEF DiskFollows
  <2>8. QED
    BY <1>1, <2>3, <2>4, <2>5, <2>6, <2>7, OneUpload
<1>5. CASE Rename(r)
  <2>1. PICK new : new = [u EXCEPT !.pc = "renamed"]
    OBVIOUS
  <2>2. /\ new \in UploadType /\ new.pc = "renamed" /\ new.kind = u.kind
        /\ new.type = u.type /\ new.number = u.number /\ new.alone = u.alone
        /\ new.left = u.left
    BY <1>2, <2>1 DEF UploadType
  <2>3. /\ u.pc = "removing" /\ u.kind = "store" /\ u.left = {}
        /\ disk' = [disk EXCEPT ![u.type] = u.number]
        /\ temporary' = temporary \ {u.number}
        /\ upload' = [upload EXCEPT ![r] = new]
        /\ UNCHANGED <<hasImage, requests, final>>
    BY <1>5, <2>1 DEF Rename
  <2>4. /\ UploadIsWhole(new) /\ Running(r) /\ new.pc # "idle"
        /\ u.type \in TypeSet /\ u.number \in Nat
    BY <1>2, <2>2, <2>3 DEF UploadIsWhole, Running, UploadType
  <2>5. disk' \in [TypeSet -> Nat] /\ temporary' \subseteq Nat
    BY <1>1, <2>3, <2>4
  <2>6. new.alone => DiskFollows(new)'
    BY <1>1, <1>3, <2>2, <2>3, <2>4 DEF DiskFollows
  <2>7. QED
    BY <1>1, <2>2, <2>3, <2>4, <2>5, <2>6, OneUpload
<1>6. CASE FailUpload(r)
  <2>1. PICK new : new = [u EXCEPT !.pc = "failed"]
    OBVIOUS
  <2>2. /\ new \in UploadType /\ new.pc = "failed" /\ new.kind = u.kind
        /\ new.type = u.type /\ new.number = u.number /\ new.alone = u.alone
        /\ new.left = u.left
    BY <1>2, <2>1 DEF UploadType
  <2>3. /\ u.pc \in {"removing", "renamed"} /\ final' = Nothing
        /\ upload' = [upload EXCEPT ![r] = new] /\ temporary' \subseteq temporary
        /\ UNCHANGED <<disk, hasImage, requests>>
    BY <1>6, <2>1 DEF FailUpload
  <2>4. UploadIsWhole(new) /\ Running(r) /\ new.pc # "idle"
    BY <1>2, <2>2, <2>3 DEF UploadIsWhole, Running
  <2>5. new.alone => DiskFollows(new)'
    BY <1>3, <2>2, <2>3 DEF DiskFollows
  <2>6. QED
    BY <1>1, <2>2, <2>3, <2>4, <2>5, OneUpload
<1>7. QED
  BY <1>4, <1>5, <1>6

\* The ends of a request.
LEMMA EndStep ==
    ASSUME ImageInv, NEW r \in Uploads, NameImage(r) \/ FinishRemove(r) \/ GiveUp(r)
    PROVE  ImageInv'
<1>1. /\ upload \in [Uploads -> UploadType] /\ disk \in [TypeSet -> Nat]
      /\ hasImage \in BOOLEAN
  BY DEF ImageInv, ImageTypeOK, UploadType
<1> DEFINE u == upload[r]
<1>2. u \in UploadType /\ UploadIsWhole(u)
  BY <1>1 DEF ImageInv
<1>3. u.alone /\ u.pc # "idle" => DiskFollows(u)
  BY DEF ImageInv, Running
<1>4. CASE NameImage(r)
  <2>1. /\ u.pc = "renamed" /\ hasImage' = TRUE /\ UNCHANGED <<disk, temporary, requests>>
        /\ upload' = [upload EXCEPT ![r] = NoUpload]
        /\ final' = IF u.alone THEN u.number ELSE Nothing
    BY <1>4 DEF NameImage, EndUpload
  <2>2. u.type \in TypeSet /\ u.number # 0 /\ u.number \in Nat /\ Running(r)
    BY <1>2, <2>1 DEF UploadIsWhole, UploadType, Running
  <2>3. u.alone => ImageRead = u.number
    BY <1>3, <2>1, <2>2, OneRead DEF DiskFollows
  <2>4. QED
    BY <2>1, <2>2, <2>3, UploadEnds
<1>5. CASE FinishRemove(r)
  <2>1. /\ u.pc = "removing" /\ u.kind = "remove" /\ u.left = {}
        /\ UNCHANGED <<disk, temporary, requests, hasImage>>
        /\ upload' = [upload EXCEPT ![r] = NoUpload]
        /\ final' = IF u.alone THEN 0 ELSE Nothing
    BY <1>5 DEF FinishRemove, EndUpload
  <2>2. u.alone => ImageRead = 0 /\ ~hasImage
    BY <1>3, <2>1, NothingRead DEF DiskFollows
  <2>3. QED
    BY <1>1, <2>1, <2>2, UploadEnds DEF Running
<1>6. CASE GiveUp(r)
  <2>1. /\ u.pc = "failed" /\ upload' = [upload EXCEPT ![r] = NoUpload]
        /\ UNCHANGED <<disk, temporary, hasImage, requests, final>>
    BY <1>6 DEF GiveUp
  <2>2. Running(r) /\ final = Nothing
    BY <2>1 DEF ImageInv, Running
  <2>3. QED
    BY <1>1, <2>1, <2>2, UploadEnds
<1>7. QED
  BY <1>4, <1>5, <1>6

\* Every step keeps it.
LEMMA ImageStep ==
    ASSUME ImageInv, [ImageNext]_imageVars PROVE ImageInv'
<1>1. CASE ImageNext
  BY <1>1, BeginsStep, DiskStep, EndStep DEF ImageNext, ImageWork, ImageMishap
<1>2. CASE UNCHANGED imageVars
  BY <1>2
  DEF imageVars, ImageInv, ImageTypeOK, AloneOnly, LastImageIsShown, ImageRead, Running,
      DiskFollows
<1>3. QED
  BY <1>1, <1>2

\* So it always holds.
LEMMA ImageInvariance == ImageSpec => []ImageInv
BY InitImage, ImageStep, PTL DEF ImageSpec

\* The types of the files, the row and the requests.
THEOREM ImageTypes == ImageSpec => []ImageTypeOK
<1>1. ImageInv => ImageTypeOK
  BY DEF ImageInv
<1>2. QED
  BY <1>1, ImageInvariance, PTL

\* A request that no other overlapped leaves the image it was about, or none, whatever
\* files failed and overlapping requests had left behind: storeProfileImage removes the
\* files of all types before it renames its own.
THEOREM ImageIsShown == ImageSpec => []LastImageIsShown
<1>1. ImageInv => LastImageIsShown
  BY DEF ImageInv
<1>2. QED
  BY <1>1, ImageInvariance, PTL
-----------------------------------------------------------------------------
(* Lists and panels: the inductive invariants                              *)

\* A request that was not overtaken asks for what is searched for, and is the only one the
\* list waits for; its page and that of its answer are pages.
FetchIsCurrent(f) ==
    /\ fetch[f].pc # "idle" => fetch[f].page # 0 /\ fetch[f].query \in Queries
    /\ fetch[f].pc = "answered" => fetch[f].answer # 0
    /\ fetch[f].pc # "idle" /\ ~fetch[f].aborted =>
           /\ fetch[f].query = list.debounced /\ list.loading
           /\ \A g \in Fetches \ {f} : fetch[g].pc = "idle" \/ fetch[g].aborted

ListTyped ==
    /\ rows_of \in [Queries -> 0 .. MaxRows]
    /\ list \in [query : Queries, debounced : Queries, page : 1 .. MaxRows,
                 loading : BOOLEAN, error : BOOLEAN,
                 shown : [query : Queries \cup {Nothing}, page : 0 .. MaxRows]]
    /\ fetch \in [Fetches -> [pc : {"idle", "sent", "answered"}, aborted : BOOLEAN,
                              query : Queries \cup {Nothing}, page : 0 .. MaxRows,
                              answer : 0 .. MaxRows]]
ListInv ==
    ListTyped /\ ListShowsWhatIsAsked /\ \A f \in Fetches : FetchIsCurrent(f)

ItemsType == [Items -> Bodies \cup {Nothing}]
AskType ==
    [pc : {"idle", "sent", "written", "answered"}, act : {"open", "put", "remove"},
     item : Items \cup {Nothing}, body : Bodies \cup {Nothing}, news : SUBSET Items,
     seen : ItemsType, alone : BOOLEAN]
PanelType ==
    [kind : Panels, items : ItemsType, removing : Items \cup {Nothing},
     overlapped : BOOLEAN, news : SUBSET Items]
PanelTyped ==
    /\ stored \in ItemsType /\ given \in [items : ItemsType, news : SUBSET Items]
    /\ panel \in PanelType /\ ask \in [Asks -> AskType]

\* Requests for notes work on items of their own, and only one of them removes.
NoteIsItsOwn(r) ==
    /\ ask[r].act = "put" => panel.items[ask[r].item] = Nothing
    /\ ask[r].act = "remove" => panel.removing # Nothing
    /\ \A s \in Asks \ {r} : ask[s].pc # "idle" =>
           ask[s].item # ask[r].item /\ ~(ask[s].act = "remove" /\ ask[r].act = "remove")

\* What a request that crossed no other has in its hands: of payments, the list as it is
\* stored; of notifications, the list that is shown; and what it wrote is stored.
AskFollows(r) ==
    ask[r].pc # "idle" =>
        /\ ask[r].act = "open" => panel.kind = "payments"
        /\ ask[r].act # "open" => ask[r].item \in Items
        /\ ask[r].alone => \A s \in Asks \ {r} : ask[s].pc = "idle"
        /\ panel.kind = "notifications" /\ ask[r].alone => ask[r].seen = panel.items
        /\ panel.kind # "payments" /\ ask[r].pc = "answered"
               /\ (ask[r].alone \/ panel.kind = "notes") /\ ask[r].item \notin ask[r].news
           => stored[ask[r].item] = ask[r].body
        /\ panel.kind = "payments" /\ ask[r].pc = "answered" /\ ask[r].alone =>
               \A j \in Items \ ask[r].news : ask[r].seen[j] = stored[j]
        /\ panel.kind = "notes" => NoteIsItsOwn(r)

WroteIt(r, i) ==
    /\ ask[r].pc \in {"written", "answered"} /\ ask[r].act # "open" /\ ask[r].item = i

\* What is shown differs from what is stored in what is news, and in what a request under
\* way has written.
PanelInv ==
    /\ PanelTyped
    /\ \A r \in Asks : AskFollows(r)
    /\ panel.kind = "notes" => ~panel.overlapped
    /\ ~panel.overlapped => \A i \in Items \ panel.news :
           (\E r \in Asks : WroteIt(r, i)) \/ panel.items[i] = stored[i]
    /\ \A i \in Items \ given.news : given.items[i] = stored[i]

FetchType ==
    [pc : {"idle", "sent", "answered"}, aborted : BOOLEAN, query : Queries \cup {Nothing},
     page : 0 .. MaxRows, answer : 0 .. MaxRows]
ListType ==
    [query : Queries, debounced : Queries, page : 1 .. MaxRows, loading : BOOLEAN,
     error : BOOLEAN, shown : [query : Queries \cup {Nothing}, page : 0 .. MaxRows]]

LEMMA NoFetchTyped ==
    NoFetch \in FetchType /\ NoFetch.pc = "idle" /\ NoFetch.aborted = FALSE
BY PageDataAssumption DEF NoFetch, FetchType

LEMMA ListParts ==
    ASSUME ListInv
    PROVE  /\ list \in ListType /\ fetch \in [Fetches -> FetchType]
           /\ rows_of \in [Queries -> 0 .. MaxRows]
BY DEF ListInv, ListTyped, ListType, FetchType

\* The invariant holds of the beginning.
LEMMA InitList == ListInit => ListInv
<1> SUFFICES ASSUME ListInit PROVE ListInv
  OBVIOUS
<1>1. PICK q \in Queries, f \in Fetches :
          /\ list = [query |-> q, debounced |-> q, page |-> 1, loading |-> TRUE,
                     error |-> FALSE, shown |-> NoRows]
          /\ fetch = [g \in Fetches |->
                 IF g = f THEN [NoFetch EXCEPT !.pc = "sent", !.query = q, !.page = 1]
                 ELSE NoFetch]
  BY DEF ListInit
<1>2. 1 \in 1 .. MaxRows /\ 0 \in 0 .. MaxRows /\ MaxRows \in 0 .. MaxRows
  BY PageDataAssumption
<1>3. PICK sent : sent = [NoFetch EXCEPT !.pc = "sent", !.query = q, !.page = 1]
  OBVIOUS
<1>4. /\ sent \in FetchType /\ sent.pc = "sent" /\ sent.aborted = FALSE
      /\ sent.query = q /\ sent.page = 1
  <2>1. 1 \in 0 .. MaxRows
    BY PageDataAssumption
  <2>2. QED
    BY <1>3, <2>1, NoFetchTyped DEF FetchType
<1>5. /\ fetch \in [Fetches -> FetchType] /\ fetch[f] = sent
      /\ \A g \in Fetches : g # f => fetch[g] = NoFetch
  BY <1>1, <1>3, <1>4, NoFetchTyped
<1>6. NoRows \in [query : Queries \cup {Nothing}, page : 0 .. MaxRows]
  BY <1>2 DEF NoRows
<1>7. list \in ListType
  BY <1>1, <1>2, <1>6 DEF ListType
<1>8. rows_of \in [Queries -> 0 .. MaxRows]
  BY <1>2 DEF ListInit
<1>9. ListTyped
  BY <1>5, <1>7, <1>8 DEF ListTyped, ListType, FetchType
<1>10. \A g \in Fetches : FetchIsCurrent(g)
  BY <1>1, <1>4, <1>5, NoFetchTyped DEF FetchIsCurrent
<1>11. ListShowsWhatIsAsked
  BY <1>1, <1>4, <1>5 DEF ListShowsWhatIsAsked
<1>12. QED
  BY <1>9, <1>10, <1>11 DEF ListInv

\* A new request, which overtakes what is under way.
LEMMA LoadStep ==
    ASSUME ListInv, NEW new \in ListType, NEW done \in SUBSET Fetches, Load(new, done),
           rows_of' = rows_of
    PROVE  ListInv'
<1>1. PICK f \in Fetches :
          /\ fetch' = [g \in Fetches |->
                 IF g = f THEN [NoFetch EXCEPT !.pc = "sent", !.query = new.debounced,
                                               !.page = new.page]
                 ELSE IF g \in done THEN NoFetch ELSE Overtake(g)]
          /\ list' = [new EXCEPT !.loading = TRUE, !.error = FALSE]
  BY DEF Load
<1>2. PICK sent : sent = [NoFetch EXCEPT !.pc = "sent", !.query = new.debounced,
                                         !.page = new.page]
  OBVIOUS
<1>3. new.debounced \in Queries /\ new.page \in 1 .. MaxRows
  BY DEF ListType
<1>4. /\ sent \in FetchType /\ sent.pc = "sent" /\ sent.aborted = FALSE
      /\ sent.query = new.debounced /\ sent.page = new.page
  <2>1. new.page \in 0 .. MaxRows
    BY <1>3, PageDataAssumption
  <2>2. QED
    BY <1>2, <1>3, <2>1, NoFetchTyped DEF FetchType
<1>5. ASSUME NEW g \in Fetches
      PROVE  /\ Overtake(g) \in FetchType /\ Overtake(g).pc = fetch[g].pc
             /\ Overtake(g).page = fetch[g].page /\ Overtake(g).query = fetch[g].query
             /\ Overtake(g).answer = fetch[g].answer
             /\ Overtake(g).aborted = (fetch[g].pc # "idle")
  BY ListParts DEF Overtake, Abort, FetchType
<1>6. /\ fetch'[f] = sent
      /\ \A g \in Fetches \ {f} : fetch'[g] = NoFetch \/ fetch'[g] = Overtake(g)
      /\ fetch' \in [Fetches -> FetchType]
  BY <1>1, <1>2, <1>4, <1>5, NoFetchTyped
<1>7. /\ list' \in ListType /\ list'.loading = TRUE /\ list'.debounced = new.debounced
      /\ list'.error = FALSE
  BY <1>1 DEF ListType
<1>8. ListTyped'
  BY <1>6, <1>7, ListParts DEF ListTyped, ListType, FetchType
<1>9. ListShowsWhatIsAsked'
  BY <1>4, <1>6, <1>7 DEF ListShowsWhatIsAsked
<1>10. ASSUME NEW g \in Fetches PROVE FetchIsCurrent(g)'
  <2>1. FetchIsCurrent(g)
    BY DEF ListInv
  <2>2. CASE g = f
    <3>1. \A h \in Fetches \ {f} : fetch'[h].pc = "idle" \/ fetch'[h].aborted
      BY <1>5, <1>6, NoFetchTyped
    <3>2. QED
      BY <1>3, <1>4, <1>6, <1>7, <2>2, <3>1, PageDataAssumption DEF FetchIsCurrent
  <2>3. CASE fetch'[g] = NoFetch
    BY <2>3, NoFetchTyped DEF FetchIsCurrent
  <2>4. CASE fetch'[g] = Overtake(g)
    BY <1>5, <2>1, <2>4 DEF FetchIsCurrent
  <2>5. QED
    BY <1>6, <2>2, <2>3, <2>4
<1>11. QED
  BY <1>8, <1>9, <1>10 DEF ListInv

\* What the user does with the list.
LEMMA UserListStep ==
    ASSUME ListInv, TypeQuery \/ Debounce \/ GoToPage \/ Reload \/ DismissError \/ ChangeRows
    PROVE  ListInv'
<1>1. list \in ListType /\ {} \in SUBSET Fetches /\ 1 \in 1 .. MaxRows
  BY ListParts, PageDataAssumption
<1>2. CASE TypeQuery
  <2>1. PICK q \in Queries \ {list.query} :
            IF list.page = 1 THEN list' = [list EXCEPT !.query = q] /\ UNCHANGED fetch
            ELSE Load([list EXCEPT !.query = q, !.page = 1], {})
    BY <1>2 DEF TypeQuery
  <2>2. rows_of' = rows_of
    BY <1>2 DEF TypeQuery
  <2>3. CASE list.page = 1
    <3>1. list' = [list EXCEPT !.query = q] /\ fetch' = fetch
      BY <2>1, <2>3
    <3>2. /\ list' \in ListType /\ list'.debounced = list.debounced
          /\ list'.loading = list.loading /\ list'.error = list.error
          /\ list'.shown = list.shown /\ list'.page = list.page
      BY <1>1, <3>1 DEF ListType
    <3>3. ListTyped'
      BY <2>2, <3>1, <3>2, ListParts DEF ListTyped, ListType, FetchType
    <3>4. QED
      BY <3>1, <3>2, <3>3 DEF ListInv, ListShowsWhatIsAsked, FetchIsCurrent
  <2>4. CASE list.page # 1
    <3>1. [list EXCEPT !.query = q, !.page = 1] \in ListType
      BY <1>1 DEF ListType
    <3>2. Load([list EXCEPT !.query = q, !.page = 1], {})
      BY <2>1, <2>4
    <3>3. QED
      BY <1>1, <2>2, <3>1, <3>2, LoadStep
  <2>5. QED
    BY <2>3, <2>4
<1>3. CASE Debounce
  <2>1. [list EXCEPT !.debounced = list.query] \in ListType
    BY <1>1 DEF ListType
  <2>2. QED
    BY <1>1, <1>3, <2>1, LoadStep DEF Debounce
<1>4. CASE GoToPage
  <2>1. PICK p \in 1 .. MaxRows : Load([list EXCEPT !.page = p], {}) /\ rows_of' = rows_of
    BY <1>4 DEF GoToPage
  <2>2. [list EXCEPT !.page = p] \in ListType
    BY <1>1 DEF ListType
  <2>3. QED
    BY <1>1, <2>1, <2>2, LoadStep
<1>5. CASE Reload
  BY <1>1, <1>5, LoadStep DEF Reload
<1>6. CASE ChangeRows
  <2>1. PICK q \in Queries, n \in 0 .. MaxRows : rows_of' = [rows_of EXCEPT ![q] = n]
    BY <1>6 DEF ChangeRows
  <2>2. list' = list /\ fetch' = fetch
    BY <1>6 DEF ChangeRows
  <2>3. rows_of' \in [Queries -> 0 .. MaxRows]
    BY <2>1, ListParts
  <2>4. ListTyped'
    BY <2>2, <2>3 DEF ListInv, ListTyped
  <2>5. QED
    BY <2>2, <2>4 DEF ListInv, ListShowsWhatIsAsked, FetchIsCurrent
<1>7. CASE DismissError
  <2>1. list' = [list EXCEPT !.error = FALSE] /\ rows_of' = rows_of /\ fetch' = fetch
    BY <1>7 DEF DismissError
  <2>2. /\ list' \in ListType /\ list'.debounced = list.debounced
        /\ list'.loading = list.loading /\ list'.error = FALSE
        /\ list'.shown = list.shown /\ list'.page = list.page
    BY <1>1, <2>1 DEF ListType
  <2>3. ListTyped'
    BY <2>1, <2>2, ListParts DEF ListTyped, ListType, FetchType
  <2>4. QED
    BY <2>1, <2>2, <2>3 DEF ListInv, ListShowsWhatIsAsked, FetchIsCurrent
<1>8. QED
  BY <1>2, <1>3, <1>4, <1>5, <1>6, <1>7

\* What becomes of a request.
LEMMA FetchStep ==
    ASSUME ListInv, NEW f \in Fetches,
           Serve(f) \/ ShowAnswer(f) \/ FailFetch(f) \/ DropFetch(f)
    PROVE  ListInv'
<1>1. list \in ListType /\ fetch \in [Fetches -> FetchType]
      /\ rows_of \in [Queries -> 0 .. MaxRows] /\ fetch[f] \in FetchType
  BY ListParts
<1>2. FetchIsCurrent(f)
  BY DEF ListInv
<1>3. CASE Serve(f)
  <2> DEFINE last == PageCount(fetch[f].query)
             answer == IF fetch[f].page > last THEN last ELSE fetch[f].page
  <2>1. /\ fetch[f].pc = "sent" /\ rows_of' = rows_of /\ list' = list
        /\ fetch' = [fetch EXCEPT ![f].pc = "answered", ![f].answer = answer]
    BY <1>3 DEF Serve
  <2>2. last \in 1 .. MaxRows
    BY <1>1, <1>2, <2>1, PageDataAssumption DEF FetchIsCurrent, PageCount
  <2>3. fetch[f].page \in 1 .. MaxRows
    BY <1>1, <1>2, <2>1, PageDataAssumption DEF FetchIsCurrent, FetchType
  <2>4. answer \in 0 .. MaxRows /\ answer # 0
    BY <2>2, <2>3, PageDataAssumption
  <2> HIDE DEF answer
  <2>5. PICK new : new = [fetch[f] EXCEPT !.pc = "answered", !.answer = answer]
    OBVIOUS
  <2>6. /\ new \in FetchType /\ new.pc = "answered" /\ new.answer = answer
        /\ new.page = fetch[f].page /\ new.query = fetch[f].query
        /\ new.aborted = fetch[f].aborted
    BY <1>1, <2>4, <2>5 DEF FetchType
  <2>7. fetch' = [fetch EXCEPT ![f] = new]
    BY <1>1, <2>1, <2>5
  <2>8. /\ fetch'[f] = new /\ fetch' \in [Fetches -> FetchType]
        /\ \A g \in Fetches \ {f} : fetch'[g] = fetch[g]
    BY <1>1, <2>6, <2>7
  <2>9. ListTyped'
    BY <1>1, <2>1, <2>8 DEF ListTyped, ListType, FetchType
  <2>10. ListShowsWhatIsAsked'
    BY <2>1, <2>6, <2>8 DEF ListInv, ListShowsWhatIsAsked
  <2>11. \A g \in Fetches : FetchIsCurrent(g)'
    BY <1>2, <2>1, <2>4, <2>6, <2>8 DEF ListInv, FetchIsCurrent
  <2>12. QED
    BY <2>9, <2>10, <2>11 DEF ListInv
<1>4. CASE ShowAnswer(f)
  <2>1. PICK answer : answer = fetch[f].answer
    OBVIOUS
  <2>2. PICK new : new = [list EXCEPT
                !.shown = [query |-> fetch[f].query, page |-> answer],
                !.page = answer, !.loading = FALSE]
    OBVIOUS
  <2>3. /\ fetch[f].pc = "answered" /\ ~fetch[f].aborted /\ rows_of' = rows_of
        /\ IF answer # list.page THEN Load(new, {f})
           ELSE list' = new /\ fetch' = [fetch EXCEPT ![f] = NoFetch]
    BY <1>4, <2>1, <2>2 DEF ShowAnswer
  <2>4. /\ answer \in 1 .. MaxRows /\ answer \in 0 .. MaxRows
        /\ fetch[f].query = list.debounced /\ fetch[f].query \in Queries
    BY <1>1, <1>2, <2>1, <2>3, PageDataAssumption DEF FetchIsCurrent, FetchType
  <2>5. [query |-> fetch[f].query, page |-> answer] \in
            [query : Queries \cup {Nothing}, page : 0 .. MaxRows]
    BY <2>4
  <2>6. /\ new \in ListType /\ new.page = answer /\ new.loading = FALSE
        /\ new.shown = [query |-> list.debounced, page |-> answer]
        /\ new.debounced = list.debounced
    BY <1>1, <2>2, <2>4, <2>5 DEF ListType
  <2>7. CASE answer # list.page
    BY <2>3, <2>6, <2>7, LoadStep
  <2>8. CASE answer = list.page
    <3>1. list' = new /\ fetch' = [fetch EXCEPT ![f] = NoFetch]
      BY <2>3, <2>8
    <3>2. /\ fetch'[f] = NoFetch /\ fetch' \in [Fetches -> FetchType]
          /\ \A g \in Fetches \ {f} : fetch'[g] = fetch[g]
      BY <1>1, <3>1, NoFetchTyped
    <3>3. ListTyped'
      BY <1>1, <2>3, <2>6, <3>1, <3>2 DEF ListTyped, ListType, FetchType
    <3>4. ListShowsWhatIsAsked'
      <4>1. list.loading /\ ~list.error /\ new.error = list.error
        BY <1>1, <1>2, <2>2, <2>3 DEF ListInv, ListShowsWhatIsAsked, FetchIsCurrent, ListType
      <4>2. QED
        BY <2>6, <2>8, <3>1, <4>1 DEF ListShowsWhatIsAsked
    <3>5. \A g \in Fetches : FetchIsCurrent(g)'
      BY <1>2, <2>3, <2>6, <3>1, <3>2, NoFetchTyped DEF ListInv, FetchIsCurrent
    <3>6. QED
      BY <3>3, <3>4, <3>5 DEF ListInv
  <2>9. QED
    BY <2>7, <2>8
<1>5. CASE FailFetch(f)
  <2>1. /\ rows_of' = rows_of /\ fetch' = [fetch EXCEPT ![f] = NoFetch]
        /\ list' = [list EXCEPT !.loading = FALSE, !.error = TRUE, !.shown = NoRows]
    BY <1>5 DEF FailFetch
  <2>2. NoRows \in [query : Queries \cup {Nothing}, page : 0 .. MaxRows]
    BY PageDataAssumption DEF NoRows
  <2>3. /\ list' \in ListType /\ list'.loading = FALSE /\ list'.error = TRUE
        /\ list'.debounced = list.debounced /\ list'.shown = NoRows
        /\ fetch[f].pc # "idle" /\ ~fetch[f].aborted
    BY <1>1, <1>5, <2>1, <2>2 DEF ListType, FailFetch
  <2>4. /\ fetch'[f] = NoFetch /\ fetch' \in [Fetches -> FetchType]
        /\ \A g \in Fetches \ {f} : fetch'[g] = fetch[g]
    BY <1>1, <2>1, NoFetchTyped
  <2>5. ListTyped'
    BY <1>1, <2>1, <2>3, <2>4 DEF ListTyped, ListType, FetchType
  <2>6. ListShowsWhatIsAsked'
    BY <2>3 DEF ListShowsWhatIsAsked
  <2>7. \A g \in Fetches : FetchIsCurrent(g)'
    BY <1>2, <2>3, <2>4, NoFetchTyped DEF ListInv, FetchIsCurrent
  <2>8. QED
    BY <2>5, <2>6, <2>7 DEF ListInv
<1>6. CASE DropFetch(f)
  <2>1. /\ rows_of' = rows_of /\ list' = list /\ fetch' = [fetch EXCEPT ![f] = NoFetch]
        /\ fetch[f].aborted
    BY <1>6 DEF DropFetch
  <2>2. /\ fetch'[f] = NoFetch /\ fetch' \in [Fetches -> FetchType]
        /\ \A g \in Fetches \ {f} : fetch'[g] = fetch[g]
    BY <1>1, <2>1, NoFetchTyped
  <2>3. ListTyped'
    BY <1>1, <2>1, <2>2 DEF ListTyped, ListType, FetchType
  <2>4. ListShowsWhatIsAsked'
    BY <2>1, <2>2 DEF ListInv, ListShowsWhatIsAsked
  <2>5. \A g \in Fetches : FetchIsCurrent(g)'
    BY <2>1, <2>2, NoFetchTyped DEF ListInv, FetchIsCurrent
  <2>6. QED
    BY <2>3, <2>4, <2>5 DEF ListInv
<1>7. QED
  BY <1>3, <1>4, <1>5, <1>6

\* Every step of the list keeps it.
LEMMA ListStep ==
    ASSUME ListInv, [ListNext]_listVars PROVE ListInv'
<1>1. CASE ListNext
  BY <1>1, UserListStep, FetchStep DEF ListNext
<1>2. CASE UNCHANGED listVars
  BY <1>2 DEF listVars, ListInv, ListTyped, ListShowsWhatIsAsked, FetchIsCurrent
<1>3. QED
  BY <1>1, <1>2

LEMMA NoAskTyped ==
    NoAsk \in AskType /\ NoAsk.pc = "idle" /\ NoItems \in ItemsType
BY DEF NoAsk, NoItems, AskType, ItemsType

\* A panel that opens.
LEMMA PanelOpens ==
    ASSUME NEW kind \in Panels, panel' = Mounted(kind)', ask' \in Requested(kind),
           stored' \in ItemsType, given' \in [items : ItemsType, news : SUBSET Items],
           \A i \in Items \ given'.news : given'.items[i] = stored'[i]
    PROVE  PanelInv'
<1>1. /\ panel' \in PanelType /\ panel'.kind = kind /\ panel'.overlapped = FALSE
      /\ panel'.items = IF kind = "payments" THEN NoItems ELSE given'.items
      /\ panel'.news = IF kind = "payments" THEN Items ELSE given'.news
  BY NoAskTyped DEF Mounted, PanelType
<1>2. PICK sent : sent = [NoAsk EXCEPT !.pc = "sent"]
  OBVIOUS
<1>3. sent \in AskType /\ sent.pc = "sent" /\ sent.act = "open"
  BY <1>2, NoAskTyped DEF AskType, NoAsk
<1>4. CASE kind # "payments"
  <2>1. ask' = [r \in Asks |-> NoAsk]
    BY <1>4 DEF Requested
  <2>2. \A r \in Asks : ask'[r].pc = "idle"
    BY <2>1, NoAskTyped
  <2>3. PanelTyped'
    BY <1>1, <2>1, NoAskTyped DEF PanelTyped
  <2>4. \A r \in Asks : AskFollows(r)'
    BY <2>2 DEF AskFollows
  <2>5. QED
    BY <1>1, <1>4, <2>3, <2>4 DEF PanelInv
<1>5. CASE kind = "payments"
  <2>1. PICK r \in Asks : ask' = [s \in Asks |-> IF s = r THEN sent ELSE NoAsk]
    BY <1>2, <1>5 DEF Requested
  <2>2. /\ ask'[r] = sent /\ \A s \in Asks \ {r} : ask'[s] = NoAsk
        /\ ask' \in [Asks -> AskType]
    BY <1>3, <2>1, NoAskTyped
  <2>3. PanelTyped'
    BY <1>1, <2>2 DEF PanelTyped
  <2>4. \A s \in Asks : AskFollows(s)'
    BY <1>1, <1>3, <1>5, <2>2, NoAskTyped DEF AskFollows
  <2>5. QED
    BY <1>1, <1>5, <2>3, <2>4 DEF PanelInv
<1>6. QED
  BY <1>4, <1>5

\* The invariant holds of the beginning.
LEMMA InitPanel == PanelInit => PanelInv
<1> SUFFICES ASSUME PanelInit PROVE PanelInv
  OBVIOUS
<1>1. PICK kind \in Panels : panel = Mounted(kind) /\ ask \in Requested(kind)
  BY DEF PanelInit
<1>2. /\ stored \in ItemsType /\ given = [items |-> stored, news |-> {}]
      /\ given \in [items : ItemsType, news : SUBSET Items]
      /\ given.items = stored /\ given.news = {}
  BY DEF PanelInit, ItemsType
<1>3. /\ panel \in PanelType /\ panel.kind = kind /\ panel.overlapped = FALSE
      /\ panel.items = IF kind = "payments" THEN NoItems ELSE stored
      /\ panel.news = IF kind = "payments" THEN Items ELSE {}
  BY <1>1, <1>2, NoAskTyped DEF Mounted, PanelType
<1>4. PICK sent : sent = [NoAsk EXCEPT !.pc = "sent"]
  OBVIOUS
<1>5. sent \in AskType /\ sent.pc = "sent" /\ sent.act = "open"
  BY <1>4, NoAskTyped DEF AskType, NoAsk
<1>6. CASE kind # "payments"
  <2>1. ask = [r \in Asks |-> NoAsk]
    BY <1>1, <1>6 DEF Requested
  <2>2. \A r \in Asks : ask[r].pc = "idle"
    BY <2>1, NoAskTyped
  <2>3. QED
    BY <1>2, <1>3, <1>6, <2>1, <2>2, NoAskTyped DEF PanelInv, PanelTyped, AskFollows
<1>7. CASE kind = "payments"
  <2>1. PICK r \in Asks : ask = [s \in Asks |-> IF s = r THEN sent ELSE NoAsk]
    BY <1>1, <1>4, <1>7 DEF Requested
  <2>2. /\ ask[r] = sent /\ \A s \in Asks \ {r} : ask[s] = NoAsk
        /\ ask \in [Asks -> AskType]
    BY <1>5, <2>1, NoAskTyped
  <2>3. \A s \in Asks : AskFollows(s)
    BY <1>3, <1>5, <1>7, <2>2, NoAskTyped DEF AskFollows
  <2>4. QED
    BY <1>2, <1>3, <1>7, <2>2, <2>3 DEF PanelInv, PanelTyped
<1>8. QED
  BY <1>6, <1>7

LEMMA ReopenStep == ASSUME PanelInv, ReopenPanel PROVE PanelInv'
<1>1. /\ panel.kind \in Panels /\ stored' = stored /\ given' = given
      /\ panel' = Mounted(panel.kind) /\ ask' \in Requested(panel.kind)
  BY DEF PanelInv, PanelTyped, PanelType, ReopenPanel
<1>2. PICK kind \in Panels : kind = panel.kind
  BY <1>1
<1>3. panel' = Mounted(kind)' /\ ask' \in Requested(kind)
  BY <1>1, <1>2 DEF Mounted
<1>4. QED
  BY <1>1, <1>3, PanelOpens DEF PanelInv, PanelTyped

\* A request is sent: it crosses those under way.
LEMMA RequestStep ==
    ASSUME PanelInv, NEW act \in {"put", "remove"}, NEW i \in Items,
           NEW body \in Bodies \cup {Nothing}, Ask(act, i, body),
           stored' = stored, given' = given, panel' \in PanelType,
           panel'.kind = panel.kind, panel'.items = panel.items,
           panel'.overlapped = panel.overlapped, panel'.news = panel.news,
           panel.removing # Nothing => panel'.removing # Nothing,
           panel.kind = "notes" =>
               /\ act = "put" => panel.items[i] = Nothing
               /\ act = "remove" => panel'.removing # Nothing
               /\ \A s \in Asks : ask[s].pc # "idle" =>
                      ask[s].item # i /\ ~(ask[s].act = "remove" /\ act = "remove")
    PROVE  PanelInv'
<1>1. PICK r \in Asks \ InFlight :
        ask' = [s \in Asks |->
            IF s = r THEN [pc |-> "sent", act |-> act, item |-> i, body |-> body,
                           seen |-> panel.items, news |-> {}, alone |-> Idle]
            ELSE [ask[s] EXCEPT !.alone = s \notin InFlight]]
  BY DEF Ask
<1>2. PICK new : new = [pc |-> "sent", act |-> act, item |-> i, body |-> body,
                        seen |-> panel.items, news |-> {}, alone |-> Idle]
  OBVIOUS
<1>3. panel \in PanelType /\ ask \in [Asks -> AskType]
  BY DEF PanelInv, PanelTyped
<1>4. Idle \in BOOLEAN
  BY DEF Idle
<1>5. /\ new \in AskType /\ new.pc = "sent" /\ new.act = act /\ new.item = i
      /\ new.seen = panel.items /\ (new.alone <=> Idle)
  BY <1>2, <1>3, <1>4 DEF AskType, PanelType
<1>6. ASSUME NEW s \in Asks \ {r}
      PROVE  /\ ask'[s] \in AskType /\ ask'[s].pc = ask[s].pc /\ ask'[s].act = ask[s].act
             /\ ask'[s].item = ask[s].item /\ ask'[s].body = ask[s].body
             /\ ask'[s].seen = ask[s].seen /\ ask'[s].news = ask[s].news
             /\ ask[s].pc # "idle" => ~ask'[s].alone
  <2>1. ask'[s] = [ask[s] EXCEPT !.alone = s \notin InFlight]
    BY <1>1
  <2>2. ask[s] \in AskType /\ (s \notin InFlight) \in BOOLEAN
    BY <1>3
  <2>3. ask[s].pc # "idle" => s \in InFlight
    BY DEF InFlight
  <2>4. QED
    BY <2>1, <2>2, <2>3 DEF AskType
<1>7. ask'[r] = new /\ ask' \in [Asks -> AskType] /\ ask[r].pc = "idle"
  <2>1. ask' = [s \in Asks |-> ask'[s]] /\ ask'[r] = new
    BY <1>1, <1>2
  <2>2. ask[r].pc = "idle"
    BY <1>1 DEF InFlight
  <2>3. QED
    BY <1>5, <1>6, <2>1, <2>2
<1>8. PanelTyped'
  BY <1>7 DEF PanelInv, PanelTyped
<1>9. AskFollows(r)'
  <2>1. Idle => \A s \in Asks \ {r} : ask'[s].pc = "idle"
    BY <1>6 DEF Idle, InFlight
  <2>2. panel.kind = "notes" => NoteIsItsOwn(r)'
    BY <1>5, <1>6, <1>7 DEF NoteIsItsOwn
  <2>3. QED
    BY <1>5, <1>7, <2>1, <2>2 DEF AskFollows
<1>10. ASSUME NEW s \in Asks \ {r} PROVE AskFollows(s)'
  <2>1. AskFollows(s)
    BY DEF PanelInv
  <2>2. panel.kind = "notes" /\ ask[s].pc # "idle" => NoteIsItsOwn(s)'
    <3>1. SUFFICES ASSUME panel.kind = "notes", ask[s].pc # "idle" PROVE NoteIsItsOwn(s)'
      OBVIOUS
    <3>2. NoteIsItsOwn(s) /\ ask[s].item # i /\ ~(ask[s].act = "remove" /\ act = "remove")
      BY <2>1, <3>1 DEF AskFollows
    <3>3. QED
      BY <1>5, <1>6, <1>7, <3>2 DEF NoteIsItsOwn
  <2>3. QED
    BY <1>6, <2>1, <2>2 DEF AskFollows
<1>11. ASSUME NEW j \in Items, NEW s \in Asks, WroteIt(s, j) PROVE WroteIt(s, j)'
  BY <1>6, <1>7, <1>11 DEF WroteIt
<1>12. QED
  BY <1>8, <1>9, <1>10, <1>11 DEF PanelInv

LEMMA SubmitStep == ASSUME PanelInv, SubmitItem PROVE PanelInv'
<1>1. PICK i \in Items, body \in Bodies :
          /\ Unused(i) \/ (panel.kind # "notes" /\ panel.items[i] # Nothing)
          /\ Ask("put", i, body)
  BY DEF SubmitItem
<1>2. panel' = panel /\ stored' = stored /\ given' = given /\ panel \in PanelType
  BY DEF SubmitItem, PanelInv, PanelTyped
<1>3. panel.kind = "notes" =>
          /\ panel.items[i] = Nothing
          /\ \A s \in Asks : ask[s].pc # "idle" => ask[s].item # i
  BY <1>1 DEF Unused, InFlight
<1>4. QED
  BY <1>1, <1>2, <1>3, RequestStep

LEMMA RemoveStep == ASSUME PanelInv, RemoveItem PROVE PanelInv'
<1>1. PICK i \in Items : /\ panel.items[i] # Nothing /\ Ask("remove", i, Nothing)
                         /\ panel' = [panel EXCEPT !.removing = i]
  BY DEF RemoveItem
<1>2. /\ panel' \in PanelType /\ panel'.kind = panel.kind /\ panel'.items = panel.items
      /\ panel'.overlapped = panel.overlapped /\ panel'.news = panel.news
      /\ panel'.removing = i
  BY <1>1 DEF PanelInv, PanelTyped, PanelType
<1>3. i # Nothing
  BY PageDataAssumption
<1>4. stored' = stored /\ given' = given
  BY DEF RemoveItem
<1>5. panel.kind = "notes" => \A s \in Asks : ask[s].pc # "idle" =>
          ask[s].item # i /\ ask[s].act # "remove"
  <2>1. SUFFICES ASSUME panel.kind = "notes", NEW s \in Asks, ask[s].pc # "idle"
                 PROVE  ask[s].item # i /\ ask[s].act # "remove"
    OBVIOUS
  <2>2. panel.removing = Nothing
    BY <2>1 DEF RemoveItem
  <2>3. NoteIsItsOwn(s) /\ ask[s].act # "open"
    BY <2>1 DEF PanelInv, AskFollows
  <2>4. ask[s].act \in {"open", "put", "remove"}
    BY DEF PanelInv, PanelTyped, AskType
  <2>5. QED
    BY <1>1, <2>2, <2>3, <2>4 DEF NoteIsItsOwn
<1>6. QED
  BY <1>1, <1>2, <1>3, <1>4, <1>5, RequestStep

\* The server does what it is asked for.
LEMMA WriteStep == ASSUME PanelInv, NEW r \in Asks, WriteItem(r) PROVE PanelInv'
<1>1. PICK i, body, pc :
          /\ i = ask[r].item /\ body = ask[r].body
          /\ pc = IF panel.kind = "payments" THEN "written" ELSE "answered"
  OBVIOUS
<1>2. /\ ask[r].pc = "sent" /\ ask[r].act # "open" /\ stored' = [stored EXCEPT ![i] = body]
      /\ given' = [given EXCEPT !.news = @ \cup {i}] /\ panel' = panel
      /\ ask' = [ask EXCEPT ![r].news = {}, ![r].pc = pc]
  BY <1>1 DEF WriteItem
<1>3. /\ AskFollows(r) /\ ask[r] \in AskType /\ ask \in [Asks -> AskType]
      /\ stored \in ItemsType /\ given \in [items : ItemsType, news : SUBSET Items]
  BY DEF PanelInv, PanelTyped
<1>4. i \in Items /\ body \in Bodies \cup {Nothing}
  BY <1>1, <1>2, <1>3 DEF AskFollows, AskType
<1>5. /\ stored' \in ItemsType /\ stored'[i] = body
      /\ \A j \in Items \ {i} : stored'[j] = stored[j]
  BY <1>2, <1>3, <1>4 DEF ItemsType
<1>6. /\ given' \in [items : ItemsType, news : SUBSET Items] /\ given'.items = given.items
      /\ given'.news = given.news \cup {i}
  BY <1>2, <1>3, <1>4
<1>7. PICK new : new = [ask[r] EXCEPT !.news = {}, !.pc = pc]
  OBVIOUS
<1>8. /\ new \in AskType /\ new.pc = pc /\ new.news = {} /\ new.act = ask[r].act
      /\ new.item = i /\ new.body = body /\ new.seen = ask[r].seen
      /\ new.alone = ask[r].alone
  BY <1>1, <1>3, <1>7 DEF AskType
<1>9. /\ ask'[r] = new /\ ask' \in [Asks -> AskType]
      /\ \A s \in Asks \ {r} : ask'[s] = ask[s]
  <2>1. ask' = [ask EXCEPT ![r] = new]
    BY <1>2, <1>3, <1>7
  <2>2. QED
    BY <1>3, <1>8, <2>1
<1>10. PanelTyped'
  BY <1>2, <1>5, <1>6, <1>9 DEF PanelInv, PanelTyped
<1>11. AskFollows(r)'
  <2>1. panel.kind = "notes" => NoteIsItsOwn(r)'
    BY <1>1, <1>2, <1>3, <1>8, <1>9 DEF AskFollows, NoteIsItsOwn
  <2>2. QED
    BY <1>1, <1>2, <1>3, <1>4, <1>5, <1>8, <1>9, <2>1 DEF AskFollows
<1>12. ASSUME NEW s \in Asks \ {r}, ask[s].pc # "idle" PROVE AskFollows(s)'
  <2>1. AskFollows(s) /\ ~ask[s].alone
    BY <1>2, <1>12 DEF PanelInv, AskFollows
  <2>2. panel.kind = "notes" => NoteIsItsOwn(s)' /\ ask[s].item # i
    BY <1>1, <1>2, <1>3, <1>8, <1>9, <1>12, <2>1 DEF AskFollows, NoteIsItsOwn
  <2>3. QED
    BY <1>2, <1>5, <1>9, <2>1, <2>2 DEF AskFollows
<1>13. \A s \in Asks : AskFollows(s)'
  BY <1>9, <1>11, <1>12 DEF AskFollows
<1>14. WroteIt(r, i)'
  BY <1>1, <1>2, <1>8, <1>9 DEF WroteIt
<1>15. ASSUME NEW j \in Items, NEW s \in Asks, WroteIt(s, j) PROVE WroteIt(s, j)'
  BY <1>2, <1>9, <1>15 DEF WroteIt
<1>16. \A j \in Items \ given'.news : given'.items[j] = stored'[j]
  BY <1>5, <1>6 DEF PanelInv
<1>17. QED
  BY <1>2, <1>5, <1>10, <1>13, <1>14, <1>15, <1>16 DEF PanelInv

\* Payments are read.
LEMMA ReadStep == ASSUME PanelInv, NEW r \in Asks, ReadItems(r) PROVE PanelInv'
<1>1. /\ panel.kind = "payments" /\ stored' = stored /\ given' = given /\ panel' = panel
      /\ ask[r].pc # "idle"
      /\ ask[r].act # "open" => ask[r].pc \in {"written", "answered"}
      /\ ask' = [ask EXCEPT ![r].pc = "answered", ![r].seen = stored, ![r].news = {}]
  BY DEF ReadItems
<1>2. /\ AskFollows(r) /\ ask[r] \in AskType /\ ask \in [Asks -> AskType]
      /\ stored \in ItemsType
  BY DEF PanelInv, PanelTyped
<1>3. PICK new : new = [ask[r] EXCEPT !.pc = "answered", !.seen = stored, !.news = {}]
  OBVIOUS
<1>4. /\ new \in AskType /\ new.pc = "answered" /\ new.news = {} /\ new.act = ask[r].act
      /\ new.item = ask[r].item /\ new.seen = stored /\ new.alone = ask[r].alone
  BY <1>2, <1>3 DEF AskType
<1>5. /\ ask'[r] = new /\ ask' \in [Asks -> AskType]
      /\ \A s \in Asks \ {r} : ask'[s] = ask[s]
  <2>1. ask' = [ask EXCEPT ![r] = new]
    BY <1>1, <1>2, <1>3
  <2>2. QED
    BY <1>2, <1>4, <2>1
<1>6. PanelTyped'
  BY <1>1, <1>5 DEF PanelInv, PanelTyped
<1>7. ASSUME NEW s \in Asks PROVE AskFollows(s)'
  <2>1. AskFollows(s)
    BY DEF PanelInv
  <2>2. CASE s = r
    BY <1>1, <1>2, <1>4, <1>5, <2>2 DEF AskFollows
  <2>3. CASE s # r
    BY <1>1, <1>4, <1>5, <2>1, <2>3 DEF AskFollows
  <2>4. QED
    BY <2>2, <2>3
<1>8. ASSUME NEW j \in Items, NEW s \in Asks, WroteIt(s, j) PROVE WroteIt(s, j)'
  BY <1>4, <1>5, <1>8 DEF WroteIt
<1>9. QED
  BY <1>1, <1>6, <1>7, <1>8 DEF PanelInv

\* What is left of the others once a request has ended.
LEMMA OthersFollow ==
    ASSUME PanelInv, NEW r \in Asks, r \in InFlight, ask' = [ask EXCEPT ![r] = NoAsk],
           stored' = stored, panel'.kind = panel.kind,
           panel'.removing = AfterEnd(r),
           panel.kind = "notes" => \A s \in Asks \ {r} : ask[s].pc # "idle" =>
               panel'.items[ask[s].item] = panel.items[ask[s].item]
    PROVE  /\ \A s \in Asks : AskFollows(s)'
           /\ ask' \in [Asks -> AskType]
           /\ \A s \in Asks \ {r} : ask'[s] = ask[s]
           /\ ask[r].alone => \A s \in Asks \ {r} : ask[s].pc = "idle"
<1>1. AskFollows(r) /\ ask \in [Asks -> AskType] /\ ask[r].pc # "idle"
  BY DEF PanelInv, PanelTyped, InFlight
<1>2. /\ ask' \in [Asks -> AskType] /\ ask'[r] = NoAsk
      /\ \A s \in Asks \ {r} : ask'[s] = ask[s]
  BY <1>1, NoAskTyped
<1>3. ASSUME NEW s \in Asks \ {r}, ask[s].pc # "idle" PROVE AskFollows(s)'
  <2>1. AskFollows(s) /\ ~ask[s].alone
    BY <1>1, <1>3 DEF PanelInv, AskFollows
  <2>2. ASSUME panel.kind = "notes" PROVE NoteIsItsOwn(s)'
    <3>1. NoteIsItsOwn(s) /\ NoteIsItsOwn(r)
      BY <1>1, <1>3, <2>1, <2>2 DEF AskFollows
    <3>2. ask[s].act = "remove" => panel'.removing # Nothing
      BY <1>1, <1>3, <3>1 DEF NoteIsItsOwn, AfterEnd
    <3>3. ask[s].act = "put" => panel'.items[ask[s].item] = Nothing
      BY <1>3, <2>2, <3>1 DEF NoteIsItsOwn
    <3>4. QED
      BY <1>2, <1>3, <3>1, <3>2, <3>3, NoAskTyped DEF NoteIsItsOwn
  <2>3. QED
    BY <1>2, <1>3, <2>1, <2>2 DEF AskFollows
<1>4. \A s \in Asks : AskFollows(s)'
  BY <1>2, <1>3, NoAskTyped DEF AskFollows
<1>5. QED
  BY <1>1, <1>2, <1>4 DEF AskFollows

\* A list, with what a request said of its item or read.
LEMMA ShowStep == ASSUME PanelInv, NEW r \in Asks, ShowItems(r) PROVE PanelInv'
<1>1. PICK items, news, overlapped, removing :
          /\ items = ListAfter(r) /\ removing = AfterEnd(r)
          /\ news = (panel.news \ ToldOf(r)) \cup (ask[r].news \cap ToldOf(r))
          /\ overlapped = (/\ panel.kind # "notes"
                           /\ \/ ~ask[r].alone
                              \/ panel.kind = "notifications" /\ panel.overlapped)
  OBVIOUS
<1>2. /\ ask[r].pc = "answered" /\ ask' = [ask EXCEPT ![r] = NoAsk]
      /\ stored' = stored /\ given' = given
      /\ panel' = [panel EXCEPT !.items = items, !.removing = removing, !.news = news,
                                !.overlapped = overlapped]
  BY <1>1 DEF ShowItems
<1>3. /\ AskFollows(r) /\ ask[r] \in AskType /\ panel \in PanelType
      /\ r \in InFlight
  BY <1>2 DEF PanelInv, PanelTyped, InFlight
<1>4. PICK i : i = ask[r].item
  OBVIOUS
<1>5. panel.kind # "payments" => i \in Items
  BY <1>2, <1>3, <1>4 DEF AskFollows
<1>6. /\ panel.kind = "payments" => items = ask[r].seen
      /\ panel.kind = "notifications" => items = [ask[r].seen EXCEPT ![i] = ask[r].body]
      /\ panel.kind = "notes" => items = [panel.items EXCEPT ![i] = ask[r].body]
  BY <1>1, <1>4 DEF ListAfter
<1>7. items \in ItemsType /\ news \in SUBSET Items /\ removing \in Items \cup {Nothing}
      /\ overlapped \in BOOLEAN
  <2>1. items \in ItemsType
    <3>1. panel.kind \in {"payments", "notifications", "notes"}
      BY <1>3, PageDataAssumption DEF PanelType
    <3>2. QED
      BY <1>3, <1>6, <3>1 DEF AskType, PanelType, ItemsType
  <2>2. news \in SUBSET Items
    BY <1>1, <1>3 DEF AskType, PanelType
  <2>3. removing \in Items \cup {Nothing}
    BY <1>1, <1>3 DEF AfterEnd, PanelType
  <2>4. overlapped \in BOOLEAN
    BY <1>1
  <2>5. QED
    BY <2>1, <2>2, <2>3, <2>4
<1>8. /\ panel' \in PanelType /\ panel'.kind = panel.kind /\ panel'.items = items
      /\ panel'.removing = removing /\ panel'.news = news /\ panel'.overlapped = overlapped
  BY <1>2, <1>3, <1>7 DEF PanelType
<1>9. panel.kind = "notes" => \A s \in Asks \ {r} : ask[s].pc # "idle" =>
          items[ask[s].item] = panel.items[ask[s].item]
  <2>1. SUFFICES ASSUME panel.kind = "notes", NEW s \in Asks \ {r}, ask[s].pc # "idle"
                 PROVE  items[ask[s].item] = panel.items[ask[s].item]
    OBVIOUS
  <2>2. ask[s].item # i /\ ask[s].item \in Items
    BY <1>2, <1>3, <1>4, <2>1 DEF PanelInv, AskFollows, NoteIsItsOwn
  <2>3. QED
    BY <1>3, <1>6, <2>1, <2>2 DEF PanelType, ItemsType
<1>10. /\ \A s \in Asks : AskFollows(s)'
       /\ ask' \in [Asks -> AskType] /\ \A s \in Asks \ {r} : ask'[s] = ask[s]
       /\ ask[r].alone => \A s \in Asks \ {r} : ask[s].pc = "idle"
  <2>1. /\ panel'.kind = panel.kind /\ panel'.removing = AfterEnd(r) /\ r \in InFlight
        /\ panel.kind = "notes" => \A s \in Asks \ {r} : ask[s].pc # "idle" =>
               panel'.items[ask[s].item] = panel.items[ask[s].item]
    BY <1>1, <1>3, <1>8, <1>9
  <2>2. ask' = [ask EXCEPT ![r] = NoAsk] /\ stored' = stored
    BY <1>2
  <2>3. QED
    BY <2>1, <2>2, OthersFollow, Zenon
<1>11. PanelTyped'
  BY <1>2, <1>8, <1>10 DEF PanelInv, PanelTyped
<1>12. ASSUME ~overlapped, NEW j \in Items \ news
       PROVE  (\E s \in Asks : WroteIt(s, j)') \/ items[j] = stored[j]
  <2>1. CASE panel.kind = "payments"
    <3>1. ask[r].alone /\ j \notin ask[r].news
      BY <1>1, <1>12, <2>1 DEF ToldOf
    <3>2. QED
      BY <1>2, <1>3, <1>6, <2>1, <3>1 DEF AskFollows
  <2>2. CASE panel.kind # "payments" /\ j = i
    <3>1. i \notin ask[r].news /\ (ask[r].alone \/ panel.kind = "notes")
      BY <1>1, <1>4, <1>12, <2>2 DEF ToldOf
    <3>2. stored[i] = ask[r].body
      BY <1>2, <1>3, <1>4, <2>2, <3>1 DEF AskFollows
    <3>3. items[i] = ask[r].body
      <4>1. panel.kind \in {"notifications", "notes"}
        BY <1>3, <2>2, PageDataAssumption DEF PanelType
      <4>2. QED
        BY <1>3, <1>5, <1>6, <2>2, <4>1 DEF AskType, PanelType, ItemsType
    <3>4. QED
      BY <2>2, <3>2, <3>3
  <2>3. CASE panel.kind # "payments" /\ j # i
    <3>1. /\ j \notin panel.news /\ ~panel.overlapped
          /\ panel.kind \in {"notifications", "notes"}
      BY <1>1, <1>3, <1>4, <1>12, <2>3, PageDataAssumption DEF ToldOf, PanelInv, PanelType
    <3>2. (\E s \in Asks : WroteIt(s, j)) \/ panel.items[j] = stored[j]
      BY <1>12, <3>1 DEF PanelInv
    <3>3. items[j] = panel.items[j]
      <4>1. CASE panel.kind = "notifications"
        <5>1. ask[r].seen = panel.items
          BY <1>1, <1>2, <1>3, <1>12, <4>1 DEF AskFollows
        <5>2. QED
          BY <1>3, <1>5, <1>6, <1>12, <2>3, <4>1, <5>1 DEF PanelType, ItemsType
      <4>2. CASE panel.kind = "notes"
        BY <1>3, <1>5, <1>6, <1>12, <2>3, <4>2 DEF PanelType, ItemsType
      <4>3. QED
        BY <3>1, <4>1, <4>2
    <3>4. ASSUME NEW s \in Asks, WroteIt(s, j) PROVE WroteIt(s, j)'
      BY <1>4, <1>10, <2>3, <3>4 DEF WroteIt
    <3>5. QED
      BY <3>2, <3>3, <3>4
  <2>4. QED
    BY <2>1, <2>2, <2>3
<1>13. panel.kind = "notes" => ~overlapped
  BY <1>1
<1>14. QED
  BY <1>2, <1>8, <1>10, <1>11, <1>12, <1>13 DEF PanelInv

LEMMA FailStep == ASSUME PanelInv, NEW r \in Asks, FailAsk(r) PROVE PanelInv'
<1>1. PICK news, removing :
          /\ removing = AfterEnd(r)
          /\ news = IF ask[r].act = "open" \/ ask[r].pc = "sent" THEN panel.news
                    ELSE panel.news \cup {ask[r].item}
  OBVIOUS
<1>2. /\ r \in InFlight /\ ask' = [ask EXCEPT ![r] = NoAsk]
      /\ stored' = stored /\ given' = given
      /\ panel' = [panel EXCEPT !.removing = removing, !.news = news]
  BY <1>1 DEF FailAsk
<1>3. /\ AskFollows(r) /\ ask[r] \in AskType /\ panel \in PanelType
      /\ ask[r].pc # "idle"
  BY <1>2 DEF PanelInv, PanelTyped, InFlight
<1>4. news \in SUBSET Items /\ removing \in Items \cup {Nothing}
  BY <1>1, <1>3 DEF AfterEnd, PanelType, AskFollows
<1>5. /\ panel' \in PanelType /\ panel'.kind = panel.kind /\ panel'.items = panel.items
      /\ panel'.removing = removing /\ panel'.news = news
      /\ panel'.overlapped = panel.overlapped
  BY <1>2, <1>3, <1>4 DEF PanelType
<1>6. /\ \A s \in Asks : AskFollows(s)'
      /\ ask' \in [Asks -> AskType] /\ \A s \in Asks \ {r} : ask'[s] = ask[s]
  BY <1>1, <1>2, <1>5, OthersFollow
<1>7. PanelTyped'
  BY <1>2, <1>5, <1>6 DEF PanelInv, PanelTyped
<1>8. ASSUME NEW j \in Items \ news, NEW s \in Asks, WroteIt(s, j) PROVE WroteIt(s, j)'
  <2>1. s # r
    BY <1>1, <1>3, <1>8 DEF WroteIt
  <2>2. QED
    BY <1>6, <1>8, <2>1 DEF WroteIt
<1>9. panel.news \subseteq news
  BY <1>1
<1>10. QED
  BY <1>2, <1>5, <1>6, <1>7, <1>8, <1>9 DEF PanelInv

\* Something changes elsewhere: it is news to everyone.
LEMMA ElsewhereStep == ASSUME PanelInv, ChangeElsewhere PROVE PanelInv'
<1>1. PICK i \in Items, body \in Bodies \cup {Nothing} :
          /\ stored' = [stored EXCEPT ![i] = body]
          /\ given' = [given EXCEPT !.news = @ \cup {i}]
          /\ panel' = [panel EXCEPT !.news = @ \cup {i}]
          /\ ask' = [r \in Asks |->
                 IF r \in InFlight THEN [ask[r] EXCEPT !.news = @ \cup {i}] ELSE ask[r]]
  BY DEF ChangeElsewhere
<1>2. /\ stored \in ItemsType /\ given \in [items : ItemsType, news : SUBSET Items]
      /\ panel \in PanelType /\ ask \in [Asks -> AskType]
  BY DEF PanelInv, PanelTyped
<1>3. stored' \in ItemsType /\ \A j \in Items \ {i} : stored'[j] = stored[j]
  BY <1>1, <1>2 DEF ItemsType
<1>4. /\ given' \in [items : ItemsType, news : SUBSET Items] /\ given'.items = given.items
      /\ given'.news = given.news \cup {i}
  BY <1>1, <1>2
<1>5. /\ panel' \in PanelType /\ panel'.kind = panel.kind /\ panel'.items = panel.items
      /\ panel'.removing = panel.removing /\ panel'.news = panel.news \cup {i}
      /\ panel'.overlapped = panel.overlapped
  BY <1>1, <1>2 DEF PanelType
<1>6. ASSUME NEW r \in Asks
      PROVE  /\ ask'[r] \in AskType /\ ask'[r].pc = ask[r].pc /\ ask'[r].act = ask[r].act
             /\ ask'[r].item = ask[r].item /\ ask'[r].body = ask[r].body
             /\ ask'[r].seen = ask[r].seen /\ ask'[r].alone = ask[r].alone
             /\ ask[r].pc # "idle" => ask'[r].news = ask[r].news \cup {i}
  <2>1. ask[r] \in AskType
    BY <1>2
  <2>2. CASE r \in InFlight
    <3>1. ask'[r] = [ask[r] EXCEPT !.news = @ \cup {i}]
      BY <1>1, <2>2
    <3>2. QED
      BY <2>1, <3>1 DEF AskType
  <2>3. CASE r \notin InFlight
    BY <1>1, <2>1, <2>3 DEF InFlight
  <2>4. QED
    BY <2>2, <2>3
<1>7. PanelTyped'
  <2>1. ask' = [r \in Asks |-> ask'[r]]
    BY <1>1
  <2>2. QED
    BY <1>3, <1>4, <1>5, <1>6, <2>1 DEF PanelTyped
<1>8. ASSUME NEW r \in Asks PROVE AskFollows(r)'
  <2>1. AskFollows(r)
    BY DEF PanelInv
  <2>2. panel.kind = "notes" /\ ask[r].pc # "idle" => NoteIsItsOwn(r)'
    BY <1>5, <1>6, <2>1 DEF AskFollows, NoteIsItsOwn
  <2>3. QED
    BY <1>3, <1>5, <1>6, <2>1, <2>2 DEF AskFollows
<1>9. ASSUME NEW j \in Items, NEW s \in Asks, WroteIt(s, j) PROVE WroteIt(s, j)'
  BY <1>6, <1>9 DEF WroteIt
<1>10. QED
  BY <1>3, <1>4, <1>5, <1>7, <1>8, <1>9 DEF PanelInv

LEMMA RenderStep == ASSUME PanelInv, RenderPage PROVE PanelInv'
<1>1. /\ given' = [items |-> stored, news |-> {}] /\ stored' = stored /\ panel' = panel
      /\ ask' = ask
  BY DEF RenderPage
<1>2. /\ given' \in [items : ItemsType, news : SUBSET Items]
      /\ given'.items = stored
  BY <1>1 DEF PanelInv, PanelTyped
<1>3. QED
  BY <1>1, <1>2 DEF PanelInv, PanelTyped, AskFollows, NoteIsItsOwn, WroteIt

\* Every step of the panel keeps it.
LEMMA PanelStep ==
    ASSUME PanelInv, [PanelNext]_panelVars PROVE PanelInv'
<1>1. CASE PanelNext
  BY <1>1, SubmitStep, RemoveStep, ElsewhereStep, RenderStep, ReopenStep, WriteStep, ReadStep,
     ShowStep, FailStep DEF PanelNext, PanelOpening, PanelWork, PanelMishap
<1>2. CASE UNCHANGED panelVars
  BY <1>2 DEF panelVars, PanelInv, PanelTyped, AskFollows, NoteIsItsOwn, WroteIt
<1>3. QED
  BY <1>1, <1>2

\* So both always hold.
LEMMA PagesInvariance == PageDataSpec => [](ListInv /\ PanelInv)
<1>1. PageDataInit => ListInv /\ PanelInv
  BY InitList, InitPanel DEF PageDataInit
<1>2. ListInv /\ PanelInv /\ [PageDataNext]_<<listVars, panelVars>>
          => (ListInv /\ PanelInv)'
  <2>1. [PageDataNext]_<<listVars, panelVars>> =>
            [ListNext]_listVars /\ [PanelNext]_panelVars
    BY DEF PageDataNext
  <2>2. QED
    BY <2>1, ListStep, PanelStep
<1>3. QED
  BY <1>1, <1>2, PTL DEF PageDataSpec

\* The types of the list and its requests and of the panel and its actions.
THEOREM PageDataTypes == PageDataSpec => []PageDataTypeOK
<1>1. ListInv /\ PanelInv => PageDataTypeOK
  BY DEF ListInv, ListTyped, PanelInv, PanelTyped, PanelType, AskType, ItemsType,
         PageDataTypeOK
<1>2. QED
  BY <1>1, PagesInvariance, PTL

\* A list shows what is searched for, or nothing where its request failed, and one that is
\* loading has a request whose answer is still to be taken; a panel shows what is stored, but
\* for what changed elsewhere since it was read, what an answer that was lost would have
\* told, and what is lost when requests for payments or notifications cross.
THEOREM PagesAreRight == PageDataSpec => []PagesShowTheData
<1>1. ListInv => ListShowsWhatIsAsked
  BY DEF ListInv
<1>2. PanelInv => PanelShowsTheCase
  BY DEF PanelInv, PanelShowsTheCase, Idle, InFlight, WroteIt
<1>3. QED
  BY <1>1, <1>2, PagesInvariance, PTL DEF PagesShowTheData
-----------------------------------------------------------------------------
(* Amounts: the inductive invariant                                        *)

\* The texts a field may have: typed ones as formatMoneyInput leaves them, loaded ones
\* with two digits after the mark.
FieldText(t) ==
    /\ t.mark = "none" => t.fraction = << >>
    /\ t.mark = "comma" => Len(t.fraction) \in 0 .. 2
    /\ t.mark = "dot" => ~t.dots /\ Len(t.fraction) = 2

RecordIsSent ==
    claimed.record # Nothing =>
        /\ claimed.input \in Inputs /\ claimed.record = Sent(claimed.input)
        /\ Accepted(claimed.record)

InputInv ==
    InputTypeOK /\ FieldText(amount.text) /\ AmountStoredAsRead /\ RecordIsSent

AmountType ==
    [form : AmountForms, text : MoneyTexts, stored : Nat \cup {Nothing}, refused : BOOLEAN]

\* Digits behind others and digits of cents make a number.
LEMMA DigitsTyped ==
    ASSUME NEW n \in Nat, NEW s \in Seq(Digits)
    PROVE  AppendDigits(n, s) \in Nat /\ CentsOf(s) \in Nat
<1>1. Len(s) \in Nat /\ \A i \in 1 .. Len(s) : s[i] \in Nat
  BY DEF Digits
<1>2. CASE Len(s) = 0
  BY <1>2 DEF AppendDigits, CentsOf
<1>3. CASE Len(s) = 1
  BY <1>1, <1>3 DEF AppendDigits, CentsOf
<1>4. CASE Len(s) = 2
  BY <1>1, <1>4 DEF AppendDigits, CentsOf
<1>5. CASE Len(s) > 2
  <2>1. s[1] \in Nat /\ s[2] \in Nat /\ s[3] \in Nat
    BY <1>1, <1>5
  <2>2. Len(s) # 0 /\ Len(s) # 1 /\ Len(s) # 2
    BY <1>1, <1>5
  <2>3. /\ AppendDigits(n, s) = n * 1000 + s[1] * 100 + s[2] * 10 + s[3]
        /\ CentsOf(s) = s[1] * 10 + s[2]
    BY <2>2 DEF AppendDigits, CentsOf
  <2>4. PICK a \in Nat, b \in Nat, c \in Nat : a = s[1] /\ b = s[2] /\ c = s[3]
    BY <2>1
  <2>5. n * 1000 + a * 100 + b * 10 + c \in Nat /\ a * 10 + b \in Nat
    OBVIOUS
  <2>6. QED
    BY <2>3, <2>4, <2>5
<1>6. Len(s) = 0 \/ Len(s) = 1 \/ Len(s) = 2 \/ Len(s) > 2
  <2>1. PICK k \in Nat : k = Len(s)
    BY <1>1
  <2>2. QED
    BY <2>1
<1>7. QED
  BY <1>2, <1>3, <1>4, <1>5, <1>6

LEMMA WholeTyped ==
    ASSUME NEW n \in Nat PROVE Whole(n) \in MoneyTexts /\ FieldText(Whole(n))
BY DEF Whole, MoneyTexts, Marks, FieldText

\* What formatMoneyInput makes of any text is a text a field may have.
LEMMA Formatted ==
    ASSUME NEW t \in MoneyTexts
    PROVE  FormatMoneyInput(t) \in MoneyTexts /\ FieldText(FormatMoneyInput(t))
<1>1. t.whole \in Nat /\ t.fraction \in Seq(Digits)
  BY DEF MoneyTexts
<1>2. CASE t.mark = "comma"
  <2> DEFINE n == IF Len(t.fraction) < 2 THEN Len(t.fraction) ELSE 2
             cut == SubSeq(t.fraction, 1, n)
  <2>1. n \in 0 .. Len(t.fraction) /\ n <= 2
    BY <1>1
  <2>2. cut \in Seq(Digits) /\ Len(cut) = n
    BY <1>1, <2>1, SubSeqProperties
  <2> HIDE DEF cut
  <2>3. FormatMoneyInput(t) = [whole |-> t.whole, dots |-> t.whole >= 1000,
                               mark |-> "comma", fraction |-> cut]
    BY <1>2 DEF FormatMoneyInput, cut
  <2>4. (t.whole >= 1000) \in BOOLEAN /\ n \in 0 .. 2
    <3>1. PICK len \in Nat : len = Len(t.fraction)
      BY <1>1
    <3>2. (IF len < 2 THEN len ELSE 2) \in 0 .. 2
      OBVIOUS
    <3>3. QED
      BY <1>1, <3>1, <3>2
  <2>5. FormatMoneyInput(t) \in MoneyTexts
    BY <1>1, <2>2, <2>3, <2>4 DEF MoneyTexts, Marks
  <2>6. FieldText(FormatMoneyInput(t))
    BY <2>2, <2>3, <2>4 DEF FieldText
  <2>7. QED
    BY <2>5, <2>6
<1>3. CASE t.mark # "comma"
  BY <1>1, <1>3, DigitsTyped, WholeTyped DEF FormatMoneyInput
<1>4. QED
  BY <1>2, <1>3

\* What the readings of a text yield.
LEMMA Readings ==
    ASSUME NEW t \in MoneyTexts
    PROVE  /\ ParseMoneyToCents(t) # Nothing =>
                  ParseMoneyToCents(t) \in Nat /\ ParseMoneyToCents(t) <= MaxMoney
           /\ DecimalNumber(t) # Nothing =>
                  DecimalNumber(t) \in Nat /\ DecimalNumber(t) <= MaxMoney
<1>1. t.whole \in Nat /\ t.fraction \in Seq(Digits) /\ MaxMoney \in Nat
  BY InputAssumption DEF MoneyTexts
<1>2. CentsOf(t.fraction) \in Nat /\ AppendDigits(t.whole, t.fraction) \in Nat
  BY <1>1, DigitsTyped
<1>3. (t.whole + 5) \div 10 \in Nat
  BY <1>1
<1>4. QED
  <2>1. ASSUME ParseMoneyToCents(t) # Nothing
        PROVE  ParseMoneyToCents(t) \in Nat /\ ParseMoneyToCents(t) <= MaxMoney
    BY <1>1, <1>2, <2>1, SMT DEF ParseMoneyToCents
  <2>2. ASSUME DecimalNumber(t) # Nothing
        PROVE  DecimalNumber(t) \in Nat /\ DecimalNumber(t) <= MaxMoney
    BY <1>1, <1>2, <1>3, <2>2, SMT DEF DecimalNumber
  <2>3. QED
    BY <2>1, <2>2

\* Where no dots group digits without a comma, the insurance form reads a text of a
\* field as the others do, but for a text that they refuse.
LEMMA ReadAlike ==
    ASSUME NEW t \in MoneyTexts, FieldText(t), ~(t.dots /\ t.mark = "none"),
           DecimalNumber(t) # Nothing
    PROVE  ParseMoneyToCents(t) \in {DecimalNumber(t), Nothing}
<1>1. t.whole \in Nat /\ t.fraction \in Seq(Digits) /\ t.mark \in Marks
  BY DEF MoneyTexts
<1>2. Len(t.fraction) \in 0 .. 2
  <2>1. t.mark = "none" => Len(t.fraction) = 0
    BY DEF FieldText
  <2>2. 0 \in 0 .. 2 /\ 2 \in 0 .. 2
    OBVIOUS
  <2>3. QED
    BY <1>1, <2>1, <2>2 DEF FieldText, Marks
<1>3. CentsOf(t.fraction) \in Nat
  BY <1>1, DigitsTyped
<1>4. DecimalNumber(t) = t.whole * 100 + CentsOf(t.fraction)
  BY <1>1, <1>2, <1>3, SMT DEF DecimalNumber
<1>5. ~(Len(t.fraction) > 2)
  <2>1. PICK k \in 0 .. 2 : k = Len(t.fraction)
    BY <1>2
  <2>2. ~(k > 2)
    OBVIOUS
  <2>3. QED
    BY <2>1, <2>2
<1>6. QED
  BY <1>4, <1>5 DEF ParseMoneyToCents

\* The writings of a stored amount; the one with a comma is read as that amount.
LEMMA Writings ==
    ASSUME NEW c \in Nat
    PROVE  /\ CentsToMoneyString(c) \in MoneyTexts /\ FieldText(CentsToMoneyString(c))
           /\ ToFixed(c) \in MoneyTexts /\ FieldText(ToFixed(c))
           /\ c <= MaxMoney => ParseMoneyToCents(CentsToMoneyString(c)) = c
<1>1. /\ c \div 100 \in Nat /\ (c % 100) \div 10 \in Digits /\ c % 10 \in Digits
      /\ (c \div 100) * 100 + ((c % 100) \div 10) * 10 + (c % 10) = c
  BY DEF Digits
<1> DEFINE w == c \div 100
           s == <<(c % 100) \div 10, c % 10>>
<1>2. /\ s \in Seq(Digits) /\ Len(s) = 2 /\ CentsOf(s) = ((c % 100) \div 10) * 10 + (c % 10)
      /\ s # << >>
  BY <1>1 DEF CentsOf
<1>3. CentsToMoneyString(c) =
          [whole |-> w, dots |-> w >= 1000, mark |-> "comma", fraction |-> s]
  BY DEF CentsToMoneyString
<1>4. /\ w \in Nat /\ (w >= 1000) \in BOOLEAN
      /\ w * 100 + CentsOf(s) = c
  BY <1>1, <1>2
<1> HIDE DEF w, s
<1>5. PICK text : text = CentsToMoneyString(c)
  OBVIOUS
<1>6. /\ text \in MoneyTexts /\ text.whole = w /\ text.mark = "comma" /\ text.fraction = s
  BY <1>2, <1>3, <1>4, <1>5 DEF MoneyTexts, Marks
<1>7. FieldText(text)
  <2>1. Len(text.fraction) = 2 /\ 2 \in 0 .. 2
    BY <1>2, <1>6
  <2>2. QED
    BY <1>6, <2>1 DEF FieldText
<1>8. PICK fixed : fixed = [text EXCEPT !.dots = FALSE, !.mark = "dot"]
  OBVIOUS
<1>9. /\ fixed \in MoneyTexts /\ fixed.dots = FALSE /\ fixed.mark = "dot"
      /\ fixed.fraction = s
  BY <1>6, <1>8 DEF MoneyTexts, Marks
<1>10. FieldText(fixed)
  BY <1>2, <1>9 DEF FieldText
<1>11. ToFixed(c) = fixed
  BY <1>5, <1>8 DEF ToFixed
<1>12. c <= MaxMoney => ParseMoneyToCents(text) = c
  <2>1. ~(Len(text.fraction) > 2)
    BY <1>2, <1>6, ~(2 > 2)
  <2>2. text.whole * 100 + CentsOf(text.fraction) = c
    BY <1>4, <1>6
  <2>3. text.mark # "none" /\ text.fraction # << >>
    BY <1>2, <1>6
  <2>4. QED
    BY <2>1, <2>2, <2>3, InputAssumption, SMT DEF ParseMoneyToCents
<1>13. QED
  BY <1>5, <1>6, <1>7, <1>9, <1>10, <1>11, <1>12

\* The invariant holds of the beginning.
LEMMA InitInput == InputInit => InputInv
<1> SUFFICES ASSUME InputInit PROVE InputInv
  OBVIOUS
<1>1. Whole(0) \in MoneyTexts /\ FieldText(Whole(0))
  BY WholeTyped
<1>2. /\ amount \in AmountType /\ amount.text = Whole(0) /\ amount.stored = Nothing
      /\ claimed = [input |-> Nothing, record |-> Nothing]
  BY <1>1 DEF InputInit, AmountType
<1>3. InputTypeOK
  BY <1>2 DEF InputTypeOK, AmountType
<1>4. QED
  BY <1>1, <1>2, <1>3 DEF InputInv, AmountStoredAsRead, AmountReadIsStored, RecordIsSent

\* What a step of the field has to show of it.
LEMMA FieldStep ==
    ASSUME InputInv, claimed' = claimed, amount' \in AmountType,
           amount'.stored # Nothing => amount'.stored <= MaxMoney,
           FieldText(amount'.text),
           amount'.stored # Nothing =>
               \/ amount'.form = "insurance" /\ amount'.text.dots /\ amount'.text.mark = "none"
               \/ ParseMoneyToCents(amount'.text) \in {amount'.stored, Nothing}
    PROVE  InputInv'
<1>1. InputTypeOK'
  BY DEF InputInv, InputTypeOK, AmountType
<1>2. RecordIsSent'
  BY DEF InputInv, RecordIsSent
<1>3. AmountStoredAsRead'
  BY DEF AmountStoredAsRead, AmountReadIsStored
<1>4. QED
  BY <1>1, <1>2, <1>3 DEF InputInv

\* The text changes and nothing is stored for it yet.
LEMMA TextStep ==
    ASSUME InputInv, NEW t \in MoneyTexts, FieldText(t), claimed' = claimed,
           NEW refused \in BOOLEAN,
           amount' = [amount EXCEPT !.text = t, !.stored = Nothing, !.refused = refused]
    PROVE  InputInv'
<1>1. amount \in AmountType
  BY DEF InputInv, InputTypeOK, AmountType
<1>2. amount' \in AmountType /\ amount'.text = t /\ amount'.stored = Nothing
  BY <1>1 DEF AmountType
<1>3. QED
  BY <1>2, FieldStep

LEMMA TypeStep ==
    ASSUME InputInv, TypeAmount \/ TypeDigit \/ LoadAmount PROVE InputInv'
<1>1. amount \in AmountType /\ amount.text \in MoneyTexts
  BY DEF InputInv, InputTypeOK, AmountType
<1>2. CASE TypeAmount
  <2>1. PICK t \in Texts : amount' = [amount EXCEPT !.text = FormatMoneyInput(t),
                                      !.stored = Nothing, !.refused = FALSE]
    BY <1>2 DEF TypeAmount
  <2>2. FormatMoneyInput(t) \in MoneyTexts /\ FieldText(FormatMoneyInput(t))
    BY InputAssumption, Formatted
  <2>3. QED
    BY <1>2, <2>1, <2>2, TextStep DEF TypeAmount
<1>3. CASE TypeDigit
  <2> DEFINE t == amount.text
             longer(d) == IF t.mark = "none" THEN [t EXCEPT !.whole = @ * 10 + d]
                          ELSE [t EXCEPT !.fraction = Append(@, d)]
  <2>1. PICK d \in {0, 5} : amount' = [amount EXCEPT !.text = FormatMoneyInput(longer(d)),
                                       !.stored = Nothing, !.refused = FALSE]
    BY <1>3 DEF TypeDigit
  <2>2. /\ t.whole \in Nat /\ t.fraction \in Seq(Digits) /\ d \in Digits
    BY <1>1 DEF MoneyTexts, Digits
  <2>3. t.whole * 10 + d \in Nat /\ Append(t.fraction, d) \in Seq(Digits)
    <3>1. PICK n \in Nat : n = t.whole
      BY <2>2
    <3>2. n * 10 + d \in Nat
      OBVIOUS
    <3>3. QED
      BY <2>2, <3>1, <3>2
  <2>4. longer(d) \in MoneyTexts
    BY <1>1, <2>3 DEF MoneyTexts
  <2> HIDE DEF longer
  <2>5. /\ FormatMoneyInput(longer(d)) \in MoneyTexts
        /\ FieldText(FormatMoneyInput(longer(d)))
    BY <2>4, Formatted
  <2>6. QED
    BY <1>3, <2>1, <2>5, TextStep DEF TypeDigit
<1>4. CASE LoadAmount
  <2> DEFINE t == IF amount.form = "enforcement" THEN CentsToMoneyString(amount.stored)
                  ELSE ToFixed(amount.stored)
  <2>1. /\ amount.stored # Nothing /\ claimed' = claimed
        /\ amount' = [amount EXCEPT !.stored = Nothing, !.text = t]
    BY <1>4 DEF LoadAmount
  <2>2. amount.stored \in Nat
    BY <1>1, <2>1 DEF AmountType
  <2>3. t \in MoneyTexts /\ FieldText(t)
    BY <2>2, Writings
  <2> HIDE DEF t
  <2>4. amount' \in AmountType /\ amount'.text = t /\ amount'.stored = Nothing
    BY <1>1, <2>1, <2>3 DEF AmountType
  <2>5. QED
    BY <2>1, <2>3, <2>4, FieldStep
<1>5. QED
  BY <1>2, <1>3, <1>4

\* The field is left: the amount that was read is written anew.
LEMMA LeaveStep == ASSUME InputInv, LeaveField PROVE InputInv'
<1>1. amount \in AmountType /\ amount.text \in MoneyTexts
  BY DEF InputInv, InputTypeOK, AmountType
<1>2. PICK cents : cents = ParseMoneyToCents(amount.text)
  OBVIOUS
<1>3. /\ amount.form = "enforcement" /\ cents # Nothing /\ claimed' = claimed
      /\ amount' = [amount EXCEPT !.text = CentsToMoneyString(cents)]
  BY <1>2 DEF LeaveField
<1>4. cents \in Nat /\ cents <= MaxMoney
  BY <1>1, <1>2, <1>3, Readings
<1>5. PICK t : t = CentsToMoneyString(cents)
  OBVIOUS
<1>6. t \in MoneyTexts /\ FieldText(t) /\ ParseMoneyToCents(t) = cents
  BY <1>4, <1>5, Writings
<1>7. /\ amount' \in AmountType /\ amount'.text = t /\ amount'.stored = amount.stored
  BY <1>1, <1>3, <1>5, <1>6 DEF AmountType
<1>8. amount.stored # Nothing => amount.stored = cents
  BY <1>2, <1>3 DEF InputInv, AmountStoredAsRead, AmountReadIsStored
<1>9. QED
  BY <1>3, <1>4, <1>6, <1>7, <1>8, FieldStep

\* The amount is saved.
LEMMA SaveAmountStep == ASSUME InputInv, SaveAmount PROVE InputInv'
<1>1. amount \in AmountType /\ amount.text \in MoneyTexts /\ FieldText(amount.text)
  BY DEF InputInv, InputTypeOK, AmountType
<1>2. PICK cents : cents = IF amount.form = "insurance" THEN DecimalNumber(amount.text)
                           ELSE ParseMoneyToCents(amount.text)
  OBVIOUS
<1>3. PICK refused \in BOOLEAN : refused = (cents = Nothing)
  OBVIOUS
<1>4. /\ claimed' = claimed
      /\ amount' = [amount EXCEPT !.stored = cents, !.refused = refused]
  BY <1>2, <1>3 DEF SaveAmount, ServerReading
<1>5. cents # Nothing => cents \in Nat /\ cents <= MaxMoney
  BY <1>1, <1>2, Readings
<1>6. /\ amount' \in AmountType /\ amount'.text = amount.text
      /\ amount'.stored = cents /\ amount'.form = amount.form
  BY <1>1, <1>4, <1>5 DEF AmountType
<1>7. ASSUME cents # Nothing,
             ~(amount.form = "insurance" /\ amount.text.dots /\ amount.text.mark = "none")
      PROVE  ParseMoneyToCents(amount.text) \in {cents, Nothing}
  BY <1>1, <1>2, <1>7, ReadAlike
<1>8. QED
  BY <1>1, <1>4, <1>5, <1>6, <1>7, FieldStep

\* An amount divided into n installments: n equal ones and what is left over.
LEMMA Division ==
    ASSUME NEW net \in Nat, NEW n \in 1 .. 12
    PROVE  /\ net \div n \in Nat /\ net % n \in Nat
           /\ (net \div n) * (n - 1) + (net \div n) + (net % n) = net
<1>1. n \in {1, 2, 3, 4, 5, 6, 7, 8, 9, 10, 11, 12}
  OBVIOUS
<1>2. CASE n = 1
  BY <1>2
<1>3. CASE n = 2
  BY <1>3
<1>4. CASE n = 3
  BY <1>4
<1>5. CASE n = 4
  BY <1>5
<1>6. CASE n = 5
  BY <1>6
<1>7. CASE n = 6
  BY <1>7
<1>8. CASE n = 7
  BY <1>8
<1>9. CASE n = 8
  BY <1>9
<1>10. CASE n = 9
  BY <1>10
<1>11. CASE n = 10
  BY <1>11
<1>12. CASE n = 11
  BY <1>12
<1>13. CASE n = 12
  BY <1>13
<1>14. QED
  BY <1>1, <1>2, <1>3, <1>4, <1>5, <1>6, <1>7, <1>8, <1>9, <1>10, <1>11, <1>12, <1>13

\* The amounts a form sends are numbers.
LEMMA SentTyped ==
    ASSUME NEW i \in Inputs
    PROVE  /\ Sent(i).damage \in Nat /\ Sent(i).depreciation \in Nat
           /\ Sent(i).profit \in Nat /\ Sent(i).interest \in Nat /\ Sent(i).discount \in Nat
           /\ Sent(i).days \in Nat \cup {Nothing} /\ Sent(i).daily \in Nat \cup {Nothing}
           /\ Sent(i).installments \in Nat \cup {Nothing}
           /\ TotalOf(Sent(i)) \in Nat
<1>1. /\ i.damage \in Nat /\ i.depreciation \in Nat /\ i.days \in Nat /\ i.daily \in Nat
      /\ i.interest \in Nat /\ i.discount \in Nat /\ i.installments \in Nat \cup {Nothing}
  BY InputAssumption
<1>2. i.days * i.daily \in Nat
  BY <1>1
<1>3. Profit(i) \in Nat
  BY <1>2 DEF Profit
<1>4. PICK s : s = Sent(i)
  OBVIOUS
<1>5. /\ s.damage \in Nat /\ s.depreciation \in Nat /\ s.profit \in Nat
      /\ s.interest \in Nat /\ s.discount \in Nat
      /\ s.days \in Nat \cup {Nothing} /\ s.daily \in Nat \cup {Nothing}
      /\ s.installments \in Nat \cup {Nothing}
  BY <1>1, <1>3, <1>4 DEF Sent
<1>6. TotalOf(s) \in Nat
  BY <1>5 DEF TotalOf
<1>7. QED
  BY <1>4, <1>5, <1>6

\* The rules, one by one.
LEMMA InstallmentRule ==
    ASSUME NEW s, Accepted(s) PROVE s.installments = Nothing \/ s.installments \in 1 .. 12
BY Zenon DEF Accepted
LEMMA TotalRule ==
    ASSUME NEW s, Accepted(s) PROVE TotalOf(s) <= MaxMoney /\ DiscountRule(s)
BY Zenon DEF Accepted
LEMMA DiscountIsCovered ==
    ASSUME NEW s, Accepted(s) PROVE s.discount <= TotalOf(s)
BY TotalRule, Zenon DEF DiscountRule, DiscountFits
LEMMA DaysRule ==
    ASSUME NEW s, Accepted(s) PROVE s.days = Nothing \/ s.days \in LossDays
BY Zenon DEF Accepted

\* What passes the rules fits the columns.
LEMMA AcceptedFits ==
    ASSUME NEW i \in Inputs, NEW s, s = Sent(i), Accepted(s) PROVE Storable(s)
<1>1. PICK a \in Nat, b \in Nat, c \in Nat, d \in Nat, e \in Nat :
          /\ a = s.damage /\ b = s.depreciation /\ c = s.profit /\ d = s.interest
          /\ e = s.discount
  BY SentTyped
<1>2. a + b + c + d <= MaxMoney /\ e <= a + b + c + d
  BY <1>1, TotalRule, DiscountIsCovered, Zenon DEF TotalOf
<1>3. /\ a \in 0 .. MaxMoney /\ b \in 0 .. MaxMoney /\ c \in 0 .. MaxMoney
      /\ d \in 0 .. MaxMoney /\ e \in 0 .. MaxMoney
  BY <1>2, InputAssumption
<1>4. s.daily = Nothing \/ s.daily >= 0
  <2>1. s.daily \in Nat \cup {Nothing}
    BY SentTyped
  <2>2. \A x \in Nat : x >= 0
    OBVIOUS
  <2>3. QED
    BY <2>1, <2>2, Zenon
<1>5. /\ s.installments = Nothing \/ s.installments \in 1 .. 12
      /\ s.days = Nothing \/ s.days \in LossDays
      /\ s.discount <= TotalOf(s)
  BY InstallmentRule, DaysRule, DiscountIsCovered, Zenon
<1>6. QED
  BY <1>1, <1>3, <1>4, <1>5 DEF Storable

\* The sums of the server: the net amount is none below zero, and the installments and
\* the last one, whichever way it is worked out, add up to it.
LEMMA ServerAgrees ==
    ASSUME NEW i \in Inputs, NEW s, s = Sent(i), Accepted(s)
    PROVE  /\ ServerSums(s).net \in Nat /\ ShownSums(s) = ServerSums(s)
           /\ s.installments # Nothing =>
                  ServerSums(s).net = ServerSums(s).monthly * (s.installments - 1)
                                        + ServerSums(s).final
<1>1. PICK total \in Nat, discount \in Nat : total = TotalOf(s) /\ discount = s.discount
  BY SentTyped
<1>2. PICK n \in (1 .. 12) \cup {Nothing} : n = s.installments
  BY InstallmentRule
<1>3. discount <= total
  BY <1>1, DiscountIsCovered, Zenon
<1>4. PICK net \in Nat : net = total - discount
  BY <1>3
<1>5. PICK monthly : monthly = IF n = Nothing THEN Nothing ELSE net \div n
  OBVIOUS
<1>6. PICK last : last = IF n = Nothing THEN Nothing ELSE (net \div n) + (net % n)
  OBVIOUS
<1>7. ServerSums(s) = [total |-> total, net |-> net, monthly |-> monthly, final |-> last]
  BY <1>1, <1>2, <1>4, <1>5, <1>6, Zenon DEF ServerSums, Monthly, Final
<1>8. /\ ServerSums(s).net = net /\ ServerSums(s).monthly = monthly
      /\ ServerSums(s).final = last
  BY <1>7
<1>9. ASSUME n # Nothing
      PROVE  monthly * (n - 1) + last = net /\ net - monthly * (n - 1) = last
  <2>1. n \in 1 .. 12 /\ n \in Nat
    BY <1>9
  <2>2. PICK q \in Nat, r \in Nat :
            q = net \div n /\ r = net % n /\ q * (n - 1) + q + r = net
    BY <2>1, Division
  <2>3. monthly = q /\ last = q + r
    BY <1>5, <1>6, <1>9, <2>2
  <2>4. PICK x \in Int : x = q * (n - 1)
    BY <2>1
  <2>5. x + (q + r) = net /\ net - x = q + r
    <3>1. x + q + r = net
      BY <2>2, <2>4, Zenon
    <3>2. QED
      BY <3>1
  <2>6. QED
    BY <2>3, <2>4, <2>5
<1>10. last = IF n = Nothing THEN Nothing ELSE net - monthly * (n - 1)
  BY <1>6, <1>9
<1>11. last = Nothing <=> n = Nothing
  <2>1. ASSUME n # Nothing PROVE last \in Nat
    <3>1. n \in 1 .. 12
      BY <2>1
    <3>2. net \div n \in Nat /\ net % n \in Nat
      BY <3>1, Division
    <3>3. QED
      BY <1>6, <2>1, <3>2
  <2>2. QED
    BY <1>6, <2>1, InputAssumption
<1>12. ShownSums(s) = [ServerSums(s) EXCEPT !.final = last]
  BY <1>2, <1>8, <1>10, <1>11 DEF ShownSums
<1>13. [ServerSums(s) EXCEPT !.final = last] = ServerSums(s)
  <2>1. PICK sums : sums = ServerSums(s)
    OBVIOUS
  <2>2. sums \in [total : Nat, net : Nat, monthly : {monthly}, final : {last}]
    BY <1>7, <2>1
  <2>3. [sums EXCEPT !.final = last] = sums
    BY <2>2
  <2>4. QED
    BY <2>1, <2>3
<1>14. QED
  BY <1>2, <1>8, <1>9, <1>12, <1>13

\* The sums of the form, where it hides no amount.
LEMMA FormAgrees ==
    ASSUME NEW i \in Inputs, NEW s, s = Sent(i), Accepted(s), ~HidesAmount(i)
    PROVE  FormSums(i) = ServerSums(s)
<1>1. /\ i.damage \in Nat /\ i.depreciation \in Nat /\ i.interest \in Nat
      /\ i.discount \in Nat /\ i.installments \in Nat \cup {Nothing}
  BY InputAssumption
<1>2. /\ s.damage = i.damage /\ s.depreciation = i.depreciation /\ s.profit = Profit(i)
      /\ s.interest = i.interest /\ s.discount = i.discount
      /\ s.installments = i.installments
  BY DEF Sent, HidesAmount
<1>3. i.damage + i.depreciation + Profit(i) + i.interest = TotalOf(s)
  BY <1>2 DEF TotalOf
<1>4. PICK total \in Nat, discount \in Nat : total = TotalOf(s) /\ discount = s.discount
  BY SentTyped
<1>5. discount <= total
  BY <1>4, DiscountIsCovered, Zenon
<1>6. (IF total > discount THEN total - discount ELSE 0) = total - discount
  BY <1>5
<1>7. i.installments = Nothing \/ i.installments \in 1 .. 12
  BY <1>2, InstallmentRule, Zenon
<1>8. (IF i.installments \in 1 .. 12 THEN i.installments ELSE Nothing) = s.installments
  BY <1>2, <1>7, Zenon
<1>9. FormSums(i) =
          LET n == s.installments
              net == total - discount
          IN  [total |-> total, net |-> net,
               monthly |-> IF n = Nothing THEN Nothing ELSE Monthly(net, n),
               final   |-> IF n = Nothing THEN Nothing ELSE Final(net, n)]
  BY <1>2, <1>3, <1>4, <1>6, <1>8, Zenon DEF FormSums
<1>10. QED
  BY <1>4, <1>9, Zenon DEF ServerSums

\* The form is filled in and saved.
LEMMA ClaimStep == ASSUME InputInv, ClaimNext PROVE InputInv'
<1> DEFINE ClaimType == [input : Inputs \cup {Nothing}, record : SentForms \cup {Nothing}]
<1>1. amount' = amount /\ claimed \in ClaimType
  BY DEF ClaimNext, FillClaim, SaveClaimAmounts, InputInv, InputTypeOK
<1>2. claimed' \in ClaimType /\ RecordIsSent'
  <2>1. CASE FillClaim
    <3>1. PICK i \in Inputs : claimed' = [input |-> i, record |-> Nothing]
      BY <2>1 DEF FillClaim
    <3>2. QED
      BY <3>1 DEF RecordIsSent
  <2>2. CASE SaveClaimAmounts
    <3>1. PICK i : i = claimed.input
      OBVIOUS
    <3>2. PICK s : s = Sent(i)
      OBVIOUS
    <3>3. /\ i \in Inputs /\ Accepted(s) /\ claimed' = [claimed EXCEPT !.record = s]
      BY <1>1, <2>2, <3>1, <3>2 DEF SaveClaimAmounts
    <3>4. s \in SentForms
      BY <3>2, <3>3 DEF SentForms
    <3>5. claimed' \in ClaimType /\ claimed'.record = s /\ claimed'.input = i
      BY <1>1, <3>1, <3>3, <3>4
    <3>6. QED
      BY <3>2, <3>3, <3>5 DEF RecordIsSent
  <2>3. QED
    BY <2>1, <2>2 DEF ClaimNext
<1>3. InputTypeOK'
  BY <1>1, <1>2 DEF InputInv, InputTypeOK
<1>4. QED
  BY <1>1, <1>2, <1>3 DEF InputInv, AmountStoredAsRead, AmountReadIsStored

\* Every step keeps it.
LEMMA InputStep ==
    ASSUME InputInv, [InputNext]_inputVars PROVE InputInv'
<1>1. CASE AmountNext
  BY <1>1, TypeStep, LeaveStep, SaveAmountStep DEF AmountNext
<1>2. CASE ClaimNext
  BY <1>2, ClaimStep
<1>3. CASE UNCHANGED inputVars
  BY <1>3
  DEF inputVars, InputInv, InputTypeOK, AmountStoredAsRead, AmountReadIsStored, RecordIsSent
<1>4. QED
  BY <1>1, <1>2, <1>3 DEF InputNext

\* So it always holds.
LEMMA InputInvariance == InputSpec => []InputInv
BY InitInput, InputStep, PTL DEF InputSpec

\* The types of the field and the form.
THEOREM InputTypes == InputSpec => []InputTypeOK
<1>1. InputInv => InputTypeOK
  BY DEF InputInv
<1>2. QED
  BY <1>1, InputInvariance, PTL

\* The amount that is stored is the one the application reads in the text, whatever was
\* typed, left, saved and loaded, for any limit and any texts; excepted are an insurance
\* case's texts with grouping dots and no comma.
THEOREM AmountsAreStored == InputSpec => []AmountStoredAsRead
<1>1. InputInv => AmountStoredAsRead
  BY DEF InputInv
<1>2. QED
  BY <1>1, InputInvariance, PTL

\* Every enforcement case that passes the rules fits the columns, and form, server and
\* page agree on its sums and installments, for any amounts, days and numbers of
\* installments.
THEOREM SumsAlwaysAgree == InputSpec => []SumsAgree
<1>1. ASSUME InputInv PROVE SumsAgree
  <2>1. SUFFICES ASSUME claimed.record # Nothing
                 PROVE  LET s == claimed.record
                            sums == ServerSums(s)
                        IN  /\ Storable(s)
                            /\ sums.net >= 0 /\ ShownSums(s) = sums
                            /\ HidesAmount(claimed.input) \/ FormSums(claimed.input) = sums
                            /\ s.installments # Nothing =>
                                   sums.net = sums.monthly * (s.installments - 1) + sums.final
    BY DEF SumsAgree
  <2>2. PICK i \in Inputs : i = claimed.input
    BY <1>1, <2>1 DEF InputInv, RecordIsSent
  <2>3. PICK s : s = claimed.record
    OBVIOUS
  <2>4. s = Sent(i) /\ Accepted(s)
    BY <1>1, <2>1, <2>2, <2>3 DEF InputInv, RecordIsSent
  <2>5. Storable(s)
    BY <2>4, AcceptedFits
  <2>6. /\ ServerSums(s).net \in Nat /\ ShownSums(s) = ServerSums(s)
        /\ s.installments # Nothing =>
               ServerSums(s).net = ServerSums(s).monthly * (s.installments - 1)
                                     + ServerSums(s).final
    BY <2>4, ServerAgrees
  <2>7. ServerSums(s).net >= 0
    <3>1. \A n \in Nat : n >= 0
      OBVIOUS
    <3>2. QED
      BY <2>6, <3>1, Zenon
  <2>8. HidesAmount(i) \/ FormSums(i) = ServerSums(s)
    BY <2>4, FormAgrees
  <2>9. QED
    BY <2>2, <2>3, <2>5, <2>6, <2>7, <2>8, Zenon
<1>2. QED
  BY <1>1, InputInvariance, PTL
=============================================================================
