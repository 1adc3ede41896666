-------------------------- MODULE MCRecordDeletion --------------------------
(* Instances of RecordDeletion for TLC.                                     *)
EXTENDS RecordDeletion, TLC

\* Users, uploads, requests and purges are interchangeable; cases are not, since
\* their kind tells them apart.
Symmetry ==
    Permutations(Users) \cup Permutations(AdminRequests)
    \cup Permutations(Uploads) \cup Permutations(Purgers)
=============================================================================
