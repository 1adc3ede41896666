------------------------- MODULE MCGeneralDelivery --------------------------
(* Instances of GeneralTaskDelivery for TLC.                                *)
EXTENDS GeneralTaskDelivery, TLC

\* Workers and administrators are interchangeable in every safety property.
Symmetry == Permutations(Workers) \cup Permutations(Admins)
=============================================================================
