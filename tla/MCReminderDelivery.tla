------------------------- MODULE MCReminderDelivery -------------------------
(* Instances of ReminderDelivery for TLC.                                  *)
EXTENDS ReminderDelivery, TLC

\* Bound: one administrator may receive mail with all of the clock and of the
\* events, or two with less of both.
CONSTANTS PairMaxTime, PairMaxEvents
VARIABLE crew

CrewInit ==
    /\ Init /\ crew \in (SUBSET Admins \ {{}})
    /\ eligible \subseteq crew
CrewNext ==
    /\ Next /\ UNCHANGED crew
    /\ eligible' \subseteq crew /\ Admins \ crew \subseteq allowed'
    /\ Cardinality(crew) > 1 => clock' <= PairMaxTime /\ events' <= PairMaxEvents

CrewSpec == CrewInit /\ [][CrewNext]_<<vars, crew>>

\* Workers and administrators are interchangeable in every safety property.
Symmetry == Permutations(Workers) \cup Permutations(Admins)
=============================================================================
