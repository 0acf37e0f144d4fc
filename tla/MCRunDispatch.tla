---------------------------- MODULE MCRunDispatch ----------------------------
(* Small instances of RunDispatch.                                         *)
EXTENDS RunDispatch, TLC

\* Every run is on the same ticket: triggers, resumes and rescues compete.
OneTicket  == [r \in Runs |-> CHOOSE t \in Tickets : TRUE]

\* Every run has a ticket of its own: they compete for the profile's slots.
OwnTicket  == [r \in Runs |-> r]

OneProfile == [r \in Runs |-> CHOOSE p \in Profiles : TRUE]
LimitOne   == [p \in Profiles |-> 1]

\* Runs are interchangeable: every run has the same ticket (or its own) and the
\* same profile.
RunSymmetry == Permutations(Runs)

=============================================================================
