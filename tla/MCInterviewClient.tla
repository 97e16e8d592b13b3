-------------------------- MODULE MCInterviewClient --------------------------
(* A small instance of InterviewClient; session ids are interchangeable.   *)
EXTENDS InterviewClient, TLC

Symmetry == Permutations(Session)

=============================================================================
