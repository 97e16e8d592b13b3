------------------------- MODULE MCInterviewSession -------------------------
(* Small instances of InterviewSession.  Each configuration names the      *)
(* requests it lets arrive; requests of one kind are interchangeable.      *)
EXTENDS InterviewSession, TLC

Symmetry ==
  UNION {Permutations(S) : S \in {Submit, End, Refresh, Guide, Extend}}

=============================================================================
