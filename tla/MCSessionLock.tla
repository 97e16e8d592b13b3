--------------------------- MODULE MCSessionLock ---------------------------
(* Four calls: three on one session, so that a chain has a middle and an   *)
(* entry can be dropped and re-created, and one on another session.        *)
EXTENDS SessionLock, TLC

CONSTANTS o1, o2, o3, o4, s1, s2

MCOp == {o1, o2, o3, o4}
MCSession == {s1, s2}
MCSessionOf == o1 :> s1 @@ o2 :> s1 @@ o3 :> s1 @@ o4 :> s2

(* The three calls on s1 are interchangeable.                              *)
SameSession == Permutations({o1, o2, o3})

=============================================================================
