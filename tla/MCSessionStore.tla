--------------------------- MODULE MCSessionStore ---------------------------
(* Two sessions and a memory of one: a creation in memory evicts.          *)
EXTENDS SessionStore, TLC

CONSTANTS c1, c2, s1, s2, q1, q2, u1, u2

Symmetry == Permutations(Caller) \cup Permutations(Question) \cup Permutations(User)

(* Bound: the first session is answered, completed and claimed, until it   *)
(* is evicted or lost; the second is created beside it and evicts it.      *)
(* Calls that only read change nothing for others and are made alone,      *)
(* except the list by email, which may meet a claim; and once the session  *)
(* is in both stores, one call runs at a time.                             *)
Fresh(row) ==
  row # NoRow => row.answers = <<>> /\ row.status = "active" /\ row.owner = Nobody
Alone(c) ==
  \/ call[c].task \in {"look", "list"} \/ s1 \in split
  \/ call[c].task = "email" /\ \E d \in Caller \ {c} : call[d].task # "claim"
Busy == {c \in Caller : call[c].at # "idle"}
Explored ==
  /\ (s2 \in born => s1 \in born) /\ s1 \notin gone
  /\ Fresh(db[s2]) /\ Fresh(mem[s2])
  /\ \A c \in Busy : /\ call[c].session = s2 => call[c].arg = Nobody
                     /\ s2 \notin call[c].ids
                     /\ Alone(c) => Busy = {c}

=============================================================================
