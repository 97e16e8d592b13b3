------------------------------ MODULE AnswerLog ------------------------------
(***************************************************************************)
(* What a session promises the candidate about answers: an append-only log *)
(* with at most one answer per question, and an acknowledgement only for   *)
(* an answer that is in the log.                                           *)
(***************************************************************************)
EXTENDS Integers, Sequences

CONSTANTS Submit,  \* submissions
          Qid      \* question ids

VARIABLES log, acked

vars == <<log, acked>>

Init == log = <<>> /\ acked = {}

Record(r, q) ==
  /\ \A i \in DOMAIN log : log[i].question # q
  /\ log' = Append(log, [question |-> q, by |-> r])
  /\ UNCHANGED acked

Acknowledge(r) ==
  /\ \E i \in DOMAIN log : log[i].by = r
  /\ acked' = acked \cup {r}
  /\ UNCHANGED log

Next == \E r \in Submit : Acknowledge(r) \/ \E q \in Qid : Record(r, q)

Spec == Init /\ [][Next]_vars

=============================================================================
