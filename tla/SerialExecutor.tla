--------------------------- MODULE SerialExecutor ---------------------------
(***************************************************************************)
(* What withSessionLock (interview.repository.ts) promises its callers:    *)
(* the operations handed in for one session run one at a time, in the      *)
(* order they were handed in, whatever the outcome of the earlier ones.    *)
(* Operations on different sessions are unrelated.  Nothing is said about  *)
(* how: no map of promises, no bookkeeping.                                *)
(***************************************************************************)

CONSTANTS Op,        \* calls of withSessionLock
          SessionOf  \* the session each call names

VARIABLES status,  \* where each operation stands
          before   \* the operations of its session called before it

vars == <<status, before>>

Settled(o) == status[o] \in {"fulfilled", "rejected"}
Called(o) == status[o] # "idle"

Init == /\ status = [o \in Op |-> "idle"]
        /\ before = [o \in Op |-> {}]

(* An operation is handed in: it comes after those already handed in.      *)
Call(o) ==
  /\ status[o] = "idle"
  /\ status' = [status EXCEPT ![o] = "queued"]
  /\ before' = [before EXCEPT ![o] =
                  {p \in Op : SessionOf[p] = SessionOf[o] /\ Called(p)}]

(* It starts when every earlier operation of its session has settled.      *)
Start(o) ==
  /\ status[o] = "queued"
  /\ \A p \in before[o] : Settled(p)
  /\ status' = [status EXCEPT ![o] = "running"]
  /\ UNCHANGED before

(* It ends, one way or the other.                                          *)
Settle(o) ==
  /\ status[o] = "running"
  /\ \E outcome \in {"fulfilled", "rejected"} :
       status' = [status EXCEPT ![o] = outcome]
  /\ UNCHANGED before

Next == \E o \in Op : Call(o) \/ Start(o) \/ Settle(o)

Spec == Init /\ [][Next]_vars

Fairness == \A o \in Op : WF_vars(Start(o) \/ Settle(o))

FairSpec == Spec /\ Fairness

=============================================================================
