---------------------------- MODULE SessionLock ----------------------------
(***************************************************************************)
(* withSessionLock of interview.repository.ts: the promise chain that      *)
(* serializes the read-modify-writes of a session.  A promise is named by  *)
(* the call that created it.  sessionLocks holds, per session, the promise *)
(* of the last call, or NoOp when the map has no entry; each call chains   *)
(* its operation on the promise it found there (its tail) and registers    *)
(* itself.  Reactions of one promise run in the order they were attached,  *)
(* and cleanup is attached before anyone else can see the promise, so it   *)
(* runs before the next operation of the chain starts.                     *)
(***************************************************************************)

CONSTANTS Op,         \* calls of withSessionLock
          Session,    \* session ids
          SessionOf,  \* the session id each call passes
          NoOp        \* no promise: an absent map entry

ASSUME SessionOfAssumption == SessionOf \in [Op -> Session]
ASSUME NoOpAssumption == NoOp \notin Op

VARIABLES status,        \* where the operation of each call stands
          tail,          \* the promise each call chained its operation on
          sessionLocks,  \* the map: session id -> last promise
          cleaned,       \* calls whose cleanup has run
          before         \* history: calls of the same session made earlier

vars == <<status, tail, sessionLocks, cleaned, before>>

Outcome == {"fulfilled", "rejected"}

TypeOK ==
  /\ status \in [Op -> {"idle", "queued", "running"} \cup Outcome]
  /\ tail \in [Op -> Op \cup {NoOp}]
  /\ sessionLocks \in [Session -> Op \cup {NoOp}]
  /\ cleaned \in SUBSET Op
  /\ before \in [Op -> SUBSET Op]

Called(o) == status[o] # "idle"
Settled(o) == status[o] \in Outcome

(* Promise.resolve() stands in for an absent entry.                        *)
TailSettled(o) == tail[o] # NoOp => Settled(tail[o]) /\ tail[o] \in cleaned

Init == /\ status = [o \in Op |-> "idle"]
        /\ tail = [o \in Op |-> NoOp]
        /\ sessionLocks = [s \in Session |-> NoOp]
        /\ cleaned = {}
        /\ before = [o \in Op |-> {}]

(* Defect: the call does not look up the promise it should wait for.       *)
CallUnchained(o) ==
  /\ status[o] = "idle"
  /\ tail' = [tail EXCEPT ![o] = NoOp]
  /\ sessionLocks' = [sessionLocks EXCEPT ![SessionOf[o]] = o]
  /\ status' = [status EXCEPT ![o] = "queued"]
  /\ before' = [before EXCEPT ![o] =
                  {p \in Op : SessionOf[p] = SessionOf[o] /\ Called(p)}]
  /\ UNCHANGED cleaned

(* The synchronous body of withSessionLock.                                *)
Call(o) ==
  /\ status[o] = "idle"
  /\ tail' = [tail EXCEPT ![o] = sessionLocks[SessionOf[o]]]
  /\ sessionLocks' = [sessionLocks EXCEPT ![SessionOf[o]] = o]
  /\ status' = [status EXCEPT ![o] = "queued"]
  /\ before' = [before EXCEPT ![o] =
                  {p \in Op : SessionOf[p] = SessionOf[o] /\ Called(p)}]
  /\ UNCHANGED cleaned

(* Defect: tail.then(fn), which runs fn only after a success.              *)
StartAfterSuccess(o) ==
  /\ status[o] = "queued"
  /\ TailSettled(o) /\ (tail[o] # NoOp => status[tail[o]] = "fulfilled")
  /\ status' = [status EXCEPT ![o] = "running"]
  /\ UNCHANGED <<tail, sessionLocks, cleaned, before>>

(* tail.then(fn, fn): fn starts whichever way the tail settled.            *)
Start(o) ==
  /\ status[o] = "queued"
  /\ TailSettled(o)
  /\ status' = [status EXCEPT ![o] = "running"]
  /\ UNCHANGED <<tail, sessionLocks, cleaned, before>>

(* Defect: an operation can be abandoned without settling its promise.     *)
SettleOrAbandon(o) ==
  /\ status[o] = "running"
  /\ \E outcome \in Outcome \cup {"abandoned"} :
       status' = [status EXCEPT ![o] = outcome]
  /\ UNCHANGED <<tail, sessionLocks, cleaned, before>>

(* The promise fn returned resolves or rejects.                            *)
Settle(o) ==
  /\ status[o] = "running"
  /\ \E outcome \in Outcome : status' = [status EXCEPT ![o] = outcome]
  /\ UNCHANGED <<tail, sessionLocks, cleaned, before>>

(* Defects: cleanup without the identity check; next.then(cleanup), which  *)
(* leaves the entry of a rejected call.                                    *)
CleanupUnchecked(o) ==
  /\ Settled(o)
  /\ o \notin cleaned
  /\ cleaned' = cleaned \cup {o}
  /\ sessionLocks' = [sessionLocks EXCEPT ![SessionOf[o]] = NoOp]
  /\ UNCHANGED <<status, tail, before>>

CleanupAfterSuccess(o) ==
  /\ Settled(o)
  /\ o \notin cleaned
  /\ cleaned' = cleaned \cup {o}
  /\ sessionLocks' =
       IF sessionLocks[SessionOf[o]] = o /\ status[o] = "fulfilled"
         THEN [sessionLocks EXCEPT ![SessionOf[o]] = NoOp]
         ELSE sessionLocks
  /\ UNCHANGED <<status, tail, before>>

(* next.then(cleanup, cleanup): the entry is dropped by the last call only. *)
Cleanup(o) ==
  /\ Settled(o)
  /\ o \notin cleaned
  /\ cleaned' = cleaned \cup {o}
  /\ sessionLocks' =
       IF sessionLocks[SessionOf[o]] = o
         THEN [sessionLocks EXCEPT ![SessionOf[o]] = NoOp]
         ELSE sessionLocks
  /\ UNCHANGED <<status, tail, before>>

(* Every call has been made and every reaction has run.                    *)
Quiet ==
  /\ cleaned = Op
  /\ UNCHANGED vars

Next == Quiet \/ \E o \in Op : Call(o) \/ Start(o) \/ Settle(o) \/ Cleanup(o)

Spec == Init /\ [][Next]_vars

(* Reactions of settled promises run, and every operation handed in ends   *)
(* (it is two database calls).  Nobody is obliged to make a call.          *)
Fairness == \A o \in Op : WF_vars(Start(o) \/ Settle(o) \/ Cleanup(o))

FairSpec == Spec /\ Fairness

-----------------------------------------------------------------------------
(* At most one read-modify-write of a session is in flight: the claim of   *)
(* the comment over sessionLocks.                                          *)
OneInFlight ==
  \A o, p \in Op :
    status[o] = "running" /\ status[p] = "running" /\ SessionOf[o] = SessionOf[p]
      => o = p

(* Operations of a session run in the order withSessionLock was called,    *)
(* even when the map entry was dropped and re-created in between.          *)
InCallOrder ==
  \A o \in Op : status[o] \notin {"idle", "queued"} =>
    \A p \in before[o] : Settled(p)

(* The map does not grow with the sessions ever written: a session whose   *)
(* operations have all settled and been cleaned up has no entry.           *)
EntryDropped ==
  \A s \in Session :
    (\A o \in Op : (SessionOf[o] = s /\ Called(o)) => o \in cleaned)
      => sessionLocks[s] = NoOp

(* Why it works (the inductive invariant of SessionLock_proofs).  The map  *)
(* entry is the last call made and not cleaned up; without an entry every  *)
(* earlier call has settled; a call's tail is its immediate predecessor;   *)
(* calls of one session are totally ordered.                               *)
ChainInv ==
  /\ \A s \in Session : sessionLocks[s] # NoOp =>
       /\ Called(sessionLocks[s])
       /\ SessionOf[sessionLocks[s]] = s
       /\ sessionLocks[s] \notin cleaned
       /\ \A p \in Op : SessionOf[p] = s /\ Called(p) =>
            p = sessionLocks[s] \/ p \in before[sessionLocks[s]]
  /\ \A s \in Session : sessionLocks[s] = NoOp =>
       \A p \in Op : SessionOf[p] = s /\ Called(p) => Settled(p)
  /\ \A o \in Op : tail[o] # NoOp =>
       \A p \in before[o] : p = tail[o] \/ p \in before[tail[o]]
  /\ \A o \in Op : tail[o] = NoOp => \A p \in before[o] : Settled(p)
  /\ \A o, p \in Op :
       o # p /\ SessionOf[o] = SessionOf[p] /\ Called(o) /\ Called(p)
         => o \in before[p] \/ p \in before[o]
  /\ \A o \in Op : \A p \in before[o] : Called(p)
  /\ \A o \in Op : ~Called(o) => before[o] = {} /\ tail[o] = NoOp
  /\ \A o \in cleaned : Settled(o)

(* No call is wedged, whatever the operations before it did.               *)
EveryCallSettles == \A o \in Op : Called(o) ~> Settled(o)

(* The promise chain implements the serial executor.                       *)
Executor == INSTANCE SerialExecutor
ExecutorSpec == Executor!Spec
ExecutorFairSpec == Executor!FairSpec

=============================================================================
