------------------------- MODULE SessionLock_proofs -------------------------
(***************************************************************************)
(* The promise chain of withSessionLock serializes, for any number of      *)
(* calls and sessions.  The argument is ChainInv: a call's tail is its     *)
(* immediate predecessor, so when the tail has settled and its own turn    *)
(* came in order, everything before the call has settled.                  *)
(***************************************************************************)
EXTENDS SessionLock, TLAPS

(* Every variable of the chain keeps its type.                             *)
THEOREM TypeCorrect == Spec => []TypeOK
  <1>1. Init => TypeOK
    BY DEF Init, TypeOK
  <1>2. TypeOK /\ [Next]_vars => TypeOK'
    <2> SUFFICES ASSUME TypeOK, [Next]_vars PROVE TypeOK'
      OBVIOUS
    <2> USE SessionOfAssumption DEF TypeOK, Outcome
    <2>1. ASSUME NEW o \in Op, Call(o) PROVE TypeOK'
      BY <2>1 DEF Call
    <2>2. ASSUME NEW o \in Op, Start(o) PROVE TypeOK'
      BY <2>2 DEF Start
    <2>3. ASSUME NEW o \in Op, Settle(o) PROVE TypeOK'
      BY <2>3 DEF Settle
    <2>4. ASSUME NEW o \in Op, Cleanup(o) PROVE TypeOK'
      BY <2>4 DEF Cleanup
    <2>5. CASE Quiet \/ UNCHANGED vars
      BY <2>5 DEF Quiet, vars
    <2>6. QED
      BY <2>1, <2>2, <2>3, <2>4, <2>5 DEF Next
  <1>3. QED
    BY <1>1, <1>2, PTL DEF Spec

(* The invariant the serialization rests on.                               *)
Inv == TypeOK /\ ChainInv /\ InCallOrder

LEMMA InitInv == Init => Inv
  BY NoOpAssumption, SessionOfAssumption
     DEF Init, Inv, TypeOK, ChainInv, InCallOrder, Called, Settled, Outcome

(* A new call goes after everything called before it on its session.       *)
LEMMA CallInv ==
  ASSUME Inv, NEW o \in Op, Call(o), TypeOK'
  PROVE  Inv'
  <1> USE NoOpAssumption, SessionOfAssumption
      DEF Inv, TypeOK, Called, Settled, Outcome, Call
  <1>1. ChainInv'
    BY DEF ChainInv
  <1>2. InCallOrder'
    BY DEF InCallOrder, ChainInv
  <1>3. QED
    BY <1>1, <1>2

(* The turn of a call comes only after its whole prefix has settled.       *)
LEMMA StartInv ==
  ASSUME Inv, NEW o \in Op, Start(o), TypeOK'
  PROVE  Inv'
  <1> USE NoOpAssumption, SessionOfAssumption
      DEF Inv, TypeOK, Called, Settled, Outcome, Start
  <1>1. \A p \in before[o] : Settled(p)
    BY DEF ChainInv, InCallOrder, TailSettled
  <1>2. ChainInv'
    BY DEF ChainInv
  <1>3. InCallOrder'
    BY <1>1, <1>2 DEF InCallOrder, ChainInv
  <1>4. QED
    BY <1>2, <1>3

LEMMA SettleInv ==
  ASSUME Inv, NEW o \in Op, Settle(o), TypeOK'
  PROVE  Inv'
  <1> USE NoOpAssumption, SessionOfAssumption
      DEF Inv, TypeOK, Called, Settled, Outcome, Settle
  <1>1. ChainInv'
    BY DEF ChainInv
  <1>2. InCallOrder'
    BY DEF InCallOrder
  <1>3. QED
    BY <1>1, <1>2

(* Dropping the entry of the last call is safe: it and all before settled. *)
LEMMA CleanupInv ==
  ASSUME Inv, NEW o \in Op, Cleanup(o), TypeOK'
  PROVE  Inv'
  <1> USE NoOpAssumption, SessionOfAssumption
      DEF Inv, TypeOK, Called, Settled, Outcome, Cleanup
  <1>1. ChainInv'
    BY DEF ChainInv, InCallOrder
  <1>2. InCallOrder'
    BY DEF InCallOrder
  <1>3. QED
    BY <1>1, <1>2

LEMMA InvHolds == Spec => []Inv
  <1>1. Inv /\ TypeOK' /\ [Next]_vars => Inv'
    <2> SUFFICES ASSUME Inv, TypeOK', [Next]_vars PROVE Inv'
      OBVIOUS
    <2>1. CASE Quiet \/ UNCHANGED vars
      BY <2>1 DEF Quiet, vars, Inv, TypeOK, ChainInv, InCallOrder,
                  Called, Settled
    <2>2. QED
      BY <2>1, CallInv, StartInv, SettleInv, CleanupInv DEF Next
  <1>2. QED
    BY <1>1, InitInv, TypeCorrect, PTL DEF Spec

(* The map entry of a session and the tails of its calls form one chain.   *)
THEOREM ChainInvariant == Spec => []ChainInv
  BY InvHolds, PTL DEF Inv

(* At most one operation of a session runs at a time.                      *)
THEOREM MutualExclusion == Spec => []OneInFlight
  <1>1. Inv => OneInFlight
    BY DEF Inv, OneInFlight, ChainInv, InCallOrder, TypeOK, Called, Settled,
           Outcome
  <1>2. QED
    BY <1>1, InvHolds, PTL

(* Operations of a session run in call order.                              *)
THEOREM CallOrder == Spec => []InCallOrder
  BY InvHolds, PTL DEF Inv

(* A session at rest has no entry in the map.                              *)
THEOREM MapBounded == Spec => []EntryDropped
  <1>1. Inv => EntryDropped
    BY DEF Inv, EntryDropped, ChainInv, TypeOK
  <1>2. QED
    BY <1>1, InvHolds, PTL

(* The chain of promises is a serial executor.                             *)
THEOREM Refinement == Spec => ExecutorSpec
  <1>1. Init => Executor!Init
    BY DEF Init, Executor!Init
  <1>2. Inv /\ [Next]_vars => [Executor!Next]_(Executor!vars)
    <2> SUFFICES ASSUME Inv, [Next]_vars
                 PROVE  [Executor!Next]_(Executor!vars)
      OBVIOUS
    <2>1. ASSUME NEW o \in Op, Call(o) PROVE Executor!Call(o)
      BY <2>1 DEF Call, Executor!Call, Called, Executor!Called
    <2>2. ASSUME NEW o \in Op, Start(o) PROVE Executor!Start(o)
      <3>1. \A p \in before[o] : Settled(p)
        BY <2>2, NoOpAssumption
           DEF Start, Inv, TypeOK, ChainInv, InCallOrder, TailSettled,
               Settled, Called, Outcome
      <3>2. QED
        BY <2>2, <3>1 DEF Start, Executor!Start, Settled, Executor!Settled,
                          Outcome
    <2>3. ASSUME NEW o \in Op, Settle(o) PROVE Executor!Settle(o)
      BY <2>3 DEF Settle, Executor!Settle, Outcome
    <2>4. ASSUME NEW o \in Op, Cleanup(o) PROVE UNCHANGED Executor!vars
      BY <2>4 DEF Cleanup, Executor!vars
    <2>5. CASE Quiet \/ UNCHANGED vars
      BY <2>5 DEF Quiet, vars, Executor!vars
    <2>6. QED
      BY <2>1, <2>2, <2>3, <2>4, <2>5 DEF Next, Executor!Next
  <1>3. QED
    BY <1>1, <1>2, InvHolds, PTL DEF Spec, ExecutorSpec, Executor!Spec

=============================================================================
