---------------------- MODULE InterviewSession_proofs ----------------------
(***************************************************************************)
(* Type correctness of InterviewSession.  TypeOK alone is not inductive:   *)
(* KindOK says which process may be at which label, SnapOK that a request  *)
(* in progress holds a session object.  One lemma per action.              *)
(***************************************************************************)
EXTENDS InterviewSession, TLAPS

(* Which process may be at which label.                                    *)
KindOK ==
  \A p \in Process :
    /\ pc[p] \in {"accepted", "recordAnswer"} => p \in Submit
    /\ pc[p] \in {"markProcessing", "markCompleted", "markFailed",
                  "refreshScore", "scoring"} => p \in Qid
    /\ pc[p] \in {"collect", "await", "refetched", "fillGap", "reread"}
         => p \in End
    /\ pc[p] = "cacheGuidance" => p \in Guide
    /\ pc[p] = "commit" => p \in End \cup Refresh \cup Extend
    /\ pc[p] = "asking" => p \in Request \ Submit
    /\ pc[p] = "switching" => p \notin Submit

(* A request that is past its first read holds a session object.           *)
SnapOK ==
  \A r \in Request \ Submit : pc[r] \notin Resting =>
    /\ IsRow(snap[r])
    /\ r \in Extend => snap[r].extensionCount < MaxExtensions

TypeInv == TypeOK /\ KindOK /\ SnapOK

-----------------------------------------------------------------------------
(* The parts of the type invariant a step can leave alone                  *)

LEMMA SameRow ==
  ASSUME RowOK, UNCHANGED row
  PROVE  RowOK' /\ Row' = Row /\ IsRow(Row)
  BY DEF RowOK, Row, row, IsRow

LEMMA RowColumns ==
  /\ Row.questions = questions /\ Row.answers = answers /\ Row.evals = evals
  /\ Row.status = status /\ Row.final = final
  /\ Row.extensionCount = extensionCount
  /\ Row.totalQuestions = totalQuestions
  BY DEF Row

LEMMA LockMoves ==
  ASSUME LockOK, NEW p \in Process,
         \/ UNCHANGED lock
         \/ Queue(p)
         \/ lockQ # <<>> /\ (Release \/ ReleaseAndQueue(p))
  PROVE  LockOK'
  <1> USE DEF LockOK
  <1>1. CASE UNCHANGED lock
    BY <1>1 DEF lock, IsRow
  <1>2. CASE Queue(p)
    BY <1>2 DEF Queue, IsRow
  <1>3. CASE lockQ # <<>> /\ (Release \/ ReleaseAndQueue(p))
    BY <1>3 DEF Release, ReleaseAndQueue
  <1>4. QED
    BY <1>1, <1>2, <1>3

LEMMA HeadType ==
  ASSUME LockOK, NEW p, Holds(p)
  PROVE  p \in Process /\ lockQ # <<>> /\ lockQ \in Seq(Process)
  BY DEF LockOK, Holds

-----------------------------------------------------------------------------

LEMMA InitType == Init => TypeInv
  <1> SUFFICES ASSUME Init PROVE TypeInv
    OBVIOUS
  <1> USE KindsAssumption, BoundsAssumption DEF Init
  <1>1. RowOK
    <2>1. questions \in Seq(Author) /\ Len(questions) = InitialQuestions
      BY DEF Author
    <2>2. evals \in [Qid -> Entry]
      BY DEF NewEntry, Entry
    <2>3. answers \in Seq(Answer)
      OBVIOUS
    <2>4. QED
      BY <2>1, <2>2, <2>3 DEF RowOK, IsRow, Row, IsReport
  <1>2. ProcessesOK
    BY DEF ProcessesOK, Doing, Resting, Request, Qid
  <1>3. LockOK /\ EnvOK
    BY DEF LockOK, EnvOK
  <1>4. KindOK /\ SnapOK
    BY DEF KindOK, SnapOK, Process, Request, Resting
  <1>5. QED
    BY <1>1, <1>2, <1>3, <1>4 DEF TypeInv, TypeOK

-----------------------------------------------------------------------------
(* Requests arrive.                                                        *)

LEMMA SubmitBeginType ==
  ASSUME TypeInv, NEW r \in Submit, NEW q \in Qid, SubmitBegin(r, q)
  PROVE  TypeInv'
  <1> USE DEF TypeInv, TypeOK, SubmitBegin
  <1>1. RowOK' /\ EnvOK'
    BY SameRow DEF env, EnvOK
  <1>2. LockOK'
    BY LockMoves, HeadType DEF Process, Request, Holds
  <1>3. ProcessesOK' /\ KindOK' /\ SnapOK'
    BY KindsAssumption, SameRow
       DEF Goto, ProcessesOK, KindOK, SnapOK, Doing, Resting, LockedOp, Process,
           Request
  <1>4. QED
    BY <1>1, <1>2, <1>3

LEMMA EndBeginType ==
  ASSUME TypeInv, NEW r \in End, EndBegin(r)
  PROVE  TypeInv'
  <1> USE DEF TypeInv, TypeOK, EndBegin
  <1>1. RowOK' /\ EnvOK'
    BY SameRow DEF env, EnvOK
  <1>2. LockOK'
    BY LockMoves, HeadType DEF Process, Request, Holds
  <1>3. ProcessesOK' /\ KindOK' /\ SnapOK'
    BY KindsAssumption, SameRow
       DEF Goto, ProcessesOK, KindOK, SnapOK, Doing, Resting, LockedOp, Process,
           Request
  <1>4. QED
    BY <1>1, <1>2, <1>3

LEMMA AdmitType ==
  ASSUME TypeInv, NEW r \in Refresh \cup Guide, NEW ok \in BOOLEAN,
         arg' \in [Request -> Qid], Admit(r, ok)
  PROVE  TypeInv'
  <1> USE DEF TypeInv, TypeOK, Admit
  <1>1. RowOK' /\ EnvOK'
    BY SameRow DEF env, EnvOK
  <1>2. LockOK'
    BY LockMoves, HeadType DEF Process, Request, Holds
  <1>3. ProcessesOK' /\ KindOK' /\ SnapOK'
    BY KindsAssumption, SameRow
       DEF Goto, ProcessesOK, KindOK, SnapOK, Doing, Resting, LockedOp, Process,
           Request
  <1>4. QED
    BY <1>1, <1>2, <1>3

LEMMA ExtendBeginType ==
  ASSUME TypeInv, NEW r \in Extend, ExtendBegin(r)
  PROVE  TypeInv'
  <1> USE DEF TypeInv, TypeOK, ExtendBegin, Admit
  <1>1. RowOK' /\ EnvOK'
    BY SameRow DEF env, EnvOK
  <1>2. LockOK'
    BY LockMoves, HeadType DEF Process, Request, Holds
  <1>3. ProcessesOK' /\ KindOK' /\ SnapOK'
    BY KindsAssumption, SameRow, RowColumns
       DEF Goto, ProcessesOK, KindOK, SnapOK, Doing, Resting, LockedOp, Process,
           Request
  <1>4. QED
    BY <1>1, <1>2, <1>3

-----------------------------------------------------------------------------
(* Operations under the lock                                               *)

LEMMA LockReadType ==
  ASSUME TypeInv, NEW p \in Process, LockRead(p)
  PROVE  TypeInv'
  <1> USE DEF TypeInv, TypeOK, LockRead
  <1>1. RowOK' /\ EnvOK'
    BY SameRow DEF env, EnvOK
  <1>2. LockOK'
    BY SameRow DEF LockOK
  <1>3. ProcessesOK' /\ KindOK' /\ SnapOK'
    BY KindsAssumption, SameRow
       DEF Goto, ProcessesOK, KindOK, SnapOK, Doing, Resting, LockedOp, Process,
           Request, local
  <1>4. QED
    BY <1>1, <1>2, <1>3

LEMMA LockFaultType ==
  ASSUME TypeInv, NEW p \in Process, LockFault(p)
  PROVE  TypeInv'
  <1> USE DEF TypeInv, TypeOK, LockFault
  <1>1. RowOK' /\ EnvOK'
    BY SameRow, BoundsAssumption DEF EnvOK
  <1>2. LockOK'
    BY DEF LockOK
  <1>3. ProcessesOK' /\ KindOK' /\ SnapOK'
    BY KindsAssumption, SameRow
       DEF Goto, ProcessesOK, KindOK, SnapOK, Doing, Resting, LockedOp, Process,
           Request, local
  <1>4. QED
    BY <1>1, <1>2, <1>3

LEMMA RecordAnswerType ==
  ASSUME TypeInv, NEW r \in Submit, RecordAnswer(r)
  PROVE  TypeInv'
  <1> USE DEF TypeInv, TypeOK, RecordAnswer, Committed, Commit
  <1>1. RowOK' /\ EnvOK'
    <2>1. lockSnap.answers \in Seq(Answer)
      BY DEF LockOK, IsRow
    <2>2. [question |-> arg[r], by |-> r] \in Answer
      BY DEF ProcessesOK, Answer, Request
    <2>3. answers' \in Seq(Answer)
      BY <2>1, <2>2
    <2>4. QED
      BY <2>3 DEF RowOK, IsRow, Row, IsReport, EnvOK, env
  <1>2. LockOK'
    BY DEF LockOK
  <1>3. ProcessesOK' /\ KindOK' /\ SnapOK'
    BY KindsAssumption, SameRow
       DEF Goto, ProcessesOK, KindOK, SnapOK, Doing, Resting, LockedOp, Process,
           Request, local
  <1>4. QED
    BY <1>1, <1>2, <1>3

LEMMA RecordEvaluationType ==
  ASSUME TypeInv, NEW p \in Process, NEW label, NEW q \in Qid,
         NEW entry \in Entry, RecordEvaluation(p, label, q, entry)
  PROVE  TypeInv'
  <1> USE DEF TypeInv, TypeOK, RecordEvaluation, Committed, Commit
  <1>1. RowOK' /\ EnvOK'
    <2>1. evals' \in [Qid -> Entry]
      BY DEF LockOK, IsRow
    <2>2. QED
      BY <2>1 DEF RowOK, IsRow, Row, IsReport, EnvOK, env
  <1>2. LockOK'
    BY DEF LockOK
  <1>3. ProcessesOK' /\ KindOK' /\ SnapOK'
    BY KindsAssumption, SameRow
       DEF Goto, ProcessesOK, KindOK, SnapOK, Doing, Resting, LockedOp, Process,
           Request, local
  <1>4. QED
    BY <1>1, <1>2, <1>3

LEMMA CacheGuidanceType ==
  ASSUME TypeInv, NEW r \in Guide, CacheGuidance(r)
  PROVE  TypeInv'
  <1> USE DEF TypeInv, TypeOK, CacheGuidance, Committed, Commit
  <1>1. RowOK' /\ EnvOK'
    <2>1. evals' \in [Qid -> Entry]
      BY DEF LockOK, IsRow, Entry
    <2>2. QED
      BY <2>1 DEF RowOK, IsRow, Row, IsReport, EnvOK, env
  <1>2. LockOK'
    BY DEF LockOK
  <1>3. ProcessesOK' /\ KindOK' /\ SnapOK'
    BY KindsAssumption, SameRow
       DEF Goto, ProcessesOK, KindOK, SnapOK, Doing, Resting, LockedOp, Process,
           Request, local
  <1>4. QED
    BY <1>1, <1>2, <1>3

LEMMA RefreshScoreType ==
  ASSUME TypeInv, NEW q \in Qid, RefreshScore(q)
  PROVE  TypeInv'
  <1> USE DEF TypeInv, TypeOK, RefreshScore, Committed, Commit
  <1>1. RowOK' /\ EnvOK'
    <2>1. IsReport(final')
      BY DEF IsReport
    <2>2. QED
      BY <2>1 DEF RowOK, IsRow, Row, EnvOK, env
  <1>2. LockOK'
    BY DEF LockOK
  <1>3. ProcessesOK' /\ KindOK' /\ SnapOK'
    BY KindsAssumption, SameRow
       DEF Goto, ProcessesOK, KindOK, SnapOK, Doing, Resting, LockedOp, Process,
           Request, local
  <1>4. QED
    BY <1>1, <1>2, <1>3

-----------------------------------------------------------------------------
(* The provider chain                                                      *)

LEMMA ProceedType ==
  ASSUME LockOK, NEW p \in Process, pc \in [Process -> Doing], Proceed(p)
  PROVE  /\ LockOK'
         /\ \E label \in {"markCompleted", "cacheGuidance", "commit"} :
              /\ pc' = [pc EXCEPT ![p] = label]
              /\ label = "markCompleted" <=> p \in Qid
              /\ label = "cacheGuidance" <=> p \in Guide
  <1>1. CASE p \in Qid
    BY <1>1, KindsAssumption, LockMoves DEF Proceed, Goto, Request
  <1>2. CASE p \in Guide
    BY <1>2, KindsAssumption, LockMoves DEF Proceed, Goto, Request
  <1>3. CASE p \notin Qid /\ p \notin Guide
    BY <1>3, LockMoves DEF Proceed, Goto
  <1>4. QED
    BY <1>1, <1>2, <1>3

LEMMA GiveUpType ==
  ASSUME TypeInv, NEW p \in Process, p \notin Submit, GiveUp(p),
         result' \in [Qid -> 0..10], UNCHANGED pending
  PROVE  LockOK' /\ ProcessesOK' /\ KindOK' /\ SnapOK'
  <1> USE DEF TypeInv, TypeOK, GiveUp
  <1>1. CASE p \in Qid
    <2>1. LockOK'
      BY <1>1, LockMoves
    <2>2. QED
      BY <1>1, <2>1, KindsAssumption
         DEF Goto, ProcessesOK, KindOK, SnapOK, Doing, Resting, LockedOp,
             Process, Request
  <1>2. CASE p \notin Qid
    <2>1. LockOK'
      BY <1>2, LockMoves
    <2>2. QED
      BY <1>2, <2>1, KindsAssumption
         DEF Goto, ProcessesOK, KindOK, SnapOK, Doing, Resting, LockedOp,
             Process, Request
  <1>3. QED
    BY <1>1, <1>2

LEMMA RunChainType ==
  ASSUME TypeInv, NEW p \in Process, RunChain(p)
  PROVE  TypeInv'
  <1> USE DEF TypeInv, TypeOK
  <1>1. RowOK' /\ EnvOK'
    BY SameRow DEF RunChain, env, EnvOK
  <1>2. p \notin Submit
    BY KindsAssumption DEF RunChain, KindOK, Process, Request
  <1>3. CASE GiveUp(p) /\ UNCHANGED result
    BY <1>1, <1>2, <1>3, GiveUpType DEF RunChain, ProcessesOK
  <1>4. CASE /\ IF p \in Qid
                  THEN \E s \in Score : result' = [result EXCEPT ![p] = s]
                  ELSE UNCHANGED result
             /\ Proceed(p) \/ (Goto(p, "switching") /\ UNCHANGED lock)
             /\ UNCHANGED <<arg, snap, todo>>
    <2>1. result' \in [Qid -> 0..10]
      BY <1>4, BoundsAssumption DEF ProcessesOK
    <2>2. UNCHANGED <<arg, snap, todo, pending>>
      BY <1>4 DEF RunChain
    <2>3. CASE Proceed(p)
      <3>1. PICK label \in {"markCompleted", "cacheGuidance", "commit"} :
              /\ pc' = [pc EXCEPT ![p] = label]
              /\ label = "markCompleted" <=> p \in Qid
              /\ label = "cacheGuidance" <=> p \in Guide
        BY <2>3, ProceedType DEF ProcessesOK
      <3>2. LockOK'
        BY <2>3, ProceedType DEF ProcessesOK
      <3>3. pc[p] \in {"asking", "scoring"}
        BY DEF RunChain
      <3>4. ProcessesOK' /\ KindOK' /\ SnapOK'
        BY <1>2, <2>1, <2>2, <3>1, <3>3, KindsAssumption
           DEF ProcessesOK, KindOK, SnapOK, Doing, Resting, LockedOp, Process,
               Request
      <3>5. QED
        BY <1>1, <3>2, <3>4
    <2>4. CASE Goto(p, "switching") /\ UNCHANGED lock
      <3>1. LockOK'
        BY <2>4, LockMoves
      <3>2. pc[p] \in {"asking", "scoring"}
        BY DEF RunChain
      <3>3. ProcessesOK' /\ KindOK' /\ SnapOK'
        BY <1>2, <2>1, <2>2, <2>4, <3>2, KindsAssumption
           DEF Goto, ProcessesOK, KindOK, SnapOK, Doing, Resting, LockedOp,
               Process, Request
      <3>4. QED
        BY <1>1, <3>1, <3>3
    <2>5. QED
      BY <1>4, <2>3, <2>4
  <1>5. QED
    BY <1>3, <1>4 DEF RunChain

LEMMA PersistProviderSwitchType ==
  ASSUME TypeInv, NEW p \in Process, PersistProviderSwitch(p)
  PROVE  TypeInv'
  <1> USE DEF TypeInv, TypeOK, PersistProviderSwitch
  <1>1. RowOK' /\ EnvOK'
    BY DEF RowOK, IsRow, Row, IsReport, env, EnvOK
  <1>2. PICK label \in {"markCompleted", "cacheGuidance", "commit"} :
          /\ pc' = [pc EXCEPT ![p] = label]
          /\ label = "markCompleted" <=> p \in Qid
          /\ label = "cacheGuidance" <=> p \in Guide
    BY ProceedType DEF ProcessesOK
  <1>3. LockOK'
    BY ProceedType DEF ProcessesOK
  <1>4. ProcessesOK' /\ KindOK' /\ SnapOK'
    BY <1>2, KindsAssumption
       DEF ProcessesOK, KindOK, SnapOK, Doing, Resting, LockedOp, Process,
           Request, local
  <1>5. QED
    BY <1>1, <1>3, <1>4

LEMMA StorageFaultType ==
  ASSUME TypeInv, NEW p \in Process, StorageFault(p)
  PROVE  TypeInv'
  <1> USE DEF TypeInv, TypeOK, StorageFault
  <1>1. RowOK' /\ EnvOK'
    BY SameRow, BoundsAssumption DEF EnvOK
  <1>2. p \notin Submit
    BY KindsAssumption DEF KindOK
  <1>3. QED
    BY <1>1, <1>2, GiveUpType DEF ProcessesOK

-----------------------------------------------------------------------------
(* submitAnswer and the evaluator, after their first step                  *)

LEMMA SubmitQueueType ==
  ASSUME TypeInv, NEW r \in Submit, SubmitQueue(r)
  PROVE  TypeInv'
  <1> USE DEF TypeInv, TypeOK, SubmitQueue
  <1>1. RowOK' /\ EnvOK'
    BY SameRow DEF env, EnvOK
  <1>2. LockOK'
    BY LockMoves, HeadType DEF Process, Request, Holds
  <1>3. ProcessesOK' /\ KindOK' /\ SnapOK'
    BY KindsAssumption, SameRow
       DEF Goto, ProcessesOK, KindOK, SnapOK, Doing, Resting, LockedOp, Process,
           Request, local
  <1>4. QED
    BY <1>1, <1>2, <1>3

LEMMA SubmitReturnType ==
  ASSUME TypeInv, NEW r \in Submit, SubmitReturn(r)
  PROVE  TypeInv'
  <1> USE DEF TypeInv, TypeOK, SubmitReturn
  <1>1. RowOK' /\ EnvOK'
    BY SameRow DEF env, EnvOK
  <1>2. LockOK'
    <2>1. arg[r] \in Process
      BY DEF ProcessesOK, Process, Request
    <2>2. QED
      BY <2>1, LockMoves DEF Holds
  <1>3. ProcessesOK' /\ KindOK' /\ SnapOK'
    BY KindsAssumption, SameRow
       DEF Goto, ProcessesOK, KindOK, SnapOK, Doing, Resting, LockedOp, Process,
           Request, local
  <1>4. QED
    BY <1>1, <1>2, <1>3

LEMMA SubmitRefusedType ==
  ASSUME TypeInv, NEW r \in Submit, SubmitRefused(r)
  PROVE  TypeInv'
  <1> USE DEF TypeInv, TypeOK, SubmitRefused
  <1>1. RowOK' /\ EnvOK'
    BY SameRow DEF env, EnvOK
  <1>2. LockOK'
    BY LockMoves, HeadType DEF Process, Request, Holds
  <1>3. ProcessesOK' /\ KindOK' /\ SnapOK'
    BY KindsAssumption, SameRow
       DEF Goto, ProcessesOK, KindOK, SnapOK, Doing, Resting, LockedOp, Process,
           Request, local
  <1>4. QED
    BY <1>1, <1>2, <1>3

LEMMA EvaluatorMarkedType ==
  ASSUME TypeInv, NEW q \in Qid, EvaluatorMarked(q)
  PROVE  TypeInv'
  <1> USE DEF TypeInv, TypeOK, EvaluatorMarked
  <1>1. RowOK' /\ EnvOK'
    BY SameRow DEF env, EnvOK
  <1>2. LockOK'
    BY LockMoves, HeadType DEF Process, Request, Holds
  <1>3. ProcessesOK' /\ KindOK' /\ SnapOK'
    BY KindsAssumption, SameRow
       DEF Goto, ProcessesOK, KindOK, SnapOK, Doing, Resting, LockedOp, Process,
           Request, local
  <1>4. QED
    BY <1>1, <1>2, <1>3

LEMMA EvaluatorRecordedType ==
  ASSUME TypeInv, NEW q \in Qid, EvaluatorRecorded(q)
  PROVE  TypeInv'
  <1> USE DEF TypeInv, TypeOK, EvaluatorRecorded
  <1>1. RowOK' /\ EnvOK'
    BY SameRow DEF env, EnvOK
  <1>2. LockOK'
    BY LockMoves, HeadType DEF Process, Request, Holds
  <1>3. ProcessesOK' /\ KindOK' /\ SnapOK'
    BY KindsAssumption, SameRow
       DEF Goto, ProcessesOK, KindOK, SnapOK, Doing, Resting, LockedOp, Process,
           Request, local
  <1>4. QED
    BY <1>1, <1>2, <1>3

LEMMA EvaluatorCatchesType ==
  ASSUME TypeInv, NEW q \in Qid, EvaluatorCatches(q)
  PROVE  TypeInv'
  <1> USE DEF TypeInv, TypeOK, EvaluatorCatches
  <1>1. RowOK' /\ EnvOK'
    BY SameRow DEF env, EnvOK
  <1>2. LockOK'
    BY LockMoves, HeadType DEF Process, Request, Holds
  <1>3. ProcessesOK' /\ KindOK' /\ SnapOK'
    BY KindsAssumption, SameRow
       DEF Goto, ProcessesOK, KindOK, SnapOK, Doing, Resting, LockedOp, Process,
           Request, local
  <1>4. QED
    BY <1>1, <1>2, <1>3

LEMMA EvaluatorEndsType ==
  ASSUME TypeInv, NEW q \in Qid, EvaluatorEnds(q)
  PROVE  TypeInv'
  <1> USE DEF TypeInv, TypeOK, EvaluatorEnds
  <1>1. RowOK' /\ EnvOK'
    BY SameRow DEF env, EnvOK
  <1>2. LockOK'
    BY LockMoves, HeadType DEF Process, Request, Holds
  <1>3. ProcessesOK' /\ KindOK' /\ SnapOK'
    BY KindsAssumption, SameRow
       DEF Goto, ProcessesOK, KindOK, SnapOK, Doing, Resting, LockedOp, Process,
           Request, local
  <1>4. QED
    BY <1>1, <1>2, <1>3

-----------------------------------------------------------------------------
(* endSession, refresh, guidance, extend                                   *)

LEMMA OpenType ==
  ASSUME NEW s, IsRow(s)
  PROVE  Answered(s) \in SUBSET Qid /\ Open(s) \in SUBSET Qid
  <1>1. s.answers \in Seq(Answer)
    BY DEF IsRow
  <1>2. ASSUME NEW i \in DOMAIN s.answers PROVE s.answers[i].question \in Qid
    <2>1. s.answers[i] \in Answer
      BY <1>1
    <2>2. QED
      BY <2>1 DEF Answer
  <1>3. QED
    BY <1>2 DEF Answered, Open

LEMMA EndCollectType ==
  ASSUME TypeInv, NEW r \in End, EndCollect(r)
  PROVE  TypeInv'
  <1> USE DEF TypeInv, TypeOK, EndCollect
  <1>1. RowOK' /\ EnvOK'
    BY SameRow DEF env, EnvOK
  <1>2. LockOK'
    BY LockMoves, HeadType DEF Process, Request, Holds
  <1>3. ProcessesOK' /\ KindOK' /\ SnapOK'
    BY KindsAssumption, SameRow, OpenType
       DEF Goto, ProcessesOK, KindOK, SnapOK, Doing, Resting, LockedOp, Process,
           Request, ToReport
  <1>4. QED
    BY <1>1, <1>2, <1>3

LEMMA EndRefetchType ==
  ASSUME TypeInv, NEW r \in End, EndRefetch(r)
  PROVE  TypeInv'
  <1> USE DEF TypeInv, TypeOK, EndRefetch
  <1>1. RowOK' /\ EnvOK'
    BY SameRow DEF env, EnvOK
  <1>2. LockOK'
    BY LockMoves, HeadType DEF Process, Request, Holds
  <1>3. ProcessesOK' /\ KindOK' /\ SnapOK'
    BY KindsAssumption, SameRow, OpenType
       DEF Goto, ProcessesOK, KindOK, SnapOK, Doing, Resting, LockedOp, Process,
           Request, ToReport
  <1>4. QED
    BY <1>1, <1>2, <1>3

LEMMA EndFindGapsType ==
  ASSUME TypeInv, NEW r \in End, EndFindGaps(r)
  PROVE  TypeInv'
  <1> USE DEF TypeInv, TypeOK, EndFindGaps
  <1>1. RowOK' /\ EnvOK'
    BY SameRow DEF env, EnvOK
  <1>2. LockOK'
    BY LockMoves, HeadType DEF Process, Request, Holds
  <1>3. ProcessesOK' /\ KindOK' /\ SnapOK'
    BY KindsAssumption, SameRow, OpenType
       DEF Goto, ProcessesOK, KindOK, SnapOK, Doing, Resting, LockedOp, Process,
           Request, ToReport
  <1>4. QED
    BY <1>1, <1>2, <1>3

LEMMA EndGapFilledType ==
  ASSUME TypeInv, NEW r \in End, EndGapFilled(r)
  PROVE  TypeInv'
  <1> USE DEF TypeInv, TypeOK, EndGapFilled
  <1>1. RowOK' /\ EnvOK'
    BY SameRow DEF env, EnvOK
  <1>2. LockOK'
    BY LockMoves, HeadType DEF Process, Request, Holds
  <1>3. ProcessesOK' /\ KindOK' /\ SnapOK'
    BY KindsAssumption, SameRow, OpenType
       DEF Goto, ProcessesOK, KindOK, SnapOK, Doing, Resting, LockedOp, Process,
           Request, ToReport
  <1>4. QED
    BY <1>1, <1>2, <1>3

LEMMA EndRereadType ==
  ASSUME TypeInv, NEW r \in End, EndReread(r)
  PROVE  TypeInv'
  <1> USE DEF TypeInv, TypeOK, EndReread
  <1>1. RowOK' /\ EnvOK'
    BY SameRow DEF env, EnvOK
  <1>2. LockOK'
    BY LockMoves, HeadType DEF Process, Request, Holds
  <1>3. ProcessesOK' /\ KindOK' /\ SnapOK'
    BY KindsAssumption, SameRow, OpenType
       DEF Goto, ProcessesOK, KindOK, SnapOK, Doing, Resting, LockedOp, Process,
           Request, ToReport
  <1>4. QED
    BY <1>1, <1>2, <1>3

LEMMA EndCommitType ==
  ASSUME TypeInv, NEW r \in End, EndCommit(r)
  PROVE  TypeInv'
  <1> USE DEF TypeInv, TypeOK, EndCommit
  <1>1. RowOK' /\ EnvOK'
    <2>1. IsReport(final')
      BY DEF Report, IsReport
    <2>2. IsRow(snap[r])
      BY KindsAssumption DEF SnapOK, Resting, Request
    <2>3. answeredCount' \in Nat /\ totalQuestions' \in Nat
      BY <2>2 DEF IsRow
    <2>4. EnvOK' /\ UNCHANGED <<questions, answers, evals, extensionCount, model>>
      BY DEF EnvOK, env
    <2>5. QED
      BY <2>1, <2>3, <2>4 DEF RowOK, IsRow, Row
  <1>2. LockOK'
    BY LockMoves, HeadType DEF Process, Request, Holds
  <1>3. ProcessesOK' /\ KindOK' /\ SnapOK'
    BY KindsAssumption, SameRow
       DEF Goto, ProcessesOK, KindOK, SnapOK, Doing, Resting, LockedOp, Process,
           Request
  <1>4. QED
    BY <1>1, <1>2, <1>3

LEMMA RefreshCommitType ==
  ASSUME TypeInv, NEW r \in Refresh, RefreshCommit(r)
  PROVE  TypeInv'
  <1> USE DEF TypeInv, TypeOK, RefreshCommit
  <1>1. RowOK' /\ EnvOK'
    <2>1. IsReport(final')
      BY DEF Report, IsReport
    <2>2. IsRow(snap[r])
      BY KindsAssumption DEF SnapOK, Resting, Request
    <2>3. QED
      BY <2>1, <2>2 DEF RowOK, IsRow, Row, EnvOK, env
  <1>2. LockOK'
    BY LockMoves, HeadType DEF Process, Request, Holds
  <1>3. ProcessesOK' /\ KindOK' /\ SnapOK'
    BY KindsAssumption, SameRow
       DEF Goto, ProcessesOK, KindOK, SnapOK, Doing, Resting, LockedOp, Process,
           Request
  <1>4. QED
    BY <1>1, <1>2, <1>3

LEMMA GuideReturnType ==
  ASSUME TypeInv, NEW r \in Guide, GuideReturn(r)
  PROVE  TypeInv'
  <1> USE DEF TypeInv, TypeOK, GuideReturn
  <1>1. RowOK' /\ EnvOK'
    BY SameRow DEF env, EnvOK
  <1>2. LockOK'
    BY LockMoves, HeadType DEF Process, Request, Holds
  <1>3. ProcessesOK' /\ KindOK' /\ SnapOK'
    BY KindsAssumption, SameRow
       DEF Goto, ProcessesOK, KindOK, SnapOK, Doing, Resting, LockedOp, Process,
           Request
  <1>4. QED
    BY <1>1, <1>2, <1>3

LEMMA LockedRequestThrowsType ==
  ASSUME TypeInv, NEW r \in End \cup Guide, LockedRequestThrows(r)
  PROVE  TypeInv'
  <1> USE DEF TypeInv, TypeOK, LockedRequestThrows
  <1>1. RowOK' /\ EnvOK'
    BY SameRow DEF env, EnvOK
  <1>2. LockOK'
    BY LockMoves, HeadType DEF Process, Request, Holds
  <1>3. ProcessesOK' /\ KindOK' /\ SnapOK'
    BY KindsAssumption, SameRow
       DEF Goto, ProcessesOK, KindOK, SnapOK, Doing, Resting, LockedOp, Process,
           Request
  <1>4. QED
    BY <1>1, <1>2, <1>3

LEMMA ExtendedRow ==
  ASSUME NEW s, IsRow(s), s.extensionCount < MaxExtensions, NEW r \in Extend,
         NEW k \in 1..AtMost(Asked(s)), Len(s.questions) + k <= MaxQuestionId
  PROVE  LET qs == s.questions \o [i \in 1..k |-> r]
         IN  /\ qs \in Seq(Author) /\ Len(qs) <= MaxQuestionId
             /\ Len(s.questions) + k \in Nat
             /\ s.extensionCount + 1 \in 0..MaxExtensions
  <1>1. s.questions \in Seq(Author) /\ s.extensionCount \in 0..MaxExtensions
    BY DEF IsRow
  <1>2. k \in Nat
    <2>1. Asked(s) \in Int
      BY <1>1, BoundsAssumption DEF Asked
    <2>2. AtMost(Asked(s)) \in Int
      BY <2>1, BoundsAssumption DEF AtMost
    <2>3. QED
      BY <2>2
  <1>3. DEFINE new == [i \in 1..k |-> r]
  <1>4. new \in Seq(Author) /\ Len(new) = k
    BY <1>2 DEF Author
  <1> HIDE DEF new
  <1>5. s.questions \o new \in Seq(Author)
        /\ Len(s.questions \o new) = Len(s.questions) + k
    BY <1>1, <1>4
  <1>6. Len(s.questions) + k \in Nat
    BY <1>1, <1>2
  <1>7. s.extensionCount + 1 \in 0..MaxExtensions
    BY <1>1, BoundsAssumption
  <1>8. QED
    BY <1>5, <1>6, <1>7 DEF new

LEMMA ExtendCommitType ==
  ASSUME TypeInv, NEW r \in Extend, ExtendCommit(r)
  PROVE  TypeInv'
  <1>1. RowOK' /\ EnvOK'
    <2>1. IsRow(snap[r]) /\ snap[r].extensionCount < MaxExtensions
      BY KindsAssumption
         DEF TypeInv, SnapOK, ExtendCommit, Resting, Request
    <2>2. PICK k \in 1..AtMost(Asked(snap[r])) :
            /\ Len(snap[r].questions) + k <= MaxQuestionId
            /\ questions' = snap[r].questions \o [i \in 1..k |-> r]
            /\ totalQuestions' = Len(snap[r].questions) + k
      BY DEF ExtendCommit
    <2>3. /\ questions' \in Seq(Author)
          /\ Len(questions') <= MaxQuestionId
          /\ totalQuestions' \in Nat
          /\ extensionCount' \in 0..MaxExtensions
      BY <2>1, <2>2, ExtendedRow DEF ExtendCommit
    <2>4. IsReport(final')
      BY <2>1 DEF ExtendCommit, TypeInv, TypeOK, RowOK, Row, IsRow, IsReport
    <2>5. QED
      BY <2>3, <2>4
         DEF ExtendCommit, TypeInv, TypeOK, RowOK, IsRow, Row, EnvOK, env
  <1>2. LockOK'
    BY LockMoves DEF TypeInv, TypeOK, ExtendCommit, Process, Request
  <1>3. ProcessesOK' /\ KindOK' /\ SnapOK'
    BY KindsAssumption
       DEF TypeInv, TypeOK, ExtendCommit, Goto, ProcessesOK, KindOK, SnapOK,
           Doing, Resting, LockedOp, Process, Request
  <1>4. QED
    BY <1>1, <1>2, <1>3 DEF TypeInv, TypeOK

LEMMA CrashType ==
  ASSUME TypeInv, Crash
  PROVE  TypeInv'
  <1> USE DEF TypeInv, TypeOK, Crash
  <1>1. RowOK' /\ EnvOK'
    BY SameRow, BoundsAssumption DEF EnvOK
  <1>2. LockOK'
    BY DEF LockOK
  <1>3. ProcessesOK' /\ KindOK' /\ SnapOK'
    BY DEF ProcessesOK, KindOK, SnapOK, Doing, Resting, Process, Request
  <1>4. QED
    BY <1>1, <1>2, <1>3

-----------------------------------------------------------------------------
(* Type correctness                                                        *)

LEMMA EntriesTyped ==
  ASSUME ProcessesOK, NEW q \in Qid
  PROVE  /\ NewEntry("processing", 0) \in Entry
         /\ NewEntry("failed", 0) \in Entry
         /\ NewEntry("completed", result[q]) \in Entry
  BY DEF NewEntry, Entry, ProcessesOK

LEMMA ArrivalType == TypeInv /\ Arrival => TypeInv'
  <1> SUFFICES ASSUME TypeInv, Arrival PROVE TypeInv'
    OBVIOUS
  <1>1. CASE \E r \in Submit, q \in Qid : SubmitBegin(r, q)
    BY <1>1, SubmitBeginType
  <1>2. CASE \E r \in End : EndBegin(r)
    BY <1>2, EndBeginType
  <1>3. ASSUME NEW r \in Refresh, RefreshBegin(r) PROVE TypeInv'
    <2>1. arg' \in [Request -> Qid]
      BY <1>3 DEF RefreshBegin, TypeInv, TypeOK, ProcessesOK
    <2>2. QED
      BY <1>3, <2>1, AdmitType DEF RefreshBegin
  <1>4. ASSUME NEW r \in Guide, NEW q \in Qid, GuideBegin(r, q) PROVE TypeInv'
    <2>1. arg' \in [Request -> Qid]
      BY <1>4 DEF GuideBegin, TypeInv, TypeOK, ProcessesOK
    <2>2. QED
      BY <1>4, <2>1, AdmitType DEF GuideBegin
  <1>5. CASE \E r \in Extend : ExtendBegin(r)
    BY <1>5, ExtendBeginType
  <1>6. QED
    BY <1>1, <1>2, <1>3, <1>4, <1>5 DEF Arrival

LEMMA LockedCommitType == TypeInv /\ LockedCommit => TypeInv'
  <1> SUFFICES ASSUME TypeInv, LockedCommit PROVE TypeInv'
    OBVIOUS
  <1>1. CASE \E r \in Submit : RecordAnswer(r)
    BY <1>1, RecordAnswerType
  <1>2. ASSUME NEW q \in Qid,
               \/ RecordEvaluation(q, "markProcessing", q,
                                   NewEntry("processing", 0))
               \/ RecordEvaluation(q, "markCompleted", q,
                                   NewEntry("completed", result[q]))
               \/ RecordEvaluation(q, "markFailed", q, NewEntry("failed", 0))
        PROVE  TypeInv'
    <2>1. q \in Process
      BY DEF Process
    <2>2. QED
      BY <1>2, <2>1, EntriesTyped, RecordEvaluationType DEF TypeInv, TypeOK
  <1>3. CASE \E q \in Qid : RefreshScore(q)
    BY <1>3, RefreshScoreType
  <1>4. ASSUME NEW r \in End,
               RecordEvaluation(r, "fillGap", arg[r], NewEntry("failed", 0))
        PROVE  TypeInv'
    <2>1. r \in Process /\ arg[r] \in Qid /\ ProcessesOK
      BY DEF TypeInv, TypeOK, ProcessesOK, Process, Request
    <2>2. QED
      BY <1>4, <2>1, EntriesTyped, RecordEvaluationType
  <1>5. CASE \E r \in Guide : CacheGuidance(r)
    BY <1>5, CacheGuidanceType
  <1>6. QED
    BY <1>1, <1>2, <1>3, <1>4, <1>5 DEF LockedCommit

LEMMA WorkType ==
  ASSUME TypeInv, NEW p \in Process, Work(p)
  PROVE  TypeInv'
  <1>1. CASE RunChain(p) \/ PersistProviderSwitch(p) \/ LockRead(p)
    BY <1>1, RunChainType, PersistProviderSwitchType, LockReadType
  <1>2. CASE p \in Submit /\ SubmitStep(p)
    BY <1>2, SubmitQueueType, SubmitReturnType, SubmitRefusedType
       DEF SubmitStep
  <1>3. CASE p \in Qid /\ EvaluatorStep(p)
    BY <1>3, EvaluatorMarkedType, EvaluatorRecordedType, EvaluatorCatchesType,
       EvaluatorEndsType DEF EvaluatorStep
  <1>4. CASE p \in End /\ EndStep(p)
    BY <1>4, EndCollectType, EndRefetchType, EndFindGapsType, EndGapFilledType,
       EndRereadType, EndCommitType DEF EndStep
  <1>5. CASE p \in Refresh /\ RefreshCommit(p)
    BY <1>5, RefreshCommitType
  <1>6. CASE p \in Guide /\ GuideReturn(p)
    BY <1>6, GuideReturnType
  <1>7. CASE p \in Extend /\ ExtendCommit(p)
    BY <1>7, ExtendCommitType
  <1>8. CASE p \in End \cup Guide /\ LockedRequestThrows(p)
    BY <1>8, LockedRequestThrowsType
  <1>9. QED
    BY <1>1, <1>2, <1>3, <1>4, <1>5, <1>6, <1>7, <1>8 DEF Work

LEMMA UnchangedType == TypeInv /\ UNCHANGED vars => TypeInv'
  <1> SUFFICES ASSUME TypeInv, UNCHANGED vars PROVE TypeInv'
    OBVIOUS
  <1>1. RowOK' /\ EnvOK' /\ LockOK'
    BY SameRow DEF vars, env, lock, EnvOK, LockOK, TypeInv, TypeOK, IsRow
  <1>2. ProcessesOK' /\ KindOK' /\ SnapOK'
    BY DEF vars, local, TypeInv, TypeOK, ProcessesOK, KindOK, SnapOK
  <1>3. QED
    BY <1>1, <1>2 DEF TypeInv, TypeOK

LEMMA NextType == TypeInv /\ [Next]_vars => TypeInv'
  <1> SUFFICES ASSUME TypeInv, [Next]_vars PROVE TypeInv'
    OBVIOUS
  <1>1. CASE Arrival \/ LockedCommit
    BY <1>1, ArrivalType, LockedCommitType
  <1>2. CASE \E p \in Process : Work(p)
    BY <1>2, WorkType
  <1>3. CASE Fault
    BY <1>3, CrashType, LockFaultType, StorageFaultType DEF Fault
  <1>4. CASE Quiet \/ UNCHANGED vars
    BY <1>4, UnchangedType DEF Quiet
  <1>5. QED
    BY <1>1, <1>2, <1>3, <1>4 DEF Next

LEMMA TypeInvariant == Spec => []TypeInv
  BY InitType, NextType, PTL DEF Spec

(* Every column, request, evaluator and queue has the type it is declared  *)
(* with, for any number of requests and questions.                         *)
THEOREM TypeCorrect == Spec => []TypeOK
  <1>1. TypeInv => TypeOK
    BY DEF TypeInv
  <1>2. QED
    BY <1>1, TypeInvariant, PTL

=============================================================================
