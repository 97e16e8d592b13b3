----------------------- MODULE InterviewAnswers_proofs -----------------------
(***************************************************************************)
(* What InterviewSession promises about answers, for any number of         *)
(* requests, questions, crashes and faults: AnswerInv is inductive         *)
(* (relative to TypeInv), each promise is one of its conjuncts, and the    *)
(* session implements AnswerLog.                                           *)
(***************************************************************************)
EXTENDS InterviewSession_proofs

LEMMA InitAnswers == Init => AnswerInv
  BY KindsAssumption
     DEF Init, AnswerInv, QueueInv, HolderUpToDate, SubmitInv, Holds,
         EvaluatorsKnow, EndsKnow, AckedAnswerKept, AnsweredOnce,
         OnlyAnsweredEvaluated, Resting, NewEntry, Process, Request

(* The queue keeps its shape when someone else than a submission joins it  *)
(* or its head leaves.                                                     *)
LEMMA QueueKept ==
  ASSUME LockOK, QueueInv, \A r \in Submit : pc'[r] = pc[r],
         \/ UNCHANGED lock
         \/ lockQ # <<>> /\ Release
         \/ \E p \in Process \ Submit :
              Queue(p) \/ (lockQ # <<>> /\ ReleaseAndQueue(p))
  PROVE  QueueInv' /\ \A p : Holds(p)' => lockPc' = "read" \/ Holds(p)
  <1> USE DEF LockOK, QueueInv, Holds
  <1>1. CASE UNCHANGED lock
    BY <1>1 DEF lock
  <1>2. CASE lockQ # <<>> /\ Release
    BY <1>2 DEF Release
  <1>3. ASSUME NEW p \in Process \ Submit, Queue(p)
        PROVE  QueueInv' /\ \A o : Holds(o)' => lockPc' = "read" \/ Holds(o)
    BY <1>3 DEF Queue
  <1>4. ASSUME NEW p \in Process \ Submit, lockQ # <<>>, ReleaseAndQueue(p)
        PROVE  QueueInv' /\ \A o : Holds(o)' => lockPc' = "read" \/ Holds(o)
    BY <1>4 DEF ReleaseAndQueue
  <1>5. QED
    BY <1>1, <1>2, <1>3, <1>4

(* A step that concerns no submission, writes no answer or evaluation and  *)
(* starts no evaluator.                                                    *)
LEMMA Elsewhere ==
  ASSUME TypeInv, AnswerInv, UNCHANGED <<answers, evals>>,
         \A r \in Submit : pc'[r] = pc[r] /\ arg'[r] = arg[r],
         \A q \in Qid : pc'[q] \notin Resting => pc[q] \notin Resting,
         \/ UNCHANGED lock
         \/ lockQ # <<>> /\ Release
         \/ \E p \in Process \ Submit :
              Queue(p) \/ (lockQ # <<>> /\ ReleaseAndQueue(p)),
         EndsKnow'
  PROVE  AnswerInv'
  <1>1. QueueInv' /\ \A p : Holds(p)' => lockPc' = "read" \/ Holds(p)
    BY QueueKept DEF TypeInv, TypeOK, AnswerInv
  <1>2. lockPc' = "read" \/ (lockPc' = lockPc /\ lockSnap' = lockSnap)
    BY DEF lock, Release, Queue, ReleaseAndQueue
  <1>3. \A r \in Submit : Recorded(r)' <=> Recorded(r)
    BY DEF Recorded
  <1>4. Answered(Row)' = Answered(Row)
    BY DEF Answered, Row
  <1>5. HolderUpToDate' /\ SubmitInv'
    BY <1>1, <1>2, <1>3, <1>4 DEF AnswerInv, HolderUpToDate, SubmitInv
  <1>6. EvaluatorsKnow' /\ AckedAnswerKept' /\ AnsweredOnce'
        /\ OnlyAnsweredEvaluated'
    BY <1>3, <1>4
       DEF AnswerInv, EvaluatorsKnow, AckedAnswerKept, AnsweredOnce,
           OnlyAnsweredEvaluated
  <1>7. QED
    BY <1>1, <1>5, <1>6 DEF AnswerInv

-----------------------------------------------------------------------------
(* Submissions                                                             *)

LEMMA SubmitBeginAnswers ==
  ASSUME TypeInv, AnswerInv, NEW r \in Submit, NEW q \in Qid,
         SubmitBegin(r, q)
  PROVE  AnswerInv'
  <1> USE DEF SubmitBegin, AnswerInv
  <1>1. /\ \A p \in Process : p # r => pc'[p] = pc[p]
        /\ pc'[r] \in {"accepted", "refused"} /\ pc[r] = "idle"
        /\ \A o \in Submit : o # r => arg'[o] = arg[o]
        /\ \A e \in End : arg'[e] = arg[e]
    BY KindsAssumption
       DEF Goto, TypeInv, TypeOK, ProcessesOK, Process, Request
  <1>2. UNCHANGED <<answers, evals, snap, todo, lockQ, lockPc, lockSnap>>
    BY DEF row, lock
  <1>3. Answered(Row)' = Answered(Row)
    BY <1>2 DEF Answered, Row
  <1>4. \A i \in DOMAIN lockQ : lockQ[i] # r /\ lockQ[i] \in Process
    BY <1>1 DEF QueueInv, TypeInv, TypeOK, LockOK
  <1>5. QueueInv' /\ ~Holds(r)
    BY <1>1, <1>2, <1>4 DEF QueueInv, Holds, TypeInv, TypeOK, LockOK
  <1>6. \A o \in Submit : o # r => (Recorded(o)' <=> Recorded(o))
    BY <1>1, <1>2 DEF Recorded
  <1>7. HolderUpToDate' /\ SubmitInv' /\ AckedAnswerKept'
    BY <1>1, <1>2, <1>3, <1>5, <1>6
       DEF HolderUpToDate, SubmitInv, AckedAnswerKept, Holds, Process, Request
  <1>8. EvaluatorsKnow' /\ EndsKnow' /\ AnsweredOnce' /\ OnlyAnsweredEvaluated'
    BY <1>1, <1>2, <1>3, KindsAssumption
       DEF EvaluatorsKnow, EndsKnow, AnsweredOnce, OnlyAnsweredEvaluated,
           Process, Request
  <1>9. QED
    BY <1>5, <1>7, <1>8

LEMMA SubmitQueueAnswers ==
  ASSUME TypeInv, AnswerInv, NEW r \in Submit, SubmitQueue(r)
  PROVE  AnswerInv'
  <1> USE DEF SubmitQueue, AnswerInv
  <1>1. /\ \A p \in Process : p # r => pc'[p] = pc[p]
        /\ pc'[r] = "recordAnswer" /\ pc[r] = "accepted"
    BY DEF Goto, TypeInv, TypeOK, ProcessesOK, Process, Request
  <1>2. /\ UNCHANGED <<answers, evals, arg, snap, todo, lockPc, lockSnap>>
        /\ lockQ' = Append(lockQ, r)
    BY DEF row, local, Queue
  <1>3. Answered(Row)' = Answered(Row) /\ \A o : Recorded(o)' <=> Recorded(o)
    BY <1>2 DEF Answered, Row, Recorded
  <1>4. \A i \in DOMAIN lockQ : lockQ[i] # r /\ lockQ[i] \in Process
    BY <1>1 DEF QueueInv, TypeInv, TypeOK, LockOK
  <1>5. QueueInv' /\ \A o : Holds(o)' => lockPc' = "read" \/ Holds(o)
    BY <1>1, <1>2, <1>4
       DEF QueueInv, Holds, TypeInv, TypeOK, LockOK, Process, Request
  <1>6. HolderUpToDate' /\ SubmitInv' /\ AckedAnswerKept'
    BY <1>1, <1>2, <1>3, <1>5
       DEF HolderUpToDate, SubmitInv, AckedAnswerKept, Process, Request
  <1>7. EvaluatorsKnow' /\ EndsKnow' /\ AnsweredOnce' /\ OnlyAnsweredEvaluated'
    BY <1>1, <1>2, <1>3, KindsAssumption
       DEF EvaluatorsKnow, EndsKnow, AnsweredOnce, OnlyAnsweredEvaluated,
           Process, Request
  <1>8. QED
    BY <1>5, <1>6, <1>7

LEMMA SubmissionLeaves ==
  ASSUME LockOK, QueueInv, NEW r \in Submit, Holds(r),
         \A o \in Submit : o # r => pc'[o] = pc[o],
         Release \/ \E q \in Process \ Submit : ReleaseAndQueue(q)
  PROVE  QueueInv' /\ lockPc' = "read" /\ UNCHANGED lockSnap
  <1>1. lockQ \in Seq(Process) /\ lockQ # <<>> /\ lockQ[1] = r
    BY DEF LockOK, Holds
  <1>2. \A i \in DOMAIN lockQ : i # 1 => lockQ[i] # r
    BY <1>1 DEF QueueInv
  <1>3. DEFINE rest == Tail(lockQ)
  <1>4. /\ rest \in Seq(Process)
        /\ \A i \in DOMAIN rest :
             i + 1 \in DOMAIN lockQ /\ i + 1 # 1 /\ rest[i] = lockQ[i + 1]
    BY <1>1
  <1> HIDE DEF rest
  <1>5. \A i \in DOMAIN rest : rest[i] \in Submit =>
          /\ pc'[rest[i]] = "recordAnswer"
          /\ \A j \in DOMAIN rest : rest[j] = rest[i] => i = j
    BY <1>2, <1>4 DEF QueueInv
  <1>6. CASE Release
    BY <1>5, <1>6 DEF Release, QueueInv, rest
  <1>7. ASSUME NEW q \in Process \ Submit, ReleaseAndQueue(q)
        PROVE  QueueInv' /\ lockPc' = "read" /\ UNCHANGED lockSnap
    <2>1. lockQ' = Append(rest, q) /\ lockPc' = "read" /\ UNCHANGED lockSnap
      BY <1>7 DEF ReleaseAndQueue, rest
    <2>2. QED
      BY <2>1, <1>4, <1>5 DEF QueueInv
  <1>8. QED
    BY <1>6, <1>7

(* A submission leaves the lock; if it was recorded it is acknowledged and *)
(* the evaluator of its question joins the queue.                          *)
LEMMA SubmitReturnAnswers ==
  ASSUME TypeInv, AnswerInv, NEW r \in Submit, SubmitReturn(r)
  PROVE  AnswerInv'
  <1> USE DEF SubmitReturn, AnswerInv
  <1>1. Holds(r) /\ lockQ # <<>> /\ arg[r] \in Qid /\ arg[r] \in Process \ Submit
    BY KindsAssumption
       DEF Holds, TypeInv, TypeOK, ProcessesOK, Process, Request
  <1>2. /\ \A p \in Process : p # r /\ p # arg[r] => pc'[p] = pc[p]
        /\ pc'[r] = "acked" /\ pc'[arg[r]] = "markProcessing"
    BY <1>1 DEF TypeInv, TypeOK, ProcessesOK, Process, Request
  <1>3. /\ UNCHANGED <<answers, evals, arg, snap, todo, lockSnap>>
        /\ lockQ' = Append(Tail(lockQ), arg[r]) /\ lockPc' = "read"
    BY DEF row, local, ReleaseAndQueue
  <1>4. Answered(Row)' = Answered(Row) /\ \A o : Recorded(o)' <=> Recorded(o)
    BY <1>3 DEF Answered, Row, Recorded
  <1>5. Recorded(r) /\ arg[r] \in Answered(Row)
    BY <1>1 DEF SubmitInv, Recorded, Answered, Row
  <1>7. QueueInv'
    <2>1. \A o \in Submit : o # r => pc'[o] = pc[o]
      BY <1>1, <1>2 DEF Process, Request
    <2>2. QED
      BY <1>1, <2>1, SubmissionLeaves DEF TypeInv, TypeOK
  <1>8. HolderUpToDate' /\ SubmitInv' /\ AckedAnswerKept'
    BY <1>1, <1>2, <1>3, <1>4, <1>5
       DEF HolderUpToDate, SubmitInv, AckedAnswerKept, Process, Request
  <1>9. EvaluatorsKnow' /\ EndsKnow' /\ AnsweredOnce' /\ OnlyAnsweredEvaluated'
    BY <1>1, <1>2, <1>3, <1>4, <1>5, KindsAssumption
       DEF EvaluatorsKnow, EndsKnow, AnsweredOnce, OnlyAnsweredEvaluated,
           Process, Request
  <1>10. QED
    BY <1>7, <1>8, <1>9

LEMMA SubmitRefusedAnswers ==
  ASSUME TypeInv, AnswerInv, NEW r \in Submit, SubmitRefused(r)
  PROVE  AnswerInv'
  <1> USE DEF SubmitRefused, AnswerInv
  <1>1. /\ \A p \in Process : p # r => pc'[p] = pc[p]
        /\ pc'[r] = "refused"
    BY DEF Goto, TypeInv, TypeOK, ProcessesOK, Process, Request
  <1>2. /\ UNCHANGED <<answers, evals, arg, snap, todo, lockSnap>>
        /\ lockPc' = "read"
    BY DEF row, local, Release
  <1>3. Answered(Row)' = Answered(Row) /\ \A o : Recorded(o)' <=> Recorded(o)
    BY <1>2 DEF Answered, Row, Recorded
  <1>5. QueueInv'
    BY <1>1, SubmissionLeaves DEF TypeInv, TypeOK, Process, Request
  <1>6. HolderUpToDate' /\ SubmitInv' /\ AckedAnswerKept'
    BY <1>1, <1>2, <1>3
       DEF HolderUpToDate, SubmitInv, AckedAnswerKept, Process, Request
  <1>7. EvaluatorsKnow' /\ EndsKnow' /\ AnsweredOnce' /\ OnlyAnsweredEvaluated'
    BY <1>1, <1>2, <1>3, KindsAssumption
       DEF EvaluatorsKnow, EndsKnow, AnsweredOnce, OnlyAnsweredEvaluated,
           Process, Request
  <1>8. QED
    BY <1>5, <1>6, <1>7

-----------------------------------------------------------------------------
(* Under the lock                                                          *)

(* The head of the queue has the kind of process its operation belongs to. *)
LEMMA LockReadAnswers ==
  ASSUME TypeInv, AnswerInv, NEW p \in Process, LockRead(p)
  PROVE  AnswerInv'
  <1> USE DEF LockRead, AnswerInv
  <1>1. UNCHANGED <<answers, evals, pc, arg, snap, todo, lockQ>>
    BY DEF row, local
  <1>2. Answered(Row)' = Answered(Row) /\ \A o : Recorded(o)' <=> Recorded(o)
    BY <1>1 DEF Answered, Row, Recorded
  <1>3. QueueInv'
    BY <1>1 DEF QueueInv, Holds
  <1>4. HolderUpToDate'
    BY <1>1 DEF HolderUpToDate, Row
  <1>5. SubmitInv'
    <2> SUFFICES ASSUME NEW r \in Submit, Holds(r), lockPc' = "write"
                 PROVE  arg[r] \notin Answered(Row)
      BY <1>1, <1>2 DEF SubmitInv, Holds
    <2>1. r = p /\ pc[p] = "recordAnswer"
      BY DEF Holds, QueueInv, TypeInv, TypeOK, LockOK
    <2>2. Writes(p)
      OBVIOUS
    <2>3. QED
      BY <2>1, <2>2 DEF Writes
  <1>6. EvaluatorsKnow' /\ EndsKnow' /\ AckedAnswerKept' /\ AnsweredOnce'
        /\ OnlyAnsweredEvaluated'
    BY <1>1, <1>2
       DEF EvaluatorsKnow, EndsKnow, AckedAnswerKept, AnsweredOnce,
           OnlyAnsweredEvaluated
  <1>7. QED
    BY <1>3, <1>4, <1>5, <1>6

LEMMA LockFaultAnswers ==
  ASSUME TypeInv, AnswerInv, NEW p \in Process, LockFault(p)
  PROVE  AnswerInv'
  <1> USE DEF LockFault, AnswerInv
  <1>1. UNCHANGED <<answers, evals, pc, arg, snap, todo, lockQ>>
    BY DEF row, local
  <1>2. Answered(Row)' = Answered(Row) /\ \A o : Recorded(o)' <=> Recorded(o)
    BY <1>1 DEF Answered, Row, Recorded
  <1>3. QueueInv' /\ HolderUpToDate' /\ SubmitInv'
    BY <1>1 DEF QueueInv, Holds, HolderUpToDate, SubmitInv
  <1>4. EvaluatorsKnow' /\ EndsKnow' /\ AckedAnswerKept' /\ AnsweredOnce'
        /\ OnlyAnsweredEvaluated'
    BY <1>1, <1>2
       DEF EvaluatorsKnow, EndsKnow, AckedAnswerKept, AnsweredOnce,
           OnlyAnsweredEvaluated
  <1>5. QED
    BY <1>3, <1>4

(* The answer is appended: what was there stays, and the new entry is the  *)
(* first for its question.                                                 *)
LEMMA RecordAnswerAnswers ==
  ASSUME TypeInv, AnswerInv, NEW r \in Submit, RecordAnswer(r)
  PROVE  AnswerInv'
  <1> DEFINE new == [question |-> arg[r], by |-> r]
  <1>1. /\ answers' = Append(answers, new) /\ answers \in Seq(Answer)
        /\ lockPc' = "done" /\ Holds(r) /\ arg[r] \notin Answered(Row)
        /\ UNCHANGED <<evals, pc, arg, snap, todo, lockQ>>
    BY DEF RecordAnswer, Commit, Committed, AnswerInv, HolderUpToDate,
           SubmitInv, TypeInv, TypeOK, RowOK, IsRow, Row, local
  <1> HIDE DEF new
  <1>2. /\ Len(answers') = Len(answers) + 1 /\ Len(answers) \in Nat
        /\ DOMAIN answers = 1..Len(answers)
        /\ DOMAIN answers' = 1..(Len(answers) + 1)
        /\ \A i \in DOMAIN answers : answers'[i] = answers[i]
        /\ answers'[Len(answers) + 1] = new
    BY <1>1
  <1>3. Answered(Row) \subseteq Answered(Row)'
    BY <1>2 DEF Answered, Row
  <1>4. /\ \A o : Recorded(o) => Recorded(o)'
        /\ Recorded(r)'
    BY <1>1, <1>2 DEF Recorded, new
  <1>5. AnsweredOnce'
    <2>1. \A i \in DOMAIN answers : answers[i].question # new.question
      BY <1>1 DEF Answered, Row, new
    <2>2. QED
      BY <1>2, <2>1 DEF AnsweredOnce, AnswerInv
  <1>6. QueueInv' /\ HolderUpToDate' /\ SubmitInv'
    BY <1>1, <1>4 DEF AnswerInv, QueueInv, Holds, HolderUpToDate, SubmitInv
  <1>7. EvaluatorsKnow' /\ EndsKnow' /\ AckedAnswerKept' /\ OnlyAnsweredEvaluated'
    BY <1>1, <1>3, <1>4
       DEF AnswerInv, EvaluatorsKnow, EndsKnow, AckedAnswerKept,
           OnlyAnsweredEvaluated
  <1>8. QED
    BY <1>5, <1>6, <1>7 DEF AnswerInv

(* A write under the lock that leaves the answers alone.                   *)
LEMMA EvaluationWritten ==
  ASSUME TypeInv, AnswerInv, NEW p, Holds(p), p \notin Submit,
         lockPc' = "done",
         UNCHANGED <<answers, pc, arg, snap, todo, lockQ>>,
         \A q \in Qid : evals'[q].status # "none" => q \in Answered(Row)
  PROVE  AnswerInv'
  <1> USE DEF AnswerInv
  <1>1. Answered(Row)' = Answered(Row) /\ \A o : Recorded(o)' <=> Recorded(o)
    BY DEF Answered, Row, Recorded
  <1>2. QueueInv' /\ HolderUpToDate' /\ SubmitInv'
    BY DEF QueueInv, Holds, HolderUpToDate, SubmitInv
  <1>3. EvaluatorsKnow' /\ EndsKnow' /\ AckedAnswerKept' /\ AnsweredOnce'
        /\ OnlyAnsweredEvaluated'
    BY <1>1
       DEF EvaluatorsKnow, EndsKnow, AckedAnswerKept, AnsweredOnce,
           OnlyAnsweredEvaluated
  <1>4. QED
    BY <1>2, <1>3

LEMMA RecordEvaluationAnswers ==
  ASSUME TypeInv, AnswerInv, NEW p \in Process \ Submit, NEW label,
         NEW q \in Answered(Row), NEW entry, RecordEvaluation(p, label, q, entry)
  PROVE  AnswerInv'
  <1>1. /\ Holds(p) /\ lockPc' = "done"
        /\ evals' = [evals EXCEPT ![q] = entry] /\ evals \in [Qid -> Entry]
        /\ UNCHANGED <<answers, pc, arg, snap, todo, lockQ>>
    BY DEF RecordEvaluation, Commit, Committed, AnswerInv, HolderUpToDate,
           TypeInv, TypeOK, RowOK, IsRow, Row, local
  <1>2. \A o \in Qid : evals'[o].status # "none" => o \in Answered(Row)
    BY <1>1 DEF AnswerInv, OnlyAnsweredEvaluated
  <1>3. QED
    BY <1>1, <1>2, EvaluationWritten

LEMMA LockedCommitAnswers ==
  ASSUME TypeInv, AnswerInv, LockedCommit
  PROVE  AnswerInv'
  <1>1. CASE \E r \in Submit : RecordAnswer(r)
    BY <1>1, RecordAnswerAnswers
  <1>2. ASSUME NEW q \in Qid, NEW entry,
               NEW label \in {"markProcessing", "markCompleted", "markFailed"},
               RecordEvaluation(q, label, q, entry)
        PROVE  AnswerInv'
    <2>1. q \in Process \ Submit /\ q \in Answered(Row)
      BY <1>2, KindsAssumption
         DEF RecordEvaluation, Commit, AnswerInv, EvaluatorsKnow, Resting,
             Process, Request
    <2>2. QED
      BY <1>2, <2>1, RecordEvaluationAnswers
  <1>3. ASSUME NEW q \in Qid, RefreshScore(q)
        PROVE  AnswerInv'
    <2>1. /\ Holds(q) /\ q \notin Submit /\ lockPc' = "done"
          /\ UNCHANGED <<answers, evals, pc, arg, snap, todo, lockQ>>
      BY <1>3, KindsAssumption
         DEF RefreshScore, Commit, Committed, local, Process, Request
    <2>2. QED
      BY <2>1, EvaluationWritten DEF AnswerInv, OnlyAnsweredEvaluated
  <1>4. ASSUME NEW r \in End, NEW entry,
               RecordEvaluation(r, "fillGap", arg[r], entry)
        PROVE  AnswerInv'
    <2>1. r \in Process \ Submit /\ arg[r] \in Answered(Row)
      BY <1>4, KindsAssumption
         DEF RecordEvaluation, Commit, AnswerInv, EndsKnow, Process, Request
    <2>2. QED
      BY <1>4, <2>1, RecordEvaluationAnswers
  <1>5. ASSUME NEW r \in Guide, CacheGuidance(r)
        PROVE  AnswerInv'
    <2>1. /\ Holds(r) /\ r \notin Submit /\ lockPc' = "done"
          /\ UNCHANGED <<answers, pc, arg, snap, todo, lockQ>>
          /\ evals' = [evals EXCEPT ![arg[r]].guidance = TRUE]
          /\ evals \in [Qid -> Entry]
      BY <1>5, KindsAssumption
         DEF CacheGuidance, Commit, Committed, AnswerInv, HolderUpToDate,
             TypeInv, TypeOK, RowOK, IsRow, Row, local
    <2>2. \A q \in Qid : evals'[q].status = evals[q].status
      BY <2>1 DEF Entry
    <2>3. QED
      BY <2>1, <2>2, EvaluationWritten DEF AnswerInv, OnlyAnsweredEvaluated
  <1>6. QED
    BY <1>1, <1>2, <1>3, <1>4, <1>5 DEF LockedCommit

LEMMA CrashAnswers ==
  ASSUME TypeInv, AnswerInv, Crash
  PROVE  AnswerInv'
  <1> USE DEF Crash, AnswerInv
  <1>1. /\ UNCHANGED <<answers, evals, arg>> /\ lockQ' = <<>> /\ lockPc' = "read"
        /\ \A p \in Process :
             pc'[p] \in Resting /\ (pc'[p] = "acked" => pc[p] = "acked")
    BY DEF row, Resting
  <1>2. Answered(Row)' = Answered(Row) /\ \A o : Recorded(o)' <=> Recorded(o)
    BY <1>1 DEF Answered, Row, Recorded
  <1>3. QueueInv' /\ HolderUpToDate' /\ SubmitInv'
    BY <1>1 DEF QueueInv, Holds, HolderUpToDate, SubmitInv
  <1>4. EvaluatorsKnow' /\ EndsKnow' /\ AckedAnswerKept' /\ AnsweredOnce'
        /\ OnlyAnsweredEvaluated'
    BY <1>1, <1>2
       DEF EvaluatorsKnow, EndsKnow, AckedAnswerKept, AnsweredOnce,
           OnlyAnsweredEvaluated, Process, Request, Resting
  <1>5. QED
    BY <1>3, <1>4

-----------------------------------------------------------------------------
(* All other steps are of one request or evaluator p, which moves itself   *)
(* and perhaps the lock.                                                   *)

Own(p) ==
  /\ UNCHANGED <<answers, evals>>
  /\ \A o \in Process : o # p => pc'[o] = pc[o]
  /\ \A o \in Request : o # p => arg'[o] = arg[o] /\ snap'[o] = snap[o]
  /\ \A o \in End : o # p => todo'[o] = todo[o]
  /\ \/ UNCHANGED lock
     \/ lockQ # <<>> /\ Release
     \/ Queue(p)
     \/ lockQ # <<>> /\ ReleaseAndQueue(p)
  /\ p \in Qid => pc[p] \notin Resting
  /\ p \in End =>
       /\ pc'[p] = "refetched" => Answered(snap'[p]) \subseteq Answered(Row)
       /\ pc'[p] = "fillGap" => arg'[p] \in Answered(Row)
                               /\ todo'[p] \subseteq Answered(Row)

LEMMA OwnAnswers ==
  ASSUME TypeInv, AnswerInv, NEW p \in Process \ Submit, Own(p)
  PROVE  AnswerInv'
  <1> USE DEF Own
  <1>1. Answered(Row)' = Answered(Row)
    BY DEF Answered, Row
  <1>2. EndsKnow'
    <2> SUFFICES ASSUME NEW r \in End
                 PROVE  /\ pc'[r] = "refetched" =>
                             Answered(snap'[r]) \subseteq Answered(Row)
                        /\ pc'[r] = "fillGap" =>
                             arg'[r] \in Answered(Row)
                             /\ todo'[r] \subseteq Answered(Row)
      BY <1>1 DEF EndsKnow, Answered
    <2>1. CASE r = p
      BY <2>1
    <2>2. CASE r # p
      BY <2>2 DEF AnswerInv, EndsKnow, Process, Request
    <2>3. QED
      BY <2>1, <2>2
  <1>3. /\ \A r \in Submit : pc'[r] = pc[r] /\ arg'[r] = arg[r]
        /\ \A q \in Qid : pc'[q] \notin Resting => pc[q] \notin Resting
    BY DEF Process, Request
  <1>4. QED
    BY <1>2, <1>3, Elsewhere

LEMMA ArrivalOwn ==
  ASSUME TypeInv, Arrival
  PROVE  \/ \E r \in Submit, q \in Qid : SubmitBegin(r, q)
         \/ \E p \in Process \ Submit : Own(p)
  <1> USE KindsAssumption DEF Own, TypeInv, TypeOK, ProcessesOK, Process, Request
  <1>1. \A r \in End : EndBegin(r) => r \in Process \ Submit /\ Own(r)
    BY DEF EndBegin, Goto, row
  <1>2. \A r \in Refresh : RefreshBegin(r) => r \in Process \ Submit /\ Own(r)
    BY DEF RefreshBegin, Admit, Goto, row
  <1>3. \A r \in Guide, q \in Qid :
          GuideBegin(r, q) => r \in Process \ Submit /\ Own(r)
    BY DEF GuideBegin, Admit, Goto, row
  <1>4. \A r \in Extend : ExtendBegin(r) => r \in Process \ Submit /\ Own(r)
    BY DEF ExtendBegin, Admit, Goto, row
  <1> HIDE DEF Own, Process
  <1>5. QED
    BY <1>1, <1>2, <1>3, <1>4 DEF Arrival

(* The chain goes on, persists a switch, gives up, or cannot reach the     *)
(* storage.                                                                *)
LEMMA ChainOwn ==
  ASSUME TypeInv, NEW p \in Process,
         RunChain(p) \/ PersistProviderSwitch(p) \/ StorageFault(p)
  PROVE  p \notin Submit /\ Own(p)
  <1>1. /\ p \notin Submit
        /\ pc[p] \in {"asking", "scoring", "switching", "reread", "commit",
                      "await"}
    BY KindsAssumption
       DEF TypeInv, KindOK, RunChain, PersistProviderSwitch, StorageFault,
           Process, Request
  <1>2. UNCHANGED <<answers, evals>>
    BY DEF RunChain, PersistProviderSwitch, StorageFault, row
  <1>3. CASE Proceed(p) /\ UNCHANGED <<arg, snap, todo>>
    <2>1. PICK label \in {"markCompleted", "cacheGuidance", "commit"} :
            pc' = [pc EXCEPT ![p] = label]
      BY <1>3, ProceedType DEF TypeInv, TypeOK, ProcessesOK
    <2>2. UNCHANGED lock \/ Queue(p)
      BY <1>3 DEF Proceed
    <2>3. QED
      BY <1>1, <1>2, <1>3, <2>1, <2>2
         DEF Own, TypeInv, TypeOK, ProcessesOK, Resting
  <1>4. CASE Goto(p, "switching") /\ UNCHANGED <<lock, arg, snap, todo>>
    BY <1>1, <1>2, <1>4
       DEF Own, Goto, TypeInv, TypeOK, ProcessesOK, Resting
  <1>5. CASE GiveUp(p)
    <2>1. /\ UNCHANGED lock \/ Queue(p)
          /\ UNCHANGED <<arg, todo>>
          /\ \A o \in Request : o # p => snap'[o] = snap[o]
          /\ \A o \in Process : o # p => pc'[o] = pc[o]
          /\ pc'[p] \in {"markFailed", "refused"}
      BY <1>5 DEF GiveUp, Goto, TypeInv, TypeOK, ProcessesOK
    <2>2. QED
      BY <1>1, <1>2, <2>1 DEF Own, Resting
  <1>6. QED
    BY <1>3, <1>4, <1>5
       DEF RunChain, PersistProviderSwitch, StorageFault, local

LEMMA EvaluatorOwn ==
  ASSUME TypeInv, NEW q \in Qid, EvaluatorStep(q)
  PROVE  q \notin Submit /\ Own(q)
  <1>1. q \in Process \ Submit /\ q \notin End /\ pc[q] \notin Resting
    BY KindsAssumption
       DEF EvaluatorStep, EvaluatorMarked, EvaluatorRecorded,
           EvaluatorCatches, EvaluatorEnds, Resting, Process, Request
  <1>2. /\ UNCHANGED <<answers, evals, arg, snap, todo>>
        /\ lockQ # <<>> /\ (Release \/ ReleaseAndQueue(q))
        /\ \A o \in Process : o # q => pc'[o] = pc[o]
    BY <1>1
       DEF EvaluatorStep, EvaluatorMarked, EvaluatorRecorded,
           EvaluatorCatches, EvaluatorEnds, Holds, Goto, row, local,
           TypeInv, TypeOK, ProcessesOK
  <1>3. QED
    BY <1>1, <1>2 DEF Own

LEMMA EndOwn ==
  ASSUME TypeInv, AnswerInv, NEW r \in End, EndStep(r)
  PROVE  r \notin Submit /\ Own(r)
  <1> USE DEF Own, TypeInv, TypeOK, ProcessesOK
  <1>1. r \in Process \ Submit /\ r \in Request /\ r \notin Qid
    BY KindsAssumption DEF Process, Request
  <1>2. CASE EndCollect(r)
    BY <1>1, <1>2 DEF EndCollect, Goto, ToReport, row
  <1>3. CASE EndRefetch(r)
    BY <1>1, <1>3 DEF EndRefetch, Goto, row
  <1>4. CASE EndFindGaps(r)
    <2>1. Open(snap[r]) \subseteq Answered(Row)
      BY <1>4 DEF EndFindGaps, AnswerInv, EndsKnow, Open
    <2>2. QED
      BY <1>1, <1>4, <2>1 DEF EndFindGaps, Goto, ToReport, row
  <1>5. CASE EndGapFilled(r)
    <2>1. todo[r] \subseteq Answered(Row)
      BY <1>5 DEF EndGapFilled, AnswerInv, EndsKnow
    <2>2. QED
      BY <1>1, <1>5, <2>1 DEF EndGapFilled, Holds, Goto, row
  <1>6. CASE EndReread(r)
    BY <1>1, <1>6 DEF EndReread, Goto, ToReport, row
  <1>7. CASE EndCommit(r)
    BY <1>1, <1>7 DEF EndCommit, Goto
  <1>8. QED
    BY <1>2, <1>3, <1>4, <1>5, <1>6, <1>7 DEF EndStep

LEMMA WorkOwn ==
  ASSUME TypeInv, AnswerInv, NEW p \in Process, Work(p)
  PROVE  \/ LockRead(p)
         \/ p \in Submit /\ SubmitStep(p)
         \/ p \notin Submit /\ Own(p)
  <1> USE DEF TypeInv, TypeOK, ProcessesOK
  <1>1. CASE RunChain(p) \/ PersistProviderSwitch(p)
    BY <1>1, ChainOwn
  <1>2. CASE p \in Qid /\ EvaluatorStep(p)
    BY <1>2, EvaluatorOwn
  <1>3. CASE p \in End /\ EndStep(p)
    BY <1>3, EndOwn
  <1>4. CASE p \in End \cup Guide /\ LockedRequestThrows(p)
    BY <1>4, KindsAssumption
       DEF Own, LockedRequestThrows, Holds, Goto, row, Process, Request
  <1>5. CASE p \in Refresh /\ RefreshCommit(p)
    BY <1>5, KindsAssumption DEF Own, RefreshCommit, Goto, Process, Request
  <1>6. CASE p \in Guide /\ GuideReturn(p)
    BY <1>6, KindsAssumption
       DEF Own, GuideReturn, Holds, Goto, row, Process, Request
  <1>7. CASE p \in Extend /\ ExtendCommit(p)
    BY <1>7, KindsAssumption DEF Own, ExtendCommit, Goto, Process, Request
  <1>8. QED
    BY <1>1, <1>2, <1>3, <1>4, <1>5, <1>6, <1>7 DEF Work

(* The kinds of step there are.                                            *)
LEMMA StepKinds ==
  ASSUME TypeInv, AnswerInv, [Next]_vars
  PROVE  \/ \E r \in Submit, q \in Qid : SubmitBegin(r, q)
         \/ \E r \in Submit : SubmitStep(r)
         \/ \E p \in Process : LockRead(p) \/ LockFault(p)
         \/ LockedCommit
         \/ Crash
         \/ \E p \in Process \ Submit : Own(p)
         \/ UNCHANGED vars
  <1>1. CASE Arrival
    BY <1>1, ArrivalOwn
  <1>2. CASE \E p \in Process : Work(p)
    BY <1>2, WorkOwn
  <1>3. CASE Fault
    BY <1>3, ChainOwn DEF Fault
  <1>4. QED
    BY <1>1, <1>2, <1>3 DEF Next, Quiet

LEMMA UnchangedAnswers ==
  ASSUME AnswerInv, UNCHANGED vars
  PROVE  AnswerInv'
  BY DEF vars, row, local, lock, AnswerInv, QueueInv, HolderUpToDate,
         SubmitInv, EvaluatorsKnow, EndsKnow, AckedAnswerKept, AnsweredOnce,
         OnlyAnsweredEvaluated, Holds, Recorded, Answered, Row

LEMMA NextAnswers == TypeInv /\ AnswerInv /\ [Next]_vars => AnswerInv'
  <1> SUFFICES ASSUME TypeInv, AnswerInv, [Next]_vars PROVE AnswerInv'
    OBVIOUS
  <1>1. CASE \E r \in Submit, q \in Qid : SubmitBegin(r, q)
    BY <1>1, SubmitBeginAnswers
  <1>2. CASE \E r \in Submit : SubmitStep(r)
    BY <1>2, SubmitQueueAnswers, SubmitReturnAnswers, SubmitRefusedAnswers
       DEF SubmitStep
  <1>3. CASE \E p \in Process : LockRead(p) \/ LockFault(p)
    BY <1>3, LockReadAnswers, LockFaultAnswers
  <1>4. CASE LockedCommit \/ Crash \/ UNCHANGED vars
    BY <1>4, LockedCommitAnswers, CrashAnswers, UnchangedAnswers
  <1>5. CASE \E p \in Process \ Submit : Own(p)
    BY <1>5, OwnAnswers
  <1>6. QED
    BY <1>1, <1>2, <1>3, <1>4, <1>5, StepKinds

-----------------------------------------------------------------------------
(* The promises                                                            *)

(* The inductive invariant holds: a submission's duplicate check is still  *)
(* true when it writes, and writers of evaluations know of an answer.      *)
THEOREM AnswerInvariant == Spec => []AnswerInv
  BY InitAnswers, NextAnswers, TypeInvariant, PTL DEF Spec

(* An acknowledged answer stays on the row, whatever crashes or fails.     *)
THEOREM AcknowledgedAnswersStay == Spec => []AckedAnswerKept
  BY AnswerInvariant, PTL DEF AnswerInv

(* No question is answered twice, however submissions interleave.          *)
THEOREM OneAnswerPerQuestion == Spec => []AnsweredOnce
  BY AnswerInvariant, PTL DEF AnswerInv

(* What the operation under the lock read is still the row when it writes. *)
THEOREM NoLostUpdateUnderLock == Spec => []HolderUpToDate
  BY AnswerInvariant, PTL DEF AnswerInv

(* Only answered questions get an evaluation or a placeholder.             *)
THEOREM EvaluationsAreOfAnswers == Spec => []OnlyAnsweredEvaluated
  BY AnswerInvariant, PTL DEF AnswerInv

-----------------------------------------------------------------------------
(* The session implements the log of answers.                              *)

LEMMA AckedKept ==
  ASSUME \A r \in Submit : pc'[r] = "acked" <=> pc[r] = "acked",
         UNCHANGED answers
  PROVE  UNCHANGED Log!vars
  <1>1. {r \in Submit : pc[r] = "acked"}' = {r \in Submit : pc[r] = "acked"}
    OBVIOUS
  <1>2. QED
    BY <1>1 DEF Log!vars

LEMMA RecordIsRecord ==
  ASSUME TypeInv, AnswerInv, NEW r \in Submit, RecordAnswer(r)
  PROVE  Log!Next
  <1>1. /\ Holds(r) /\ lockPc = "write" /\ UNCHANGED pc
        /\ answers' = Append(answers, [question |-> arg[r], by |-> r])
    BY DEF RecordAnswer, Commit, Committed, AnswerInv, HolderUpToDate
  <1>2. \A i \in DOMAIN answers : answers[i].question # arg[r]
    BY <1>1 DEF AnswerInv, SubmitInv, Answered, Row
  <1>3. Log!Record(r, arg[r]) /\ arg[r] \in Qid
    BY <1>1, <1>2 DEF Log!Record, TypeInv, TypeOK, ProcessesOK, Request
  <1>4. QED
    BY <1>3 DEF Log!Next

LEMMA ReturnIsAcknowledge ==
  ASSUME TypeInv, AnswerInv, NEW r \in Submit, SubmitReturn(r)
  PROVE  Log!Next
  <1>1. /\ pc' = [pc EXCEPT ![r] = "acked", ![arg[r]] = "markProcessing"]
        /\ arg[r] \in Qid /\ arg[r] \notin Submit
        /\ UNCHANGED answers /\ Recorded(r)
    BY KindsAssumption
       DEF SubmitReturn, AnswerInv, SubmitInv, row, TypeInv, TypeOK,
           ProcessesOK, Request
  <1>2. {o \in Submit : pc[o] = "acked"}'
          = {o \in Submit : pc[o] = "acked"} \cup {r}
    BY <1>1 DEF TypeInv, TypeOK, ProcessesOK, Process, Request
  <1>3. \E i \in DOMAIN answers : answers[i].by = r
    BY <1>1 DEF Recorded
  <1>4. QED
    BY <1>1, <1>2, <1>3 DEF Log!Next, Log!Acknowledge

(* A session is an append-only log of at most one answer per question,     *)
(* which acknowledges only what it holds.                                  *)
THEOREM SessionKeepsLog == Spec => LogSpec
  <1>1. Init => Log!Init
    BY DEF Init, Log!Init, Process, Request
  <1>2. TypeInv /\ AnswerInv /\ [Next]_vars => [Log!Next]_(Log!vars)
    <2> SUFFICES ASSUME TypeInv, AnswerInv, [Next]_vars
                 PROVE  Log!Next \/ UNCHANGED Log!vars
      OBVIOUS
    <2> USE DEF TypeInv, TypeOK, ProcessesOK, Process, Request, Goto
    <2>1. ASSUME NEW r \in Submit, NEW q \in Qid, SubmitBegin(r, q)
          PROVE  UNCHANGED Log!vars
      BY <2>1, AckedKept DEF SubmitBegin, row
    <2>2. ASSUME NEW r \in Submit, SubmitStep(r)
          PROVE  Log!Next \/ UNCHANGED Log!vars
      <3>1. CASE SubmitQueue(r) \/ SubmitRefused(r)
        BY <3>1, AckedKept DEF SubmitQueue, SubmitRefused, row
      <3>2. QED
        BY <2>2, <3>1, ReturnIsAcknowledge DEF SubmitStep
    <2>3. ASSUME NEW p \in Process, LockRead(p) \/ LockFault(p)
          PROVE  UNCHANGED Log!vars
      BY <2>3, AckedKept DEF LockRead, LockFault, row
    <2>4. CASE LockedCommit
      <3>1. CASE \E r \in Submit : RecordAnswer(r)
        BY <3>1, RecordIsRecord
      <3>2. CASE UNCHANGED <<answers, pc>>
        BY <3>2, AckedKept
      <3>3. QED
        BY <2>4, <3>1, <3>2
           DEF LockedCommit, RecordEvaluation, RefreshScore, CacheGuidance,
               Committed
    <2>5. CASE Crash
      BY <2>5, AckedKept DEF Crash, Resting, row
    <2>6. ASSUME NEW p \in Process \ Submit, Own(p)
          PROVE  UNCHANGED Log!vars
      BY <2>6, AckedKept DEF Own
    <2>7. CASE UNCHANGED vars
      BY <2>7, AckedKept DEF vars, row
    <2>8. QED
      BY <2>1, <2>2, <2>3, <2>4, <2>5, <2>6, <2>7, StepKinds
  <1>3. QED
    BY <1>1, <1>2, AnswerInvariant, TypeInvariant, PTL
       DEF Spec, LogSpec, Log!Spec

-----------------------------------------------------------------------------
(* Guidance                                                                *)

LEMMA EvaluationsChange ==
  ASSUME TypeInv, AnswerInv, [Next]_vars
  PROVE  UNCHANGED evals \/ LockedCommit
  BY StepKinds
     DEF SubmitBegin, SubmitStep, SubmitQueue, SubmitReturn, SubmitRefused,
         LockRead, LockFault, Crash, Own, vars, row

LEMMA ReplacedEntry ==
  ASSUME TypeInv, AnswerInv, NEW p, NEW label, NEW q \in Qid,
         NEW st, NEW sc, RecordEvaluation(p, label, q, NewEntry(st, sc)),
         NEW o \in Qid, ~evals[o].guidance
  PROVE  ~evals'[o].guidance
  <1>1. evals' = [evals EXCEPT ![q] = NewEntry(st, sc)] /\ evals \in [Qid -> Entry]
    BY DEF RecordEvaluation, Commit, AnswerInv, HolderUpToDate, TypeInv,
           TypeOK, RowOK, IsRow, Row
  <1>2. QED
    BY <1>1 DEF NewEntry

(* Guidance is merged into the entry as it is when the guidance is         *)
(* written: getAnswerGuidance never undoes an evaluation.                  *)
THEOREM GuidanceMerged == Spec => GuidanceKeepsEntry
  <1> DEFINE Merged ==
        \A q \in Qid : ~evals[q].guidance /\ evals'[q].guidance =>
          evals'[q] = [evals[q] EXCEPT !.guidance = TRUE]
  <1>1. TypeInv /\ AnswerInv /\ [Next]_vars => [Merged]_vars
    <2> SUFFICES ASSUME TypeInv, AnswerInv, [Next]_vars,
                        NEW q \in Qid, ~evals[q].guidance, evals'[q].guidance
                 PROVE  evals'[q] = [evals[q] EXCEPT !.guidance = TRUE]
      OBVIOUS
    <2>1. LockedCommit
      BY EvaluationsChange
    <2>2. \A o \in Qid :
            /\ ~RecordEvaluation(o, "markProcessing", o, NewEntry("processing", 0))
            /\ ~RecordEvaluation(o, "markCompleted", o,
                                 NewEntry("completed", result[o]))
            /\ ~RecordEvaluation(o, "markFailed", o, NewEntry("failed", 0))
      BY ReplacedEntry
    <2>3. \A r \in End :
            ~RecordEvaluation(r, "fillGap", arg[r], NewEntry("failed", 0))
      <3>1. \A r \in End : arg[r] \in Qid
        BY DEF TypeInv, TypeOK, ProcessesOK, Request
      <3>2. QED
        BY <3>1, ReplacedEntry
    <2>4. ~UNCHANGED evals
      OBVIOUS
    <2>5. PICK r \in Guide : CacheGuidance(r)
      BY <2>1, <2>2, <2>3, <2>4 DEF LockedCommit, RecordAnswer, RefreshScore
    <2>6. /\ evals' = [evals EXCEPT ![arg[r]].guidance = TRUE]
          /\ evals \in [Qid -> Entry]
      BY <2>5
         DEF CacheGuidance, Commit, AnswerInv, HolderUpToDate, TypeInv,
             TypeOK, RowOK, IsRow, Row
    <2>7. QED
      BY <2>6
  <1>2. QED
    BY <1>1, AnswerInvariant, TypeInvariant, PTL DEF Spec, GuidanceKeepsEntry

=============================================================================
