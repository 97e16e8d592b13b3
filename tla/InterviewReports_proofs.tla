----------------------- MODULE InterviewReports_proofs -----------------------
(***************************************************************************)
(* What a completed session shows, for any number of requests, questions,  *)
(* crashes and faults.  If clients await their replies (ClientWaits), the  *)
(* report, its score and its counts are those of the row, and no score is  *)
(* lost; if they do not, a report that a straggler has updated is current. *)
(***************************************************************************)
EXTENDS InterviewAnswers_proofs

-----------------------------------------------------------------------------
(* Who is in the queue, and who is in progress                             *)

Busy(r) == pc[r] \notin Resting

(* The locked operation of p has made its write, and p has yet to go on.   *)
Done(p) == Holds(p) /\ lockPc = "done"

(* Whoever is queued is at a locked operation, and queued once.            *)
QueueOnce ==
  \A i \in DOMAIN lockQ :
    /\ pc[lockQ[i]] \in LockedOp
    /\ \A j \in DOMAIN lockQ : lockQ[j] = lockQ[i] => i = j

(* An evaluation in progress can be looked up.                             *)
Tracked == \A q \in Qid : Evaluating(q) => q \in pending

(* Submissions, ends and extensions do not overlap.                        *)
SameKind(r, s) ==
  \/ {r, s} \subseteq Submit
  \/ {r, s} \subseteq End
  \/ {r, s} \subseteq Extend
OneKind ==
  \A r, s \in Submit \cup End \cup Extend : Busy(r) /\ Busy(s) => SameKind(r, s)

-----------------------------------------------------------------------------
(* Evaluators                                                              *)

(* The evaluator of q has written the outcome of q.                        *)
Written(q) ==
  \/ pc[q] = "refreshScore"
  \/ pc[q] \in {"markCompleted", "markFailed"} /\ Done(q)

(* The entry is open until the evaluator has written, and closed after.    *)
EntryOfEvaluator ==
  \A q \in Qid : Evaluating(q) => (InFlight(Row, q) <=> ~Written(q))

(* A recorded answer that is not replied to yet has no evaluator.          *)
FreshAnswer ==
  \A r \in Submit : Done(r) =>
    ~Evaluating(arg[r]) /\ InFlight(Row, arg[r])

-----------------------------------------------------------------------------
(* Ends                                                                    *)

AllSettled == \A q \in Answered(Row) : ~InFlight(Row, q)

(* No evaluator has a write ahead of it.                                   *)
NoneAtWork == \A q \in Qid : Evaluating(q) => ~InFlight(Row, q)

(* An entry without a score that nobody will write.                        *)
Orphan(q) == ~Evaluating(q) /\ evals[q].status # "completed"

(* The outcomes that s has are still the row's.                            *)
OutcomesKept(s) ==
  \A q \in Qid : ~InFlight(s, q) =>
    /\ evals[q].status = s.evals[q].status
    /\ s.evals[q].status = "completed" => evals[q].score = s.evals[q].score

EndKnows(r) ==
  /\ snap[r].answers = answers /\ snap[r].questions = questions
  /\ OutcomesKept(snap[r])
  /\ pc[r] = "await" =>
       \A q \in Qid : Evaluating(q) /\ InFlight(Row, q) => q \in todo[r]
  /\ pc[r] \in {"refetched", "fillGap"} => NoneAtWork
  /\ pc[r] = "refetched" => \A q \in Open(snap[r]) : Orphan(q)
  /\ pc[r] = "fillGap" =>
       /\ arg[r] \in todo[r] /\ \A q \in todo[r] : Orphan(q)
       /\ \A q \in Answered(Row) : InFlight(Row, q) => q \in todo[r]
       /\ Done(r) => ~InFlight(Row, arg[r])
  /\ pc[r] = "reread" => AllSettled
  /\ pc[r] \in {"asking", "switching", "commit"} => Open(snap[r]) = {}

EndInv == \A r \in End : Busy(r) => EndKnows(r)

-----------------------------------------------------------------------------
(* The row                                                                 *)

CompletedInv ==
  status = "completed" =>
    /\ final # NoReport /\ AllSettled
    /\ \A r \in Submit : ~Busy(r)

ReportInv ==
  /\ QueueOnce /\ Tracked /\ OneKind
  /\ EntryOfEvaluator /\ FreshAnswer /\ EndInv
  /\ CompletedInv /\ CountsMatch

ScoreCurrent == status = "completed" => final.score = OverallScore(evals)

-----------------------------------------------------------------------------
(* A step of p that enters, keeps its place in, or leaves the queue as its *)
(* label says.                                                             *)
Lockwise(p) ==
  /\ \A o \in Process : o # p => pc'[o] = pc[o]
  /\ \/ UNCHANGED lock /\ pc[p] \notin LockedOp /\ pc'[p] \notin LockedOp
     \/ Queue(p) /\ pc[p] \notin LockedOp /\ pc'[p] \in LockedOp
     \/ Holds(p) /\ Release /\ pc'[p] \notin LockedOp
     \/ Holds(p) /\ ReleaseAndQueue(p) /\ pc'[p] \in LockedOp

LEMMA LeavesQueue ==
  ASSUME LockOK, QueueOnce, NEW p, Holds(p)
  PROVE  /\ Tail(lockQ) \in Seq(Process)
         /\ \A i \in DOMAIN Tail(lockQ) :
              /\ Tail(lockQ)[i] # p /\ pc[Tail(lockQ)[i]] \in LockedOp
              /\ Tail(lockQ)[i] \in Process
              /\ \A j \in DOMAIN Tail(lockQ) :
                   Tail(lockQ)[j] = Tail(lockQ)[i] => i = j
  <1>1. lockQ \in Seq(Process) /\ lockQ # <<>> /\ lockQ[1] = p /\ 1 \in DOMAIN lockQ
    BY DEF LockOK, Holds
  <1> DEFINE rest == Tail(lockQ)
  <1>2. /\ rest \in Seq(Process)
        /\ \A i \in DOMAIN rest :
             i + 1 \in DOMAIN lockQ /\ i + 1 # 1 /\ rest[i] = lockQ[i + 1]
             /\ i \in Int
    BY <1>1
  <1> HIDE DEF rest
  <1>3. \A i \in DOMAIN rest :
          /\ rest[i] # p /\ pc[rest[i]] \in LockedOp /\ rest[i] \in Process
          /\ \A j \in DOMAIN rest : rest[j] = rest[i] => i = j
    BY <1>1, <1>2 DEF QueueOnce
  <1>4. QED
    BY <1>2, <1>3 DEF rest

LEMMA LockwiseDone ==
  ASSUME LockOK, QueueInv, QueueOnce, NEW p \in Process, Lockwise(p)
  PROVE  /\ QueueOnce'
         /\ ~Done(p)'
         /\ \A o \in Process : o # p => (Done(o)' <=> Done(o))
  <1> USE DEF Lockwise, LockOK, Holds, Done
  <1>1. CASE UNCHANGED lock /\ pc[p] \notin LockedOp /\ pc'[p] \notin LockedOp
    <2>1. \A i \in DOMAIN lockQ : lockQ[i] # p /\ lockQ[i] \in Process
      BY <1>1 DEF QueueOnce
    <2>2. QED
      BY <1>1, <2>1 DEF QueueOnce, lock
  <1>2. CASE Queue(p) /\ pc[p] \notin LockedOp /\ pc'[p] \in LockedOp
    <2>1. \A i \in DOMAIN lockQ : lockQ[i] # p /\ lockQ[i] \in Process
      BY <1>2 DEF QueueOnce
    <2>2. QueueOnce'
      BY <1>2, <2>1 DEF QueueOnce, Queue
    <2>3. CASE lockQ = <<>>
      BY <1>2, <2>2, <2>3 DEF Queue, QueueInv
    <2>4. CASE lockQ # <<>>
      BY <1>2, <2>1, <2>2, <2>4 DEF Queue
    <2>5. QED
      BY <2>3, <2>4
  <1>3. CASE Holds(p) /\ Release /\ pc'[p] \notin LockedOp
    BY <1>3, LeavesQueue DEF QueueOnce, Release
  <1>4. CASE Holds(p) /\ ReleaseAndQueue(p) /\ pc'[p] \in LockedOp
    <2> DEFINE rest == Tail(lockQ)
    <2>1. /\ rest \in Seq(Process)
          /\ \A i \in DOMAIN rest :
               /\ rest[i] # p /\ pc[rest[i]] \in LockedOp /\ rest[i] \in Process
               /\ \A j \in DOMAIN rest : rest[j] = rest[i] => i = j
      BY <1>4, LeavesQueue
    <2>2. lockQ' = Append(rest, p) /\ lockPc' = "read"
      BY <1>4 DEF ReleaseAndQueue
    <2> HIDE DEF rest
    <2>3. QueueOnce'
      BY <1>4, <2>1, <2>2 DEF QueueOnce
    <2>4. QED
      BY <1>4, <2>2, <2>3
  <1>5. QED
    BY <1>1, <1>2, <1>3, <1>4

-----------------------------------------------------------------------------
(* Stragglers                                                              *)

Current ==
  /\ final.score = OverallScore(evals)
  /\ final.evaluationsCompleted = Cardinality(Completed(evals))

(* The evaluator of q has yet to compare the report with the row, or died. *)
Straggles(q) ==
  \/ /\ Evaluating(q)
     /\ ~(pc[q] = "refreshScore" /\ Holds(q) /\ lockPc \in {"skip", "done"})
  \/ pc[q] = "lost"

StaleInv ==
  /\ lockPc # "failed"
  /\ status = "completed" => final # NoReport /\ \A r \in End : pc[r] = "done"
  /\ status = "completed" /\ final.feedback = "stale" =>
       Current \/ \E q \in Qid : Straggles(q)

-----------------------------------------------------------------------------
(* Every step but the lock's own, a reply to a submission and a crash is   *)
(* of one request or one evaluator.                                        *)

Begins(r) ==
  \/ r \in Submit /\ MayBegin(Submit)
  \/ r \in End /\ MayBegin(End)
  \/ r \in Extend /\ MayBegin(Extend)
  \/ r \in Refresh \cup Guide

Columns == <<questions, status, final, totalQuestions, answeredCount>>

RowBy(r) ==
  \/ UNCHANGED Columns
  \/ r \in End /\ EndCommit(r)
  \/ r \in Refresh /\ RefreshCommit(r)
  \/ r \in Extend /\ ExtendCommit(r)

Ending(r) ==
  \/ EndBegin(r) \/ EndStep(r) \/ LockedRequestThrows(r)
  \/ RunChain(r) \/ PersistProviderSwitch(r) \/ StorageFault(r)

RequestMoves(r) ==
  /\ UNCHANGED <<answers, evals, pending>>
  /\ RowBy(r)
  /\ r \in End => Ending(r)
  /\ r \in Submit /\ Busy(r)' => Busy(r) \/ status = "active"
  /\ r \in Refresh /\ Busy(r)' =>
       \/ Busy(r) /\ snap'[r] = snap[r]
       \/ snap'[r] = Row /\ status = "completed"
  /\ \A o \in Request : o # r => arg'[o] = arg[o] /\ snap'[o] = snap[o]
  /\ \A o \in End : o # r => todo'[o] = todo[o]
  /\ Lockwise(r)
  /\ Busy(r)' => Busy(r) \/ Begins(r)

EvaluatorMoves(q) ==
  /\ UNCHANGED <<answers, evals, Columns, arg, snap, todo>>
  /\ Lockwise(q)
  /\ Evaluating(q)
  /\ \/ Evaluating(q)' /\ UNCHANGED pending /\ (Written(q)' <=> Written(q))
     \/ ~Evaluating(q)' /\ pending' = pending \ {q}

LEMMA SubmitMoves ==
  ASSUME TypeInv, NEW r \in Submit,
         \/ \E q \in Qid : SubmitBegin(r, q)
         \/ SubmitQueue(r) \/ SubmitRefused(r)
  PROVE  RequestMoves(r)
  <1> USE KindsAssumption
          DEF TypeInv, TypeOK, ProcessesOK, RequestMoves, Lockwise, Busy,
              Begins, RowBy, Columns, Ending, Goto, Resting, LockedOp, Process, Request
  <1>1. ASSUME NEW q \in Qid, SubmitBegin(r, q)
        PROVE  RequestMoves(r)
    BY <1>1 DEF SubmitBegin, row
  <1>2. CASE SubmitQueue(r)
    BY <1>2 DEF SubmitQueue, row, local
  <1>3. CASE SubmitRefused(r)
    BY <1>3 DEF SubmitRefused, row, local
  <1>4. QED
    BY <1>1, <1>2, <1>3

LEMMA EndMoves ==
  ASSUME TypeInv, NEW r \in End, EndBegin(r) \/ EndStep(r)
  PROVE  RequestMoves(r)
  <1> USE KindsAssumption
          DEF TypeInv, TypeOK, ProcessesOK, RequestMoves, Lockwise, Busy,
              Begins, RowBy, Columns, Ending, Goto, Resting, LockedOp, Process, Request
  <1>1. CASE EndBegin(r)
    BY <1>1 DEF EndBegin, row
  <1>2. CASE EndCollect(r)
    BY <1>2 DEF EndCollect, ToReport, row
  <1>3. CASE EndRefetch(r)
    BY <1>3 DEF EndRefetch, row
  <1>4. CASE EndFindGaps(r)
    BY <1>4 DEF EndFindGaps, ToReport, row
  <1>5. CASE EndGapFilled(r)
    BY <1>5 DEF EndGapFilled, row
  <1>6. CASE EndReread(r)
    BY <1>6 DEF EndReread, ToReport, row
  <1>7. CASE EndCommit(r)
    BY <1>7 DEF EndCommit
  <1>8. QED
    BY <1>1, <1>2, <1>3, <1>4, <1>5, <1>6, <1>7 DEF EndStep

LEMMA OtherMoves ==
  ASSUME TypeInv, NEW r \in Request,
         \/ r \in Refresh /\ (RefreshBegin(r) \/ RefreshCommit(r))
         \/ r \in Guide /\ GuideReturn(r)
         \/ r \in Guide /\ \E q \in Qid : GuideBegin(r, q)
         \/ r \in End \cup Guide /\ LockedRequestThrows(r)
         \/ r \in Extend /\ (ExtendBegin(r) \/ ExtendCommit(r))
  PROVE  RequestMoves(r)
  <1> USE KindsAssumption
          DEF TypeInv, TypeOK, ProcessesOK, RequestMoves, Lockwise, Busy,
              Begins, RowBy, Columns, Ending, Goto, Admit, Resting, LockedOp, Process, Request
  <1>1. CASE r \in Refresh /\ (RefreshBegin(r) \/ RefreshCommit(r))
    BY <1>1 DEF RefreshBegin, RefreshCommit, row
  <1>2. CASE r \in Guide /\ GuideReturn(r)
    BY <1>2 DEF GuideReturn, row
  <1>3. CASE r \in Guide /\ \E q \in Qid : GuideBegin(r, q)
    BY <1>3 DEF GuideBegin, row
  <1>4. CASE r \in End \cup Guide /\ LockedRequestThrows(r)
    BY <1>4 DEF LockedRequestThrows, row
  <1>5. CASE r \in Extend /\ ExtendBegin(r)
    BY <1>5 DEF ExtendBegin, row
  <1>6. CASE r \in Extend /\ ExtendCommit(r)
    <2>1. RowBy(r)
      BY <1>6 DEF RowBy
    <2> HIDE DEF RowBy
    <2>2. QED
      BY <1>6, <2>1 DEF ExtendCommit
  <1>7. QED
    BY <1>1, <1>2, <1>3, <1>4, <1>5, <1>6

(* The chain goes on, persists a switch, gives up, or cannot reach the     *)
(* storage.                                                                *)
LEMMA ChainStep ==
  ASSUME TypeInv, NEW p \in Process,
         RunChain(p) \/ PersistProviderSwitch(p) \/ StorageFault(p)
  PROVE  /\ pc[p] \notin Resting /\ pc[p] \notin LockedOp
         /\ Lockwise(p)
         /\ UNCHANGED <<answers, evals, Columns, pending, arg, todo>>
         /\ IF p \in Qid
              THEN /\ pc'[p] \in {"switching", "markCompleted", "markFailed"}
                   /\ UNCHANGED snap
              ELSE /\ \A o \in Request : o # p => snap'[o] = snap[o]
                   /\ UNCHANGED snap \/ pc'[p] = "refused"
  <1> USE DEF TypeInv, TypeOK, ProcessesOK
  <1>1. /\ pc[p] \in {"asking", "scoring", "switching", "reread", "commit",
                      "await"}
        /\ UNCHANGED <<answers, evals, Columns, pending>>
    BY DEF RunChain, PersistProviderSwitch, StorageFault, row, Columns
  <1>2. pc[p] \notin Resting /\ pc[p] \notin LockedOp
    BY <1>1 DEF Resting, LockedOp
  <1>3. CASE Proceed(p) /\ UNCHANGED <<arg, snap, todo>>
    <2>1. CASE p \in Qid \cup Guide
      BY <1>1, <1>2, <1>3, <2>1, KindsAssumption
         DEF Proceed, Goto, Lockwise, LockedOp, Request
    <2>2. CASE p \notin Qid \cup Guide
      BY <1>1, <1>2, <1>3, <2>2 DEF Proceed, Goto, Lockwise, LockedOp
    <2>3. QED
      BY <2>1, <2>2
  <1>4. CASE Goto(p, "switching") /\ UNCHANGED <<lock, arg, snap, todo>>
    BY <1>1, <1>2, <1>4 DEF Goto, Lockwise, LockedOp
  <1>5. CASE GiveUp(p)
    BY <1>1, <1>2, <1>5 DEF GiveUp, Goto, Lockwise, LockedOp
  <1>6. QED
    BY <1>3, <1>4, <1>5
       DEF RunChain, PersistProviderSwitch, StorageFault, local

ChainOf(p) == RunChain(p) \/ PersistProviderSwitch(p) \/ StorageFault(p)

LEMMA RequestChainMoves ==
  ASSUME TypeInv, NEW p \in Process, p \notin Qid, ChainOf(p)
  PROVE  p \in Request /\ RequestMoves(p)
  <1>1. p \in Request /\ RequestMoves(p)
    BY ChainStep DEF ChainOf, RequestMoves, RowBy, Ending, Busy, Resting, Process
  <1>2. QED
    BY <1>1

LEMMA EvaluatorChainMoves ==
  ASSUME TypeInv, QueueInv, QueueOnce, NEW q \in Qid, ChainOf(q)
  PROVE  EvaluatorMoves(q)
  <1>1. /\ q \in Process
        /\ pc[q] \notin Resting \cup LockedOp
        /\ pc'[q] \in {"switching", "markCompleted", "markFailed"}
        /\ Lockwise(q)
        /\ UNCHANGED <<answers, evals, Columns, pending, arg, snap, todo>>
    BY ChainStep DEF ChainOf, Process
  <1>2. ~Done(q)'
    BY <1>1, LockwiseDone DEF TypeInv, TypeOK
  <1>3. QED
    BY <1>1, <1>2 DEF EvaluatorMoves, Evaluating, Written, Resting, LockedOp

LEMMA EvaluatorStepMoves ==
  ASSUME TypeInv, NEW q \in Qid, EvaluatorStep(q)
  PROVE  EvaluatorMoves(q)
  <1> USE DEF TypeInv, TypeOK, ProcessesOK, EvaluatorMoves, Lockwise, Evaluating,
              Written, Done, Goto, Resting, LockedOp, Process, local, Columns
  <1>1. CASE EvaluatorMarked(q)
    BY <1>1 DEF EvaluatorMarked, row
  <1>2. CASE EvaluatorRecorded(q)
    BY <1>2 DEF EvaluatorRecorded, row
  <1>3. CASE EvaluatorCatches(q)
    BY <1>3 DEF EvaluatorCatches, ReleaseAndQueue, row
  <1>4. CASE EvaluatorEnds(q)
    BY <1>4 DEF EvaluatorEnds, row
  <1>5. QED
    BY <1>1, <1>2, <1>3, <1>4 DEF EvaluatorStep

LEMMA StepOwners ==
  ASSUME TypeInv, [Next]_vars
  PROVE  \/ \E r \in Request : RequestMoves(r)
         \/ \E q \in Qid : EvaluatorStep(q) \/ ChainOf(q)
         \/ \E r \in Submit : SubmitReturn(r)
         \/ \E p \in Process : LockRead(p) \/ LockFault(p)
         \/ LockedCommit
         \/ Crash
         \/ UNCHANGED vars
  <1>1. CASE Arrival
    BY <1>1, SubmitMoves, EndMoves, OtherMoves DEF Arrival, Request
  <1>2. ASSUME NEW p \in Process, ChainOf(p)
        PROVE  \/ \E r \in Request : RequestMoves(r)
               \/ \E q \in Qid : ChainOf(q)
    BY <1>2, RequestChainMoves
  <1>3. ASSUME NEW p \in Process, Work(p)
        PROVE  \/ \E r \in Request : RequestMoves(r)
               \/ \E q \in Qid : EvaluatorStep(q) \/ ChainOf(q)
               \/ p \in Submit /\ SubmitReturn(p)
               \/ LockRead(p)
    <2>1. CASE RunChain(p) \/ PersistProviderSwitch(p)
      BY <1>2, <2>1 DEF ChainOf
    <2>2. CASE p \in Submit /\ SubmitStep(p)
      BY <2>2, SubmitMoves DEF SubmitStep, Request
    <2>3. CASE p \in Qid /\ EvaluatorStep(p)
      BY <2>3
    <2>4. CASE p \in End /\ EndStep(p)
      BY <2>4, EndMoves DEF Request
    <2>5. CASE \/ p \in Refresh /\ RefreshCommit(p)
               \/ p \in Guide /\ GuideReturn(p)
               \/ p \in End \cup Guide /\ LockedRequestThrows(p)
               \/ p \in Extend /\ ExtendCommit(p)
      BY <2>5, OtherMoves DEF Request
    <2>6. QED
      BY <1>3, <2>1, <2>2, <2>3, <2>4, <2>5 DEF Work
  <1>4. CASE Fault
    BY <1>2, <1>4 DEF Fault, ChainOf
  <1>5. QED
    BY <1>1, <1>3, <1>4 DEF Next, Quiet

LEMMA StepClasses ==
  ASSUME TypeInv, QueueInv, QueueOnce, [Next]_vars
  PROVE  \/ \E r \in Request : RequestMoves(r)
         \/ \E q \in Qid : EvaluatorMoves(q)
         \/ \E r \in Submit : SubmitReturn(r)
         \/ \E p \in Process : LockRead(p) \/ LockFault(p)
         \/ LockedCommit
         \/ Crash
         \/ UNCHANGED vars
  BY StepOwners, EvaluatorChainMoves, EvaluatorStepMoves

-----------------------------------------------------------------------------
(* What an End knows                                                       *)

LEMMA SameOutcomes ==
  ASSUME UNCHANGED <<answers, evals>>, \A q \in Qid : pc'[q] = pc[q]
  PROVE  /\ Answered(Row)' = Answered(Row)
         /\ \A q : InFlight(Row, q)' <=> InFlight(Row, q)
         /\ \A q \in Qid : Evaluating(q)' <=> Evaluating(q)
         /\ \A q \in Qid : Orphan(q)' <=> Orphan(q)
         /\ AllSettled' <=> AllSettled
         /\ NoneAtWork' <=> NoneAtWork
  <1>1. Answered(Row)' = Answered(Row)
    BY DEF Answered, Row
  <1>2. \A q : InFlight(Row, q)' <=> InFlight(Row, q)
    BY DEF InFlight, Row
  <1>3. \A q \in Qid : Evaluating(q)' <=> Evaluating(q)
    BY DEF Evaluating
  <1>4. \A q \in Qid : Orphan(q)' <=> Orphan(q)
    BY <1>3 DEF Orphan
  <1>5. QED
    BY <1>1, <1>2, <1>3, <1>4 DEF AllSettled, NoneAtWork

LEMMA AnsweredType == TypeInv => Answered(Row) \subseteq Qid
  <1> SUFFICES ASSUME TypeInv PROVE Answered(Row) \subseteq Qid
    OBVIOUS
  <1>1. answers \in Seq(Answer)
    BY RowColumns DEF TypeInv, TypeOK, RowOK, IsRow
  <1>2. \A i \in DOMAIN answers : answers[i] \in Answer
    BY <1>1
  <1>3. QED
    BY <1>2 DEF Answered, Row, Answer

(* Its own step, if it is not the last.                                    *)
LEMMA EndingKnows ==
  ASSUME TypeInv, AnswerInv, ReportInv, NEW r \in End, RequestMoves(r),
         Busy(r)'
  PROVE  EndKnows(r)'
  <1> USE DEF Busy, Resting
  <1>1. /\ UNCHANGED <<answers, evals>> /\ Ending(r) /\ Lockwise(r)
        /\ r \in Process /\ r \in Request /\ r \notin Qid
        /\ \A q \in Qid : pc'[q] = pc[q]
        /\ pc \in [Process -> Doing] /\ DOMAIN snap = Request
        /\ todo \in [End -> SUBSET Qid] /\ arg \in [Request -> Qid]
    BY KindsAssumption
       DEF RequestMoves, Lockwise, TypeInv, TypeOK, ProcessesOK, Process, Request
  <1>2. ~Done(r)'
    BY <1>1, LockwiseDone DEF TypeInv, TypeOK, AnswerInv, ReportInv
  <1>3. /\ Answered(Row)' = Answered(Row)
        /\ \A q : InFlight(Row, q)' <=> InFlight(Row, q)
        /\ \A q \in Qid : Evaluating(q)' <=> Evaluating(q)
        /\ \A q \in Qid : Orphan(q)' <=> Orphan(q)
        /\ AllSettled' <=> AllSettled
        /\ NoneAtWork' <=> NoneAtWork
    BY <1>1, SameOutcomes
  <1>4. Answered(Row) \subseteq Qid
    BY AnsweredType
  <1>5. Busy(r) => EndKnows(r)
    BY DEF ReportInv, EndInv
  <1>6. Busy(r) /\ snap'[r] = snap[r] /\ UNCHANGED questions =>
          /\ snap'[r].answers = answers' /\ snap'[r].questions = questions'
          /\ Open(snap[r])' = Open(snap[r])
          /\ OutcomesKept(snap[r])'
    BY <1>1, <1>5 DEF EndKnows, OutcomesKept, Open, Answered, InFlight
  <1>7. snap'[r] = Row /\ UNCHANGED questions =>
          /\ snap'[r].answers = answers' /\ snap'[r].questions = questions'
          /\ Open(snap[r])' = Open(Row)
          /\ OutcomesKept(snap[r])'
    BY <1>1 DEF OutcomesKept, Open, Answered, InFlight, Row
  <1>8. Busy(r) => \A q \in Qid : InFlight(Row, q) => InFlight(snap[r], q)
    BY <1>5 DEF EndKnows, OutcomesKept, InFlight, Row
  <1>9. Busy(r) => /\ Answered(snap[r]) = Answered(Row)
                   /\ Open(snap[r]) \subseteq Qid
    BY <1>4, <1>5 DEF EndKnows, Answered, Open, Row
  <1>10. CASE EndBegin(r)
    BY <1>1, <1>7, <1>10 DEF EndBegin, Goto, EndKnows, row
  <1>11. CASE EndCollect(r)
    <2>1. /\ pc[r] = "collect" /\ UNCHANGED <<questions, snap, arg>>
          /\ \/ /\ pc'[r] \in {"asking", "commit"} /\ Open(snap[r]) = {}
             \/ pc'[r] = "await" /\ todo'[r] = Open(snap[r]) \cap pending
      BY <1>1, <1>11 DEF EndCollect, Goto, ToReport, row
    <2>2. \A q \in Qid : Evaluating(q) /\ InFlight(Row, q) =>
            q \in Open(snap[r]) \cap pending
      BY <1>8, <1>9, <2>1
         DEF AnswerInv, EvaluatorsKnow, Evaluating, ReportInv, Tracked, Open
    <2>3. QED
      BY <1>1, <1>3, <1>6, <2>1, <2>2 DEF EndKnows
  <1>12. CASE EndRefetch(r)
    <2>1. /\ pc[r] = "await" /\ UNCHANGED <<questions, arg>> /\ snap'[r] = Row
          /\ \A q \in todo[r] : pc[q] = "ended"
          /\ pc'[r] = "refetched"
      BY <1>1, <1>12 DEF EndRefetch, Goto, row
    <2>2. NoneAtWork
      BY <1>5, <2>1 DEF EndKnows, NoneAtWork, Evaluating
    <2>3. \A q \in Open(Row) : Orphan(q)
      BY <1>4, <2>2 DEF NoneAtWork, Orphan, Open, InFlight, Row
    <2>4. QED
      BY <1>3, <1>4, <1>7, <2>1, <2>2, <2>3, <1>9 DEF EndKnows, Open
  <1>13. CASE EndFindGaps(r)
    <2>1. /\ pc[r] = "refetched" /\ UNCHANGED <<questions, snap>>
          /\ \/ pc'[r] \in {"asking", "commit"} /\ Open(snap[r]) = {}
             \/ /\ pc'[r] = "fillGap" /\ todo'[r] = Open(snap[r])
                /\ arg'[r] \in Open(snap[r])
      BY <1>1, <1>13 DEF EndFindGaps, Goto, ToReport, row
    <2>2. /\ NoneAtWork /\ \A q \in Open(snap[r]) : Orphan(q)
          /\ \A q \in Answered(Row) : InFlight(Row, q) => q \in Open(snap[r])
      BY <1>4, <1>5, <1>8, <1>9, <2>1 DEF EndKnows, Open
    <2>3. CASE pc'[r] = "fillGap"
      BY <1>2, <1>3, <1>6, <1>9, <2>1, <2>2, <2>3 DEF EndKnows
    <2>4. CASE pc'[r] # "fillGap"
      BY <1>6, <2>1, <2>4 DEF EndKnows
    <2>5. QED
      BY <2>3, <2>4
  <1>14. CASE EndGapFilled(r)
    <2>1. /\ pc[r] = "fillGap" /\ Done(r) /\ UNCHANGED <<questions, snap>>
          /\ todo'[r] = todo[r] \ {arg[r]}
          /\ \/ pc'[r] = "reread" /\ todo'[r] = {}
             \/ pc'[r] = "fillGap" /\ arg'[r] \in todo'[r]
      BY <1>1, <1>14 DEF EndGapFilled, Goto, Done, row
    <2>2. /\ NoneAtWork /\ \A q \in todo'[r] : Orphan(q) /\ q \in Qid
          /\ \A q \in Answered(Row) : InFlight(Row, q) => q \in todo'[r]
      BY <1>1, <1>5, <2>1 DEF EndKnows
    <2>3. CASE pc'[r] = "reread"
      <3>1. AllSettled
        BY <2>1, <2>2, <2>3 DEF AllSettled
      <3>2. QED
        BY <1>3, <1>6, <2>1, <2>3, <3>1 DEF EndKnows
    <2>4. CASE pc'[r] = "fillGap"
      BY <1>1, <1>2, <1>3, <1>6, <2>1, <2>2, <2>4 DEF EndKnows
    <2>5. QED
      BY <2>1, <2>3, <2>4
  <1>15. CASE EndReread(r)
    <2>1. /\ pc[r] = "reread" /\ UNCHANGED questions /\ snap'[r] = Row
          /\ pc'[r] \in {"asking", "commit"}
      BY <1>1, <1>15 DEF EndReread, Goto, ToReport, row
    <2>2. Open(Row) = {}
      BY <1>5, <2>1 DEF EndKnows, AllSettled, Open
    <2>3. QED
      BY <1>7, <2>1, <2>2 DEF EndKnows
  <1>16. CASE EndCommit(r) \/ LockedRequestThrows(r)
    BY <1>1, <1>16 DEF EndCommit, LockedRequestThrows, Goto
  <1>17. CASE RunChain(r) \/ PersistProviderSwitch(r) \/ StorageFault(r)
    <2>1. r \notin Guide
      BY KindsAssumption
    <2>2. ~GiveUp(r)
      BY <1>1 DEF GiveUp, Goto
    <2>3. /\ pc[r] \in {"asking", "switching"} /\ UNCHANGED <<questions, snap>>
          /\ pc'[r] \in {"switching", "commit"}
      <3>1. pc[r] # "scoring"
        BY <1>1 DEF TypeInv, KindOK
      <3>2. Proceed(r) => pc'[r] = "commit"
        BY <1>1, <2>1 DEF Proceed, Goto
      <3>3. QED
        BY <1>1, <1>17, <2>2, <3>1, <3>2
           DEF RunChain, PersistProviderSwitch, StorageFault, Goto, local, row
    <2>4. Open(snap[r]) = {}
      BY <1>5, <2>3 DEF EndKnows
    <2>5. QED
      BY <1>6, <2>3, <2>4 DEF EndKnows
  <1>18. QED
    BY <1>1, <1>10, <1>11, <1>12, <1>13, <1>14, <1>15, <1>16, <1>17
       DEF Ending, EndStep

(* A step of another process that leaves answers and questions alone and   *)
(* can only settle entries, in which it does not touch what r has.         *)
LEMMA KnowsStay ==
  ASSUME NEW r \in End, EndKnows(r),
         pc'[r] = pc[r], arg'[r] = arg[r], snap'[r] = snap[r],
         todo'[r] = todo[r], arg[r] \in Qid, todo[r] \subseteq Qid,
         Answered(Row) \subseteq Qid, UNCHANGED <<answers, questions>>,
         OutcomesKept(snap[r])',
         \A q \in Qid :
           /\ Evaluating(q)' => Evaluating(q)
           /\ InFlight(Row, q)' => InFlight(Row, q)
           /\ Orphan(q) => evals'[q].status # "completed",
         Done(r)' => Done(r) \/ ~InFlight(Row, arg[r])'
  PROVE  EndKnows(r)'
  <1>1. Answered(Row)' = Answered(Row) /\ Open(snap[r])' = Open(snap[r])
    BY DEF Answered, Row, Open, InFlight
  <1>2. \A q \in Qid : Orphan(q) => Orphan(q)'
    BY DEF Orphan
  <1>3. (NoneAtWork => NoneAtWork') /\ (AllSettled => AllSettled')
    BY <1>1 DEF NoneAtWork, AllSettled
  <1>4. /\ snap'[r].answers = answers' /\ snap'[r].questions = questions'
        /\ pc'[r] = "await" =>
             \A q \in Qid : Evaluating(q)' /\ InFlight(Row, q)' => q \in todo'[r]
        /\ pc'[r] \in {"refetched", "fillGap"} => NoneAtWork'
    BY <1>3 DEF EndKnows
  <1>5. pc'[r] = "refetched" => \A q \in Open(snap[r])' : Orphan(q)'
    <2>1. pc'[r] = "refetched" => \A q \in Open(snap[r]) : q \in Qid /\ Orphan(q)
      BY DEF EndKnows, Open, Answered, Row
    <2>2. QED
      BY <1>1, <1>2, <2>1
  <1>6. pc'[r] = "fillGap" =>
          /\ arg'[r] \in todo'[r] /\ \A q \in todo'[r] : Orphan(q)'
          /\ \A q \in Answered(Row)' : InFlight(Row, q)' => q \in todo'[r]
          /\ Done(r)' => ~InFlight(Row, arg[r])'
    BY <1>1, <1>2 DEF EndKnows
  <1>7. /\ pc'[r] = "reread" => AllSettled'
        /\ pc'[r] \in {"asking", "switching", "commit"} => Open(snap[r])' = {}
    BY <1>1, <1>3 DEF EndKnows
  <1>8. QED
    BY <1>4, <1>5, <1>6, <1>7 DEF EndKnows

-----------------------------------------------------------------------------
(* Writes under the lock                                                   *)

Writing(p) ==
  /\ Holds(p) /\ lockPc = "write" /\ lockPc' = "done"
  /\ UNCHANGED <<questions, status, totalQuestions, answeredCount, pc, arg,
                 snap, todo, pending, lockQ>>

EntryWritten(q, st) ==
  /\ UNCHANGED <<answers, final>>
  /\ \E sc : evals' = [evals EXCEPT ![q] = NewEntry(st, sc)]

OutcomesUnchanged ==
  \A q \in Qid : evals'[q].status = evals[q].status
                /\ evals'[q].score = evals[q].score

ScoreRefreshed ==
  /\ final'.feedback = "stale"
  /\ final'.score = OverallScore(evals)
  /\ final'.evaluationsCompleted = Cardinality(Completed(evals))

LEMMA CommitKinds ==
  ASSUME TypeInv, AnswerInv, LockedCommit
  PROVE  \E p \in Process : Writing(p) /\
           \/ /\ p \in Submit /\ pc[p] = "recordAnswer"
              /\ UNCHANGED <<evals, final>>
              /\ answers' = Append(answers, [question |-> arg[p], by |-> p])
           \/ /\ p \in Qid
              /\ \/ pc[p] = "markProcessing" /\ EntryWritten(p, "processing")
                 \/ pc[p] = "markCompleted" /\ EntryWritten(p, "completed")
                 \/ pc[p] = "markFailed" /\ EntryWritten(p, "failed")
           \/ p \in End /\ pc[p] = "fillGap" /\ EntryWritten(arg[p], "failed")
           \/ /\ p \in Guide /\ pc[p] = "cacheGuidance"
              /\ UNCHANGED <<answers, final>> /\ OutcomesUnchanged
           \/ /\ p \in Qid /\ pc[p] = "refreshScore"
              /\ UNCHANGED <<answers, evals>> /\ ScoreRefreshed
  <1> USE DEF Process, Request
  <1>1. lockPc = "write" => lockSnap.answers = answers /\ lockSnap.evals = evals
    BY DEF AnswerInv, HolderUpToDate
  <1>2. ASSUME NEW p, NEW label, NEW q, NEW st, NEW sc,
               RecordEvaluation(p, label, q, NewEntry(st, sc))
        PROVE  Writing(p) /\ pc[p] = label /\ EntryWritten(q, st)
    BY <1>1, <1>2
       DEF RecordEvaluation, Commit, Committed, Writing, EntryWritten, local
  <1>3. ASSUME NEW r \in Submit, RecordAnswer(r)
        PROVE  /\ Writing(r) /\ pc[r] = "recordAnswer"
               /\ UNCHANGED <<evals, final>>
               /\ answers' = Append(answers, [question |-> arg[r], by |-> r])
    BY <1>1, <1>3 DEF RecordAnswer, Commit, Committed, Writing, local
  <1>4. ASSUME NEW r \in Guide, CacheGuidance(r)
        PROVE  /\ Writing(r) /\ pc[r] = "cacheGuidance"
               /\ UNCHANGED <<answers, final>> /\ OutcomesUnchanged
    <2>1. /\ Writing(r) /\ pc[r] = "cacheGuidance" /\ UNCHANGED <<answers, final>>
          /\ evals' = [evals EXCEPT ![arg[r]].guidance = TRUE]
      BY <1>1, <1>4 DEF CacheGuidance, Commit, Committed, Writing, local
    <2>2. evals \in [Qid -> Entry]
      BY RowColumns DEF TypeInv, TypeOK, RowOK, IsRow
    <2>3. OutcomesUnchanged
      BY <2>1, <2>2 DEF OutcomesUnchanged, Entry
    <2>4. QED
      BY <2>1, <2>3
  <1>5. ASSUME NEW q \in Qid, RefreshScore(q)
        PROVE  /\ Writing(q) /\ pc[q] = "refreshScore"
               /\ UNCHANGED <<answers, evals>> /\ ScoreRefreshed
    BY <1>1, <1>5
       DEF RefreshScore, Commit, Committed, Writing, ScoreRefreshed, local
  <1>6. CASE \E r \in Submit : RecordAnswer(r)
    BY <1>3, <1>6
  <1>7. CASE \E r \in Guide : CacheGuidance(r)
    BY <1>4, <1>7
  <1>8. CASE \E q \in Qid : RefreshScore(q)
    BY <1>5, <1>8
  <1>9. CASE \E r \in End :
               RecordEvaluation(r, "fillGap", arg[r], NewEntry("failed", 0))
    BY <1>2, <1>9
  <1>10. CASE \E q \in Qid :
           \/ RecordEvaluation(q, "markProcessing", q, NewEntry("processing", 0))
           \/ RecordEvaluation(q, "markCompleted", q,
                               NewEntry("completed", result[q]))
           \/ RecordEvaluation(q, "markFailed", q, NewEntry("failed", 0))
    <2>1. PICK q \in Qid :
           \/ RecordEvaluation(q, "markProcessing", q, NewEntry("processing", 0))
           \/ RecordEvaluation(q, "markCompleted", q,
                               NewEntry("completed", result[q]))
           \/ RecordEvaluation(q, "markFailed", q, NewEntry("failed", 0))
      BY <1>10
    <2>2. /\ Writing(q)
          /\ \/ pc[q] = "markProcessing" /\ EntryWritten(q, "processing")
             \/ pc[q] = "markCompleted" /\ EntryWritten(q, "completed")
             \/ pc[q] = "markFailed" /\ EntryWritten(q, "failed")
      BY <1>2, <2>1
    <2>3. QED
      BY <2>2
  <1>11. QED
    BY <1>6, <1>7, <1>8, <1>9, <1>10 DEF LockedCommit

LEMMA EntryAfter ==
  ASSUME TypeInv, NEW q \in Qid, NEW st, EntryWritten(q, st)
  PROVE  /\ evals'[q].status = st
         /\ \A o \in Qid : o # q => evals'[o] = evals[o]
  <1>1. evals \in [Qid -> Entry]
    BY RowColumns DEF TypeInv, TypeOK, RowOK, IsRow
  <1>2. QED
    BY <1>1 DEF EntryWritten, NewEntry

(* Whoever writes an entry writes one that is open, or nobody's.           *)
LEMMA WriterKnows ==
  ASSUME TypeInv, AnswerInv, ReportInv, NEW p \in Process, Writing(p)
  PROVE  /\ p \in Qid /\ pc[p] \in {"markProcessing", "markCompleted", "markFailed"}
              => Evaluating(p) /\ InFlight(Row, p) /\ p \in Answered(Row)
         /\ p \in End /\ pc[p] = "fillGap" => Orphan(arg[p]) /\ arg[p] \in Qid
  <1>1. ~Done(p)
    BY DEF Writing, Done
  <1>2. ASSUME p \in Qid,
               pc[p] \in {"markProcessing", "markCompleted", "markFailed"}
        PROVE  Evaluating(p) /\ InFlight(Row, p) /\ p \in Answered(Row)
    <2>1. Evaluating(p) /\ ~Written(p)
      BY <1>1, <1>2 DEF Evaluating, Resting, Written
    <2>2. QED
      BY <1>2, <2>1
         DEF ReportInv, EntryOfEvaluator, AnswerInv, EvaluatorsKnow, Evaluating
  <1>3. ASSUME p \in End, pc[p] = "fillGap"
        PROVE  Orphan(arg[p]) /\ arg[p] \in Qid
    <2>1. Busy(p) /\ arg[p] \in Qid
      BY <1>3 DEF Busy, Resting, TypeInv, TypeOK, ProcessesOK, Request
    <2>2. QED
      BY <1>3, <2>1 DEF ReportInv, EndInv, EndKnows
  <1>4. QED
    BY <1>2, <1>3

(* How a write may change an entry.                                        *)
Settles(q) ==
  \/ evals'[q].status = evals[q].status /\ evals'[q].score = evals[q].score
  \/ InFlight(Row, q) /\ Evaluating(q)
  \/ Orphan(q) /\ evals'[q].status = "failed"

LEMMA EndsStay ==
  ASSUME TypeInv, ReportInv, NEW p \in Process, Writing(p), UNCHANGED answers,
         \A q \in Qid : Settles(q), p \in End => ~InFlight(Row, arg[p])'
  PROVE  EndInv'
  <1> SUFFICES ASSUME NEW r \in End, Busy(r)' PROVE EndKnows(r)'
    BY DEF EndInv
  <1>1. /\ EndKnows(r)
        /\ UNCHANGED <<pc, arg, snap, todo, answers, questions, lockQ>>
        /\ lockPc' = "done"
    BY DEF Writing, ReportInv, EndInv, Busy
  <1>2. arg[r] \in Qid /\ todo[r] \subseteq Qid /\ Answered(Row) \subseteq Qid
    BY AnsweredType DEF TypeInv, TypeOK, ProcessesOK, Request
  <1>3. \A q \in Qid : InFlight(Row, q) <=> evals[q].status \in {"none", "processing"}
    BY DEF InFlight, Row
  <1>4. \A q \in Qid :
          InFlight(Row, q)' <=> evals'[q].status \in {"none", "processing"}
    BY DEF InFlight, Row
  <1>5. OutcomesKept(snap[r])'
    <2> SUFFICES ASSUME NEW q \in Qid, ~InFlight(snap[r], q)
                 PROVE  /\ evals'[q].status = snap[r].evals[q].status
                        /\ snap[r].evals[q].status = "completed"
                             => evals'[q].score = snap[r].evals[q].score
      BY <1>1 DEF OutcomesKept, InFlight
    <2>1. /\ evals[q].status = snap[r].evals[q].status
          /\ snap[r].evals[q].status = "completed"
               => evals[q].score = snap[r].evals[q].score
      BY <1>1 DEF EndKnows, OutcomesKept
    <2>2. evals[q].status \in {"completed", "failed"}
      <3>1. evals[q] \in Entry
        BY RowColumns DEF TypeInv, TypeOK, RowOK, IsRow
      <3>2. QED
        BY <2>1, <3>1 DEF InFlight, Entry
    <2>3. QED
      BY <1>3, <2>1, <2>2 DEF Settles, Orphan
  <1>6. \A q \in Qid :
          /\ Evaluating(q)' => Evaluating(q)
          /\ InFlight(Row, q)' => InFlight(Row, q)
          /\ Orphan(q) => evals'[q].status # "completed"
    BY <1>1, <1>3, <1>4 DEF Settles, Orphan, Evaluating
  <1>7. Done(r)' => r = p
    BY <1>1 DEF Done, Holds, Writing
  <1>8. QED
    BY <1>1, <1>2, <1>5, <1>6, <1>7, KnowsStay

LEMMA CommitReports ==
  ASSUME TypeInv, AnswerInv, ReportInv, LockedCommit
  PROVE  ReportInv'
  <1>1. PICK p \in Process : Writing(p) /\
           \/ /\ p \in Submit /\ pc[p] = "recordAnswer"
              /\ UNCHANGED <<evals, final>>
              /\ answers' = Append(answers, [question |-> arg[p], by |-> p])
           \/ /\ p \in Qid
              /\ \/ pc[p] = "markProcessing" /\ EntryWritten(p, "processing")
                 \/ pc[p] = "markCompleted" /\ EntryWritten(p, "completed")
                 \/ pc[p] = "markFailed" /\ EntryWritten(p, "failed")
           \/ p \in End /\ pc[p] = "fillGap" /\ EntryWritten(arg[p], "failed")
           \/ /\ p \in Guide /\ pc[p] = "cacheGuidance"
              /\ UNCHANGED <<answers, final>> /\ OutcomesUnchanged
           \/ /\ p \in Qid /\ pc[p] = "refreshScore"
              /\ UNCHANGED <<answers, evals>> /\ ScoreRefreshed
    BY CommitKinds
  <1>2. /\ UNCHANGED <<questions, status, totalQuestions, answeredCount, pc, arg,
                        snap, todo, pending, lockQ>>
        /\ lockQ # <<>> /\ p = Head(lockQ) /\ lockPc = "write" /\ lockPc' = "done"
    BY <1>1 DEF Writing, Holds
  <1>3. QueueOnce' /\ Tracked' /\ OneKind'
    BY <1>2 DEF ReportInv, QueueOnce, Tracked, OneKind, Evaluating, Busy
  <1>4. \A o : ~Done(o) /\ (Done(o)' <=> o = p)
    BY <1>2 DEF Done, Holds
  <1>5. \A q \in Qid : InFlight(Row, q) <=> evals[q].status \in {"none", "processing"}
    BY DEF InFlight, Row
  <1>6. \A q \in Qid :
          InFlight(Row, q)' <=> evals'[q].status \in {"none", "processing"}
    BY DEF InFlight, Row
  <1>7. /\ \A q \in Qid : Evaluating(q)' <=> Evaluating(q)
        /\ \A q \in Qid : q # p => (Written(q)' <=> Written(q))
    <2>1. \A q \in Qid : Evaluating(q)' <=> Evaluating(q)
      BY <1>2 DEF Evaluating
    <2>2. \A q \in Qid : q # p => (Written(q)' <=> Written(q))
      BY <1>2 DEF Written, Done, Holds
    <2>3. QED
      BY <2>1, <2>2
  <1>8. CASE /\ p \in Submit /\ pc[p] = "recordAnswer"
             /\ UNCHANGED <<evals, final>>
    <2>1. p \notin Qid /\ arg[p] \in Qid /\ Busy(p)
      BY <1>8, KindsAssumption
         DEF Request, TypeInv, TypeOK, ProcessesOK, Busy, Resting
    <2>2. arg[p] \notin Answered(Row)
      BY <1>2, <1>8 DEF AnswerInv, SubmitInv, Holds
    <2>3. EntryOfEvaluator'
      <3>1. \A q \in Qid : InFlight(Row, q)' <=> InFlight(Row, q)
        BY <1>8 DEF InFlight, Row
      <3>2. \A q \in Qid : q # p
        BY <2>1
      <3>3. QED
        BY <1>7, <3>1, <3>2 DEF ReportInv, EntryOfEvaluator
    <2>4. FreshAnswer'
      <3>1. ~Evaluating(arg[p]) /\ evals[arg[p]].status = "none"
        BY <2>1, <2>2
           DEF AnswerInv, EvaluatorsKnow, OnlyAnsweredEvaluated, Evaluating
      <3>2. ~Evaluating(arg[p])' /\ InFlight(Row, arg[p])'
        BY <1>2, <1>8, <3>1 DEF Evaluating, InFlight, Row
      <3>3. \A r : Done(r)' => r = p
        BY <1>4
      <3>4. QED
        BY <3>2, <3>3 DEF FreshAnswer
    <2>5. \A r \in End : ~Busy(r)
      BY <1>8, <2>1, KindsAssumption DEF ReportInv, OneKind, SameKind
    <2>6. EndInv'
      BY <1>2, <2>5 DEF EndInv, Busy
    <2>7. status # "completed"
      BY <1>8, <2>1 DEF ReportInv, CompletedInv
    <2>8. CompletedInv' /\ CountsMatch'
      BY <1>2, <2>7 DEF ReportInv, CompletedInv, CountsMatch
    <2>9. QED
      BY <1>3, <2>3, <2>4, <2>6, <2>8 DEF ReportInv
  <1>9. ASSUME p \notin Submit, UNCHANGED answers, \A q \in Qid : Settles(q),
               \A q \in Qid : Evaluating(q) /\ q # p =>
                 evals'[q].status = evals[q].status,
               p \in End => ~InFlight(Row, arg[p])',
               p \in Qid => (InFlight(Row, p)' <=> ~Written(p)'),
               status = "completed" => AllSettled' /\ final' # NoReport
        PROVE  ReportInv'
    <2>1. EntryOfEvaluator'
      <3>1. \A q \in Qid : Evaluating(q) /\ q # p =>
              (InFlight(Row, q)' <=> InFlight(Row, q))
        BY <1>5, <1>6, <1>9
      <3>2. ASSUME NEW q \in Qid, Evaluating(q)'
            PROVE  InFlight(Row, q)' <=> ~Written(q)'
        <4>1. CASE q = p
          BY <1>9, <4>1
        <4>2. CASE q # p
          <5>1. Evaluating(q) /\ (Written(q)' <=> Written(q))
            BY <1>7, <3>2, <4>2
          <5>2. InFlight(Row, q) <=> ~Written(q)
            BY <5>1 DEF ReportInv, EntryOfEvaluator
          <5>3. QED
            BY <3>1, <4>2, <5>1, <5>2
        <4>3. QED
          BY <4>1, <4>2
      <3>3. QED
        BY <3>2 DEF EntryOfEvaluator
    <2>2. FreshAnswer'
      BY <1>4, <1>9 DEF FreshAnswer
    <2>3. EndInv'
      BY <1>1, <1>9, EndsStay
    <2>4. CompletedInv' /\ CountsMatch'
      BY <1>2, <1>9 DEF ReportInv, CompletedInv, CountsMatch, Busy
    <2>5. QED
      BY <1>3, <2>1, <2>2, <2>3, <2>4 DEF ReportInv
  <1>10. CASE /\ p \in Qid
              /\ \/ pc[p] = "markProcessing" /\ EntryWritten(p, "processing")
                 \/ pc[p] = "markCompleted" /\ EntryWritten(p, "completed")
                 \/ pc[p] = "markFailed" /\ EntryWritten(p, "failed")
    <2>1. Evaluating(p) /\ InFlight(Row, p) /\ p \in Answered(Row)
      BY <1>1, <1>10, WriterKnows
    <2>2. PICK st : /\ EntryWritten(p, st)
                    /\ st = "processing" <=> pc[p] = "markProcessing"
                    /\ st \in {"processing", "completed", "failed"}
                    /\ pc[p] \in {"markProcessing", "markCompleted", "markFailed"}
      BY <1>10
    <2>3. /\ evals'[p].status = st
          /\ \A o \in Qid : o # p => evals'[o] = evals[o]
      BY <1>10, <2>2, EntryAfter
    <2>4. \A q \in Qid : Settles(q)
      BY <2>1, <2>3 DEF Settles
    <2>5. InFlight(Row, p)' <=> ~Written(p)'
      <3>1. InFlight(Row, p)' <=> st = "processing"
        BY <1>6, <1>10, <2>2, <2>3
      <3>2. Written(p)' <=> pc[p] # "markProcessing"
        BY <1>2, <2>2 DEF Written, Done, Holds
      <3>3. QED
        BY <2>2, <3>1, <3>2
    <2>6. status # "completed"
      BY <2>1 DEF ReportInv, CompletedInv, AllSettled
    <2>7. p \notin Submit /\ p \notin End
      BY <1>10, KindsAssumption DEF Request
    <2>8. QED
      BY <1>9, <2>2, <2>3, <2>4, <2>5, <2>6, <2>7 DEF EntryWritten
  <1>11. CASE p \in End /\ pc[p] = "fillGap" /\ EntryWritten(arg[p], "failed")
    <2>1. arg[p] \in Qid /\ Orphan(arg[p])
      BY <1>1, <1>11, WriterKnows
    <2>2. /\ evals'[arg[p]].status = "failed"
          /\ \A o \in Qid : o # arg[p] => evals'[o] = evals[o]
      BY <1>11, <2>1, EntryAfter
    <2>3. \A q \in Qid : Settles(q)
      BY <2>1, <2>2 DEF Settles
    <2>4. ~InFlight(Row, arg[p])'
      BY <1>2, <2>2 DEF InFlight, Row
    <2>5. status = "completed" => AllSettled' /\ final' # NoReport
      <3>1. Answered(Row)' = Answered(Row) /\ UNCHANGED final
        BY <1>11 DEF EntryWritten, Answered, Row
      <3>2. \A q \in Answered(Row) : ~InFlight(Row, q) => ~InFlight(Row, q)'
        BY <1>2, <1>5, <1>6, <2>2, <2>4, AnsweredType
      <3>3. QED
        BY <3>1, <3>2 DEF ReportInv, CompletedInv, AllSettled
    <2>6. p \notin Submit /\ p \notin Qid
      BY <1>11, KindsAssumption DEF Request
    <2>7. \A q \in Qid : Evaluating(q) => evals'[q].status = evals[q].status
      BY <2>1, <2>2 DEF Orphan
    <2>8. QED
      BY <1>9, <1>11, <2>3, <2>4, <2>5, <2>6, <2>7 DEF EntryWritten
  <1>12. CASE /\ p \in Guide \cup Qid /\ pc[p] \in {"cacheGuidance", "refreshScore"}
              /\ UNCHANGED answers /\ OutcomesUnchanged
              /\ final' # NoReport \/ UNCHANGED final
    <2>1. \A q \in Qid : Settles(q) /\ evals'[q].status = evals[q].status
      BY <1>12 DEF Settles, OutcomesUnchanged
    <2>2. Answered(Row)' = Answered(Row)
      BY <1>12 DEF Answered, Row
    <2>3. \A q \in Qid : InFlight(Row, q)' <=> InFlight(Row, q)
      BY <1>5, <1>6, <2>1
    <2>4. AllSettled' <=> AllSettled
      BY <2>2, <2>3, AnsweredType DEF AllSettled
    <2>5. p \notin Submit /\ p \notin End
      BY <1>12, KindsAssumption DEF Request
    <2>6. p \in Qid => (InFlight(Row, p)' <=> ~Written(p)')
      <3>1. ASSUME p \in Qid
            PROVE  Evaluating(p) /\ Written(p) /\ Written(p)'
        <4>1. pc[p] = "refreshScore"
          BY <1>12, <3>1, KindsAssumption
             DEF TypeInv, KindOK, Process, Request
        <4>2. QED
          BY <1>2, <4>1 DEF Evaluating, Resting, Written
      <3>2. QED
        BY <2>3, <3>1 DEF ReportInv, EntryOfEvaluator
    <2>7. status = "completed" => AllSettled' /\ final' # NoReport
      BY <1>12, <2>4 DEF ReportInv, CompletedInv
    <2>8. QED
      BY <1>9, <1>12, <2>1, <2>5, <2>6, <2>7
  <1>13. ScoreRefreshed => final' # NoReport
    BY DEF ScoreRefreshed, NoReport
  <1>14. UNCHANGED evals => OutcomesUnchanged
    BY DEF OutcomesUnchanged
  <1>15. QED
    BY <1>1, <1>8, <1>10, <1>11, <1>12, <1>13, <1>14

-----------------------------------------------------------------------------
(* The other steps                                                         *)

(* What a request in progress that is not p's knows after p's step.        *)
LEMMA OthersKnow ==
  ASSUME TypeInv, AnswerInv, ReportInv, NEW p \in Process, Lockwise(p),
         UNCHANGED <<answers, evals>>,
         \A q \in Qid : Evaluating(q)' => Evaluating(q),
         NEW r \in End, r # p, Busy(r)', UNCHANGED questions,
         arg'[r] = arg[r], snap'[r] = snap[r], todo'[r] = todo[r]
  PROVE  EndKnows(r)'
  <1>1. r \in Process /\ r \in Request
    BY DEF Process, Request
  <1>2. pc'[r] = pc[r] /\ (Done(r)' <=> Done(r))
    BY <1>1, LockwiseDone
       DEF Lockwise, TypeInv, TypeOK, AnswerInv, ReportInv
  <1>3. EndKnows(r)
    BY <1>2 DEF Busy, ReportInv, EndInv
  <1>4. arg[r] \in Qid /\ todo[r] \subseteq Qid /\ Answered(Row) \subseteq Qid
    BY <1>1, AnsweredType DEF TypeInv, TypeOK, ProcessesOK
  <1>5. OutcomesKept(snap[r])'
    BY <1>3 DEF EndKnows, OutcomesKept, InFlight
  <1>6. \A q \in Qid :
          /\ InFlight(Row, q)' => InFlight(Row, q)
          /\ Orphan(q) => evals'[q].status # "completed"
    BY DEF InFlight, Row, Orphan
  <1>7. QED
    BY <1>2, <1>3, <1>4, <1>5, <1>6, KnowsStay

LEMMA RequestReports ==
  ASSUME TypeInv, AnswerInv, ReportInv, ClientWaits,
         NEW r \in Request, RequestMoves(r)
  PROVE  ReportInv'
  <1>1. /\ UNCHANGED <<answers, evals, pending>> /\ Lockwise(r)
        /\ r \in Process /\ r \notin Qid
        /\ \A q \in Qid : pc'[q] = pc[q]
        /\ \A o \in Process : o # r => (Busy(o)' <=> Busy(o))
    BY KindsAssumption DEF RequestMoves, Lockwise, Process, Request, Busy
  <1>2. /\ QueueOnce' /\ ~Done(r)'
        /\ \A o \in Process : o # r => (Done(o)' <=> Done(o))
    BY <1>1, LockwiseDone DEF TypeInv, TypeOK, AnswerInv, ReportInv
  <1>3. /\ Answered(Row)' = Answered(Row)
        /\ \A q : InFlight(Row, q)' <=> InFlight(Row, q)
        /\ \A q \in Qid : Evaluating(q)' <=> Evaluating(q)
        /\ AllSettled' <=> AllSettled
    BY <1>1, SameOutcomes
  <1>4. \A q \in Qid : Written(q)' <=> Written(q)
    BY <1>1, <1>2 DEF Written, Process
  <1>5. Tracked' /\ EntryOfEvaluator'
    BY <1>1, <1>3, <1>4 DEF ReportInv, Tracked, EntryOfEvaluator
  <1>6. FreshAnswer'
    <2> SUFFICES ASSUME NEW o \in Submit, Done(o)'
                 PROVE  ~Evaluating(arg[o])' /\ InFlight(Row, arg[o])'
      BY DEF FreshAnswer
    <2>1. o # r /\ o \in Request /\ o \in Process
      BY <1>2 DEF Process, Request
    <2>2. Done(o) /\ arg'[o] = arg[o] /\ arg[o] \in Qid
      BY <1>2, <2>1
         DEF RequestMoves, TypeInv, TypeOK, ProcessesOK, Process, Request
    <2>3. ~Evaluating(arg[o]) /\ InFlight(Row, arg[o])
      BY <2>2 DEF ReportInv, FreshAnswer
    <2>4. QED
      BY <1>1, <2>2, <2>3 DEF Evaluating, InFlight, Row
  <1>7. OneKind'
    <2> SUFFICES ASSUME NEW a \in Submit \cup End \cup Extend,
                        NEW b \in Submit \cup End \cup Extend,
                        Busy(a)', Busy(b)'
                 PROVE  SameKind(a, b)
      BY DEF OneKind, SameKind
    <2>1. a \in Process /\ b \in Process
      BY DEF Process, Request
    <2>2. Busy(a) /\ Busy(b) => SameKind(a, b)
      BY DEF ReportInv, OneKind
    <2>3. ASSUME NEW o \in Submit \cup End \cup Extend, Busy(o)', o # r,
                 ~Busy(r), r \in Submit \cup End \cup Extend, Busy(r)'
          PROVE  SameKind(o, r) /\ SameKind(r, o)
      <3>1. Busy(o) /\ Begins(r)
        BY <1>1, <2>3 DEF RequestMoves, Process, Request
      <3>2. QED
        BY <2>3, <3>1, KindsAssumption DEF Begins, MayBegin, SameKind, Busy
    <2>4. CASE Busy(r)
      BY <1>1, <2>1, <2>2, <2>4
    <2>5. CASE ~Busy(r) /\ a # b
      BY <1>1, <2>1, <2>2, <2>3, <2>5
    <2>6. CASE a = b
      BY <2>6 DEF SameKind
    <2>7. QED
      BY <2>4, <2>5, <2>6
  <1>8. pc[r] = "commit" => Busy(r)
    BY DEF Busy, Resting
  <1>9. EndInv'
    <2> SUFFICES ASSUME NEW o \in End, Busy(o)' PROVE EndKnows(o)'
      BY DEF EndInv
    <2>1. CASE o = r
      BY <2>1, EndingKnows
    <2>2. CASE o # r
      <3>1. Busy(o) /\ o \in Request
        BY <1>1, <2>2 DEF Process, Request
      <3>2. ~(r \in Extend /\ ExtendCommit(r))
        BY <1>8, <3>1, KindsAssumption
           DEF ExtendCommit, ReportInv, OneKind, SameKind
      <3>3. UNCHANGED questions
        BY <3>2
           DEF RequestMoves, RowBy, Columns, EndCommit, RefreshCommit
      <3>4. /\ arg'[o] = arg[o] /\ snap'[o] = snap[o] /\ todo'[o] = todo[o]
            /\ \A q \in Qid : Evaluating(q)' => Evaluating(q)
        BY <1>3, <2>2, <3>1 DEF RequestMoves
      <3>5. QED
        BY <1>1, <2>2, <3>3, <3>4, OthersKnow
    <2>3. QED
      BY <2>1, <2>2
  <1>10. CASE UNCHANGED Columns
    <2>1. \A o \in Submit : status = "completed" /\ Busy(o)' => Busy(o)
      BY <1>1 DEF RequestMoves, Process, Request
    <2>2. CompletedInv' /\ CountsMatch'
      BY <1>1, <1>3, <1>10, <2>1
         DEF Columns, ReportInv, CompletedInv, CountsMatch
    <2>3. QED
      BY <1>2, <1>5, <1>6, <1>7, <1>9, <2>2 DEF ReportInv
  <1>11. CASE r \in End /\ EndCommit(r)
    <2>1. /\ Busy(r) /\ EndKnows(r) /\ Open(snap[r]) = {}
          /\ snap[r].answers = answers /\ snap[r].questions = questions
          /\ OutcomesKept(snap[r])
      BY <1>8, <1>11 DEF EndCommit, ReportInv, EndInv, EndKnows
    <2>2. AllSettled
      <3>1. \A q \in Answered(Row) : ~InFlight(snap[r], q)
        BY <2>1 DEF Open, Answered, Row
      <3>2. QED
        BY <2>1, <3>1, AnsweredType DEF AllSettled, OutcomesKept, InFlight, Row
    <2>3. \A o \in Submit : ~Busy(o)'
      BY <1>1, <1>11, <2>1, KindsAssumption
         DEF ReportInv, OneKind, SameKind, Process, Request
    <2>4. /\ final' # NoReport /\ UNCHANGED questions
          /\ answeredCount' = Len(answers) /\ totalQuestions' = Len(questions)
      BY <1>11, <2>1 DEF EndCommit, Report, NoReport
    <2>5. CompletedInv' /\ CountsMatch'
      BY <1>1, <1>3, <2>2, <2>3, <2>4 DEF CompletedInv, CountsMatch
    <2>6. QED
      BY <1>2, <1>5, <1>6, <1>7, <1>9, <2>5 DEF ReportInv
  <1>12. CASE r \in Refresh /\ RefreshCommit(r)
    <2>1. /\ final' # NoReport
          /\ UNCHANGED <<questions, status, totalQuestions, answeredCount>>
      BY <1>12 DEF RefreshCommit, Report, NoReport
    <2>2. \A o \in Submit : Busy(o)' => Busy(o)
      BY <1>1, <1>12, KindsAssumption DEF Process, Request
    <2>3. CompletedInv' /\ CountsMatch'
      BY <1>1, <1>3, <2>1, <2>2 DEF ReportInv, CompletedInv, CountsMatch
    <2>4. QED
      BY <1>2, <1>5, <1>6, <1>7, <1>9, <2>3 DEF ReportInv
  <1>13. CASE r \in Extend /\ ExtendCommit(r)
    <2>1. snap[r].questions \in Seq(Author)
      BY <1>8, <1>13, KindsAssumption
         DEF ExtendCommit, TypeInv, SnapOK, Busy, IsRow, Request
    <2>2. PICK k \in 1..AtMost(Asked(snap[r])) :
            /\ questions' = snap[r].questions \o [i \in 1..k |-> r]
            /\ totalQuestions' = Len(snap[r].questions) + k
      BY <1>13 DEF ExtendCommit
    <2>3. k \in Nat /\ [i \in 1..k |-> r] \in Seq(Extend)
          /\ Len([i \in 1..k |-> r]) = k
      BY <1>13
    <2>4. Len(questions') = Len(snap[r].questions) + k
      BY <2>1, <2>2, <2>3 DEF Author
    <2>5. CompletedInv' /\ CountsMatch'
      BY <1>13, <2>2, <2>4 DEF ExtendCommit, CompletedInv, CountsMatch
    <2>6. QED
      BY <1>2, <1>5, <1>6, <1>7, <1>9, <2>5 DEF ReportInv
  <1>14. QED
    BY <1>10, <1>11, <1>12, <1>13 DEF RequestMoves, RowBy

LEMMA EvaluatorReports ==
  ASSUME TypeInv, AnswerInv, ReportInv, NEW q \in Qid, EvaluatorMoves(q)
  PROVE  ReportInv'
  <1>1. /\ UNCHANGED <<answers, evals, Columns, arg, snap, todo>> /\ Lockwise(q)
        /\ q \in Process /\ q \notin Request
        /\ \A o \in Process : o # q => pc'[o] = pc[o]
    BY KindsAssumption DEF EvaluatorMoves, Lockwise, Process
  <1>2. /\ QueueOnce' /\ ~Done(q)'
        /\ \A o \in Process : o # q => (Done(o)' <=> Done(o))
    BY <1>1, LockwiseDone DEF TypeInv, TypeOK, AnswerInv, ReportInv
  <1>3. /\ \A o : InFlight(Row, o)' <=> InFlight(Row, o)
        /\ Answered(Row)' = Answered(Row)
    BY <1>1 DEF InFlight, Answered, Row
  <1>4. \A o \in Qid : Evaluating(o)' => Evaluating(o)
    BY <1>1 DEF EvaluatorMoves, Evaluating, Process
  <1>5. \A o \in Qid : Evaluating(o)' => (Written(o)' <=> Written(o))
    <2>1. \A o \in Qid : o # q => (Written(o)' <=> Written(o))
      BY <1>1, <1>2 DEF Written, Process
    <2>2. QED
      BY <2>1 DEF EvaluatorMoves
  <1>6. Tracked' /\ EntryOfEvaluator'
    <2>1. Tracked'
      BY <1>4 DEF EvaluatorMoves, ReportInv, Tracked
    <2>2. QED
      BY <1>3, <1>4, <1>5, <2>1 DEF ReportInv, EntryOfEvaluator
  <1>7. FreshAnswer'
    <2> SUFFICES ASSUME NEW o \in Submit, Done(o)'
                 PROVE  ~Evaluating(arg[o])' /\ InFlight(Row, arg[o])'
      BY DEF FreshAnswer
    <2>1. Done(o) /\ arg'[o] = arg[o] /\ arg[o] \in Qid
      BY <1>1, <1>2
         DEF TypeInv, TypeOK, ProcessesOK, Process, Request
    <2>2. ~Evaluating(arg[o]) /\ InFlight(Row, arg[o])
      BY <2>1 DEF ReportInv, FreshAnswer
    <2>3. ~Evaluating(arg[o])'
      BY <1>1, <1>4, <2>1, <2>2 DEF Evaluating
    <2>4. InFlight(Row, arg[o])'
      BY <1>1, <2>2 DEF InFlight, Row
    <2>5. QED
      BY <2>3, <2>4
  <1>8. \A r \in Request : Busy(r)' <=> Busy(r)
    BY <1>1 DEF Busy, Process
  <1>9. OneKind'
    BY <1>8 DEF ReportInv, OneKind, SameKind, Request
  <1>10. EndInv'
    <2> SUFFICES ASSUME NEW r \in End, Busy(r)' PROVE EndKnows(r)'
      BY DEF EndInv
    <2>1. r # q
      BY <1>1 DEF Request
    <2>2. UNCHANGED questions
      BY <1>1 DEF Columns
    <2>3. QED
      BY <1>1, <1>4, <2>1, <2>2, OthersKnow
  <1>11. CompletedInv' /\ CountsMatch'
    <2>1. UNCHANGED <<questions, status, final, totalQuestions, answeredCount>>
      BY <1>1 DEF Columns
    <2>2. AllSettled' <=> AllSettled
      BY <1>3 DEF AllSettled
    <2>3. \A r \in Submit : Busy(r)' => Busy(r)
      BY <1>8 DEF Request
    <2>4. QED
      BY <1>1, <2>1, <2>2, <2>3 DEF ReportInv, CompletedInv, CountsMatch
  <1>12. QED
    BY <1>2, <1>6, <1>7, <1>9, <1>10, <1>11 DEF ReportInv

(* The reply to a submission: its evaluator starts.                        *)
LEMMA ReturnReports ==
  ASSUME TypeInv, AnswerInv, ReportInv, NEW r \in Submit, SubmitReturn(r)
  PROVE  ReportInv'
  <1> DEFINE e == arg[r]
  <1>1. /\ e \in Qid /\ e \in Process /\ r \in Process /\ r \notin Qid /\ e # r
        /\ Holds(r) /\ Done(r) /\ pc[r] = "recordAnswer"
        /\ pc \in [Process -> Doing]
    BY KindsAssumption
       DEF SubmitReturn, Done, TypeInv, TypeOK, ProcessesOK, Process, Request
  <1>2. ~Evaluating(e) /\ InFlight(Row, e)
    BY <1>1 DEF ReportInv, FreshAnswer
  <1>3. /\ pc' = [pc EXCEPT ![r] = "acked", ![e] = "markProcessing"]
        /\ pending' = pending \cup {e}
        /\ UNCHANGED <<questions, answers, evals, status, final, totalQuestions,
                       answeredCount, arg, snap, todo>>
        /\ lockQ' = Append(Tail(lockQ), e) /\ lockPc' = "read"
    BY DEF SubmitReturn, ReleaseAndQueue, row, local
  <1> HIDE DEF e
  <1>4. /\ pc'[r] = "acked" /\ pc'[e] = "markProcessing"
        /\ \A o \in Process : o # r /\ o # e => pc'[o] = pc[o]
    BY <1>1, <1>3
  <1>5. \A o : ~Done(o)'
    BY <1>3 DEF Done
  <1>6. QueueOnce'
    <2> DEFINE rest == Tail(lockQ)
    <2>1. /\ rest \in Seq(Process)
          /\ \A i \in DOMAIN rest :
               /\ rest[i] # r /\ pc[rest[i]] \in LockedOp /\ rest[i] \in Process
               /\ \A j \in DOMAIN rest : rest[j] = rest[i] => i = j
      BY <1>1, LeavesQueue DEF TypeInv, TypeOK, ReportInv
    <2>2. lockQ' = Append(rest, e)
      BY <1>3
    <2> HIDE DEF rest
    <2>3. pc[e] \notin LockedOp
      BY <1>2 DEF Evaluating, Resting, LockedOp
    <2>4. \A i \in DOMAIN rest : rest[i] # e /\ pc'[rest[i]] \in LockedOp
      BY <1>4, <2>1, <2>3
    <2>5. pc'[e] \in LockedOp
      BY <1>4 DEF LockedOp
    <2>6. QED
      BY <2>1, <2>2, <2>4, <2>5 DEF QueueOnce
  <1>7. \A o : InFlight(Row, o)' <=> InFlight(Row, o)
    BY <1>3 DEF InFlight, Row
  <1>8. \A o \in Qid : o # e => pc'[o] = pc[o]
    BY <1>1, <1>4 DEF Process
  <1>9. Tracked'
    BY <1>3, <1>8 DEF ReportInv, Tracked, Evaluating
  <1>10. EntryOfEvaluator'
    <2> SUFFICES ASSUME NEW o \in Qid, Evaluating(o)'
                 PROVE  InFlight(Row, o)' <=> ~Written(o)'
      BY DEF EntryOfEvaluator
    <2>1. CASE o = e
      BY <1>2, <1>4, <1>5, <1>7, <2>1 DEF Written
    <2>2. CASE o # e
      <3>1. Evaluating(o) /\ pc'[o] = pc[o]
        BY <1>8, <2>2 DEF Evaluating
      <3>2. Written(o)' <=> Written(o)
        <4>1. o # r
          BY <1>1
        <4>2. ~Done(o)
          BY <1>1, <4>1 DEF Done, Holds
        <4>3. QED
          BY <1>5, <3>1, <4>2 DEF Written
      <3>3. QED
        BY <1>7, <3>1, <3>2 DEF ReportInv, EntryOfEvaluator
    <2>3. QED
      BY <2>1, <2>2
  <1>11. FreshAnswer'
    BY <1>5 DEF FreshAnswer
  <1>12. Busy(r)
    BY <1>1 DEF Busy, Resting
  <1>13. \A o \in Request : Busy(o)' => Busy(o)
    BY <1>1, <1>4, <1>12, KindsAssumption DEF Busy, Process
  <1>14. OneKind'
    BY <1>13 DEF ReportInv, OneKind, SameKind, Request
  <1>15. EndInv'
    BY <1>12, <1>13, KindsAssumption
       DEF ReportInv, EndInv, OneKind, SameKind, Request
  <1>16. status # "completed"
    BY <1>12 DEF ReportInv, CompletedInv
  <1>17. CompletedInv' /\ CountsMatch'
    BY <1>3, <1>16 DEF ReportInv, CompletedInv, CountsMatch
  <1>18. QED
    BY <1>6, <1>9, <1>10, <1>11, <1>14, <1>15, <1>17 DEF ReportInv

(* A read or a fault under the lock, a crash, a step of nothing modelled.  *)
LEMMA LockReports ==
  ASSUME TypeInv, AnswerInv, ReportInv, NEW p \in Process,
         LockRead(p) \/ LockFault(p)
  PROVE  ReportInv'
  <1>1. /\ UNCHANGED <<row, pc, local, pending, lockQ>>
        /\ lockPc \in {"read", "write"} /\ lockPc' # "done"
    BY DEF LockRead, LockFault
  <1>2. /\ UNCHANGED <<questions, answers, evals, status, final, totalQuestions,
                       answeredCount, pc, arg, snap, todo, pending, lockQ>>
        /\ \A o : ~Done(o) /\ ~Done(o)'
    BY <1>1 DEF Done, row, local
  <1>3. /\ Answered(Row)' = Answered(Row)
        /\ \A q : InFlight(Row, q)' <=> InFlight(Row, q)
        /\ \A q \in Qid : Evaluating(q)' <=> Evaluating(q)
        /\ \A q \in Qid : Orphan(q)' <=> Orphan(q)
        /\ AllSettled' <=> AllSettled
    BY <1>2, SameOutcomes
  <1>4. \A q \in Qid : Written(q)' <=> Written(q)
    BY <1>2 DEF Written
  <1>5. QueueOnce' /\ Tracked' /\ OneKind' /\ FreshAnswer'
    BY <1>2
       DEF ReportInv, QueueOnce, Tracked, OneKind, FreshAnswer, Evaluating, Busy
  <1>6. EntryOfEvaluator'
    BY <1>3, <1>4 DEF ReportInv, EntryOfEvaluator
  <1>7. EndInv'
    <2> SUFFICES ASSUME NEW r \in End, Busy(r)' PROVE EndKnows(r)'
      BY DEF EndInv
    <2>1. EndKnows(r)
      BY <1>2 DEF Busy, ReportInv, EndInv
    <2>2. arg[r] \in Qid /\ todo[r] \subseteq Qid /\ Answered(Row) \subseteq Qid
      BY AnsweredType DEF TypeInv, TypeOK, ProcessesOK, Request
    <2>3. OutcomesKept(snap[r])'
      BY <1>2, <2>1 DEF EndKnows, OutcomesKept, InFlight
    <2>4. \A q \in Qid : Orphan(q) => evals'[q].status # "completed"
      BY <1>2 DEF Orphan
    <2>5. QED
      BY <1>2, <1>3, <2>1, <2>2, <2>3, <2>4, KnowsStay
  <1>8. CompletedInv' /\ CountsMatch'
    BY <1>2, <1>3 DEF ReportInv, CompletedInv, CountsMatch, Busy
  <1>9. QED
    BY <1>5, <1>6, <1>7, <1>8 DEF ReportInv

LEMMA CrashReports ==
  ASSUME TypeInv, AnswerInv, ReportInv, Crash
  PROVE  ReportInv'
  <1>1. /\ UNCHANGED <<questions, answers, evals, status, final, totalQuestions,
                       answeredCount>>
        /\ lockQ' = <<>> /\ lockPc' = "read"
        /\ \A p \in Process : pc'[p] \in Resting
    BY DEF Crash, row, Resting
  <1>2. QueueOnce' /\ Tracked' /\ OneKind' /\ EntryOfEvaluator' /\ EndInv'
    BY <1>1
       DEF QueueOnce, Tracked, OneKind, EntryOfEvaluator, EndInv, Evaluating,
           Busy, Process, Request
  <1>3. FreshAnswer'
    BY <1>1 DEF FreshAnswer, Done
  <1>4. AllSettled' <=> AllSettled
    BY <1>1 DEF AllSettled, Answered, InFlight, Row
  <1>5. CompletedInv' /\ CountsMatch'
    BY <1>1, <1>4
       DEF ReportInv, CompletedInv, CountsMatch, Busy, Process, Request
  <1>6. QED
    BY <1>2, <1>3, <1>5 DEF ReportInv

LEMMA UnchangedReports ==
  ASSUME TypeInv, AnswerInv, ReportInv, UNCHANGED vars
  PROVE  ReportInv'
  <1>1. UNCHANGED <<questions, answers, evals, status, final, totalQuestions,
                    answeredCount, pc, arg, snap, todo, pending, lockQ, lockPc>>
    BY DEF vars, row, local, lock
  <1>2. /\ \A q : InFlight(Row, q)' <=> InFlight(Row, q)
        /\ AllSettled' <=> AllSettled
        /\ \A q \in Qid : Orphan(q)' <=> Orphan(q)
    BY <1>1, SameOutcomes
  <1>3. \A o : Done(o)' <=> Done(o)
    BY <1>1 DEF Done, Holds
  <1>4. QueueOnce' /\ Tracked' /\ OneKind'
    BY <1>1 DEF ReportInv, QueueOnce, Tracked, OneKind, Evaluating, Busy
  <1>5. EntryOfEvaluator'
    BY <1>1, <1>2, <1>3 DEF ReportInv, EntryOfEvaluator, Evaluating, Written
  <1>6. FreshAnswer'
    BY <1>1, <1>2, <1>3 DEF ReportInv, FreshAnswer, Evaluating, InFlight, Row
  <1>7. EndInv'
    <2> SUFFICES ASSUME NEW r \in End, Busy(r)' PROVE EndKnows(r)'
      BY DEF EndInv
    <2>1. EndKnows(r)
      BY <1>1 DEF Busy, ReportInv, EndInv
    <2>2. arg[r] \in Qid /\ todo[r] \subseteq Qid /\ Answered(Row) \subseteq Qid
      BY AnsweredType DEF TypeInv, TypeOK, ProcessesOK, Request
    <2>3. OutcomesKept(snap[r])'
      BY <1>1, <2>1 DEF EndKnows, OutcomesKept, InFlight
    <2>4. \A q \in Qid : /\ Orphan(q) => evals'[q].status # "completed"
                         /\ Evaluating(q)' => Evaluating(q)
      BY <1>1 DEF Orphan, Evaluating
    <2>5. QED
      BY <1>1, <1>2, <1>3, <2>1, <2>2, <2>3, <2>4, KnowsStay
  <1>8. CompletedInv' /\ CountsMatch'
    BY <1>1, <1>2 DEF ReportInv, CompletedInv, CountsMatch, Busy
  <1>9. QED
    BY <1>4, <1>5, <1>6, <1>7, <1>8 DEF ReportInv

LEMMA InitReports == Init => ReportInv
  <1> SUFFICES ASSUME Init PROVE ReportInv
    OBVIOUS
  <1>1. /\ lockQ = <<>> /\ lockPc = "read" /\ status = "active"
        /\ \A p \in Process : pc[p] \in Resting
        /\ totalQuestions = InitialQuestions
    BY DEF Init, Resting
  <1>2. QueueOnce /\ Tracked /\ OneKind /\ EntryOfEvaluator /\ EndInv
        /\ FreshAnswer /\ CompletedInv
    BY <1>1
       DEF QueueOnce, Tracked, OneKind, EntryOfEvaluator, EndInv, FreshAnswer,
           CompletedInv, Done, Evaluating, Busy, Process, Request
  <1>3. Len(questions) = InitialQuestions
    BY BoundsAssumption DEF Init
  <1>4. QED
    BY <1>1, <1>2, <1>3 DEF ReportInv, CountsMatch

LEMMA NextReports ==
  TypeInv /\ AnswerInv /\ ReportInv /\ ClientWaits /\ [Next]_vars => ReportInv'
  <1> SUFFICES ASSUME TypeInv, AnswerInv, ReportInv, ClientWaits, [Next]_vars
               PROVE  ReportInv'
    OBVIOUS
  <1>1. QueueInv /\ QueueOnce
    BY DEF AnswerInv, ReportInv
  <1>2. CASE \E r \in Request : RequestMoves(r)
    BY <1>2, RequestReports
  <1>3. CASE \E q \in Qid : EvaluatorMoves(q)
    BY <1>3, EvaluatorReports
  <1>4. CASE \E r \in Submit : SubmitReturn(r)
    BY <1>4, ReturnReports
  <1>5. CASE \E p \in Process : LockRead(p) \/ LockFault(p)
    BY <1>5, LockReports
  <1>6. CASE LockedCommit \/ Crash \/ UNCHANGED vars
    BY <1>6, CommitReports, CrashReports, UnchangedReports
  <1>7. QED
    BY <1>1, <1>2, <1>3, <1>4, <1>5, <1>6, StepClasses

-----------------------------------------------------------------------------
(* When clients await their replies                                        *)

(* A writer of evaluations writes only where nobody has written a score:   *)
(* the inductive invariant of sessions whose clients await their replies.  *)
THEOREM ReportInvariant ==
  ASSUME ClientWaits
  PROVE  Spec => []ReportInv
  <1>1. TypeInv /\ AnswerInv /\ ReportInv /\ [Next]_vars => ReportInv'
    BY NextReports
  <1>2. QED
    BY <1>1, InitReports, AnswerInvariant, TypeInvariant, PTL DEF Spec

(* A completed session shows an outcome for every answered question,       *)
(* however its evaluations failed and whenever the server restarted.       *)
THEOREM EveryAnswerHasOutcome ==
  ASSUME ClientWaits
  PROVE  Spec => []NoGapInReport
  <1>1. ReportInv => NoGapInReport
    BY DEF ReportInv, CompletedInv, AllSettled, NoGapInReport
  <1>2. QED
    BY <1>1, ReportInvariant, PTL

(* The counts the history lists are those of the questions and answers.    *)
THEOREM CountsAreTheRows ==
  ASSUME ClientWaits
  PROVE  Spec => []CountsMatch
  <1>1. ReportInv => CountsMatch
    BY DEF ReportInv
  <1>2. QED
    BY <1>1, ReportInvariant, PTL

LEMMA EntryMoves ==
  ASSUME TypeInv, AnswerInv, ReportInv, [Next]_vars, NEW q \in Qid
  PROVE  \/ evals'[q].status = evals[q].status /\ evals'[q].score = evals[q].score
         \/ /\ InFlight(Row, q) /\ q \in Answered(Row)
            /\ evals'[q].status = "failed" => pc[q] = "markFailed"
         \/ Orphan(q) /\ evals'[q].status = "failed"
  <1>1. CASE UNCHANGED evals
    BY <1>1
  <1>2. CASE LockedCommit
    <2>1. PICK p \in Process : Writing(p) /\
             \/ UNCHANGED evals
             \/ /\ p \in Qid
                /\ \/ pc[p] = "markProcessing" /\ EntryWritten(p, "processing")
                   \/ pc[p] = "markCompleted" /\ EntryWritten(p, "completed")
                   \/ pc[p] = "markFailed" /\ EntryWritten(p, "failed")
             \/ p \in End /\ pc[p] = "fillGap" /\ EntryWritten(arg[p], "failed")
             \/ OutcomesUnchanged
      BY <1>2, CommitKinds
    <2>2. CASE UNCHANGED evals \/ OutcomesUnchanged
      BY <2>2 DEF OutcomesUnchanged
    <2>3. CASE /\ p \in Qid
               /\ \/ pc[p] = "markProcessing" /\ EntryWritten(p, "processing")
                  \/ pc[p] = "markCompleted" /\ EntryWritten(p, "completed")
                  \/ pc[p] = "markFailed" /\ EntryWritten(p, "failed")
      <3>1. InFlight(Row, p) /\ p \in Answered(Row)
        BY <2>1, <2>3, WriterKnows
      <3>2. PICK st : /\ EntryWritten(p, st)
                      /\ st = "failed" => pc[p] = "markFailed"
        BY <2>3
      <3>3. evals'[p].status = st /\ (q # p => evals'[q] = evals[q])
        BY <2>3, <3>2, EntryAfter
      <3>4. QED
        BY <3>1, <3>2, <3>3
    <2>4. CASE p \in End /\ pc[p] = "fillGap" /\ EntryWritten(arg[p], "failed")
      <3>1. arg[p] \in Qid /\ Orphan(arg[p])
        BY <2>1, <2>4, WriterKnows
      <3>2. evals'[arg[p]].status = "failed" /\ (q # arg[p] => evals'[q] = evals[q])
        BY <2>4, <3>1, EntryAfter
      <3>3. QED
        BY <3>1, <3>2
    <2>5. QED
      BY <2>1, <2>2, <2>3, <2>4
  <1>3. QED
    BY <1>1, <1>2, EvaluationsChange

(* A score that was obtained is never replaced by a placeholder.           *)
THEOREM ScoresAreNotLost ==
  ASSUME ClientWaits
  PROVE  Spec => ScoredStaysScored
  <1> DEFINE Kept == \A q \in Qid :
                evals[q].status = "completed" => evals'[q].status = "completed"
  <1>1. TypeInv /\ AnswerInv /\ ReportInv /\ [Next]_vars => [Kept]_vars
    BY EntryMoves DEF InFlight, Row, Orphan
  <1>2. QED
    BY <1>1, ReportInvariant, AnswerInvariant, TypeInvariant, PTL
       DEF Spec, ScoredStaysScored

(* endSession fills in only what nobody is evaluating any more.            *)
THEOREM PlaceholdersAreForOrphans ==
  ASSUME ClientWaits
  PROVE  Spec => PlaceholderOnlyForOrphans
  <1> DEFINE OrphansOnly == \A q \in Qid :
                evals'[q].status = "failed" /\ evals[q].status # "failed"
                  => pc[q] = "markFailed" \/ ~Evaluating(q)
  <1>1. TypeInv /\ AnswerInv /\ ReportInv /\ [Next]_vars => [OrphansOnly]_vars
    BY EntryMoves DEF Orphan
  <1>2. QED
    BY <1>1, ReportInvariant, AnswerInvariant, TypeInvariant, PTL
       DEF Spec, PlaceholderOnlyForOrphans

-----------------------------------------------------------------------------
(* The score                                                               *)

LEMMA SameScores ==
  ASSUME NEW e, NEW f, Completed(e) = Completed(f),
         \A q \in Completed(e) : e[q].score = f[q].score
  PROVE  Scores(e) = Scores(f) /\ OverallScore(e) = OverallScore(f)
  <1>1. Scores(e) = Scores(f)
    BY DEF Scores
  <1>2. QED
    BY <1>1 DEF OverallScore

(* What a refresh holds is current, unless an extension reopens the        *)
(* session under it.                                                       *)
RefreshesKnow ==
  Extend = {} =>
    \A r \in Refresh : Busy(r) =>
      /\ status = "completed"
      /\ Scores(snap[r].evals) = Scores(evals)

ScoreInv == ScoreCurrent /\ RefreshesKnow

LEMMA SettledScores ==
  ASSUME TypeInv, AnswerInv, ReportInv, [Next]_vars, status = "completed"
  PROVE  Scores(evals') = Scores(evals) /\ OverallScore(evals') = OverallScore(evals)
  <1>1. \A q \in Answered(Row) : ~InFlight(Row, q)
    BY DEF ReportInv, CompletedInv, AllSettled
  <1>2. \A q \in Qid :
          \/ evals'[q].status = evals[q].status /\ evals'[q].score = evals[q].score
          \/ evals[q].status # "completed" /\ evals'[q].status = "failed"
    BY <1>1, EntryMoves DEF Orphan
  <1>3. Completed(evals') = Completed(evals)
    BY <1>2 DEF Completed
  <1>4. \A q \in Completed(evals') : evals'[q].score = evals[q].score
    BY <1>2, <1>3 DEF Completed
  <1>5. QED
    BY <1>3, <1>4, SameScores

(* The session object an End is about to report on has the row's scores.   *)
LEMMA EndScores ==
  ASSUME TypeInv, AnswerInv, ReportInv, NEW r \in End, EndCommit(r)
  PROVE  OverallScore(snap[r].evals) = OverallScore(evals)
  <1>1. /\ Open(snap[r]) = {} /\ snap[r].answers = answers
        /\ OutcomesKept(snap[r])
    BY DEF EndCommit, ReportInv, EndInv, EndKnows, Busy, Resting
  <1>2. \A q \in Answered(Row) : ~InFlight(snap[r], q)
    BY <1>1 DEF Open, Answered, Row
  <1>3. \A q \in Qid :
          evals[q].status = "completed" <=> snap[r].evals[q].status = "completed"
    <2> SUFFICES ASSUME NEW q \in Qid
                 PROVE  evals[q].status = "completed"
                          <=> snap[r].evals[q].status = "completed"
      OBVIOUS
    <2>1. evals[q].status = "completed" => ~InFlight(snap[r], q)
      BY <1>2 DEF AnswerInv, OnlyAnsweredEvaluated
    <2>2. snap[r].evals[q].status = "completed" => ~InFlight(snap[r], q)
      BY DEF InFlight
    <2>3. QED
      BY <1>1, <2>1, <2>2 DEF OutcomesKept
  <1>4. Completed(snap[r].evals) = Completed(evals)
    BY <1>3 DEF Completed
  <1>5. \A q \in Completed(snap[r].evals) : snap[r].evals[q].score = evals[q].score
    BY <1>1 DEF Completed, OutcomesKept, InFlight
  <1>6. QED
    BY <1>4, <1>5, SameScores

LEMMA RequestScores ==
  ASSUME TypeInv, AnswerInv, ReportInv, ScoreInv, Extend = {} \/ Refresh = {},
         NEW r \in Request, RequestMoves(r)
  PROVE  ScoreInv'
  <1>1. /\ UNCHANGED <<answers, evals>>
        /\ \A o \in Process : o # r => (Busy(o)' <=> Busy(o))
        /\ \A o \in Request : o # r => snap'[o] = snap[o]
    BY DEF RequestMoves, Lockwise, Busy
  <1>2. Extend = {} /\ status = "completed" => status' = "completed"
    BY DEF RequestMoves, RowBy, Columns, EndCommit, RefreshCommit
  <1>3. RefreshesKnow'
    <2> SUFFICES ASSUME Extend = {}, NEW o \in Refresh, Busy(o)'
                 PROVE  status' = "completed"
                        /\ Scores(snap'[o].evals) = Scores(evals)
      BY <1>1 DEF RefreshesKnow, Scores, Completed
    <2>1. CASE o # r
      BY <1>1, <1>2, <2>1 DEF ScoreInv, RefreshesKnow, Process, Request
    <2>2. CASE o = r
      <3>1. CASE Busy(r) /\ snap'[r] = snap[r]
        BY <1>2, <2>2, <3>1 DEF ScoreInv, RefreshesKnow
      <3>2. CASE snap'[r] = Row /\ status = "completed"
        BY <1>2, <2>2, <3>2 DEF Row
      <3>3. QED
        BY <2>2, <3>1, <3>2 DEF RequestMoves
    <2>3. QED
      BY <2>1, <2>2
  <1>4. ScoreCurrent'
    <2> SUFFICES ASSUME status' = "completed"
                 PROVE  final'.score = OverallScore(evals)
      BY <1>1 DEF ScoreCurrent, OverallScore, Scores, Completed
    <2>1. CASE UNCHANGED Columns
      BY <2>1 DEF Columns, ScoreInv, ScoreCurrent
    <2>2. CASE r \in End /\ EndCommit(r)
      BY <2>2, EndScores DEF EndCommit, Report
    <2>3. CASE r \in Refresh /\ RefreshCommit(r)
      <3>1. Busy(r) /\ Extend = {}
        BY <2>3 DEF RefreshCommit, Busy, Resting
      <3>2. Scores(snap[r].evals) = Scores(evals)
        BY <2>3, <3>1 DEF ScoreInv, RefreshesKnow
      <3>3. QED
        BY <2>3, <3>2 DEF RefreshCommit, Report, OverallScore
    <2>4. CASE r \in Extend /\ ExtendCommit(r)
      BY <2>4 DEF ExtendCommit
    <2>5. QED
      BY <2>1, <2>2, <2>3, <2>4 DEF RequestMoves, RowBy
  <1>5. QED
    BY <1>3, <1>4 DEF ScoreInv

(* A step after which the requests hold what they held.                    *)
LEMMA OtherScores ==
  ASSUME TypeInv, AnswerInv, ReportInv, ScoreInv, [Next]_vars, UNCHANGED status,
         \/ UNCHANGED final
         \/ ScoreRefreshed,
         \A r \in Refresh : Busy(r)' => Busy(r) /\ snap'[r] = snap[r]
  PROVE  ScoreInv'
  <1>1. status = "completed" =>
          Scores(evals') = Scores(evals) /\ OverallScore(evals') = OverallScore(evals)
    BY SettledScores
  <1>2. ScoreCurrent'
    <2>1. status = "completed" => final'.score = OverallScore(evals')
      BY <1>1 DEF ScoreInv, ScoreCurrent, ScoreRefreshed
    <2>2. QED
      BY <2>1 DEF ScoreCurrent, OverallScore, Scores, Completed
  <1>3. RefreshesKnow'
    <2>1. Extend = {} => \A r \in Refresh : Busy(r)' =>
            status = "completed" /\ Scores(snap'[r].evals) = Scores(evals')
      BY <1>1 DEF ScoreInv, RefreshesKnow
    <2>2. QED
      BY <2>1 DEF RefreshesKnow, Scores, Completed
  <1>4. QED
    BY <1>2, <1>3 DEF ScoreInv

LEMMA NextScores ==
  ASSUME TypeInv, AnswerInv, ReportInv, ScoreInv, Extend = {} \/ Refresh = {},
         [Next]_vars
  PROVE  ScoreInv'
  <1> USE DEF Busy
  <1>1. CASE \E r \in Request : RequestMoves(r)
    BY <1>1, RequestScores
  <1>2. ASSUME NEW q \in Qid, EvaluatorMoves(q) PROVE ScoreInv'
    <2>1. UNCHANGED <<status, final, snap>>
      BY <1>2 DEF EvaluatorMoves, Columns
    <2>2. \A r \in Refresh : pc'[r] = pc[r]
      BY <1>2, KindsAssumption DEF EvaluatorMoves, Lockwise, Process, Request
    <2>3. QED
      BY <2>1, <2>2, OtherScores
  <1>3. ASSUME NEW r \in Submit, SubmitReturn(r) PROVE ScoreInv'
    <2>1. UNCHANGED <<status, final, snap>>
      BY <1>3 DEF SubmitReturn, row, local
    <2>2. arg[r] \in Qid
      BY DEF TypeInv, TypeOK, ProcessesOK, Request
    <2>3. \A o \in Refresh : pc'[o] = pc[o]
      BY <1>3, <2>2, KindsAssumption
         DEF SubmitReturn, TypeInv, TypeOK, ProcessesOK, Process, Request
    <2>4. QED
      BY <2>1, <2>3, OtherScores
  <1>4. CASE \E p \in Process : LockRead(p) \/ LockFault(p)
    <2>1. UNCHANGED <<status, final, snap, pc>>
      BY <1>4 DEF LockRead, LockFault, row, local
    <2>2. QED
      BY <2>1, OtherScores
  <1>5. CASE LockedCommit
    <2>1. UNCHANGED <<status, snap, pc>> /\ (UNCHANGED final \/ ScoreRefreshed)
      BY <1>5, CommitKinds DEF Writing, EntryWritten
    <2>2. QED
      BY <2>1, OtherScores
  <1>6. CASE Crash
    <2>1. UNCHANGED <<status, final>> /\ \A r \in Refresh : pc'[r] \in Resting
      BY <1>6 DEF Crash, row, Resting, Process, Request
    <2>2. QED
      BY <2>1, OtherScores
  <1>7. CASE UNCHANGED vars
    <2>1. UNCHANGED <<status, final, snap, pc>>
      BY <1>7 DEF vars, row, local
    <2>2. QED
      BY <2>1, OtherScores
  <1>8. QED
    BY <1>1, <1>2, <1>3, <1>4, <1>5, <1>6, <1>7, StepClasses
       DEF AnswerInv, ReportInv

(* "overallScore is always kept current": the report of a completed        *)
(* session has the score of its evaluations at every moment, and so when   *)
(* all is at rest.  Not if an extension reopens the session during a       *)
(* refresh: the refresh then writes the report of the session it read.     *)
THEOREM ScoreIsCurrent ==
  ASSUME ClientWaits, Extend = {} \/ Refresh = {}
  PROVE  Spec => []ScoreKeptCurrent
  <1>1. Init => ScoreInv
    BY DEF Init, ScoreInv, ScoreCurrent, RefreshesKnow, Busy, Resting, Process,
           Request
  <1>2. TypeInv /\ AnswerInv /\ ReportInv /\ ScoreInv /\ [Next]_vars => ScoreInv'
    BY NextScores
  <1>3. ScoreInv => ScoreKeptCurrent
    BY DEF ScoreInv, ScoreCurrent, ScoreKeptCurrent
  <1>4. QED
    BY <1>1, <1>2, <1>3, ReportInvariant, AnswerInvariant, TypeInvariant, PTL
       DEF Spec

-----------------------------------------------------------------------------
(* Stragglers, whether or not clients await their replies                  *)

(* Of the moves of the lock, only the holder's own takes it further.       *)
LEMMA LockHolds ==
  ASSUME LockOK, QueueInv,
         UNCHANGED lock \/ Release \/ \E p : Queue(p) \/ ReleaseAndQueue(p)
  PROVE  /\ lockPc' \in {lockPc, "read"}
         /\ \A o : Holds(o)' /\ lockPc' # "read" => Holds(o) /\ lockPc' = lockPc
  <1> USE DEF LockOK, QueueInv, Holds
  <1>1. CASE UNCHANGED lock
    BY <1>1 DEF lock
  <1>2. CASE Release \/ \E p : ReleaseAndQueue(p)
    BY <1>2 DEF Release, ReleaseAndQueue
  <1>3. ASSUME NEW p, Queue(p)
        PROVE  /\ lockPc' \in {lockPc, "read"}
               /\ \A o : Holds(o)' /\ lockPc' # "read"
                        => Holds(o) /\ lockPc' = lockPc
    <2>1. lockQ' = Append(lockQ, p) /\ lockPc' = lockPc
      BY <1>3 DEF Queue
    <2>2. CASE lockQ = <<>>
      BY <2>1, <2>2
    <2>3. CASE lockQ # <<>>
      <3>1. Head(lockQ') = Head(lockQ)
        BY <2>1, <2>3
      <3>2. QED
        BY <2>1, <2>3, <3>1
    <2>4. QED
      BY <2>2, <2>3
  <1>4. QED
    BY <1>1, <1>2, <1>3

LEMMA LockwiseHolds ==
  ASSUME LockOK, QueueInv, NEW p, Lockwise(p)
  PROVE  /\ lockPc' \in {lockPc, "read"}
         /\ \A o : Holds(o)' /\ lockPc' # "read" => Holds(o) /\ lockPc' = lockPc
  BY LockHolds DEF Lockwise

(* Who straggles goes on straggling while somebody else moves.             *)
LEMMA StragglersStay ==
  ASSUME NEW q, pc'[q] = pc[q], Straggles(q),
         Holds(q)' /\ lockPc' # "read" => Holds(q) /\ lockPc' = lockPc
  PROVE  Straggles(q)'
  BY DEF Straggles, Evaluating

LEMMA EvaluatorStale ==
  ASSUME TypeInv, AnswerInv, StaleInv, NEW q \in Qid,
         EvaluatorStep(q) \/ ChainOf(q)
  PROVE  StaleInv'
  <1>1. /\ q \in Process /\ q \notin Request /\ Lockwise(q)
        /\ UNCHANGED <<evals, status, final>>
    <2>1. CASE EvaluatorStep(q)
      BY <2>1, EvaluatorStepMoves, KindsAssumption
         DEF EvaluatorMoves, Columns, Process
    <2>2. CASE ChainOf(q)
      BY <2>2, ChainStep, KindsAssumption DEF ChainOf, Columns, Process
    <2>3. QED
      BY <2>1, <2>2
  <1>2. /\ lockPc' \in {lockPc, "read"}
        /\ \A o : Holds(o)' /\ lockPc' # "read" => Holds(o) /\ lockPc' = lockPc
    BY <1>1, LockwiseHolds DEF TypeInv, TypeOK, AnswerInv
  <1>3. Straggles(q) => Straggles(q)'
    <2> USE DEF Straggles, Evaluating, Resting, TypeInv, TypeOK, ProcessesOK, Goto
    <2>1. CASE ChainOf(q)
      <3>1. pc'[q] \in {"switching", "markCompleted", "markFailed"}
        BY <1>1, <2>1, ChainStep DEF ChainOf
      <3>2. QED
        BY <3>1
    <2>2. CASE EvaluatorMarked(q)
      BY <1>1, <2>2 DEF EvaluatorMarked
    <2>3. CASE EvaluatorRecorded(q)
      BY <1>1, <2>3 DEF EvaluatorRecorded, ReleaseAndQueue
    <2>4. CASE EvaluatorCatches(q)
      BY <1>1, <2>4 DEF EvaluatorCatches
    <2>5. CASE EvaluatorEnds(q)
      BY <2>5 DEF EvaluatorEnds, StaleInv
    <2>6. QED
      BY <2>1, <2>2, <2>3, <2>4, <2>5 DEF EvaluatorStep
  <1>4. \A o \in Qid : Straggles(o) => Straggles(o)'
    <2>1. \A o \in Qid : o # q => pc'[o] = pc[o]
      BY <1>1 DEF Lockwise, Process
    <2>2. QED
      BY <1>2, <1>3, <2>1, StragglersStay
  <1>5. \A r \in End : pc'[r] = pc[r]
    BY <1>1 DEF Lockwise, Process, Request
  <1>6. Current' <=> Current
    BY <1>1 DEF Current
  <1>7. QED
    BY <1>1, <1>2, <1>4, <1>5, <1>6 DEF StaleInv

LEMMA RequestStale ==
  ASSUME TypeInv, AnswerInv, StaleInv, \A r, s \in End : r = s,
         NEW r \in Request, RequestMoves(r)
  PROVE  StaleInv'
  <1>1. /\ r \in Process /\ r \notin Qid /\ Lockwise(r) /\ UNCHANGED evals
        /\ \A o \in Process : o # r => pc'[o] = pc[o]
    BY KindsAssumption DEF RequestMoves, Lockwise, Process, Request
  <1>2. /\ lockPc' \in {lockPc, "read"}
        /\ \A o : Holds(o)' /\ lockPc' # "read" => Holds(o) /\ lockPc' = lockPc
    BY <1>1, LockwiseHolds DEF TypeInv, TypeOK, AnswerInv
  <1>3. \A q \in Qid : Straggles(q) => Straggles(q)'
    BY <1>1, <1>2, StragglersStay DEF Process
  <1>4. status = "completed" => \A o \in End : pc'[o] = "done"
    <2>1. r \in End => pc[r] # "done"
      BY DEF RequestMoves, Ending, EndBegin, EndStep, LockedRequestThrows,
             RunChain, PersistProviderSwitch, StorageFault, EndCollect,
             EndRefetch, EndFindGaps, EndGapFilled, EndReread, EndCommit
    <2>2. QED
      BY <1>1, <2>1 DEF StaleInv, Process, Request
  <1>5. CASE UNCHANGED Columns
    <2>1. (Current' <=> Current) /\ UNCHANGED <<status, final>>
      BY <1>1, <1>5 DEF Current, Columns
    <2>2. QED
      BY <1>2, <1>3, <1>4, <2>1 DEF StaleInv
  <1>6. CASE r \in End /\ EndCommit(r)
    <2>1. pc'[r] = "done" /\ final' = Report(snap[r])
      BY <1>1, <1>6 DEF EndCommit, Goto, TypeInv, TypeOK, ProcessesOK
    <2>2. final' # NoReport /\ final'.feedback # "stale"
      BY <2>1 DEF Report, NoReport
    <2>3. QED
      BY <1>2, <1>6, <2>1, <2>2 DEF StaleInv
  <1>7. CASE r \in Refresh /\ RefreshCommit(r)
    <2>1. final' # NoReport /\ final'.feedback # "stale" /\ UNCHANGED status
      BY <1>7 DEF RefreshCommit, Report, NoReport
    <2>2. QED
      BY <1>2, <1>4, <2>1 DEF StaleInv
  <1>8. CASE r \in Extend /\ ExtendCommit(r)
    BY <1>2, <1>8 DEF ExtendCommit, StaleInv
  <1>9. QED
    BY <1>5, <1>6, <1>7, <1>8 DEF RequestMoves, RowBy

LEMMA ReturnStale ==
  ASSUME TypeInv, AnswerInv, StaleInv, NEW r \in Submit, SubmitReturn(r)
  PROVE  StaleInv'
  <1>1. /\ arg[r] \in Qid /\ arg[r] \in Process /\ r \in Process
        /\ r \notin Qid /\ pc \in [Process -> Doing]
    BY KindsAssumption DEF TypeInv, TypeOK, ProcessesOK, Process, Request
  <1>2. /\ UNCHANGED <<evals, status, final>> /\ lockPc' = "read"
        /\ pc' = [pc EXCEPT ![r] = "acked", ![arg[r]] = "markProcessing"]
    BY DEF SubmitReturn, ReleaseAndQueue, row
  <1>3. /\ pc'[arg[r]] = "markProcessing"
        /\ \A o \in Process : o # r /\ o # arg[r] => pc'[o] = pc[o]
    BY <1>1, <1>2
  <1>4. \A q \in Qid : Straggles(q) => Straggles(q)'
    <2> SUFFICES ASSUME NEW q \in Qid, Straggles(q) PROVE Straggles(q)'
      OBVIOUS
    <2>1. CASE q = arg[r]
      BY <1>3, <2>1 DEF Straggles, Evaluating, Resting
    <2>2. CASE q # arg[r]
      BY <1>1, <1>2, <1>3, <2>2, StragglersStay DEF Process
    <2>3. QED
      BY <2>1, <2>2
  <1>5. \A o \in End : pc'[o] = pc[o]
    BY <1>1, <1>3, KindsAssumption DEF Process, Request
  <1>6. Current' <=> Current
    BY <1>2 DEF Current
  <1>7. QED
    BY <1>2, <1>4, <1>5, <1>6 DEF StaleInv

(* An evaluator that finds nothing to write has found the report current.  *)
LEMMA LockReadStale ==
  ASSUME TypeInv, AnswerInv, StaleInv, NEW p \in Process, LockRead(p)
  PROVE  StaleInv'
  <1>1. /\ UNCHANGED <<evals, status, final, pc, lockQ>>
        /\ Holds(p) /\ lockPc = "read" /\ lockPc' \in {"write", "skip"}
    BY DEF LockRead, row
  <1>2. Current' <=> Current
    BY <1>1 DEF Current
  <1>3. CASE lockPc' = "skip" /\ pc[p] = "refreshScore"
    <2>1. ~Writes(p)
      BY <1>3 DEF LockRead
    <2>2. status = "completed" /\ final # NoReport => Current
      BY <1>3, <2>1 DEF Writes, Current
    <2>3. QED
      BY <1>1, <1>2, <2>2 DEF StaleInv
  <1>4. CASE ~(lockPc' = "skip" /\ pc[p] = "refreshScore")
    <2>1. \A q \in Qid : Straggles(q) => Straggles(q)'
      BY <1>1, <1>4 DEF Straggles, Evaluating, Holds
    <2>2. QED
      BY <1>1, <1>2, <2>1 DEF StaleInv
  <1>5. QED
    BY <1>3, <1>4

LEMMA CommitStale ==
  ASSUME TypeInv, AnswerInv, StaleInv, LockedCommit
  PROVE  StaleInv'
  <1>1. PICK p \in Process : Writing(p) /\
           \/ p \in Submit /\ UNCHANGED <<evals, final>>
           \/ /\ p \in Qid
              /\ pc[p] \in {"markProcessing", "markCompleted", "markFailed"}
              /\ UNCHANGED final
           \/ p \in End /\ pc[p] = "fillGap" /\ UNCHANGED final
           \/ p \in Guide /\ UNCHANGED final /\ OutcomesUnchanged
           \/ UNCHANGED evals /\ ScoreRefreshed
    BY CommitKinds DEF EntryWritten
  <1>2. UNCHANGED <<status, pc, lockQ>> /\ lockPc' = "done" /\ Holds(p)
    BY <1>1 DEF Writing
  <1>3. p \notin Qid => \A q \in Qid : Straggles(q) => Straggles(q)'
    BY <1>2 DEF Straggles, Evaluating, Holds
  <1>4. CASE p \in Submit \cup Guide /\ UNCHANGED final
             /\ (UNCHANGED evals \/ OutcomesUnchanged)
    <2>1. UNCHANGED evals => OutcomesUnchanged
      BY DEF OutcomesUnchanged
    <2>2. /\ Completed(evals') = Completed(evals)
          /\ \A q \in Completed(evals') : evals'[q].score = evals[q].score
      BY <1>4, <2>1 DEF OutcomesUnchanged, Completed
    <2>3. OverallScore(evals') = OverallScore(evals)
      BY <2>2, SameScores
    <2>4. Current => Current'
      <3>1. /\ OverallScore(evals)' = OverallScore(evals')
            /\ Completed(evals)' = Completed(evals')
        BY DEF OverallScore, Scores, Completed
      <3>2. QED
        BY <1>4, <2>2, <2>3, <3>1 DEF Current
    <2>5. p \notin Qid
      BY <1>4, KindsAssumption DEF Request
    <2>6. QED
      BY <1>2, <1>3, <1>4, <2>4, <2>5 DEF StaleInv
  <1>5. CASE /\ p \in Qid /\ UNCHANGED final
             /\ pc[p] \in {"markProcessing", "markCompleted", "markFailed"}
    <2>1. Straggles(p)'
      BY <1>2, <1>5 DEF Straggles, Evaluating, Resting
    <2>2. QED
      BY <1>2, <1>5, <2>1 DEF StaleInv
  <1>6. CASE p \in End /\ pc[p] = "fillGap"
    BY <1>2, <1>6 DEF StaleInv
  <1>7. CASE UNCHANGED evals /\ ScoreRefreshed
    <2>1. Current' /\ final' # NoReport
      BY <1>7 DEF Current, ScoreRefreshed, NoReport
    <2>2. QED
      BY <1>2, <2>1 DEF StaleInv
  <1>8. QED
    BY <1>1, <1>4, <1>5, <1>6, <1>7

LEMMA CrashStale ==
  ASSUME TypeInv, StaleInv, Crash
  PROVE  StaleInv'
  <1>1. /\ UNCHANGED <<evals, status, final>> /\ lockPc' = "read"
        /\ \A p \in Process :
             pc'[p] = IF pc[p] \in Resting THEN pc[p] ELSE "lost"
    BY DEF Crash, row
  <1>2. \A q \in Qid : Straggles(q) => Straggles(q)'
    BY <1>1 DEF Straggles, Evaluating, Process
  <1>3. \A r \in End : pc[r] = "done" => pc'[r] = "done"
    BY <1>1 DEF Process, Request, Resting
  <1>4. Current' <=> Current
    BY <1>1 DEF Current
  <1>5. QED
    BY <1>1, <1>2, <1>3, <1>4 DEF StaleInv

LEMMA NextStale ==
  ASSUME TypeInv, AnswerInv, StaleInv, MaxFaults = 0,
         \A r, s \in End : r = s, [Next]_vars
  PROVE  StaleInv'
  <1>1. CASE \E q \in Qid : EvaluatorStep(q) \/ ChainOf(q)
    BY <1>1, EvaluatorStale
  <1>2. CASE \E r \in Request : RequestMoves(r)
    BY <1>2, RequestStale
  <1>3. CASE \E r \in Submit : SubmitReturn(r)
    BY <1>3, ReturnStale
  <1>4. CASE \E p \in Process : LockRead(p) \/ LockFault(p)
    <2>1. \A p \in Process : ~LockFault(p)
      BY DEF LockFault, TypeInv, TypeOK, EnvOK
    <2>2. QED
      BY <1>4, <2>1, LockReadStale
  <1>5. CASE LockedCommit \/ Crash
    BY <1>5, CommitStale, CrashStale
  <1>6. CASE UNCHANGED vars
    <2>1. UNCHANGED <<evals, status, final, pc, lockQ, lockPc>>
      BY <1>6 DEF vars, row, lock
    <2>2. \A q \in Qid : Straggles(q)' <=> Straggles(q)
      BY <2>1 DEF Straggles, Evaluating, Holds
    <2>3. Current' <=> Current
      BY <2>1 DEF Current
    <2>4. QED
      BY <2>1, <2>2, <2>3 DEF StaleInv
  <1>7. QED
    BY <1>1, <1>2, <1>3, <1>4, <1>5, <1>6, StepOwners

(* A report that a straggler has marked stale shows the current score and  *)
(* count once no evaluator is at work and none was lost in a crash.  With  *)
(* a storage fault an evaluator may fail to refresh it, and a second end   *)
(* may put a placeholder over a score that it shows.                       *)
THEOREM StragglersAreFoldedIn ==
  ASSUME MaxFaults = 0, \A r, s \in End : r = s
  PROVE  Spec => []StaleReportCurrent
  <1>1. Init => StaleInv
    BY DEF Init, StaleInv
  <1>2. TypeInv /\ AnswerInv /\ StaleInv /\ [Next]_vars => StaleInv'
    BY NextStale
  <1>3. StaleInv => StaleReportCurrent
    BY DEF StaleInv, StaleReportCurrent, Current, Straggles
  <1>4. QED
    BY <1>1, <1>2, <1>3, AnswerInvariant, TypeInvariant, PTL DEF Spec

=============================================================================
