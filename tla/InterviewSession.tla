-------------------------- MODULE InterviewSession --------------------------
(***************************************************************************)
(* One interview session of InterviewService (interview.service.ts) on its *)
(* row of InterviewRepository (interview.repository.ts): concurrent HTTP   *)
(* and socket requests, the background evaluation of each answer, and the  *)
(* crash and restart of the server process.                                *)
(*                                                                         *)
(* A step is what happens between two awaits: a database read or write     *)
(* takes effect at its commit, and the code that follows the response is   *)
(* a later step.  A write touches only the columns it names.  The locked   *)
(* read-modify-writes go through the FIFO of withSessionLock, which module *)
(* SessionLock justifies; updateSession called directly does not.          *)
(*                                                                         *)
(* The row exists and the database is reachable throughout: the not_found  *)
(* outcomes belong to the storage fallback, which is not modelled here.    *)
(* Not kept: texts and timestamps; interviewContext and questionHistory,   *)
(* which only prompts read; the events emitted.  The requester owns the    *)
(* session.  A question's id is its position.                              *)
(***************************************************************************)
EXTENDS Integers, Sequences, FiniteSets
LOCAL INSTANCE FiniteSetsExt

CONSTANTS
  Submit, End, Refresh, Guide, Extend,  \* requests, by service method
  InitialQuestions,     \* how many questions the interview starts with
  MaxQuestionId,        \* bound: largest question id explored
  MaxTotalQuestions,    \* MAX_TOTAL_QUESTIONS
  MaxExtensions,        \* MAX_EXTENSIONS
  AdditionalCount,      \* questions a client asks an extension for
  QuestionsMultiplier,  \* MAX_QUESTIONS_MULTIPLIER of validateQuestions
  QuestionsFloor,       \* MAX_QUESTIONS_FLOOR of validateQuestions
  Score,                \* scores an evaluation may give, out of 10
  Outcome,              \* how a provider chain ends: the first provider
                        \* answers, a later one does, or none
  Model,                \* AI models a switch may persist
  ClientWaits,          \* do clients await a reply before another kind of
                        \* request? (false: an early end, a second tab)
  MaxCrashes, MaxFaults,  \* bounds: restarts, and storage calls that throw
  NoAuthor, NoRow

Request == Submit \cup End \cup Refresh \cup Guide \cup Extend
Qid == 1..MaxQuestionId
Process == Request \cup Qid  \* the evaluator of answer q is named q

ASSUME KindsAssumption ==
  /\ Submit \cap (End \cup Refresh \cup Guide \cup Extend) = {}
  /\ End \cap (Refresh \cup Guide \cup Extend) = {}
  /\ Refresh \cap (Guide \cup Extend) = {}
  /\ Guide \cap Extend = {}
  /\ Request \cap Qid = {}
  /\ NoAuthor \notin Request
ASSUME BoundsAssumption ==
  /\ InitialQuestions \in Nat /\ MaxQuestionId \in Nat
  /\ 1 <= InitialQuestions /\ InitialQuestions <= MaxQuestionId
  /\ MaxTotalQuestions \in Nat /\ MaxExtensions \in Nat
  /\ AdditionalCount \in Nat \ {0}
  /\ QuestionsMultiplier \in Nat \ {0} /\ QuestionsFloor \in Nat
  /\ Score \subseteq 0..10 /\ Score # {}
  /\ Outcome \subseteq {"first", "later", "none"}
  /\ ClientWaits \in BOOLEAN
  /\ MaxCrashes \in Nat /\ MaxFaults \in Nat

VARIABLES
  \* the row, by column
  questions,        \* who authored the question at each position
  answers,          \* the answers in the order recorded
  evals,            \* the evaluation entry of each question id
  status, final, extensionCount, totalQuestions, answeredCount, model,
  \* the server process
  pc,               \* what each request and evaluator is doing
  arg,              \* the question a request is about
  snap,             \* the session object a request holds
  todo,             \* questions an End waits for, or has yet to fill in
  result,           \* the score an evaluator obtained
  pending,          \* pendingEvaluations
  lockQ,            \* operations queued by withSessionLock, head running
  lockPc,           \* progress of the head
  lockSnap,         \* the session the head read
  crashes, faults

row == <<questions, answers, evals, status, final, extensionCount,
         totalQuestions, answeredCount, model>>
lock == <<lockQ, lockPc, lockSnap>>
local == <<arg, snap, todo, result>>
env == <<crashes, faults>>
vars == <<row, pc, local, pending, lock, env>>

Row == [questions |-> questions, answers |-> answers, evals |-> evals,
        status |-> status, final |-> final, extensionCount |-> extensionCount,
        totalQuestions |-> totalQuestions]

-----------------------------------------------------------------------------
(* Types                                                                   *)

Author == Extend \cup {NoAuthor}
Answer == [question : Qid, by : Submit]
Entry == [status : {"none", "processing", "completed", "failed"},
          score : 0..10, guidance : BOOLEAN]
Resting == {"idle", "acked", "done", "refused", "ended", "lost"}
LockedOp == {"recordAnswer", "markProcessing", "markCompleted", "markFailed",
             "refreshScore", "fillGap", "cacheGuidance"}
Doing == Resting \cup LockedOp \cup
         {"accepted", "collect", "await", "refetched", "reread",
          "asking", "scoring", "switching", "commit"}

(* finalEvaluation is null until the session ends.                         *)
NoReport == [feedback |-> "none"]
IsReport(f) ==
  f # NoReport =>
    /\ DOMAIN f = {"score", "feedback", "evaluationsCompleted",
                   "evaluationsTotal"}
    /\ f.feedback \in {"generated", "stale"}

IsRow(s) ==
  /\ s.questions \in Seq(Author)
  /\ s.answers \in Seq(Answer)
  /\ s.evals \in [Qid -> Entry]
  /\ s.status \in {"active", "completed"}
  /\ s.extensionCount \in 0..MaxExtensions
  /\ s.totalQuestions \in Nat
  /\ IsReport(s.final)

RowOK ==
  /\ IsRow(Row)
  /\ Len(questions) <= MaxQuestionId
  /\ answeredCount \in Nat
  /\ model \in Model

ProcessesOK ==
  /\ pc \in [Process -> Doing]
  /\ arg \in [Request -> Qid]
  /\ DOMAIN snap = Request
  /\ \A r \in Request : snap[r] # NoRow => IsRow(snap[r])
  /\ todo \in [End -> SUBSET Qid]
  /\ result \in [Qid -> 0..10]
  /\ pending \in SUBSET Qid

LockOK ==
  /\ lockQ \in Seq(Process)
  /\ lockPc \in {"read", "write", "done", "skip", "failed"}
  /\ lockPc = "write" => IsRow(lockSnap)

EnvOK == crashes \in 0..MaxCrashes /\ faults \in 0..MaxFaults

TypeOK == RowOK /\ ProcessesOK /\ LockOK /\ EnvOK

-----------------------------------------------------------------------------
(* Pure parts of the service                                               *)

Answered(s) == {s.answers[i].question : i \in DOMAIN s.answers}
Exists(s, q) == q <= Len(s.questions)
InFlight(s, q) == s.evals[q].status \in {"none", "processing"}
Completed(e) == {q \in Qid : e[q].status = "completed"}

(* computeOverallScore: Math.round of the average of the completed ones.   *)
Scores(e) == [q \in Completed(e) |-> e[q].score]

Average(scores) ==
  LET n == Cardinality(DOMAIN scores)
      total == MapThenSumSet(LAMBDA q : scores[q], DOMAIN scores)
  IN  IF n = 0 THEN 0 ELSE (2 * total * 100 + n * 10) \div (2 * n * 10)

OverallScore(e) == Average(Scores(e))

(* Defect: the report leaves out the optional evaluationsTotal.            *)
ReportWithoutTotal(s) ==
  [score |-> OverallScore(s.evals), feedback |-> "generated",
   evaluationsCompleted |-> Cardinality(Completed(s.evals))]

(* The report endSession and refreshOverallFeedback build from the session *)
(* object they hold (with no answers it is the canned one).                *)
Report(s) ==
  [score |-> OverallScore(s.evals), feedback |-> "generated",
   evaluationsCompleted |-> Cardinality(Completed(s.evals)),
   evaluationsTotal |-> Len(s.answers)]

(* buildEvaluationDigest is empty.                                         *)
NothingToDigest(s) == \A q \in Answered(s) : ~Exists(s, q)

(* The questions an extension of s asks for, and the most it may get.      *)
Asked(s) ==
  LET room == MaxTotalQuestions - Len(s.questions)
      want == IF AdditionalCount < room THEN AdditionalCount ELSE room
  IN  IF want < 1 THEN 1 ELSE want
AtMost(n) ==
  IF n * QuestionsMultiplier < n + QuestionsFloor
    THEN n + QuestionsFloor ELSE n * QuestionsMultiplier

NewEntry(st, sc) == [status |-> st, score |-> sc, guidance |-> FALSE]

Goto(p, label) == pc' = [pc EXCEPT ![p] = label]

(* See ClientWaits: a request begins when no other kind is in progress.    *)
MayBegin(kind) ==
  ClientWaits =>
    \A r \in (Submit \cup End \cup Extend) \ kind : pc[r] \in Resting

Init ==
  /\ questions = [i \in 1..InitialQuestions |-> NoAuthor]
  /\ answers = <<>>
  /\ evals = [q \in Qid |-> NewEntry("none", 0)]
  /\ status = "active" /\ final = NoReport
  /\ extensionCount = 0 /\ totalQuestions = InitialQuestions
  /\ answeredCount = 0
  /\ model \in Model
  /\ pc = [p \in Process |-> "idle"]
  /\ arg = [r \in Request |-> 1]
  /\ snap = [r \in Request |-> NoRow]
  /\ todo = [r \in End |-> {}]
  /\ result = [q \in Qid |-> 0]
  /\ pending = {}
  /\ lockQ = <<>> /\ lockPc = "read" /\ lockSnap = NoRow
  /\ crashes = 0 /\ faults = 0

-----------------------------------------------------------------------------
(* The session lock and the operations that run under it.  The head of     *)
(* lockQ reads the row, then writes, then its caller continues.            *)

Holds(p) == lockQ # <<>> /\ p = Head(lockQ)
Release == lockQ' = Tail(lockQ) /\ lockPc' = "read" /\ UNCHANGED lockSnap
ReleaseAndQueue(p) ==
  lockQ' = Append(Tail(lockQ), p) /\ lockPc' = "read" /\ UNCHANGED lockSnap
Queue(p) == lockQ' = Append(lockQ, p) /\ UNCHANGED <<lockPc, lockSnap>>

(* Defects: no duplicate check under the lock; a refresh that compares the *)
(* score alone.                                                            *)
WritesUnchecked(p) ==
  CASE pc[p] = "cacheGuidance" -> evals[arg[p]].status # "none"
    [] pc[p] = "refreshScore" ->
         /\ status = "completed" /\ final # NoReport
         /\ \/ final.score # OverallScore(evals)
            \/ final.evaluationsCompleted # Cardinality(Completed(evals))
    [] OTHER -> TRUE

WritesOnScoreOnly(p) ==
  CASE pc[p] = "recordAnswer" -> arg[p] \notin Answered(Row)
    [] pc[p] = "cacheGuidance" -> evals[arg[p]].status # "none"
    [] pc[p] = "refreshScore" ->
         /\ status = "completed" /\ final # NoReport
         /\ final.score # OverallScore(evals)
    [] OTHER -> TRUE

(* Whether the operation of p, having read the row, has a write to make.   *)
Writes(p) ==
  CASE pc[p] = "recordAnswer" -> arg[p] \notin Answered(Row)
    [] pc[p] = "cacheGuidance" -> evals[arg[p]].status # "none"
    [] pc[p] = "refreshScore" ->
         /\ status = "completed" /\ final # NoReport
         /\ \/ final.score # OverallScore(evals)
            \/ final.evaluationsCompleted # Cardinality(Completed(evals))
    [] OTHER -> TRUE

LockRead(p) ==
  /\ Holds(p) /\ lockPc = "read"
  /\ IF Writes(p) THEN lockPc' = "write" /\ lockSnap' = Row
                  ELSE lockPc' = "skip" /\ UNCHANGED lockSnap
  /\ UNCHANGED <<row, pc, local, pending, lockQ, env>>

Commit(p, label) == Holds(p) /\ lockPc = "write" /\ pc[p] = label
Committed ==
  /\ lockPc' = "done" /\ lockSnap' = NoRow
  /\ UNCHANGED <<status, extensionCount, totalQuestions, answeredCount, model,
                 questions, pc, local, pending, lockQ, env>>

RecordAnswer(r) ==
  /\ Commit(r, "recordAnswer")
  /\ answers' = Append(lockSnap.answers, [question |-> arg[r], by |-> r])
  /\ Committed /\ UNCHANGED <<evals, final>>

(* recordEvaluation replaces the entry of the question, guidance included. *)
RecordEvaluation(p, label, q, entry) ==
  /\ Commit(p, label)
  /\ evals' = [lockSnap.evals EXCEPT ![q] = entry]
  /\ Committed /\ UNCHANGED <<answers, final>>

(* Defect: the entry read before the AI call is written back.              *)
CacheGuidanceOnOldEntry(r) ==
  /\ Commit(r, "cacheGuidance")
  /\ evals' = [lockSnap.evals EXCEPT ![arg[r]] =
                 [snap[r].evals[arg[r]] EXCEPT !.guidance = TRUE]]
  /\ Committed /\ UNCHANGED <<answers, final>>

CacheGuidance(r) ==
  /\ Commit(r, "cacheGuidance")
  /\ evals' = [lockSnap.evals EXCEPT ![arg[r]].guidance = TRUE]
  /\ Committed /\ UNCHANGED <<answers, final>>

(* _maybeRefreshAggregateScore                                             *)
RefreshScore(q) ==
  /\ Commit(q, "refreshScore")
  /\ final' =
       [score |-> OverallScore(lockSnap.evals), feedback |-> "stale",
        evaluationsCompleted |-> Cardinality(Completed(lockSnap.evals)),
        evaluationsTotal |-> lockSnap.totalQuestions]
  /\ Committed /\ UNCHANGED <<answers, evals>>

LockedCommit ==
  \/ \E r \in Submit : RecordAnswer(r)
  \/ \E q \in Qid :
       \/ RecordEvaluation(q, "markProcessing", q, NewEntry("processing", 0))
       \/ RecordEvaluation(q, "markCompleted", q,
                           NewEntry("completed", result[q]))
       \/ RecordEvaluation(q, "markFailed", q, NewEntry("failed", 0))
       \/ RefreshScore(q)
  \/ \E r \in End :
       RecordEvaluation(r, "fillGap", arg[r], NewEntry("failed", 0))
  \/ \E r \in Guide : CacheGuidance(r)

(* The read or the write of the operation throws; the lock passes on.      *)
LockFault(p) ==
  /\ Holds(p) /\ lockPc \in {"read", "write"} /\ faults < MaxFaults
  /\ lockPc' = "failed" /\ lockSnap' = NoRow /\ faults' = faults + 1
  /\ UNCHANGED <<row, pc, local, pending, lockQ, crashes>>

-----------------------------------------------------------------------------
(* The provider chain of a request ("asking") or an evaluator ("scoring"), *)
(* and what follows it: the write of the result, or giving up.             *)

Proceed(p) ==
  CASE p \in Qid -> Goto(p, "markCompleted") /\ Queue(p)
    [] p \in Guide -> Goto(p, "cacheGuidance") /\ Queue(p)
    [] OTHER -> Goto(p, "commit") /\ UNCHANGED lock

(* Defect: an evaluator whose chain failed just stops.                     *)
GiveUpSilently(p) ==
  /\ UNCHANGED <<arg, todo, lock>>
  /\ IF p \in Qid THEN Goto(p, "ended") /\ UNCHANGED snap
                  ELSE /\ Goto(p, "refused")
                       /\ snap' = [snap EXCEPT ![p] = NoRow]

GiveUp(p) ==
  /\ UNCHANGED <<arg, todo>>
  /\ IF p \in Qid
       THEN Goto(p, "markFailed") /\ Queue(p) /\ UNCHANGED snap
       ELSE /\ Goto(p, "refused") /\ UNCHANGED lock
            /\ snap' = [snap EXCEPT ![p] = NoRow]

RunChain(p) ==
  /\ pc[p] \in {"asking", "scoring"}
  /\ \/ /\ Outcome \cap {"first", "later"} # {}
        /\ IF p \in Qid THEN \E s \in Score : result' = [result EXCEPT ![p] = s]
                        ELSE UNCHANGED result
        /\ \/ "first" \in Outcome /\ Proceed(p)
           \/ "later" \in Outcome /\ Goto(p, "switching") /\ UNCHANGED lock
        /\ UNCHANGED <<arg, snap, todo>>
     \/ "none" \in Outcome /\ GiveUp(p) /\ UNCHANGED result
  /\ UNCHANGED <<row, pending, env>>

PersistProviderSwitch(p) ==
  /\ pc[p] = "switching"
  /\ model' \in Model
  /\ Proceed(p)
  /\ UNCHANGED <<questions, answers, evals, status, final, extensionCount,
                 totalQuestions, answeredCount, local, pending, env>>

(* A storage call made outside the lock throws.                            *)
StorageFault(p) ==
  /\ \/ pc[p] \in {"switching", "reread", "commit"}
     \/ pc[p] = "await" /\ \A q \in todo[p] : pc[q] = "ended"
  /\ faults < MaxFaults /\ faults' = faults + 1
  /\ GiveUp(p)
  /\ UNCHANGED <<row, pending, result, crashes>>

-----------------------------------------------------------------------------
(* submitAnswer                                                            *)

SubmitBegin(r, q) ==
  /\ pc[r] = "idle" /\ MayBegin(Submit)
  /\ arg' = [arg EXCEPT ![r] = q]
  /\ IF status = "active" /\ Exists(Row, q) /\ q \notin Answered(Row)
       THEN Goto(r, "accepted") ELSE Goto(r, "refused")
  /\ UNCHANGED <<row, snap, todo, result, pending, lock, env>>

SubmitQueue(r) ==
  /\ pc[r] = "accepted"
  /\ Goto(r, "recordAnswer") /\ Queue(r)
  /\ UNCHANGED <<row, local, pending, env>>

(* Defects: the outcome of recordAnswer is ignored; the evaluation is not  *)
(* tracked in pendingEvaluations.                                          *)
SubmitReturnUnchecked(r) ==
  /\ Holds(r) /\ pc[r] = "recordAnswer" /\ lockPc \in {"done", "skip", "failed"}
  /\ pc' = [pc EXCEPT ![r] = "acked", ![arg[r]] = "markProcessing"]
  /\ pending' = pending \cup {arg[r]}
  /\ ReleaseAndQueue(arg[r])
  /\ UNCHANGED <<row, local, env>>

SubmitReturnUntracked(r) ==
  /\ Holds(r) /\ pc[r] = "recordAnswer" /\ lockPc = "done"
  /\ pc' = [pc EXCEPT ![r] = "acked", ![arg[r]] = "markProcessing"]
  /\ ReleaseAndQueue(arg[r])
  /\ UNCHANGED <<row, local, pending, env>>

(* The reply is sent and the evaluation starts, up to its first await.     *)
SubmitReturn(r) ==
  /\ Holds(r) /\ pc[r] = "recordAnswer" /\ lockPc = "done"
  /\ pc' = [pc EXCEPT ![r] = "acked", ![arg[r]] = "markProcessing"]
  /\ pending' = pending \cup {arg[r]}
  /\ ReleaseAndQueue(arg[r])
  /\ UNCHANGED <<row, local, env>>

SubmitRefused(r) ==
  /\ Holds(r) /\ pc[r] = "recordAnswer" /\ lockPc \in {"skip", "failed"}
  /\ Goto(r, "refused") /\ Release
  /\ UNCHANGED <<row, local, pending, env>>

-----------------------------------------------------------------------------
(* _evaluateAndPersist, after each of its locked operations                *)

EvaluatorMarked(q) ==
  /\ Holds(q) /\ pc[q] = "markProcessing" /\ lockPc = "done"
  /\ Goto(q, "scoring") /\ Release
  /\ UNCHANGED <<row, local, pending, env>>

EvaluatorRecorded(q) ==
  /\ Holds(q) /\ pc[q] \in {"markCompleted", "markFailed"} /\ lockPc = "done"
  /\ Goto(q, "refreshScore") /\ ReleaseAndQueue(q)
  /\ UNCHANGED <<row, local, pending, env>>

(* The catch around the chain also catches a failed write of the result.   *)
EvaluatorCatches(q) ==
  /\ Holds(q) /\ pc[q] = "markCompleted" /\ lockPc = "failed"
  /\ Goto(q, "markFailed") /\ ReleaseAndQueue(q)
  /\ UNCHANGED <<row, local, pending, env>>

(* Resolved, or rejected by an uncaught storage error: finally runs.       *)
EvaluatorEnds(q) ==
  /\ Holds(q)
  /\ \/ pc[q] = "refreshScore" /\ lockPc \in {"done", "skip", "failed"}
     \/ pc[q] \in {"markProcessing", "markFailed"} /\ lockPc = "failed"
  /\ Goto(q, "ended") /\ Release
  /\ pending' = pending \ {q}
  /\ UNCHANGED <<row, local, env>>

-----------------------------------------------------------------------------
(* endSession                                                              *)

(* Defect: every question is taken for an answered one.                    *)
OpenUnanswered(s) == {q \in Qid : Exists(s, q) /\ InFlight(s, q)}
Open(s) == {q \in Answered(s) : InFlight(s, q)}
ToReport(s) == IF s.answers = <<>> THEN "commit" ELSE "asking"

EndBegin(r) ==
  /\ pc[r] = "idle" /\ MayBegin(End)
  /\ snap' = [snap EXCEPT ![r] = Row]
  /\ Goto(r, "collect")
  /\ UNCHANGED <<row, arg, todo, result, pending, lock, env>>

(* With the session in hand: return it if completed, else look up the      *)
(* evaluations in flight.                                                  *)
EndCollect(r) ==
  /\ pc[r] = "collect"
  /\ IF snap[r].status = "completed"
       THEN /\ Goto(r, "done") /\ snap' = [snap EXCEPT ![r] = NoRow]
            /\ UNCHANGED todo
       ELSE IF Open(snap[r]) = {}
       THEN Goto(r, ToReport(snap[r])) /\ UNCHANGED <<snap, todo>>
       ELSE /\ Goto(r, "await") /\ UNCHANGED snap
            /\ todo' = [todo EXCEPT ![r] = Open(snap[r]) \cap pending]
  /\ UNCHANGED <<row, arg, result, pending, lock, env>>

(* Defects: the evaluations in flight are not awaited; every one of them   *)
(* is awaited until it has a score.                                        *)
EndRefetchAtOnce(r) ==
  /\ pc[r] = "await"
  /\ snap' = [snap EXCEPT ![r] = Row]
  /\ todo' = [todo EXCEPT ![r] = {}]
  /\ Goto(r, "refetched")
  /\ UNCHANGED <<row, arg, result, pending, lock, env>>

EndRefetchWhenScored(r) ==
  /\ pc[r] = "await"
  /\ \A q \in todo[r] : evals[q].status = "completed"
  /\ snap' = [snap EXCEPT ![r] = Row]
  /\ todo' = [todo EXCEPT ![r] = {}]
  /\ Goto(r, "refetched")
  /\ UNCHANGED <<row, arg, result, pending, lock, env>>

(* Promise.allSettled, then the session is fetched again.                  *)
EndRefetch(r) ==
  /\ pc[r] = "await"
  /\ \A q \in todo[r] : pc[q] = "ended"
  /\ snap' = [snap EXCEPT ![r] = Row]
  /\ todo' = [todo EXCEPT ![r] = {}]
  /\ Goto(r, "refetched")
  /\ UNCHANGED <<row, arg, result, pending, lock, env>>

(* Defect: what is still missing after the wait is not filled in.          *)
EndFindNoGaps(r) ==
  /\ pc[r] = "refetched"
  /\ Goto(r, ToReport(snap[r]))
  /\ UNCHANGED <<row, local, pending, lock, env>>

(* Placeholders for what is still missing, one after the other (the order  *)
(* is immaterial), and a last fetch if there were any.                     *)
EndFindGaps(r) ==
  /\ pc[r] = "refetched"
  /\ IF Open(snap[r]) = {}
       THEN Goto(r, ToReport(snap[r])) /\ UNCHANGED <<arg, todo, lock>>
       ELSE /\ Goto(r, "fillGap") /\ Queue(r)
            /\ todo' = [todo EXCEPT ![r] = Open(snap[r])]
            /\ \E q \in Open(snap[r]) : arg' = [arg EXCEPT ![r] = q]
  /\ UNCHANGED <<row, snap, result, pending, env>>

EndGapFilled(r) ==
  /\ Holds(r) /\ pc[r] = "fillGap" /\ lockPc = "done"
  /\ LET rest == todo[r] \ {arg[r]}
     IN  /\ todo' = [todo EXCEPT ![r] = rest]
         /\ IF rest = {}
              THEN Goto(r, "reread") /\ Release /\ UNCHANGED arg
              ELSE /\ ReleaseAndQueue(r) /\ UNCHANGED pc
                   /\ \E q \in rest : arg' = [arg EXCEPT ![r] = q]
  /\ UNCHANGED <<row, snap, result, pending, env>>

EndReread(r) ==
  /\ pc[r] = "reread"
  /\ snap' = [snap EXCEPT ![r] = Row]
  /\ Goto(r, ToReport(Row))
  /\ UNCHANGED <<row, arg, todo, result, pending, lock, env>>

(* Defect: the whole session object is saved, not the columns that changed. *)
EndCommitWholeRow(r) ==
  /\ pc[r] = "commit"
  /\ answers' = snap[r].answers /\ evals' = snap[r].evals
  /\ status' = "completed"
  /\ final' = Report(snap[r])
  /\ answeredCount' = Len(snap[r].answers)
  /\ totalQuestions' = Len(snap[r].questions)
  /\ Goto(r, "done") /\ snap' = [snap EXCEPT ![r] = NoRow]
  /\ UNCHANGED <<questions, extensionCount, model,
                 arg, todo, result, pending, lock, env>>

EndCommit(r) ==
  /\ pc[r] = "commit"
  /\ status' = "completed"
  /\ final' = Report(snap[r])
  /\ answeredCount' = Len(snap[r].answers)
  /\ totalQuestions' = Len(snap[r].questions)
  /\ Goto(r, "done") /\ snap' = [snap EXCEPT ![r] = NoRow]
  /\ UNCHANGED <<questions, answers, evals, extensionCount, model,
                 arg, todo, result, pending, lock, env>>

-----------------------------------------------------------------------------
(* refreshOverallFeedback, getAnswerGuidance, extendSession                *)

Admit(r, ok) ==
  /\ pc[r] = "idle"
  /\ IF ok THEN Goto(r, "asking") /\ snap' = [snap EXCEPT ![r] = Row]
           ELSE Goto(r, "refused") /\ UNCHANGED snap
  /\ UNCHANGED <<row, todo, result, pending, lock, env>>

RefreshBegin(r) ==
  /\ Admit(r, status = "completed" /\ ~NothingToDigest(Row))
  /\ UNCHANGED arg

RefreshCommit(r) ==
  /\ pc[r] = "commit"
  /\ final' = Report(snap[r])
  /\ Goto(r, "done") /\ snap' = [snap EXCEPT ![r] = NoRow]
  /\ UNCHANGED <<questions, answers, evals, status, extensionCount,
                 totalQuestions, answeredCount, model,
                 arg, todo, result, pending, lock, env>>

(* Guidance already cached is returned as is.                              *)
GuideBegin(r, q) ==
  /\ arg' = [arg EXCEPT ![r] = q]
  /\ Admit(r, /\ Exists(Row, q) /\ evals[q].status = "failed"
              /\ ~evals[q].guidance)

(* A locked operation that ends the request: a fill or a guidance write.   *)
GuideReturn(r) ==
  /\ Holds(r) /\ pc[r] = "cacheGuidance" /\ lockPc \in {"done", "skip"}
  /\ Goto(r, "done") /\ Release
  /\ snap' = [snap EXCEPT ![r] = NoRow]
  /\ UNCHANGED <<row, arg, todo, result, pending, env>>

LockedRequestThrows(r) ==
  /\ Holds(r) /\ pc[r] \in {"fillGap", "cacheGuidance"} /\ lockPc = "failed"
  /\ Goto(r, "refused") /\ Release
  /\ snap' = [snap EXCEPT ![r] = NoRow]
  /\ UNCHANGED <<row, arg, todo, result, pending, env>>

ExtendBegin(r) ==
  /\ MayBegin(Extend)
  /\ Admit(r, /\ extensionCount < MaxExtensions
              /\ Len(questions) < MaxTotalQuestions)
  /\ UNCHANGED arg

(* Defect: the count asked for is recorded, not the count received.        *)
ExtendCommitAsked(r) ==
  /\ pc[r] = "commit"
  /\ \E k \in 1..AtMost(Asked(snap[r])) :
       /\ Len(snap[r].questions) + k <= MaxQuestionId
       /\ questions' = snap[r].questions \o [i \in 1..k |-> r]
  /\ totalQuestions' = Len(snap[r].questions) + Asked(snap[r])
  /\ extensionCount' = snap[r].extensionCount + 1
  /\ status' = "active"
  /\ UNCHANGED final
  /\ Goto(r, "done") /\ snap' = [snap EXCEPT ![r] = NoRow]
  /\ UNCHANGED <<answers, evals, answeredCount, model,
                 arg, todo, result, pending, lock, env>>

(* Whatever validateQuestions accepted is appended and renumbered.         *)
ExtendCommit(r) ==
  /\ pc[r] = "commit"
  /\ \E k \in 1..AtMost(Asked(snap[r])) :
       /\ Len(snap[r].questions) + k <= MaxQuestionId
       /\ questions' = snap[r].questions \o [i \in 1..k |-> r]
       /\ totalQuestions' = Len(snap[r].questions) + k
  /\ extensionCount' = snap[r].extensionCount + 1
  /\ status' = "active"
  /\ final' = IF snap[r].status = "completed" /\ snap[r].final # NoReport
                THEN [snap[r].final EXCEPT !.feedback = "stale"]
                ELSE final
  /\ Goto(r, "done") /\ snap' = [snap EXCEPT ![r] = NoRow]
  /\ UNCHANGED <<answers, evals, answeredCount, model,
                 arg, todo, result, pending, lock, env>>

-----------------------------------------------------------------------------
(* The process dies and is restarted: only the row survives.               *)
Crash ==
  /\ crashes < MaxCrashes /\ crashes' = crashes + 1
  /\ pc' = [p \in Process |-> IF pc[p] \in Resting THEN pc[p] ELSE "lost"]
  /\ snap' = [r \in Request |-> NoRow]
  /\ todo' = [r \in End |-> {}]
  /\ pending' = {}
  /\ lockQ' = <<>> /\ lockPc' = "read" /\ lockSnap' = NoRow
  /\ UNCHANGED <<row, arg, result, faults>>

AtRest == \A p \in Process : pc[p] \in Resting
Quiet == AtRest /\ UNCHANGED vars

Arrival ==
  \/ \E r \in Submit, q \in Qid : SubmitBegin(r, q)
  \/ \E r \in End : EndBegin(r)
  \/ \E r \in Refresh : RefreshBegin(r)
  \/ \E r \in Guide, q \in Qid : GuideBegin(r, q)
  \/ \E r \in Extend : ExtendBegin(r)

Fault == Crash \/ \E p \in Process : LockFault(p) \/ StorageFault(p)

SubmitStep(r) == SubmitQueue(r) \/ SubmitReturn(r) \/ SubmitRefused(r)
EvaluatorStep(q) ==
  \/ EvaluatorMarked(q) \/ EvaluatorRecorded(q)
  \/ EvaluatorCatches(q) \/ EvaluatorEnds(q)
EndStep(r) ==
  \/ EndCollect(r) \/ EndRefetch(r) \/ EndFindGaps(r) \/ EndGapFilled(r)
  \/ EndReread(r) \/ EndCommit(r)

Work(p) ==
  \/ RunChain(p) \/ PersistProviderSwitch(p) \/ LockRead(p)
  \/ p \in Submit /\ SubmitStep(p)
  \/ p \in Qid /\ EvaluatorStep(p)
  \/ p \in End /\ EndStep(p)
  \/ p \in Refresh /\ RefreshCommit(p)
  \/ p \in Guide /\ GuideReturn(p)
  \/ p \in End \cup Guide /\ LockedRequestThrows(p)
  \/ p \in Extend /\ ExtendCommit(p)

Next == Arrival \/ LockedCommit \/ (\E p \in Process : Work(p)) \/ Fault \/ Quiet

Spec == Init /\ [][Next]_vars

(* Every await of the server ends: provider calls time out and the chain   *)
(* is finite, database calls return.  Requests need not arrive, and        *)
(* nothing is assumed of crashes and faults.                               *)
Fairness == WF_vars(LockedCommit) /\ \A p \in Process : WF_vars(Work(p))

FairSpec == Spec /\ Fairness

-----------------------------------------------------------------------------
(* Properties of every session, whatever overlaps, crashes or fails.       *)

(* A reply to answer:final is a promise: the answer stays on the row.      *)
Recorded(r) ==
  \E i \in DOMAIN answers : answers[i] = [question |-> arg[r], by |-> r]
AckedAnswerKept == \A r \in Submit : pc[r] = "acked" => Recorded(r)

(* Two submissions for one question cannot both be recorded, although both *)
(* passed the check made before the lock.                                  *)
AnsweredOnce ==
  \A i, j \in DOMAIN answers : answers[i].question = answers[j].question => i = j

(* Only the operation under the lock changes answers and evaluations, so   *)
(* what it read is still the row when it writes.                           *)
HolderUpToDate ==
  lockPc = "write" => lockSnap.answers = answers /\ lockSnap.evals = evals

(* No question is evaluated that was not answered: neither an evaluator    *)
(* nor a placeholder of endSession leaves an entry for one.                *)
OnlyAnsweredEvaluated ==
  \A q \in Qid : evals[q].status # "none" => q \in Answered(Row)

(* Why these hold, as one inductive invariant.  A submission is queued     *)
(* once; the duplicate check made under the lock is still true when it     *)
(* writes, and its entry is there when it returns.  Whoever is about to    *)
(* write an evaluation knows that its question was answered.               *)
QueueInv ==
  /\ lockPc # "read" => lockQ # <<>>
  /\ \A i \in DOMAIN lockQ : lockQ[i] \in Submit =>
       /\ pc[lockQ[i]] = "recordAnswer"
       /\ \A j \in DOMAIN lockQ : lockQ[j] = lockQ[i] => i = j

SubmitInv ==
  \A r \in Submit : Holds(r) =>
    /\ lockPc = "write" => arg[r] \notin Answered(Row)
    /\ lockPc = "done" => Recorded(r)

EvaluatorsKnow == \A q \in Qid : pc[q] \notin Resting => q \in Answered(Row)

EndsKnow ==
  \A r \in End :
    /\ pc[r] = "refetched" => Answered(snap[r]) \subseteq Answered(Row)
    /\ pc[r] = "fillGap" =>
         arg[r] \in Answered(Row) /\ todo[r] \subseteq Answered(Row)

AnswerInv ==
  /\ QueueInv /\ HolderUpToDate /\ SubmitInv /\ EvaluatorsKnow /\ EndsKnow
  /\ AckedAnswerKept /\ AnsweredOnce /\ OnlyAnsweredEvaluated

(* Guidance is merged into the entry: it never undoes or alters an         *)
(* evaluation that landed while the AI wrote it.                           *)
GuidanceKeepsEntry ==
  [][\A q \in Qid : ~evals[q].guidance /\ evals'[q].guidance =>
       evals'[q] = [evals[q] EXCEPT !.guidance = TRUE]]_vars

(* A straggler is folded in: once nothing is being evaluated, a completed  *)
(* session whose report is marked stale shows the current score.           *)
Evaluating(q) == pc[q] \notin Resting
StaleReportCurrent ==
  (/\ status = "completed" /\ final.feedback = "stale"
   /\ \A q \in Qid : ~Evaluating(q) /\ pc[q] # "lost")
  => /\ final.score = OverallScore(evals)
     /\ final.evaluationsCompleted = Cardinality(Completed(evals))

(* The session keeps the log of answers AnswerLog promises.                *)
Log == INSTANCE AnswerLog
         WITH log <- answers, acked <- {r \in Submit : pc[r] = "acked"}
LogSpec == Log!Spec

-----------------------------------------------------------------------------
(* What holds when clients await the reply before they end the interview,  *)
(* and what overlapping requests break.                                    *)

(* "overallScore is always kept current": with nothing in progress, the    *)
(* report of a completed session has the score of its evaluations.         *)
ScoreKeptCurrent ==
  status = "completed" /\ AtRest => final.score = OverallScore(evals)

(* A score that was obtained is never replaced by a placeholder.           *)
ScoredStaysScored ==
  [][\A q \in Qid :
       evals[q].status = "completed" => evals'[q].status = "completed"]_vars

(* endSession gives a placeholder only to a question nobody is evaluating  *)
(* any more, e.g. after a restart.                                         *)
PlaceholderOnlyForOrphans ==
  [][\A q \in Qid :
       evals'[q].status = "failed" /\ evals[q].status # "failed"
         => pc[q] = "markFailed" \/ ~Evaluating(q)]_vars

(* A completed session shows an outcome for every answered question.       *)
NoGapInReport ==
  status = "completed" => \A q \in Answered(Row) : ~InFlight(Row, q)

(* The counts on a completed row, which the history lists, are the row's.  *)
CountsMatch ==
  /\ totalQuestions = Len(questions)
  /\ status = "completed" => answeredCount = Len(answers)

(* evaluationsTotal counts the answered questions, also on a report that a *)
(* straggler has updated.                                                  *)
EvaluationsTotalIsAnswered ==
  status = "completed" /\ final.feedback = "stale" /\ AtRest
    => final.evaluationsTotal = Len(answers)

(* At most one read-modify-write is in flight, so an extension does not    *)
(* undo another: a question once in the interview stays there.             *)
QuestionsStay ==
  [][\A i \in DOMAIN questions :
       i \in DOMAIN questions' /\ questions'[i] = questions[i]]_vars

(* Guidance is the affordance of a failed evaluation: it is never present  *)
(* beside a real score.                                                    *)
GuidanceOnlyOnFailed ==
  \A q \in Qid : evals[q].guidance => evals[q].status # "completed"

-----------------------------------------------------------------------------
(* Liveness                                                                *)

(* Scoring is fire-and-forget, yet every recorded answer gets an outcome.  *)
AckedAnswerGetsOutcome ==
  \A r \in Submit :
    pc[r] = "acked" ~> evals[arg[r]].status \in {"completed", "failed"}

(* Always resolves: no evaluation is left in processing for good.          *)
EvaluationAlwaysSettles ==
  \A q \in Qid :
    evals[q].status = "processing" ~> evals[q].status \in {"completed", "failed"}

(* endSession waits on evaluations without a timer and still returns.      *)
EndReturns == \A r \in End : pc[r] = "collect" ~> pc[r] \in Resting

=============================================================================
