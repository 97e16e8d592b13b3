# Neuro-Stack-Voice: a TLA+ model and its proofs

The repository is a voice interview trainer: a browser client, a Node/Express +
Socket.IO server, a PostgreSQL database behind Prisma, and three AI providers
(Google, Groq, NVIDIA) that write questions, score answers and write reports.
This directory models the parts where things can go wrong without anybody
noticing: an interview session on which HTTP requests, socket messages and
background evaluations work at the same time; the two stores behind it when the
database comes and goes; the chain of providers; the browser page between a
socket that drops, replies that come late and a user who goes on; and the
recognition and recording of an answer.

Paths below are those of the repository; line numbers refer to this commit.

## 1. Inventory

### Components, their state and their operations

| Component | State it keeps | Operations | What makes it correct |
|---|---|---|---|
| `InterviewService` (`src/services/interview.service.ts`) | `pendingEvaluations`: one promise per answer being scored; the session row through the repository | `startSession`, `submitAnswer`, `_evaluateAndPersist`, `_maybeRefreshAggregateScore`, `endSession`, `refreshOverallFeedback`, `getAnswerGuidance`, `extendSession`, reads | An acknowledged answer is never lost or doubled; every answer gets an outcome; the report agrees with the evaluations; nothing overwrites a newer result |
| `InterviewRepository`: session lock | `sessionLocks`: session id -> last promise | `withSessionLock` | One operation of a session at a time, in call order; a rejection wedges nobody; the map does not grow |
| `InterviewRepository`: storage | the table `Session`, `memoryStore` (500 entries), `dbUnavailableUntil` | create, get, update, list, claim | During an outage nothing is reported saved that is not; after it nothing is split between the two stores |
| AI providers (`services/ai/*`) | none between calls | provider chain, retry with backoff, three HTTP clients, validators | Every configured provider is tried before giving up; the wait is bounded; only well-formed results get through |
| Socket layer (`sockets/*`, `server.ts`, `interviewEvents.ts`) | rooms; two token buckets per connection | `interview:join`, `answer:final`, `interview:end`; forwarding of `answer:evaluated` and `provider:switch` | A reply for each message; rate limits that neither leak nor starve |
| HTTP layer (`http/*`, `app.ts`) | none (rate-limit counters of a library) | start, analyse, extend, refresh, guidance, transcribe, history, claim, accounts, keys | Validation before work; ownership checks |
| Accounts and keys (`auth.service.ts`, `apiKey.service.ts`, `utils/jwt.ts`, `utils/encryption.ts`) | `User`, `UserApiKey` rows | register, login, save/delete key | One account per address |
| Client application (`public/js/app.js`, `socketManager.js`) | a state (`setup`, `asking`, `listening`, `evaluating`, ...), the answers given | submit, next question, end, extend, history | The screen never waits for a reply that cannot come; a late reply does not move the wrong screen |
| Client capture (`recognitionEngine.js`, `audioRecorder.js`, `speechEngine.js`) | recogniser/recorder state, timers | start, stop, discard, silence detection | No capture outlives its question |
| Transcription (`transcription.service.ts`) | none | `transcribeAnswer` over its own chain | An empty transcript is taken only from a provider that means it |
| Client views, prompts, configuration, stubs, migrations, scripts | - | - | text and layout |

### How they interact

* A client sends `answer:final`; `submitAnswer` records the answer under the
  session lock, replies, and starts `_evaluateAndPersist` without awaiting it.
  The evaluator writes `processing`, calls the provider chain, writes
  `completed` or `failed`, and, if the interview is over by then, refreshes the
  score of the report. Each write is a separate operation under the lock.
* `interview:end` runs `endSession`: it waits for the promises of the answers
  without a result, reads the session again, writes `failed` placeholders for
  what is still missing, asks the AI for a report, and writes it with
  `updateSession`, outside the lock.
* `extendSession`, `refreshOverallFeedback` and `persistProviderSwitch` also
  write outside the lock, from a session object read before an AI call.
* A restart of the process loses `pendingEvaluations`, the lock and the rows
  that are in memory only; the rows of the database stay.
* The page starts and extends an interview over HTTP, with the cookie of the
  moment, and answers it over a socket, with the cookie of the handshake. It
  speaks a question, listens, lets the candidate edit, and sends the recorded
  audio for a better transcript, which replaces the text if nobody touched it.

### What is hard here

Read-modify-writes that straddle an `await`; evaluations that finish in any
order, after the interview ended, or never; an end, an extension or a second
tab overlapping anything else; a restart between two writes of one operation; a
storage call that throws between two writes; a database that is unreachable at
one query of a call and there at the next; engines of the browser that start,
end and ask for permission when they like. `PROJECT.json` lists each hazard
at its line, with the properties that cover it, or a note where the plan covers
it.

## 2. Modules

| Module | Models |
|---|---|
| `SerialExecutor` | What `withSessionLock` promises: operations of a session run one at a time in call order, whatever their outcome (abstract) |
| `SessionLock` | The promise chain itself: the map, tails, settlement, `cleanup` |
| `AnswerLog` | What a session promises about answers: an append-only log, one entry per question, acknowledged only when logged (abstract) |
| `InterviewSession` | One session: its row, the requests, evaluators, the lock as a FIFO, crashes and storage faults |
| `ProviderChain` | AI calls of one session over the chain of providers: attempts, waits, timeouts, the persisted switch, elapsed time |
| `SessionRows` | What `InterviewRepository` promises its callers, whichever store answers: one store of rows, in which a call takes effect once or not at all, a row in the database stays and one in memory is lost only whole (abstract) |
| `SessionStore` | `InterviewRepository`: the table, the memory copy that stands in for it, the cooldown, and calls whose queries are answered, refused, or cut off after or before they were applied |
| `InterviewClient` | One page: panels and states, HTTP calls and replies, the socket with its buffer and its losses, login and logout, remembered sessions, and the server as far as a reply depends on it |
| `AnswerCapture` | From speech to an answer: utterance, recogniser, recorder, edit box, transcription |
| `MCSessionLock`, `MCInterviewSession`, `MCProviderChain`, `MCSessionStore`, `MCInterviewClient`, `MCAnswerCapture` | Instances for TLC |
| `SessionLock_proofs` | Mutual exclusion, order, bounded map, refinement of `SerialExecutor` |
| `InterviewSession_proofs` | Type correctness of `InterviewSession` |
| `InterviewAnswers_proofs` | The promises about answers, and the refinement of `AnswerLog` |
| `InterviewReports_proofs` | What the report of a session shows: outcomes, counts, scores, stragglers |
| `ProviderChain_proofs` | Who is asked before a call gives up, what a persisted switch spares, how long a call takes |
| `SessionStore_proofs` | What the repository keeps through outages, what its lists show, and the refinement of `SessionRows` |
| `InterviewClient_proofs` | An answer goes to the session of its question, the room is joined again, a question is left only when answered, no session is remembered twice; what a history view drops, when nothing is heard, whom the socket names; types |
| `AnswerCapture_proofs` | Words, audio and continued text belong to the question; the microphone is released |

`InterviewSession` does not repeat the promise chain: it uses a queue (`lockQ`,
head running). That step is what `SessionLock` is for: `SessionLock_proofs`
proves that the chain is a serial executor, which is what the queue is. In the
same way `SessionStore` has the lock as its holder. The five larger modules are
views of one system that share names, not one composition: `InterviewSession`
has a database that is reachable, `SessionStore` has what happens when it is
not; `InterviewClient` keeps of a session who owns it, its length, what was
answered and whether it ended; `AnswerCapture` refines what `InterviewClient`
has as `VoiceEnds` and `MicEnds`.

### Correspondence of `InterviewSession` with the code

The row's columns are variables: `questions`, `answers`, `evals`
(`evaluations`), `status`, `final` (`finalEvaluation`), `extensionCount`,
`totalQuestions`, `answeredCount`, `model`. A question is its position plus who
wrote it; an evaluation is its status, score and whether guidance is attached;
a report is its score, whether its text is `generated` or `stale`, and its two
counts.

The server process is `pc` (where each request and evaluator is), `snap` (the
session object a request read and still holds), `arg` (its question), `todo`
(what an end waits for or still has to fill in), `result`, `pending`
(`pendingEvaluations`) and the lock. The evaluator of question `q` is the
process `q`: `AnsweredOnce` is why one name per question is enough.

**One step is the code between two awaits.** A database read or write takes
effect at one point, and what follows its completion is a later step. So
`SubmitBegin` (validate on the row read by `getOwnedSession`), `SubmitQueue`
(enter the lock), `LockRead`, `RecordAnswer` (the write), `SubmitReturn` (reply,
start the evaluator) are five steps, and anything may happen between them.
`endSession` is `EndBegin`, `EndCollect`, `EndRefetch`, `EndFindGaps`, one
locked `fillGap` per missing answer with `EndGapFilled`, `EndReread`,
`RunChain`, `PersistProviderSwitch`, `EndCommit`. `RunChain` is
`runWithProviderChain` as far as a session can tell: the first provider
answers, a later one does (and the switch is persisted), or none does.

Failures: `Crash` keeps the row and loses everything else; requests and
evaluators in progress are `lost`, as are their clients' replies. `LockFault`
and `StorageFault` are storage calls that throw.

Modelled as constants: `MAX_EXTENSIONS`, `MAX_TOTAL_QUESTIONS`, the multiplier
and floor of `validateQuestions`, the count a client asks an extension for.
`ClientWaits` is what the browser client does: it awaits the reply before it
sends another kind of request. It is FALSE for an early end
(`endInterviewEarly` can be clicked while an answer is being submitted), for a
second tab, and for any other client.

### Correspondence of `ProviderChain` with the code

A call of `runWithProviderChain` walks through the candidates of
`getProviderChain`: `pos` is its place, `tries` and `error` the requests made to
each provider and how the last one failed. `Fail` is one pass through the
`catch` of `withRetry` and, when that rethrows, through the `catch` of
`runWithProviderChain` (`MoveOn`); `Wait` is the delay before a retry. What can
go wrong with a request is `Trouble`; `Thrown` is the error the provider's
client makes of it, where Gemini's words its refusals itself (`Gemini`), and
`Kind` what `isRetryableError` makes of that: our own abort, a retryable
failure, a rate limit with `Retry-After`, anything else. `Begin` reads the session's model,
`PersistProviderSwitch` writes it, and may throw; in between other calls may
have written it. `up` and `down` fix the behaviour of providers for the one
property about a steady outage. `switched` and `settled` are history.
`InterviewSession` keeps of all this the three outcomes of `RunChain`.

Calls that carry a user's key (`startSession`, `analyzeResume`) come before the
session; those of a started session pass none, so they agree on which providers
are configured, and a session may name one that is not.

### Correspondence of `SessionStore` with the code

`db` is the table; `mem` and `order` are `memoryStore`, a JavaScript map, which
keeps insertion order for `enforceBound`; `open` says whether
`dbUnavailableUntil` lies ahead (the time itself is left out: `CooledDown` may
come at any moment). Every method of the repository has one shape,
`if (isDbLikelyDown) memory; else try database catch memory`, and is modelled by
that shape: `Ask` is the look at the cooldown, `Answered`, `Refused` and
`Unreachable` are the three ways the query ends, `FromMemory` is the fallback.
`Unreachable` may have applied the write, since a timeout or a closed connection
(`P1008`, `P1017`) says nothing about it. `recordAnswer` makes two queries
under the lock and looks at the cooldown before each.

A list is the set of sessions on it: nothing here depends on their order on the
page. A row keeps its owner, its answers and its status: what a claim, a recorded
answer and an end change. `recordEvaluation` and `updateSessionWith` have the
shape of `recordAnswer` without its check, and are not repeated. `split`,
`gone`, `recorded`, `claimed` and `reply` are history.

Two exceptions in the properties are the code's: a creation that was applied and
reported unreachable leaves a row in both stores (`split`), and a session in
memory is lost with the process or evicted (`gone`). The service calls on a
session only once its creation was called (`born`); which sessions carry the
history email is a constant.

`SessionRows` has neither table, memory, cooldown nor queries: the row of a session,
whether it is durable, what was forgotten, and what was told to callers. `SessionStore`
maps to it by `RowOf` (the row in the table, else in memory) and `Durable`; a `split`
session has no abstract row, and is promised only that nothing else changes when a
call is about it. Each step of the repository is one abstract step: the one that
reads or writes the store is the call, taking the lock and looking at the cooldown
are stutters or `Quiet`. What the promise leaves open is what the code leaves open: an
update reported `not_found` may have been applied; while memory answers, a durable row
is not found and a list shows memory's rows only; a claim may take rows of the
database without being told of them.

### Correspondence of `InterviewClient` with the code

`app` holds the fields of `App` that decide anything: state, shown panel,
session, the session its questions came from (`source`: history), index, total,
whether Start is enabled, whether the edit box is shown. An HTTP call is a
member of `calls` with the account its cookie named; its reply is an action of
its own at any later moment: `Started`, `Extended`, `Refreshed`, `DetailShown`,
`HistoryLoaded`, `LoggedIn`, `LoggedOut`, `Failed`. A message is buffered while
the socket is down (Socket.IO's send buffer), then sent, then handled (`done`),
then delivered; handlers run concurrently, so in any order. `Dropped` loses
replies and messages; of the messages sent, at most one was still handled, which
is an abstraction: any number may be, but the page sends at most one answer or
end at a time. `Expired` is the `connect_error` after a restart of the server,
`Connected` the handshake, the buffer and the room joined again.

The handler of `interview:join` reads the session first; any error of that read
ends in `JOIN_FAILED`, without the room (`JoinFails`). The page only shows the
error (`app.js:598`) and does not ask again until the next connection. The
history variable `refused` has the sessions of which a join failed on this
connection; nothing else depends on it.

`MAX_REMEMBERED_SESSIONS` is `MaxKept`; the remembered ids are filtered (`Among`)
without changing their order. A history view without an account, or whose list of
the account failed, asks for each of them and drops those not `Found`
(`HistoryLoaded`, `HistoryFails`); reading the ids and pruning them is one step. A new session's `Count` is one the bound
`MaxQuestions` admits.

`User` says when the user acts: with `Hasty` FALSE, not while a reply is
awaited. `EndEarly` ignores its confirmation dialog, which is the browser's.
The account, the sessions and the replies of the server follow the controllers
and `getOwnedSession` (`Accessible`): a session nobody owns is open to all.

### Correspondence of `AnswerCapture` with the code

`rec` is `RecognitionEngine` (`isActive`, `shouldRestart`, `resume`, the pending
restart, `previousText`, the transcript) and the browser's recogniser, which is
off, on or ending; `au` is `AudioRecorder` (`mediaRecorder`, `stream`,
`chunks`), `media` the recorder of each take, `live` the open microphone
streams, `opening` the pending `getUserMedia` and `waits` the calls that await a
flush. The asynchronous methods of the recorder are cut at their awaits:
`Begin` is what runs at once, `Resume` what runs after the flush, `Opened` what
runs after the permission. `page` is the part of `App` that listening, editing
and the transcript touch, with `_enhanceToken`. A word is the take it was heard
in and how it got there; a transcript is one word per take of its audio.

`Read` (the question has been read aloud) waits for the recogniser to have ended
and the recorders to have flushed: both take well under the seconds a question
takes. `SlowPrompt` FALSE says that `getUserMedia` answers before the next
click; it does once the permission is granted. `transcribeAnswer` is `Transcript`.
The recogniser, `MediaRecorder` and `getUserMedia` are external, modelled from
the handlers the page gives them.

Definitions marked as defects (`WritesUnchecked`, `EndRefetchAtOnce`, ...) are
plausible bugs of the definition after them. They are used by nothing: each
property was seen to fail when its definition is replaced by one of them.

## 3. Runs

All runs are in `PROJECT.json`. Bounds are the constants of the `.cfg` files.

| Run | Instance | Checks |
|---|---|---|
| `SessionLock` | 3 calls on one session, 1 on another, no symmetry, fair | `TypeOK`, `OneInFlight`, `InCallOrder`, `EntryDropped`, and that the chain implements `SerialExecutor` with its fairness (`ExecutorFairSpec`), so that every call settles |
| `SessionAnswers` | 2 submissions on 2 questions, 1 end at any time, 1 crash, 1 storage fault | `TypeOK`, `AckedAnswerKept`, `AnsweredOnce`, `HolderUpToDate`, `OnlyAnsweredEvaluated`, `LogSpec` |
| `SessionOrdered` | clients that await replies: 2 submissions, 2 ends, 1 extension, 1 crash, 1 storage fault | `ScoreKeptCurrent`, `NoGapInReport`, `CountsMatch`, `ScoredStaysScored`, `PlaceholderOnlyForOrphans` |
| `SessionStraggler` | early end, refresh, guidance, 2 submissions | `StaleReportCurrent`, `GuidanceKeepsEntry` |
| `SessionLive` | early end, 2 submissions, no crash or fault, fair | `AckedAnswerGetsOutcome`, `EndReturns` |
| `ProviderChain` | 3 providers, any of them configured, 2 retries each; 1 call with any errors, 2 overlapping calls while providers are steadily up or down | `TypeOK`, `FailsOnlyWhenExhausted`, `SwitchSticks`, `WaitBounded` |
| `SessionStore` | 2 callers, 2 sessions, memory of 1, 2 questions, 2 users; any number of outages and restarts | `TypeOK`, `OneStore`, `AnsweredOnceInStore`, `EmailHidesClaimed`, and that the two stores implement `SessionRows` (`KeepsRows`) |
| `InterviewClient` | 1 page, 2 sessions of 1 question extended to 2, 1 fault, 1 login or logout, fair | `TypeOK`, `AnswersMatchQuestions`, `AdvanceOnlyRecorded`, `RoomRejoined`, `WaitEnds` |
| `AnswerCapture` | 2 questions, 3 takes, 1 result a take, 2 transcription providers, fair | `TypeOK`, `WordsOfThisQuestion`, `AudioOfThisQuestion`, `MicReleased`, `ContinueKeepsText`, `TakeHeard` |
| `ScoreRace`, `LoginSocket`, `ContinueAudio` | violations, below | one each |

Two questions and two submissions are the least with which two evaluators can
race, one can finish before and the other after an end, and two submissions can
race for one question. Two ends give the double click and the retry. The third
question of `SessionOrdered` is the one an extension adds. One crash or fault
reaches every point of an operation, since it may come at any of them. Two scores suffice to tell a current
average from an old one. `MaxQuestionId`, `MaxCrashes` and `MaxFaults` are
bounds of the exploration; the proofs hold for all their values.

`ProviderChain` has the code's three providers and two retries; only time is
scaled (timeout 4, error 3, backoffs 1 and 2, `Retry-After` 2). Calls meet in the
session's provider only, which each reads once, and `Init` puts every provider
there: so one call alone sees every error in every order, and two calls overlap
(the constraint `Explored`) only for the property that is about several,
`SwitchSticks`. `WaitBounded` is the bound that holds; `endSession`'s comment
(`interview.service.ts:770`, "however many providers are configured × ~120s")
leaves out the retries and their waits. A persisted switch that throws makes the
call throw although it has its answer (`unsaved`); the evaluator then records a
failure.

`SessionStore` needs a second session only to evict the first, so in the run
that one is answered, completed and claimed and the other is created beside it;
calls that only read are made alone, except the list by email, which may meet a
claim; once the session is in both stores, one call runs at a time (the
constraint `Explored` of `MCSessionStore`). Outages and restarts are unbounded.

`InterviewClient` has the two sessions with which a reply can belong to another
session than the one shown, and the one extension with which a session has a
second question. One fault may be a lost connection, an expired one, a failed
call, a refused message or a failed join, at any moment; that the next connection
makes up for a failed join takes two, and is the theorem's (`RoomIsRejoined`). In `AnswerCapture` the third take is
the one that continues a take, or follows it on the next question, while the
first is still flushing.

CHECK_DEADLOCK is on for the session, the lock, the chain and the store, where
`Quiet`, if anything, is the only way to stand still. It is off for
`InterviewClient` and `AnswerCapture` (and the two violations of theirs): a page
whose user does nothing, or has used up the bounds on takes or questions,
really stops.

### Where the code and its comments disagree

Each of these is a run that TLC refutes with a shortest counterexample, and a
finding in `PROJECT.json` that quotes the line.

| Run | Property | Behaviour |
|---|---|---|
| `ScoreRace` | `ScoreKeptCurrent` | An end overlaps a submission; the report's score is computed before the straggler lands, the straggler sees an active session and does not refresh, the report is written last |
| `LoginSocket` | `OwnAnswersAllowed` | A guest logs in; `connect()` does nothing on the open socket, which stays anonymous; the interview started next belongs to the account and its messages are refused |
| `ContinueAudio` | `ContinuedAudioWhole` | Every end of a take calls `stop()`, which hands out the chunks; a continued take's audio is its last segment, and its transcript replaces the whole text |

`SessionOrdered` is the other side of the first: with clients that await replies
the property holds. The other side of the second is a theorem: as long as nobody
logs in or out, `OwnAnswersAllowed` holds whatever else happens
(`SocketNamesTheAccount`).

More of the same kind, stated in the modules; no run is kept for them, and each
was seen to be violated by TLC when checked under the constants named:

* `ScoredStaysScored` without `ClientWaits`: the answer arrives while the end
  waits for others; its score lands between the end's read and its placeholder.
* `EvaluationsTotalIsAnswered`: a straggler after an early end writes the number
  of questions into `evaluationsTotal`.
* `GuidanceOnlyOnFailed` without `ClientWaits`: guidance asked for a placeholder
  is merged after the straggler has scored the answer.
* `QuestionsStay` with two extensions: the later write drops the questions of the
  earlier.
* `EvaluationAlwaysSettles` with two storage faults: the write of a score and
  then the write of the failure both throw.
* `RecoveredSessionWritable` (`SessionStore`): a session created in memory during
  an outage can be read after it, from memory, but not written: the update goes
  to the database and throws `P2025`.
* `RoomRejoined` (`InterviewClient`) without its exception for a failed join: one
  join that fails leaves an open connection outside the room of its interview,
  where `answer:evaluated` and `provider:switch` do not reach it.
* `DropsOnlyDead` (`InterviewClient`): a request of a history view that fails for
  any reason drops the session from the remembered ones (`app.js:1399`). Failed
  requests are what it takes: without them, and with a user who waits, it is a
  theorem (`HistoryDropsOnlyDead`).
* `EndedIsNotHeard` (`InterviewClient`) with `Hasty`: a reply to an end shows the
  result while recognition, restarted meanwhile, listens on (`app.js:1305`). Of a
  user who waits it is a theorem (`ResultIsNotHeard`).
* `MicReleased` (`AnswerCapture`) with `SlowPrompt`: a stop or an end before the
  permission is given finds no recorder, and the microphone opens afterwards
  (`audioRecorder.js:176`).

### Fairness

`SessionLock`: reactions of settled promises run, and an operation that was
started ends. `InterviewSession`: every await of the server ends (`WF` of the
work of each process and of the writes under the lock), because provider calls
carry a 120 s abort signal (`baseService.ts:33`) and are retried at most twice
per provider over a finite chain, and database calls return or throw. Nothing is
assumed of arrivals, crashes or faults. Weak fairness is enough: a step that is
enabled stays enabled until its process takes it.

`InterviewClient`: the page boots, the socket gets connected or is reopened, a
message in hand is handled and delivered, and a call gets a reply or fails
(`WF` of each); the user, the callbacks of speech and the faults are free.
`Served` is one condition for all messages: there are finitely many of them, so
each has its turn. `WaitEnds` excuses every fault (a lost connection, a refused
message, a failed call or join) and a socket of another account: from some of them
the page has no way on. What is left is that a page which waits has a connection
to wait on, and that whatever was buffered is sent, handled and answered.
`AnswerCapture`: a recogniser told to stop ends, and a timeout of zero fires.

## 4. Proofs

`tlapm` proves, for every value of the constants:

* **The lock** (`SessionLock_proofs`), from `SessionOfAssumption` and
  `NoOpAssumption`. `ChainInv` is the inductive invariant: the map entry is the
  last call not yet cleaned up; a call's tail is its immediate predecessor; when
  there is no entry, all have settled. It is needed because `OneInFlight` says
  nothing about queued calls or about a `cleanup` that comes late. Then
  `MutualExclusion`, `CallOrder`, `MapBounded` follow, and `Refinement` maps
  every step to one of `SerialExecutor` or a stutter.
* **Types** (`InterviewSession_proofs`), from `KindsAssumption` and
  `BoundsAssumption`. `TypeOK` is strengthened by which process may be at which
  label and by what a request in progress holds. Scores in reports are left
  untyped: they are sums over sets, whose values the provers do not compute.
* **Answers** (`InterviewAnswers_proofs`). `AnswerInv` adds to the promises what
  makes them inductive: a submission is in the queue at most once; what the
  head of the queue read is still the row when it writes (`HolderUpToDate`: no
  lost update); what it checked is still true; whoever is about to write an
  evaluation knows that its question was answered. From it:
  `AcknowledgedAnswersStay`, `OneAnswerPerQuestion`, `NoLostUpdateUnderLock`,
  `EvaluationsAreOfAnswers`, the refinement `SessionKeepsLog`, and
  `GuidanceMerged`, an action property.

`ChainInv` and `AnswerInv`, the inductive invariants, are theorems themselves
(`ChainInvariant`, `AnswerInvariant`); the runs spend their properties on what
follows from them.

* **Reports** (`InterviewReports_proofs`), in two parts.
  With `ClientWaits`, `ReportInv` adds to `TypeInv` and `AnswerInv`: requests of
  different kinds do not overlap (`OneKind`); the entry of a question is open
  exactly until its evaluator has written (`EntryOfEvaluator`) and the evaluator
  can be looked up in `pending` until then (`Tracked`); an end that has come so
  far knows which entries are still open (`EndKnows`); a completed session has a
  report, no open entry and no submission in progress (`CompletedInv`). From it:
  `EveryAnswerHasOutcome`, `CountsAreTheRows`, `ScoresAreNotLost` and
  `PlaceholdersAreForOrphans`, the last two action properties. `ScoreIsCurrent`
  adds that the score in the report is that of the row in *every* state, and that
  a refresh still knows the scores of the row. It needs `Extend = {}` or
  `Refresh = {}`: an extension during a refresh reopens the session, and the
  refresh then writes the report of the session it read, completed.
  Without `ClientWaits`, `StragglersAreFoldedIn`: a stale report is current once
  every straggler is done. It needs that no storage call throws (`MaxFaults = 0`;
  an evaluator whose refresh throws leaves the report behind) and one end at most
  (a second one may put a placeholder over a score the report shows).
  The value of a score is the mean over a set, which the provers do not compute;
  that the *same* scores give the same mean is all these proofs need.
* **The provider chain** (`ProviderChain_proofs`), for any chain, any number of
  retries and of calls. `ChainInv` says what is known of each candidate: those
  before the current one were given up (a final error, or the retries used up),
  those after it were not asked; hence `NoProviderIsSkipped`. `ChainTypes` has
  `TypeOK`. `SteadyInv`: what a switch wrote to the session works, so a call that
  read it stays with its first candidate; hence `SwitchesAreKept`. `TimeInv`
  bounds the elapsed time by the candidates given up plus the attempts at the
  current one; hence `CallsEndInTime`, for a finite `RetryAfter`, since without a
  longest wait there is no bound (a timer holds at most 2^31 - 1 ms).
* **The two stores** (`SessionStore_proofs`), from `StoreAssumption`, for any number
  of callers, sessions, memory entries, outages and restarts. `StoreInv` adds what
  makes the promises inductive: who holds a session's lock (`LockInv`); a session
  that is not created, or is being created, is in no store (`BirthInv`); what a
  `recordAnswer` about to write has read does not hold its question
  (`FreshInv`) and is still what the session holds, in the store where it is
  (`CurrentInv`). `QueryStep` says once what a query may do to the stores and to
  its call; `Ask`, `Answered`, `Refused` and `Unreachable` are shown to be such
  steps. From it: `StoresDoNotPart`, `OneAnswerInEachStore`,
  `RecordedAnswersStay`. `ListInv`, on top of it: a session whose claim was
  reported has an owner in each store and is not being created, and a call knows
  only claims that were reported. It rests on `OneStore`: a claim that memory
  answered cannot have missed a row in the table. From it `ClaimedIsNotListed`,
  and `StoreTypes` (`TypeOK`). `StoreKeepsRows` is the refinement of `SessionRows`,
  step by step. It needs `StoreInv` (what a `recordAnswer` has read is what the
  session holds, `OneStore`) and `RowsInv`: what memory forgot is nowhere, and
  neither it nor a session with two rows is being created. Each way a query ends
  is mapped to its abstract call by a lemma of its own; the hardest are a creation,
  which may evict others and tear its session in one step, and a claim that the
  table took before it was cut off and memory answered.
* **The page** (`InterviewClient_proofs`), for any number of sessions, questions,
  faults and logins. `ClientInv`: a panel with a question has its session and its
  questions from one reply, whatever else the page turned to meanwhile, and
  every message, buffered, sent or handled, is matched. A reply that sets the
  session alone (`Refreshed`) shows another panel; that is why
  `AnswersMatchQuestions` by itself is not inductive. From it
  `AnswersGoToTheirSession`, also for a user who waits for no reply (`Hasty`, which
  the run excludes). `RoomInv`: the session whose room is wanted exists, and an
  open connection that may enter is in the room, has a join under way, or had one
  that failed on this very connection (`refused`, empty again with the next one);
  hence `RoomIsRejoined`, for a hasty user too. With `Hasty = FALSE`, `WaitInv` (one call
  or message under way) and `AdvanceInv` (all questions before the one shown are
  answered, the answer under way is to the one shown, and a yes to it was recorded
  first) give `LeavesOnlyRecorded`. With `Hasty = TRUE` TLC refutes it: the reply
  to an answer of one interview comes when the page shows a second one, started
  meanwhile, and is counted there. `KeptOK` (`RemembersNoneTwice`, for a hasty user
  too) rests on `AmongIs`: filtering keeps the order, so that nothing comes twice.
  `ClientTypes` (`TypeOK`, with `Hasty = FALSE`) adds `FormInv` (what is shown, the
  connection: without one no room is joined and every message waits) and
  `LimitInv` (no session is longer than `MaxQuestions`, answers are to its
  questions, and an extension under way still fits). That the index of the page
  stays within its session is not inductive by itself: it follows from `AdvanceInv`,
  since every question passed is an answered one. A hasty user can have two
  extensions under way, or a reply counted in the wrong interview, and pass both
  bounds.
  Three theorems give the conditions under which promises hold that TLC refutes
  without them. `HistoryDropsOnlyDead` (a user who waits, no failed requests) rests
  on `HistoryInv`: what is remembered exists, and a call carries the cookie of now,
  so that what its reply does not resolve is not the account's. `ResultIsNotHeard`
  (a user who waits) rests on `HushInv`: while a reply is awaited that may show the
  result, recognition is off and no utterance will start it. `SocketNamesTheAccount`
  (no login or logout; the user hasty or not, any faults) rests on `RealInv`, the
  page asks for sessions that exist, and `NamesInv`, an open connection names the
  account.
* **Capture** (`AnswerCapture_proofs`), for any number of questions, takes and words.
  `CaptureInv`: each take has one recorder, calls wait only for recorders that
  flush, a call that waits or asks for permission is of a take without a recorder,
  recognition is on only with its engine, and a continued text is in the box and
  known to recognition. It holds however slow the permission is, and gives
  `CaptureTypes` and `ContinuedTextStays`. With `SlowPrompt = FALSE`, `QuestionInv`
  says which question each take, chunk, request and word belongs to, and that the
  one open stream is the recorder's; it gives `WordsAreOfTheQuestion`,
  `AudioIsOfTheQuestion` and `MicrophoneIsReleased`. With `SlowPrompt = TRUE` TLC
  refutes all three: a take may be opened behind the page (see section 3).
  The order of the takes in a transcript is that of a set of numbers;
  `HasOrder` shows that every such set has one.

Each inductive invariant was checked by TLC on the instance of its run before it
was proved; `CaptureInv` for `SlowPrompt = TRUE` on part of the state space only.

Only model-checked: liveness (`AckedAnswerGetsOutcome`, `EndReturns`,
`WaitEnds`, `TakeHeard`) and refinement of fairness (`ExecutorFairSpec`), which
are beyond this prover; `Refinement` proves the part of the last one that is not
fairness. Every other property of the passing runs is a theorem.

## 5. Not modelled

* `startSession` beyond its result: question ids are positions here, while the
  code takes over ids from the AI's answer, so that a session may hold one twice.
* The forwarding of events to rooms: `InterviewClient` has who is in which room,
  and nothing the page decides depends on what a room is told.
* In a history view, the time between reading the remembered ids and pruning them:
  a hasty user could start an interview meanwhile, whose id is then pruned as one
  that was not asked for (`app.js:1383`, `app.js:1402`). `HistoryDropsOnlyDead` is
  about a user who waits, for whom the one step is the same.
* The token bucket's arithmetic: a handler that may fail. Real time only scales
  it.
* Texts, timestamps, `interviewContext` and `questionHistory`, which only feed
  prompts; the ownership checks are in `InterviewClient`, not in
  `InterviewSession`.
* Time, outside `ProviderChain`; the length of a cooldown, of a silence, of a
  wait for the transcription.
* The expiry of a cookie, which an HTTP request takes for no account
  (`middleware/auth.ts:51`) and a handshake for an error (`sockets/auth.ts:52`).
* The question ceiling: `extendSession` caps what it asks for and appends what it
  gets, so an interview may pass `MAX_TOTAL_QUESTIONS` in one step
  (`ExtendCommit` models it, no run is spent on it).
* Two pages of one browser: they share the cookie and the remembered sessions.
* In `AnswerCapture`, words that come after a manual stop are dropped, as the
  page drops them, and words that come while a recogniser ends belong to the
  take they were said in, which the page cannot know.
* Accounts beyond who the cookie names, keys, HTTP validation, rendering,
  configuration, migrations and scripts: sequential, stateless or pure input and
  output.

## 6. Plan

In order; done are 1 to 7, and `AnswerCapture` of 8.

1. `SerialExecutor`, `SessionLock`, the refinement and its proof.
2. `AnswerLog`, `InterviewSession`: submissions and evaluators; the answer log.
3. `endSession`, refresh, guidance, extension, crashes, faults; runs for clients
   that wait and clients that do not.
4. Proofs: types, `AnswerInv`, the answer log, guidance.
5. `ProviderChain`. Left: the reported reason of a switch.
6. `SessionStore`: database, memory copy, cooldown, eviction, claim; `SessionRows`,
   the store of rows that it implements.
7. `InterviewClient`: the state machine of `app.js` with `socketManager.js` and
   the socket handlers over a channel that loses and delays replies.
8. `AnswerCapture`: recognition, recorder, silence timer. Left: `TokenBucket`,
   the arithmetic of `tryTake` against a reference over bounded inputs.
9. `startSession`: ids and their uniqueness, composed with `InterviewSession`;
   events to rooms, composed with `InterviewClient`.
10. Proofs. Done: what reports show, the provider chain, the two stores and their
    lists, the refinement of `SessionRows`, the page of a user who waits and its
    types, the capture of an answer. Left: the bound of `TokenBucket`.
