---------------------------- MODULE ProviderChain ----------------------------
(***************************************************************************)
(* The AI calls of a started session: runWithProviderChain                 *)
(* (interview.service.ts) over the chain of getProviderChain               *)
(* (aiFactory.ts), with withRetry (baseService.ts) around each provider's  *)
(* request, and persistProviderSwitch.  Calls run concurrently and share   *)
(* only the session's provider.                                            *)
(*                                                                         *)
(* Errors are kept by what the code does with them: "abort" is our own     *)
(* timeout, "transient" is retried with backoff, "told" is a rate limit    *)
(* with a Retry-After, "final" is everything else.                         *)
(*                                                                         *)
(* A provider stands for its model.  None of these calls carries a key of  *)
(* the user, so one set of configured providers holds for all; a session   *)
(* started with such a key may name a provider outside that set.           *)
(***************************************************************************)
EXTENDS Integers, Sequences, FiniteSets

CONSTANTS
  Call,          \* AI calls of the session
  Provider,      \* the AI providers
  Gemini,        \* the one of them that words its refusals itself
  Fallbacks,     \* the fallback candidates, in order
  MaxRetries,    \* MAX_RETRIES
  Timeout,       \* DEFAULT_TIMEOUT_MS
  ResponseTime,  \* how long an answer or an error may take
  BackoffBase,   \* BACKOFF_BASE_MS
  RetryAfter,    \* waits a provider may ask for
  NoError        \* no attempt of this provider has failed

ErrorKind == {"abort", "transient", "told", "final"}
Retryable == {"transient", "told"}

ASSUME ChainAssumption ==
  /\ Gemini \in Provider /\ Fallbacks \in Seq(Provider)
  /\ \A p \in Provider : \E i \in DOMAIN Fallbacks : Fallbacks[i] = p
  /\ MaxRetries \in Nat /\ Timeout \in Nat /\ BackoffBase \in Nat
  /\ ResponseTime \subseteq 0..Timeout
  /\ RetryAfter \subseteq Nat
  /\ NoError \notin ErrorKind

VARIABLES
  configured,   \* providers with credentials
  up, down,     \* providers that never fail; that never answer
  provider,     \* the session's provider
  switched,     \* history: has a switch been persisted?
  phase,        \* where each call is
  start,        \* the session's provider when the call read it
  settled,      \* history: had a switch been persisted by then?
  pos,          \* the candidate the call is at
  tries,        \* requests made to each provider
  error,        \* last error of each provider
  elapsed       \* time since the call began

session == <<configured, up, down, provider, switched>>
vars == <<session, phase, start, settled, pos, tries, error, elapsed>>

Phase == {"idle", "requesting", "waiting", "switching",
          "done", "failed", "unsaved"}

TypeOK ==
  /\ configured \subseteq Provider
  /\ up \subseteq Provider /\ down \subseteq Provider
  /\ provider \in Provider /\ switched \in BOOLEAN
  /\ phase \in [Call -> Phase]
  /\ start \in [Call -> Provider]
  /\ settled \in [Call -> BOOLEAN]
  /\ pos \in [Call -> 1..(Len(Fallbacks) + 1)]
  /\ tries \in [Call -> [Provider -> Nat]]
  /\ error \in [Call -> [Provider -> ErrorKind \cup {NoError}]]
  /\ elapsed \in [Call -> Nat]

-----------------------------------------------------------------------------
(* How a request ends that brings no answer: an error response, by status; *)
(* an answer that does not parse or validate (502); a response that is not *)
(* JSON; a connection that fails; our own timeout.                         *)
Response == {"400", "401", "403", "404", "429", "429 with Retry-After", "500"}
Trouble == Response \cup {"502", "not JSON", "network", "timeout"}

(* handleProviderErrorResponse: a key that is rejected becomes a 503.      *)
ErrorResponse(t) == IF t \in {"401", "403"} THEN "503" ELSE t

(* Gemini's makeRequest takes a 400 and a 403 for a bad key: a 401.        *)
Thrown(p, t) ==
  IF p = Gemini /\ t \in {"400", "403"} THEN "401" ELSE ErrorResponse(t)

(* isRetryableError, and what withRetry waits for.                         *)
Kind(e) ==
  CASE e = "timeout"                                -> "abort"
    [] e = "429 with Retry-After"                   -> "told"
    [] e \in {"500", "502", "503", "network"}       -> "transient"
    [] OTHER                                        -> "final"

Errors(p) == {Kind(Thrown(p, t)) : t \in Trouble}

-----------------------------------------------------------------------------
(* getProviderChain: the session's own provider, then the fallbacks; each  *)
(* provider once, and only if configured.                                  *)

Candidates(p) == <<p>> \o Fallbacks

Chain(p) ==
  {i \in DOMAIN Candidates(p) :
     /\ Candidates(p)[i] \in configured
     /\ \A j \in 1..(i - 1) : Candidates(p)[j] # Candidates(p)[i]}

Smallest(S) == CHOOSE i \in S : \A j \in S : i <= j
Current(c) == Candidates(start[c])[pos[c]]
Later(c) == {i \in Chain(start[c]) : i > pos[c]}
IsFirst(c) == pos[c] = Smallest(Chain(start[c]))

(* Whatever happens (up and down empty), or every provider is steadily     *)
(* up or down.                                                             *)
Init ==
  /\ configured \in SUBSET Provider /\ provider \in Provider
  /\ \/ up = {} /\ down = {}
     \/ up \in SUBSET Provider /\ down = Provider \ up
  /\ switched = FALSE
  /\ phase = [c \in Call |-> "idle"]
  /\ start = [c \in Call |-> provider]
  /\ settled = [c \in Call |-> FALSE]
  /\ pos = [c \in Call |-> 1]
  /\ tries = [c \in Call |-> [p \in Provider |-> 0]]
  /\ error = [c \in Call |-> [p \in Provider |-> NoError]]
  /\ elapsed = [c \in Call |-> 0]

Goto(c, ph) == phase' = [phase EXCEPT ![c] = ph]
Takes(c, d) == elapsed' = [elapsed EXCEPT ![c] = @ + d]

(* The call reads the session's provider; an empty chain is an error.      *)
Begin(c) ==
  /\ phase[c] = "idle"
  /\ start' = [start EXCEPT ![c] = provider]
  /\ settled' = [settled EXCEPT ![c] = switched]
  /\ IF Chain(provider) = {}
       THEN Goto(c, "failed") /\ UNCHANGED pos
       ELSE /\ Goto(c, "requesting")
            /\ pos' = [pos EXCEPT ![c] = Smallest(Chain(provider))]
  /\ UNCHANGED <<session, tries, error, elapsed>>

(* The provider answers and the answer validates.                          *)
Answer(c) ==
  /\ phase[c] = "requesting" /\ Current(c) \notin down
  /\ \E d \in ResponseTime : Takes(c, d)
  /\ tries' = [tries EXCEPT ![c][Current(c)] = @ + 1]
  /\ Goto(c, IF IsFirst(c) THEN "done" ELSE "switching")
  /\ UNCHANGED <<session, start, settled, pos, error>>

(* Defect: an abort is retried like a network error.                       *)
RetriesAborts(c, k) ==
  k \in Retryable \cup {"abort"} /\ tries[c][Current(c)] < MaxRetries

(* isRetryableError, with attempts left.                                   *)
Retries(c, k) == k \in Retryable /\ tries[c][Current(c)] < MaxRetries

(* Defects: the loop runs off the chain; only one fallback is tried.       *)
MoveOnPastEnd(c) == Goto(c, "requesting") /\ pos' = [pos EXCEPT ![c] = @ + 1]
GiveUpAfterFallback(c) ==
  IF Later(c) = {} \/ ~IsFirst(c)
    THEN Goto(c, "failed") /\ UNCHANGED pos
    ELSE Goto(c, "requesting") /\ pos' = [pos EXCEPT ![c] = Smallest(Later(c))]

MoveOn(c) ==
  IF Later(c) = {}
    THEN Goto(c, "failed") /\ UNCHANGED pos
    ELSE Goto(c, "requesting") /\ pos' = [pos EXCEPT ![c] = Smallest(Later(c))]

(* The request fails: it is tried again, or the next provider is, or none  *)
(* is left.                                                                *)
Fail(c) ==
  /\ phase[c] = "requesting" /\ Current(c) \notin up
  /\ \E k \in Errors(Current(c)) :
       /\ \E d \in ResponseTime \cup {Timeout} :
            (k = "abort" <=> d = Timeout) /\ Takes(c, d)
       /\ error' = [error EXCEPT ![c][Current(c)] = k]
       /\ IF Retries(c, k) THEN Goto(c, "waiting") /\ UNCHANGED pos
                           ELSE MoveOn(c)
  /\ tries' = [tries EXCEPT ![c][Current(c)] = @ + 1]
  /\ UNCHANGED <<session, start, settled>>

(* The wait before a retry: what the provider asked for, or the backoff.   *)
Wait(c) ==
  /\ phase[c] = "waiting"
  /\ IF error[c][Current(c)] = "told"
       THEN \E d \in RetryAfter : Takes(c, d)
       ELSE Takes(c, BackoffBase * 2^(tries[c][Current(c)] - 1))
  /\ Goto(c, "requesting")
  /\ UNCHANGED <<session, start, settled, pos, tries, error>>

(* Defect: the failed provider is written instead of the one that works.   *)
PersistFailedProvider(c) ==
  /\ phase[c] = "switching"
  /\ \/ provider' = start[c] /\ switched' = TRUE /\ Goto(c, "done")
     \/ UNCHANGED <<provider, switched>> /\ Goto(c, "unsaved")
  /\ UNCHANGED <<configured, up, down,
                 start, settled, pos, tries, error, elapsed>>

(* The working provider is written to the session.  If the write throws,   *)
(* so does the call, although it has its answer.                           *)
PersistProviderSwitch(c) ==
  /\ phase[c] = "switching"
  /\ \/ provider' = Current(c) /\ switched' = TRUE /\ Goto(c, "done")
     \/ UNCHANGED <<provider, switched>> /\ Goto(c, "unsaved")
  /\ UNCHANGED <<configured, up, down,
                 start, settled, pos, tries, error, elapsed>>

Ended(c) == phase[c] \in {"done", "failed", "unsaved"}
Quiet == (\A c \in Call : Ended(c)) /\ UNCHANGED vars

Next ==
  \/ Quiet
  \/ \E c \in Call : \/ Begin(c) \/ Answer(c) \/ Fail(c) \/ Wait(c)
                     \/ PersistProviderSwitch(c)

Spec == Init /\ [][Next]_vars

-----------------------------------------------------------------------------
(* Properties                                                              *)

GivenUp(c, p) ==
  /\ tries[c][p] > 0
  /\ error[c][p] \in Retryable => tries[c][p] = MaxRetries + 1

(* A call fails only when every configured provider was tried until its    *)
(* error could not be retried or its retries were used up: the loop of     *)
(* runWithProviderChain over withRetry.                                    *)
FailsOnlyWhenExhausted ==
  \A c \in Call : phase[c] = "failed" => \A p \in configured : GivenUp(c, p)

(* persistProviderSwitch's comment: after a switch, calls go straight to   *)
(* the working provider instead of meeting the same failure again.  While  *)
(* providers are steadily up or down, no order of concurrent switches      *)
(* undoes that.                                                            *)
SwitchSticks ==
  \A c \in Call :
    settled[c] /\ up \cup down = Provider =>
      \A p \in Provider : error[c][p] = NoError

Longest(times) == CHOOSE t \in times : \A u \in times : u <= t
LongestWait ==
  Longest(RetryAfter \cup {0} \cup {BackoffBase * 2^(n - 1) : n \in 1..MaxRetries})

(* The longest that endSession can wait for one AI call: each configured   *)
(* provider once, with MaxRetries errors, as many waits and one timeout,   *)
(* as a timeout is not retried and no provider comes up again under its    *)
(* fallback entry.                                                         *)
WaitBounded ==
  \A c \in Call :
    elapsed[c] <= Cardinality(configured) *
                    (MaxRetries * (Longest(ResponseTime \cup {0}) + LongestWait) + Timeout)

=============================================================================
