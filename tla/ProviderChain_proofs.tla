------------------------- MODULE ProviderChain_proofs -------------------------
(***************************************************************************)
(* What ProviderChain promises, for any number of calls, providers and     *)
(* fallbacks, any retry limit and any times: ChainInv is inductive and     *)
(* each promise follows from it.                                           *)
(***************************************************************************)
EXTENDS ProviderChain, FiniteSetTheorems, WellFoundedInduction, TLAPS

-----------------------------------------------------------------------------
(* Smallest, Longest and the powers of two.                                *)

(* A finite set of numbers has a least element: the one with the fewest    *)
(* elements below it.                                                      *)
LEMMA HasLeast ==
  ASSUME NEW S \in SUBSET Int, IsFiniteSet(S), S # {}
  PROVE  \E i \in S : \A j \in S : i <= j
  <1> DEFINE Below(x) == {y \in S : y < x}
             T == {Below(x) : x \in S}
             R == StrictSubsetOrdering(S)
  <1>1. IsWellFoundedOn(R, SUBSET S)
    BY FS_StrictSubsetOrderingWellFounded, FS_FiniteSubsetsOfFinite
  <1>2. T \subseteq SUBSET S /\ T # {}
    OBVIOUS
  <1> HIDE DEF T, R
  <1>3. PICK U \in T : \A V \in T : <<V, U>> \notin R
    BY <1>1, <1>2, WFMin
  <1>4. PICK i \in S : U = Below(i)
    BY DEF T
  <1>5. ASSUME NEW j \in S, j < i
        PROVE  FALSE
    <2>1. Below(j) \in T
      BY DEF T
    <2>2. Below(j) \subseteq Below(i) /\ Below(j) # Below(i)
      <3>1. i \in Int /\ j \in Int /\ \A y \in S : y < j => y < i
        BY <1>5
      <3>2. j \in Below(i) /\ j \notin Below(j)
        BY <1>5, <3>1
      <3>3. QED
        BY <3>1, <3>2
    <2>3. <<Below(j), Below(i)>> \in R
      BY <2>2 DEF R, StrictSubsetOrdering
    <2>4. QED
      BY <1>3, <1>4, <2>1, <2>3
  <1>6. QED
    BY <1>5

(* ... and a greatest one.                                                 *)
LEMMA HasGreatest ==
  ASSUME NEW S \in SUBSET Int, IsFiniteSet(S), S # {}
  PROVE  \E i \in S : \A j \in S : j <= i
  <1> DEFINE Above(x) == {y \in S : y > x}
             T == {Above(x) : x \in S}
             R == StrictSubsetOrdering(S)
  <1>1. IsWellFoundedOn(R, SUBSET S)
    BY FS_StrictSubsetOrderingWellFounded, FS_FiniteSubsetsOfFinite
  <1>2. T \subseteq SUBSET S /\ T # {}
    OBVIOUS
  <1> HIDE DEF T, R
  <1>3. PICK U \in T : \A V \in T : <<V, U>> \notin R
    BY <1>1, <1>2, WFMin
  <1>4. PICK i \in S : U = Above(i)
    BY DEF T
  <1>5. ASSUME NEW j \in S, j > i
        PROVE  FALSE
    <2>1. Above(j) \in T
      BY DEF T
    <2>2. Above(j) \subseteq Above(i) /\ Above(j) # Above(i)
      <3>1. i \in Int /\ j \in Int /\ \A y \in S : y > j => y > i
        BY <1>5
      <3>2. j \in Above(i) /\ j \notin Above(j)
        BY <1>5, <3>1
      <3>3. QED
        BY <3>1, <3>2
    <2>3. <<Above(j), Above(i)>> \in R
      BY <2>2 DEF R, StrictSubsetOrdering
    <2>4. QED
      BY <1>3, <1>4, <2>1, <2>3
  <1>6. QED
    BY <1>5

LEMMA SmallestIsLeast ==
  ASSUME NEW S \in SUBSET Int, IsFiniteSet(S), S # {}
  PROVE  Smallest(S) \in S /\ \A j \in S : Smallest(S) <= j
  BY HasLeast DEF Smallest

LEMMA LongestIsGreatest ==
  ASSUME NEW S \in SUBSET Int, IsFiniteSet(S), S # {}
  PROVE  Longest(S) \in S /\ \A j \in S : j <= Longest(S)
  BY HasGreatest DEF Longest

LEMMA PowerOfTwo ==
  ASSUME NEW n \in Nat
  PROVE  2^n \in Nat
  <1>1. IsFiniteSet(1..n) /\ Cardinality(1..n) = n
    BY FS_Interval
  <1>2. IsFiniteSet(SUBSET (1..n)) /\ Cardinality(SUBSET (1..n)) = 2^Cardinality(1..n)
    BY <1>1, FS_SUBSET
  <1>3. Cardinality(SUBSET (1..n)) \in Nat
    BY <1>2, FS_CardinalityType
  <1>4. QED
    BY <1>1, <1>2, <1>3

-----------------------------------------------------------------------------
(* The chain of a provider.                                                *)

LEMMA ErrorsAreKinds ==
  ASSUME NEW p, NEW k \in Errors(p)
  PROVE  k \in ErrorKind /\ k # NoError
  BY ChainAssumption DEF Errors, Kind, ErrorKind

LEMMA CandidatesType ==
  ASSUME NEW p \in Provider
  PROVE  /\ Candidates(p) \in Seq(Provider)
         /\ Len(Candidates(p)) = Len(Fallbacks) + 1
         /\ DOMAIN Candidates(p) = 1..(Len(Fallbacks) + 1)
         /\ Candidates(p)[1] = p
         /\ \A i \in DOMAIN Fallbacks : Candidates(p)[i + 1] = Fallbacks[i]
         /\ \A i \in 1..(Len(Fallbacks) + 1) : Candidates(p)[i] \in Provider
  BY ChainAssumption DEF Candidates

LEMMA ChainType ==
  ASSUME NEW p \in Provider
  PROVE  /\ Chain(p) \subseteq 1..(Len(Fallbacks) + 1)
         /\ IsFiniteSet(Chain(p))
         /\ \A i \in Chain(p) :
              Candidates(p)[i] \in configured /\ Candidates(p)[i] \in Provider
         /\ \A i, j \in Chain(p) :
              Candidates(p)[i] = Candidates(p)[j] => i = j
  <1>1. Chain(p) \subseteq 1..(Len(Fallbacks) + 1)
    BY CandidatesType DEF Chain
  <1>2. Len(Fallbacks) + 1 \in Int /\ 1 \in Int
    BY ChainAssumption
  <1>3. IsFiniteSet(Chain(p))
    BY <1>1, <1>2, FS_Interval, FS_Subset
  <1>4. \A i \in Chain(p) : Candidates(p)[i] \in configured /\ Candidates(p)[i] \in Provider
    <2>1. \A i \in Chain(p) : Candidates(p)[i] \in configured
      BY DEF Chain
    <2>2. QED
      BY <1>1, <2>1, CandidatesType
  <1>5. ASSUME NEW i \in Chain(p), NEW j \in Chain(p),
               Candidates(p)[i] = Candidates(p)[j]
        PROVE  i = j
    <2>1. i \in Int /\ j \in Int /\ i >= 1 /\ j >= 1
      BY <1>1, <1>2
    <2>2. ~(i < j) /\ ~(j < i)
      BY <1>5, <2>1 DEF Chain
    <2>3. QED
      BY <2>1, <2>2
  <1>6. QED
    BY <1>1, <1>3, <1>4, <1>5

(* Every configured provider is in the chain, at its first candidate.      *)
LEMMA ChainCovers ==
  ASSUME NEW p \in Provider, configured \subseteq Provider, NEW q \in configured
  PROVE  \E i \in Chain(p) : Candidates(p)[i] = q
  <1> DEFINE At == {i \in 1..(Len(Fallbacks) + 1) : Candidates(p)[i] = q}
  <1>1. Len(Fallbacks) + 1 \in Int /\ 1 \in Int
    BY ChainAssumption
  <1>2. At \in SUBSET Int /\ IsFiniteSet(At)
    <2>1. At \in SUBSET (1..(Len(Fallbacks) + 1))
      OBVIOUS
    <2> HIDE DEF At
    <2>2. IsFiniteSet(At)
      BY <1>1, <2>1, FS_Interval, FS_Subset
    <2>3. QED
      BY <1>1, <2>1, <2>2
  <1>3. At # {}
    <2>1. PICK i \in DOMAIN Fallbacks : Fallbacks[i] = q
      BY ChainAssumption
    <2>2. i + 1 \in 1..(Len(Fallbacks) + 1)
      BY ChainAssumption
    <2>3. QED
      BY <2>1, <2>2, CandidatesType
  <1> HIDE DEF At
  <1>4. PICK i \in At : \A j \in At : i <= j
    BY <1>2, <1>3, HasLeast
  <1>5. i \in Chain(p) /\ Candidates(p)[i] = q
    <2>1. i \in DOMAIN Candidates(p) /\ Candidates(p)[i] = q
      BY CandidatesType DEF At
    <2>2. \A j \in 1..(i - 1) : j \notin At /\ j \in 1..(Len(Fallbacks) + 1)
      BY <1>1, <1>4 DEF At
    <2>3. QED
      BY <2>1, <2>2 DEF Chain, At
  <1>6. QED
    BY <1>5

-----------------------------------------------------------------------------
(* The inductive invariant.                                                *)

Idle(c) ==
  /\ tries[c] = [p \in Provider |-> 0]
  /\ error[c] = [p \in Provider |-> NoError]
  /\ elapsed[c] = 0

(* Later candidates have not been asked, earlier ones have been given up.  *)
Unasked(c, p) == tries[c][p] = 0 /\ error[c][p] = NoError
Position(c) ==
  /\ pos[c] \in Chain(start[c])
  /\ \A i \in Chain(start[c]) :
       /\ i < pos[c] => GivenUp(c, Candidates(start[c])[i])
       /\ i > pos[c] => Unasked(c, Candidates(start[c])[i])

(* The provider at hand has attempts left.                                 *)
Attempts(c) ==
  /\ phase[c] = "requesting" =>
       /\ tries[c][Current(c)] <= MaxRetries
       /\ \/ Unasked(c, Current(c))
          \/ tries[c][Current(c)] > 0 /\ error[c][Current(c)] \in Retryable
  /\ phase[c] = "waiting" =>
       /\ tries[c][Current(c)] \in 1..MaxRetries
       /\ error[c][Current(c)] \in Retryable

Working == {"requesting", "waiting", "switching"}

CallInv(c) ==
  /\ phase[c] = "idle" => Idle(c)
  /\ phase[c] \in Working => Position(c) /\ Attempts(c)
  /\ phase[c] = "failed" =>
       \A i \in Chain(start[c]) : GivenUp(c, Candidates(start[c])[i])

ChainInv == \A c \in Call : CallInv(c)

(* While providers are steadily up or down, what has been written to the   *)
(* session works, and a call that read it there asks nobody else.          *)
Steady == up \cup down = Provider
Works(p) == p \in up /\ p \in configured

SteadyInv ==
  Steady =>
    /\ up \cap down = {}
    /\ switched => Works(provider)
    /\ \A c \in Call :
         /\ phase[c] = "switching" => Works(Current(c))
         /\ settled[c] =>
              /\ Works(start[c]) /\ pos[c] = 1
              /\ phase[c] \in {"requesting", "done"}
              /\ \A p \in Provider : error[c][p] = NoError

(* How long one provider may take, and how long those before the current   *)
(* candidate took.                                                         *)
LongestResponse == Longest(ResponseTime \cup {0})
OneProvider == MaxRetries * (LongestResponse + LongestWait) + Timeout
Asked(c) == {i \in Chain(start[c]) : i < pos[c]}
Before(c) == Cardinality(Asked(c)) * OneProvider

TimeCall(c) ==
  /\ phase[c] = "requesting" =>
       elapsed[c] <= Before(c)
                       + tries[c][Current(c)] * (LongestResponse + LongestWait)
  /\ phase[c] = "waiting" =>
       elapsed[c] + LongestWait
         <= Before(c) + tries[c][Current(c)] * (LongestResponse + LongestWait)
  /\ phase[c] # "idle" =>
       elapsed[c] <= Cardinality(Chain(start[c])) * OneProvider

TimeInv == \A c \in Call : TimeCall(c)

-----------------------------------------------------------------------------
(* ChainInv.                                                               *)

LEMMA Start == Init => TypeOK /\ ChainInv
  <1> SUFFICES ASSUME Init PROVE TypeOK /\ ChainInv
    OBVIOUS
  <1>1. 1 \in 1..(Len(Fallbacks) + 1)
    BY ChainAssumption
  <1>2. TypeOK
    BY <1>1 DEF Init, TypeOK, Phase
  <1>3. ASSUME NEW c \in Call
        PROVE  CallInv(c)
    BY <1>3 DEF Init, CallInv, Idle, Working
  <1>4. QED
    BY <1>2, <1>3 DEF ChainInv

LEMMA CurrentType ==
  ASSUME TypeOK, NEW c \in Call
  PROVE  /\ Current(c) \in Provider /\ start[c] \in Provider
         /\ pos[c] \in Nat /\ tries[c] \in [Provider -> Nat]
         /\ error[c] \in [Provider -> ErrorKind \cup {NoError}]
  <1>1. pos[c] \in 1..(Len(Fallbacks) + 1) /\ start[c] \in Provider
    BY DEF TypeOK
  <1>2. Current(c) \in Provider
    BY <1>1, CandidatesType DEF Current
  <1>3. pos[c] \in Nat
    BY <1>1, ChainAssumption
  <1>4. QED
    BY <1>1, <1>2, <1>3 DEF TypeOK

LEMMA ChainKept ==
  ASSUME UNCHANGED configured
  PROVE  \A p : Chain(p)' = Chain(p)
  BY DEF Chain, Candidates

(* A step of another call changes nothing for this one.                    *)
LEMMA OtherCallKept ==
  ASSUME NEW d, UNCHANGED configured, phase'[d] = phase[d], start'[d] = start[d],
         pos'[d] = pos[d], tries'[d] = tries[d], error'[d] = error[d],
         elapsed'[d] = elapsed[d], CallInv(d)
  PROVE  CallInv(d)'
  <1>1. Chain(start[d])' = Chain(start[d])
    BY ChainKept
  <1>2. \A p : /\ GivenUp(d, p) => GivenUp(d, p)'
               /\ Unasked(d, p) => Unasked(d, p)'
    BY DEF GivenUp, Unasked
  <1>3. Candidates(start[d])' = Candidates(start[d])
    BY DEF Candidates
  <1>4. Current(d)' = Current(d)
    BY <1>3 DEF Current
  <1>5. Idle(d) => Idle(d)'
    BY DEF Idle
  <1>6. Position(d) => Position(d)'
    BY <1>1, <1>2, <1>3 DEF Position
  <1>7. Attempts(d) => Attempts(d)'
    BY <1>2, <1>4 DEF Attempts
  <1>8. QED
    BY <1>1, <1>2, <1>3, <1>5, <1>6, <1>7 DEF CallInv

LEMMA BeginKeepsChain ==
  ASSUME TypeOK, ChainInv, NEW c \in Call, Begin(c)
  PROVE  CallInv(c)'
  <1>1. /\ phase[c] = "idle" /\ start'[c] = provider /\ provider \in Provider
        /\ tries' = tries /\ error' = error /\ configured' = configured
    BY DEF Begin, TypeOK, session
  <1>2. Idle(c)
    BY <1>1 DEF ChainInv, CallInv
  <1>3. CASE Chain(provider) = {}
    <2>1. phase'[c] = "failed"
      BY <1>3 DEF Begin, Goto, TypeOK
    <2>2. Chain(start[c])' = {}
      BY <1>1, <1>3, ChainKept
    <2>3. QED
      BY <2>1, <2>2 DEF CallInv, Working
  <1>4. CASE Chain(provider) # {}
    <2>1. phase'[c] = "requesting" /\ pos'[c] = Smallest(Chain(provider))
      BY <1>4 DEF Begin, Goto, TypeOK
    <2>2. Chain(provider) \in SUBSET Int /\ IsFiniteSet(Chain(provider))
      BY <1>1, ChainType, ChainAssumption
    <2>3. pos'[c] \in Chain(provider) /\ \A i \in Chain(provider) : pos'[c] <= i
      BY <1>4, <2>1, <2>2, SmallestIsLeast
    <2>4. Chain(start[c])' = Chain(provider)
      BY <1>1, ChainKept
    <2>5. \A p \in Provider : Unasked(c, p)'
      BY <1>1, <1>2 DEF Idle, Unasked
    <2>6. \A i \in Chain(provider) : Candidates(provider)[i] \in Provider
      BY <1>1, ChainType
    <2>7. Position(c)'
      BY <1>1, <2>2, <2>3, <2>4, <2>5, <2>6 DEF Position
    <2>8. Attempts(c)'
      <3>1. Unasked(c, Current(c))'
        BY <1>1, <2>3, <2>5, <2>6 DEF Current, Unasked, Candidates
      <3>2. QED
        BY <2>1, <3>1, ChainAssumption DEF Attempts, Unasked, Current
    <2>9. QED
      BY <2>1, <2>7, <2>8 DEF CallInv
  <1>5. QED
    BY <1>3, <1>4

(* A request counts for the provider at hand only.                         *)
LEMMA OthersUntouched ==
  ASSUME TypeOK, NEW c \in Call, Position(c), NEW i \in Chain(start[c]), i # pos[c],
         NEW k, start' = start,
         tries' = [tries EXCEPT ![c][Current(c)] = @ + 1],
         error' = error \/ error' = [error EXCEPT ![c][Current(c)] = k]
  PROVE  LET p == Candidates(start[c])[i] IN
         /\ Candidates(start[c])'[i] = p /\ p # Current(c)
         /\ tries'[c][p] = tries[c][p] /\ error'[c][p] = error[c][p]
         /\ GivenUp(c, p) => GivenUp(c, Candidates(start[c])[i])'
         /\ Unasked(c, p) => Unasked(c, Candidates(start[c])[i])'
  <1> DEFINE p == Candidates(start[c])[i]
  <1>1. p # Current(c) /\ p \in Provider
    BY ChainType, CurrentType DEF Current, Position
  <1>2. Candidates(start[c])' = Candidates(start[c])
    BY DEF Candidates
  <1> HIDE DEF p
  <1>3. tries'[c][p] = tries[c][p] /\ error'[c][p] = error[c][p]
    BY <1>1 DEF TypeOK
  <1>4. /\ GivenUp(c, p) => GivenUp(c, p)'
        /\ Unasked(c, p) => Unasked(c, p)'
    BY <1>2, <1>3 DEF GivenUp, Unasked, p
  <1>5. QED
    BY <1>1, <1>2, <1>3, <1>4 DEF p

LEMMA AnswerKeepsChain ==
  ASSUME TypeOK, ChainInv, NEW c \in Call, Answer(c)
  PROVE  CallInv(c)'
  <1>1. /\ phase[c] = "requesting" /\ start' = start /\ pos' = pos
        /\ error' = error /\ configured' = configured
        /\ tries' = [tries EXCEPT ![c][Current(c)] = @ + 1]
    BY DEF Answer, session
  <1>2. Position(c)
    BY <1>1 DEF ChainInv, CallInv, Working
  <1>3. phase'[c] \in {"done", "switching"}
    BY DEF Answer, Goto, TypeOK
  <1>4. Chain(start[c])' = Chain(start[c])
    BY <1>1, ChainKept
  <1>5. Position(c)'
    <2>1. ASSUME NEW i \in Chain(start[c]), i # pos[c]
          PROVE  LET p == Candidates(start[c])[i] IN
                 /\ GivenUp(c, p) => GivenUp(c, Candidates(start[c])[i])'
                 /\ Unasked(c, p) => Unasked(c, Candidates(start[c])[i])'
      BY <1>1, <1>2, <2>1, OthersUntouched
    <2>2. QED
      BY <1>1, <1>2, <1>4, <2>1, CurrentType, ChainType DEF Position
  <1>6. QED
    BY <1>3, <1>5 DEF CallInv, Attempts

LEMMA FailKeepsChain ==
  ASSUME TypeOK, ChainInv, NEW c \in Call, Fail(c)
  PROVE  CallInv(c)'
  <1>1. /\ phase[c] = "requesting" /\ start' = start /\ configured' = configured
        /\ tries' = [tries EXCEPT ![c][Current(c)] = @ + 1]
    BY DEF Fail, session
  <1>2. Position(c) /\ Attempts(c)
    BY <1>1 DEF ChainInv, CallInv, Working
  <1>3. PICK k \in Errors(Current(c)) :
          /\ error' = [error EXCEPT ![c][Current(c)] = k]
          /\ IF Retries(c, k) THEN Goto(c, "waiting") /\ UNCHANGED pos
                              ELSE MoveOn(c)
    BY DEF Fail
  <1>4. /\ Current(c) \in Provider /\ tries[c][Current(c)] \in Nat
        /\ tries'[c][Current(c)] = tries[c][Current(c)] + 1
        /\ error'[c][Current(c)] = k
        /\ tries[c][Current(c)] <= MaxRetries
    BY <1>1, <1>2, <1>3, CurrentType DEF TypeOK, Attempts
  <1>5. /\ Chain(start[c])' = Chain(start[c])
        /\ Candidates(start[c])' = Candidates(start[c])
    BY <1>1, ChainKept DEF Candidates
  <1>6. ASSUME NEW i \in Chain(start[c]), i # pos[c]
        PROVE  LET p == Candidates(start[c])[i] IN
               /\ GivenUp(c, p) => GivenUp(c, Candidates(start[c])[i])'
               /\ Unasked(c, p) => Unasked(c, Candidates(start[c])[i])'
    BY <1>1, <1>2, <1>3, <1>6, OthersUntouched
  <1>7. /\ pos[c] \in Int /\ Chain(start[c]) \in SUBSET Int
        /\ IsFiniteSet(Chain(start[c]))
    BY CurrentType, ChainType, ChainAssumption
  <1>8. CASE Retries(c, k)
    <2>1. phase'[c] = "waiting" /\ pos' = pos
      BY <1>3, <1>8 DEF Goto, TypeOK
    <2>2. Position(c)'
      BY <1>2, <1>5, <1>6, <1>7, <2>1 DEF Position
    <2>3. Current(c)' = Current(c)
      BY <1>5, <2>1 DEF Current
    <2>4. Attempts(c)'
      BY <1>4, <1>8, <2>1, <2>3, ChainAssumption DEF Attempts, Retries
    <2>5. QED
      BY <2>1, <2>2, <2>4 DEF CallInv
  <1>9. CASE ~Retries(c, k)
    <2>1. MoveOn(c)
      BY <1>3, <1>9
    <2>2. \A i \in Chain(start[c]) :
            i <= pos[c] => GivenUp(c, Candidates(start[c])[i])'
      <3> SUFFICES ASSUME NEW i \in Chain(start[c]), i <= pos[c]
                   PROVE  GivenUp(c, Candidates(start[c])[i])'
        OBVIOUS
      <3>1. CASE i = pos[c]
        <4>1. Candidates(start[c])'[i] = Current(c)
          BY <1>5, <3>1 DEF Current
        <4>2. k \in Retryable => tries[c][Current(c)] + 1 = MaxRetries + 1
          <5> HAVE k \in Retryable
          <5>1. ~(tries[c][Current(c)] < MaxRetries)
            BY <1>9 DEF Retries
          <5>2. QED
            BY <1>4, <5>1, ChainAssumption
        <4>3. QED
          BY <1>4, <4>1, <4>2 DEF GivenUp
      <3>2. CASE i # pos[c]
        BY <1>2, <1>6, <1>7, <3>2 DEF Position
      <3>3. QED
        BY <3>1, <3>2
    <2>3. CASE Later(c) = {}
      <3>1. phase'[c] = "failed"
        BY <2>1, <2>3 DEF MoveOn, Goto, TypeOK
      <3>2. \A i \in Chain(start[c]) : i <= pos[c]
        BY <1>7, <2>3 DEF Later
      <3>3. QED
        BY <1>5, <2>2, <3>1, <3>2 DEF CallInv, Working
    <2>4. CASE Later(c) # {}
      <3>1. phase'[c] = "requesting" /\ pos'[c] = Smallest(Later(c))
        BY <2>1, <2>4 DEF MoveOn, Goto, TypeOK
      <3>2. Later(c) \in SUBSET Int /\ IsFiniteSet(Later(c))
        <4>1. Later(c) \in SUBSET Chain(start[c])
          BY DEF Later
        <4>2. QED
          BY <1>7, <4>1, FS_Subset
      <3>3. pos'[c] \in Later(c) /\ \A i \in Later(c) : pos'[c] <= i
        BY <2>4, <3>1, <3>2, SmallestIsLeast
      <3>4. pos'[c] \in Chain(start[c]) /\ pos'[c] > pos[c]
        BY <3>3 DEF Later
      <3>5. \A i \in Chain(start[c]) :
              /\ i < pos'[c] => i <= pos[c]
              /\ i >= pos'[c] => i > pos[c] /\ i # pos[c]
        BY <1>7, <3>3, <3>4 DEF Later
      <3>6. \A i \in Chain(start[c]) :
              i >= pos'[c] => Unasked(c, Candidates(start[c])[i])'
        BY <1>2, <1>6, <3>5 DEF Position
      <3>7. Position(c)'
        BY <1>5, <1>7, <2>2, <3>4, <3>5, <3>6 DEF Position
      <3>8. Unasked(c, Current(c))'
        BY <1>7, <3>4, <3>6 DEF Current, Unasked
      <3>9. Attempts(c)'
        BY <3>1, <3>8, ChainAssumption DEF Attempts, Unasked
      <3>10. QED
        BY <3>1, <3>7, <3>9 DEF CallInv
    <2>5. QED
      BY <2>3, <2>4
  <1>10. QED
    BY <1>8, <1>9

LEMMA WaitKeepsChain ==
  ASSUME TypeOK, ChainInv, NEW c \in Call, Wait(c)
  PROVE  CallInv(c)'
  <1>1. /\ phase[c] = "waiting" /\ phase'[c] = "requesting"
        /\ configured' = configured /\ start' = start /\ pos' = pos
        /\ tries' = tries /\ error' = error
    BY DEF Wait, Goto, TypeOK, session
  <1>2. Position(c) /\ Attempts(c)
    BY <1>1 DEF ChainInv, CallInv, Working
  <1>3. /\ Chain(start[c])' = Chain(start[c])
        /\ Candidates(start[c])' = Candidates(start[c])
    BY <1>1, ChainKept DEF Candidates
  <1>4. Position(c)'
    BY <1>1, <1>2, <1>3 DEF Position, GivenUp, Unasked
  <1>5. Current(c)' = Current(c)
    BY <1>1, <1>3 DEF Current
  <1>6. Attempts(c)'
    BY <1>1, <1>2, <1>5, ChainAssumption DEF Attempts
  <1>7. QED
    BY <1>1, <1>4, <1>6 DEF CallInv

(* A step is one of one call; the others stay as they are.                 *)
CallStep(c) ==
  Begin(c) \/ Answer(c) \/ Fail(c) \/ Wait(c) \/ PersistProviderSwitch(c)

LEMMA StepOfOneCall ==
  ASSUME TypeOK, NEW c \in Call, CallStep(c), NEW d \in Call, d # c
  PROVE  /\ phase'[d] = phase[d] /\ start'[d] = start[d] /\ pos'[d] = pos[d]
         /\ tries'[d] = tries[d] /\ error'[d] = error[d]
         /\ elapsed'[d] = elapsed[d] /\ settled'[d] = settled[d]
  <1> USE DEF TypeOK, Goto, Takes
  <1>1. CASE Begin(c)
    BY <1>1 DEF Begin
  <1>2. CASE Answer(c)
    BY <1>2 DEF Answer
  <1>3. CASE Fail(c)
    BY <1>3 DEF Fail, MoveOn
  <1>4. CASE Wait(c)
    BY <1>4 DEF Wait
  <1>5. CASE PersistProviderSwitch(c)
    BY <1>5 DEF PersistProviderSwitch
  <1>6. QED
    BY <1>1, <1>2, <1>3, <1>4, <1>5 DEF CallStep

LEMMA StepSetting ==
  ASSUME NEW c \in Call, CallStep(c)
  PROVE  /\ UNCHANGED <<configured, up, down>>
         /\ UNCHANGED <<provider, switched>> \/ PersistProviderSwitch(c)
  BY DEF CallStep, Begin, Answer, Fail, Wait, PersistProviderSwitch, session

LEMMA CallStepKeepsChain ==
  ASSUME TypeOK, ChainInv, NEW c \in Call, CallStep(c)
  PROVE  ChainInv'
  <1>1. CallInv(c)'
    <2>1. CASE PersistProviderSwitch(c)
      <3>1. phase'[c] \in {"done", "unsaved"}
        BY <2>1 DEF PersistProviderSwitch, Goto, TypeOK
      <3>2. QED
        BY <3>1 DEF CallInv, Working
    <2>2. QED
      BY <2>1, BeginKeepsChain, AnswerKeepsChain, FailKeepsChain,
         WaitKeepsChain DEF CallStep
  <1>2. ASSUME NEW d \in Call, d # c
        PROVE  CallInv(d)'
    <2>1. CallInv(d)
      BY DEF ChainInv
    <2>2. configured' = configured
      BY StepSetting
    <2>3. QED
      BY <1>2, <2>1, <2>2, StepOfOneCall, OtherCallKept
  <1>3. QED
    BY <1>1, <1>2 DEF ChainInv

LEMMA BackoffType ==
  ASSUME NEW n \in Nat, n > 0
  PROVE  2^(n - 1) \in Nat /\ BackoffBase * 2^(n - 1) \in Nat
  <1>1. n - 1 \in Nat
    OBVIOUS
  <1>2. 2^(n - 1) \in Nat
    BY <1>1, PowerOfTwo
  <1> DEFINE x == 2^(n - 1)
  <1> HIDE DEF x
  <1>3. x \in Nat => BackoffBase * x \in Nat
    BY ChainAssumption
  <1>4. QED
    BY <1>2, <1>3 DEF x

(* Every step takes a natural number of time units.                        *)
LEMMA TimePasses ==
  ASSUME TypeOK, ChainInv, NEW c \in Call, CallStep(c)
  PROVE  elapsed' \in [Call -> Nat]
  <1> USE DEF TypeOK, Takes
  <1>1. CASE Begin(c) \/ PersistProviderSwitch(c)
    BY <1>1 DEF Begin, PersistProviderSwitch
  <1>2. CASE Answer(c)
    BY <1>2, ChainAssumption DEF Answer
  <1>3. CASE Fail(c)
    BY <1>3, ChainAssumption DEF Fail
  <1>4. CASE Wait(c)
    <2>1. tries[c][Current(c)] \in Nat /\ tries[c][Current(c)] > 0
      <3>1. Attempts(c) /\ phase[c] = "waiting"
        BY <1>4 DEF Wait, ChainInv, CallInv, Working
      <3>2. QED
        BY <3>1, ChainAssumption DEF Attempts
    <2>2. BackoffBase * 2^(tries[c][Current(c)] - 1) \in Nat
      BY <2>1, BackoffType
    <2> DEFINE backoff == BackoffBase * 2^(tries[c][Current(c)] - 1)
    <2>3. \/ \E d \in RetryAfter : Takes(c, d)
          \/ Takes(c, backoff)
      BY <1>4 DEF Wait
    <2> HIDE DEF backoff
    <2>4. \E d \in Nat : Takes(c, d)
      BY <2>2, <2>3, ChainAssumption DEF backoff
    <2>5. QED
      BY <2>4
  <1>5. QED
    BY <1>1, <1>2, <1>3, <1>4 DEF CallStep

LEMMA CallStepKeepsTypes ==
  ASSUME TypeOK, ChainInv, NEW c \in Call, CallStep(c)
  PROVE  TypeOK'
  <1>1. configured' \subseteq Provider /\ up' \subseteq Provider /\ down' \subseteq Provider
    BY StepSetting DEF TypeOK
  <1>2. Current(c) \in Provider
    BY CurrentType
  <1>3. provider' \in Provider /\ switched' \in BOOLEAN
    <2>1. CASE PersistProviderSwitch(c)
      BY <1>2, <2>1 DEF PersistProviderSwitch, TypeOK
    <2>2. QED
      BY <2>1, StepSetting DEF TypeOK
  <1>4. phase' \in [Call -> Phase]
    BY DEF CallStep, Begin, Answer, Fail, MoveOn, Wait, PersistProviderSwitch,
           Goto, TypeOK, Phase
  <1>5. start' \in [Call -> Provider] /\ settled' \in [Call -> BOOLEAN]
    BY DEF CallStep, Begin, Answer, Fail, Wait, PersistProviderSwitch, TypeOK
  <1>6. pos' \in [Call -> 1..(Len(Fallbacks) + 1)]
    <2>1. pos' = pos \/ \E i : pos' = [pos EXCEPT ![c] = i]
      BY DEF CallStep, Begin, Answer, Fail, MoveOn, Wait, PersistProviderSwitch
    <2>2. pos'[c] = pos[c] \/ pos'[c] \in 1..(Len(Fallbacks) + 1)
      <3>1. CASE Begin(c) \/ Fail(c)
        <4>1. CallInv(c)'
          BY <3>1, BeginKeepsChain, FailKeepsChain
        <4>2. CASE phase'[c] \in {"requesting", "waiting"}
          <5>1. pos'[c] \in Chain(start[c])'
            BY <4>1, <4>2 DEF CallInv, Position, Working
          <5>2. Chain(start[c])' = Chain(start'[c]) /\ start'[c] \in Provider
            BY <1>5, StepSetting, ChainKept
          <5>3. QED
            BY <5>1, <5>2, ChainType
        <4>3. CASE phase'[c] \notin {"requesting", "waiting"}
          BY <3>1, <4>3 DEF Begin, Fail, MoveOn, Goto, TypeOK
        <4>4. QED
          BY <4>2, <4>3
      <3>2. CASE Answer(c) \/ Wait(c) \/ PersistProviderSwitch(c)
        BY <3>2 DEF Answer, Wait, PersistProviderSwitch
      <3>3. QED
        BY <3>1, <3>2 DEF CallStep
    <2>3. QED
      BY <2>1, <2>2 DEF TypeOK
  <1>7. tries' \in [Call -> [Provider -> Nat]]
    <2>1. tries' = tries \/ tries' = [tries EXCEPT ![c][Current(c)] = @ + 1]
      BY DEF CallStep, Begin, Answer, Fail, Wait, PersistProviderSwitch
    <2>2. tries \in [Call -> [Provider -> Nat]] /\ tries[c] \in [Provider -> Nat]
      BY DEF TypeOK
    <2>3. [tries[c] EXCEPT ![Current(c)] = @ + 1] \in [Provider -> Nat]
      BY <1>2, <2>2
    <2>4. QED
      BY <2>1, <2>2, <2>3
  <1>8. error' \in [Call -> [Provider -> ErrorKind \cup {NoError}]]
    <2>1. error' = error \/ \E k \in Errors(Current(c)) :
                               error' = [error EXCEPT ![c][Current(c)] = k]
      BY DEF CallStep, Begin, Answer, Fail, Wait, PersistProviderSwitch
    <2>2. error' = error \/ \E k \in ErrorKind :
                               error' = [error EXCEPT ![c][Current(c)] = k]
      BY <2>1, ErrorsAreKinds
    <2>3. error \in [Call -> [Provider -> ErrorKind \cup {NoError}]]
      BY DEF TypeOK
    <2>4. ASSUME NEW k \in ErrorKind
          PROVE  [error[c] EXCEPT ![Current(c)] = k] \in [Provider -> ErrorKind \cup {NoError}]
      BY <1>2, <2>3
    <2>5. QED
      BY <2>2, <2>3, <2>4
  <1>9. QED
    BY <1>1, <1>3, <1>4, <1>5, <1>6, <1>7, <1>8, TimePasses DEF TypeOK

LEMMA Idling ==
  ASSUME TypeOK, ChainInv, UNCHANGED vars
  PROVE  TypeOK' /\ ChainInv'
  <1>1. TypeOK'
    BY DEF vars, session, TypeOK
  <1>2. ASSUME NEW d \in Call
        PROVE  CallInv(d)'
    BY <1>2, OtherCallKept DEF ChainInv, vars, session
  <1>3. QED
    BY <1>1, <1>2 DEF ChainInv

LEMMA NextIsACallStep == Next => UNCHANGED vars \/ \E c \in Call : CallStep(c)
  BY DEF Next, Quiet, CallStep

(* The invariant of a session's AI calls: a call has given up every        *)
(* candidate before the one it is at and asked none after it.              *)
THEOREM CallsFollowTheChain == Spec => [](TypeOK /\ ChainInv)
  <1>1. TypeOK /\ ChainInv /\ [Next]_vars => (TypeOK /\ ChainInv)'
    BY Idling, NextIsACallStep, CallStepKeepsTypes, CallStepKeepsChain
  <1>2. QED
    BY <1>1, Start, PTL DEF Spec

(* What a session's AI calls share and remember keeps its type: the        *)
(* candidate is in the chain and no wait is negative.                      *)
THEOREM ChainTypes == Spec => []TypeOK
  BY CallsFollowTheChain, PTL

(* runWithProviderChain throws only when every configured provider was     *)
(* asked until its error could not be retried or its retries were used up. *)
THEOREM NoProviderIsSkipped == Spec => []FailsOnlyWhenExhausted
  <1>1. TypeOK /\ ChainInv => FailsOnlyWhenExhausted
    <2> SUFFICES ASSUME TypeOK, ChainInv, NEW c \in Call, phase[c] = "failed",
                        NEW p \in configured
                 PROVE  GivenUp(c, p)
      BY DEF FailsOnlyWhenExhausted
    <2>1. PICK i \in Chain(start[c]) : Candidates(start[c])[i] = p
      BY ChainCovers DEF TypeOK
    <2>2. GivenUp(c, Candidates(start[c])[i])
      BY <2>1 DEF ChainInv, CallInv
    <2>3. QED
      BY <2>1, <2>2
  <1>2. QED
    BY <1>1, CallsFollowTheChain, PTL

-----------------------------------------------------------------------------
(* SteadyInv.                                                              *)

(* A configured provider heads its own chain.                              *)
LEMMA OwnProviderFirst ==
  ASSUME NEW p \in Provider, p \in configured
  PROVE  Chain(p) # {} /\ Smallest(Chain(p)) = 1
  <1>1. 1 \in Chain(p)
    <2>1. 1 \in DOMAIN Candidates(p) /\ Candidates(p)[1] = p
      <3>1. 1 \in 1..(Len(Fallbacks) + 1)
        BY ChainAssumption
      <3>2. QED
        BY <3>1, CandidatesType
    <2>2. 1..(1 - 1) = {}
      OBVIOUS
    <2>3. QED
      BY <2>1, <2>2 DEF Chain
  <1>2. Chain(p) \in SUBSET Int /\ IsFiniteSet(Chain(p)) /\ \A i \in Chain(p) : 1 <= i
    BY ChainType, ChainAssumption
  <1>3. QED
    BY <1>1, <1>2, SmallestIsLeast

LEMMA SteadyStart == Init => SteadyInv
  <1>1. Provider # {}
    BY ChainAssumption
  <1>2. QED
    BY <1>1 DEF Init, SteadyInv, Steady

SteadyCall(c) ==
  /\ phase[c] = "switching" => Works(Current(c))
  /\ settled[c] =>
       /\ Works(start[c]) /\ pos[c] = 1
       /\ phase[c] \in {"requesting", "done"}
       /\ \A p \in Provider : error[c][p] = NoError

LEMMA CallStepKeepsSteady ==
  ASSUME TypeOK, ChainInv, SteadyInv, NEW c \in Call, CallStep(c)
  PROVE  SteadyInv'
  <1>1. UNCHANGED <<configured, up, down>>
    BY StepSetting
  <1> SUFFICES ASSUME Steady
               PROVE  /\ up \cap down = {} /\ (switched' => Works(provider)')
                      /\ \A d \in Call : SteadyCall(d)'
    BY <1>1 DEF SteadyInv, Steady, SteadyCall
  <1>2. /\ up \cap down = {} /\ (switched => Works(provider))
        /\ \A d \in Call : SteadyCall(d)
    BY DEF SteadyInv, SteadyCall
  <1>3. \A p : Works(p) => Works(p)'
    BY <1>1 DEF Works
  <1>4. switched' => Works(provider)'
    <2>1. CASE PersistProviderSwitch(c)
      <3>1. Works(Current(c))
        BY <1>2, <2>1 DEF PersistProviderSwitch, SteadyCall
      <3>2. provider' = Current(c) \/ UNCHANGED <<provider, switched>>
        BY <2>1 DEF PersistProviderSwitch
      <3>3. QED
        BY <1>1, <1>2, <3>1, <3>2 DEF Works
    <2>2. CASE UNCHANGED <<provider, switched>>
      BY <1>1, <1>2, <2>2 DEF Works
    <2>3. QED
      BY <2>1, <2>2, StepSetting
  <1>5. ASSUME NEW d \in Call, d # c
        PROVE  SteadyCall(d)'
    <2>1. SteadyCall(d)
      BY <1>2
    <2>2. /\ phase'[d] = phase[d] /\ start'[d] = start[d] /\ pos'[d] = pos[d]
          /\ error'[d] = error[d] /\ settled'[d] = settled[d]
      BY <1>5, StepOfOneCall
    <2>3. Current(d)' = Current(d)
      BY <2>2 DEF Current, Candidates
    <2>4. QED
      BY <1>1, <2>1, <2>2, <2>3 DEF SteadyCall, Works
  <1>6. SteadyCall(c)'
    <2>0. SteadyCall(c) /\ CallInv(c)
      BY <1>2 DEF ChainInv
    <2>1. CASE Begin(c)
      <3>1. /\ start'[c] = provider /\ settled'[c] = switched /\ error' = error
            /\ provider \in Provider /\ phase'[c] # "switching"
        BY <2>1 DEF Begin, Goto, TypeOK
      <3>2. \A p \in Provider : error[c][p] = NoError
        BY <2>0, <2>1 DEF Begin, CallInv, Idle
      <3>3. ASSUME switched
            PROVE  phase'[c] = "requesting" /\ pos'[c] = 1
        <4>1. Chain(provider) # {} /\ Smallest(Chain(provider)) = 1
          BY <1>2, <3>1, <3>3, OwnProviderFirst DEF Works
        <4>2. QED
          BY <2>1, <4>1 DEF Begin, Goto, TypeOK
      <3>4. switched => Works(start[c])'
        BY <1>1, <1>2, <3>1 DEF Works
      <3>5. QED
        BY <3>1, <3>2, <3>3, <3>4 DEF SteadyCall
    <2>2. CASE Answer(c)
      <3>1. /\ start' = start /\ pos' = pos /\ settled' = settled /\ error' = error
            /\ phase[c] = "requesting" /\ Current(c) \notin down
        BY <2>2 DEF Answer
      <3>2. phase'[c] = IF IsFirst(c) THEN "done" ELSE "switching"
        BY <2>2 DEF Answer, Goto, TypeOK
      <3>3. settled[c] => IsFirst(c)
        BY <2>0, OwnProviderFirst, CurrentType DEF SteadyCall, Works, IsFirst
      <3>4. Works(Current(c))
        <4>1. Current(c) \in Provider /\ Current(c) \in configured
          BY <2>0, <3>1, CurrentType, ChainType
             DEF CallInv, Working, Position, Current
        <4>2. QED
          BY <3>1, <4>1 DEF Works, Steady
      <3>5. Current(c)' = Current(c) /\ start'[c] = start[c]
        BY <3>1 DEF Current, Candidates
      <3>6. Works(Current(c))'
        BY <1>1, <3>4, <3>5 DEF Works
      <3>7. Works(start[c]) => Works(start[c])'
        BY <1>1, <3>5 DEF Works
      <3>8. QED
        BY <2>0, <3>1, <3>2, <3>3, <3>6, <3>7 DEF SteadyCall
    <2>3. CASE Fail(c) \/ Wait(c) \/ PersistProviderSwitch(c)
      <3>1. phase'[c] # "switching"
        BY <2>3 DEF Fail, MoveOn, Wait, PersistProviderSwitch, Goto, TypeOK
      <3>2. settled' = settled
        BY <2>3 DEF Fail, Wait, PersistProviderSwitch
      <3>3. ~settled[c]
        <4>1. CASE Fail(c)
          <5>1. Current(c) \notin up
            BY <4>1 DEF Fail
          <5>2. settled[c] => Current(c) = start[c]
            BY <2>0, CandidatesType, CurrentType DEF SteadyCall, Current
          <5>3. QED
            BY <2>0, <5>1, <5>2 DEF SteadyCall, Works
        <4>2. CASE Wait(c) \/ PersistProviderSwitch(c)
          BY <2>0, <4>2 DEF Wait, PersistProviderSwitch, SteadyCall
        <4>3. QED
          BY <2>3, <4>1, <4>2
      <3>4. QED
        BY <3>1, <3>2, <3>3 DEF SteadyCall
    <2>4. QED
      BY <2>1, <2>2, <2>3 DEF CallStep
  <1>7. QED
    BY <1>2, <1>4, <1>5, <1>6

(* While providers are steadily up or down, a call begun after a switch    *)
(* was persisted meets no failure, whatever switches run beside it.        *)
THEOREM SwitchesAreKept == Spec => []SwitchSticks
  <1>1. TypeOK /\ ChainInv /\ SteadyInv /\ [Next]_vars => SteadyInv'
    <2> SUFFICES ASSUME TypeOK, ChainInv, SteadyInv, [Next]_vars
                 PROVE  SteadyInv'
      OBVIOUS
    <2>1. CASE UNCHANGED vars
      <3>1. /\ UNCHANGED <<configured, up, down, provider, switched>>
            /\ UNCHANGED <<phase, start, settled, pos, error>>
        BY <2>1 DEF vars, session
      <3>2. \A p : Works(p)' <=> Works(p)
        BY <3>1 DEF Works
      <3>3. \A c \in Call : Current(c)' = Current(c)
        BY <3>1 DEF Current, Candidates
      <3>4. \A c \in Call : SteadyCall(c) => SteadyCall(c)'
        BY <3>1, <3>3 DEF SteadyCall, Works
      <3>5. Works(provider) => Works(provider)'
        BY <3>1 DEF Works
      <3>6. QED
        BY <3>1, <3>4, <3>5 DEF SteadyInv, Steady, SteadyCall
    <2>2. QED
      BY <2>1, NextIsACallStep, CallStepKeepsSteady
  <1>2. SteadyInv => SwitchSticks
    BY DEF SteadyInv, SwitchSticks, Steady
  <1>3. QED
    BY <1>1, <1>2, SteadyStart, CallsFollowTheChain, PTL DEF Spec

-----------------------------------------------------------------------------
(* TimeInv.                                                                *)

LEMMA ResponseBound ==
  /\ LongestResponse \in Nat /\ LongestResponse <= Timeout
  /\ \A d \in ResponseTime : d <= LongestResponse
  <1> DEFINE S == ResponseTime \cup {0}
  <1>1. S \in SUBSET (0..Timeout) /\ S # {} /\ Timeout \in Int
    BY ChainAssumption
  <1>2. S \in SUBSET Int /\ IsFiniteSet(S)
    <2>1. IsFiniteSet(0..Timeout) /\ 0..Timeout \subseteq Int
      BY <1>1, FS_Interval
    <2> HIDE DEF S
    <2>2. QED
      BY <1>1, <2>1, FS_Subset
  <1>3. Longest(S) \in S /\ \A d \in S : d <= Longest(S)
    BY <1>1, <1>2, LongestIsGreatest
  <1>4. LongestResponse = Longest(S) /\ ResponseTime \subseteq S
    BY DEF LongestResponse
  <1> HIDE DEF S
  <1>5. LongestResponse \in 0..Timeout
    BY <1>1, <1>3, <1>4
  <1>6. \A d \in ResponseTime : d <= LongestResponse
    BY <1>3, <1>4
  <1>7. QED
    BY <1>1, <1>5, <1>6

(* The set of waits is finite when what providers ask for is.              *)
LEMMA WaitBound ==
  ASSUME IsFiniteSet(RetryAfter)
  PROVE  /\ LongestWait \in Nat
         /\ \A d \in RetryAfter : d <= LongestWait
         /\ \A n \in 1..MaxRetries : BackoffBase * 2^(n - 1) <= LongestWait
  <1> DEFINE f == [n \in 1..MaxRetries |-> BackoffBase * 2^(n - 1)]
             B == {BackoffBase * 2^(n - 1) : n \in 1..MaxRetries}
             S == RetryAfter \cup {0} \cup B
  <1>1. \A n \in 1..MaxRetries : BackoffBase * 2^(n - 1) \in Nat
    <2>1. \A n \in 1..MaxRetries : n \in Nat /\ n > 0
      BY ChainAssumption
    <2>2. QED
      BY <2>1, BackoffType
  <1>2. f \in Surjection(1..MaxRetries, B)
    BY DEF Surjection
  <1>3. IsFiniteSet(1..MaxRetries)
    BY FS_Interval, ChainAssumption
  <1>4. IsFiniteSet(B) /\ B \subseteq Nat
    <2>1. B \subseteq Nat
      BY <1>1
    <2> HIDE DEF B, f
    <2>2. QED
      BY <1>2, <1>3, <2>1, FS_Surjection
  <1>5. \A n \in 1..MaxRetries : BackoffBase * 2^(n - 1) \in B
    OBVIOUS
  <1> HIDE DEF B, f
  <1>6. S \in SUBSET Int /\ S # {} /\ IsFiniteSet(S) /\ S \subseteq Nat
    <2>1. IsFiniteSet(RetryAfter \cup {0})
      BY FS_Singleton, FS_Union
    <2>2. IsFiniteSet(S)
      BY <1>4, <2>1, FS_Union
    <2>3. QED
      BY <1>4, <2>2, ChainAssumption
  <1>7. RetryAfter \subseteq S /\ B \subseteq S
    OBVIOUS
  <1>8. LongestWait = Longest(S)
    BY DEF LongestWait, B
  <1> HIDE DEF S
  <1>9. Longest(S) \in S /\ \A d \in S : d <= Longest(S)
    BY <1>6, LongestIsGreatest
  <1>10. QED
    BY <1>5, <1>6, <1>7, <1>8, <1>9

LEMMA TimesType ==
  ASSUME IsFiniteSet(RetryAfter)
  PROVE  /\ LongestResponse \in Nat /\ LongestWait \in Nat
         /\ LongestResponse <= Timeout /\ Timeout \in Nat /\ MaxRetries \in Nat
         /\ MaxRetries * (LongestResponse + LongestWait) \in Nat
         /\ OneProvider \in Nat
  BY ResponseBound, WaitBound, ChainAssumption DEF OneProvider

(* Multiplication is monotonic, in the forms used here.                    *)
LEMMA Scaled ==
  ASSUME NEW m \in Nat, NEW n \in Nat, m <= n, NEW u \in Nat
  PROVE  m * u <= n * u /\ m * u \in Nat /\ n * u \in Nat
  OBVIOUS

LEMMA ScaledNext ==
  ASSUME NEW n \in Nat, NEW u \in Nat
  PROVE  (n + 1) * u = n * u + u /\ n * u \in Nat
  OBVIOUS

(* The candidates already asked and the one at hand are in the chain, and  *)
(* the chain is no longer than the configured providers.                   *)
LEMMA AskedCount ==
  ASSUME TypeOK, NEW c \in Call, Position(c)
  PROVE  /\ Cardinality(Asked(c)) \in Nat
         /\ Cardinality(Chain(start[c])) \in Nat
         /\ Cardinality(Asked(c)) + 1 <= Cardinality(Chain(start[c]))
  <1> DEFINE C == Chain(start[c])
  <1>1. IsFiniteSet(C) /\ Asked(c) \subseteq C /\ pos[c] \in C /\ pos[c] \notin Asked(c)
    <2>1. C \subseteq Int
      BY ChainType, CurrentType, ChainAssumption
    <2>2. QED
      BY <2>1, ChainType, CurrentType DEF Asked, Position
  <1> HIDE DEF C
  <1>2. IsFiniteSet(Asked(c))
    BY <1>1, FS_Subset
  <1>3. /\ IsFiniteSet(Asked(c) \cup {pos[c]})
        /\ Cardinality(Asked(c) \cup {pos[c]}) = Cardinality(Asked(c)) + 1
    BY <1>1, <1>2, FS_AddElement
  <1>4. Asked(c) \cup {pos[c]} \in SUBSET C
    BY <1>1
  <1>5. Cardinality(Asked(c) \cup {pos[c]}) <= Cardinality(C)
    BY <1>1, <1>4, FS_Subset
  <1>6. QED
    BY <1>1, <1>2, <1>3, <1>5, FS_CardinalityType DEF C

LEMMA ChainIsShort ==
  ASSUME TypeOK, NEW p \in Provider
  PROVE  /\ Cardinality(Chain(p)) \in Nat /\ Cardinality(configured) \in Nat
         /\ Cardinality(Chain(p)) <= Cardinality(configured)
  <1> DEFINE f == [i \in Chain(p) |-> Candidates(p)[i]]
  <1>1. f \in Injection(Chain(p), configured)
    BY ChainType DEF Injection, IsInjective
  <1>2. IsFiniteSet(configured)
    <2> DEFINE g == [i \in DOMAIN Fallbacks |-> Fallbacks[i]]
    <2>1. g \in Surjection(DOMAIN Fallbacks, Provider)
      BY ChainAssumption DEF Surjection
    <2>2. DOMAIN Fallbacks = 1..Len(Fallbacks) /\ Len(Fallbacks) \in Int
      BY ChainAssumption
    <2>3. IsFiniteSet(DOMAIN Fallbacks)
      BY <2>2, FS_Interval
    <2> HIDE DEF g
    <2>4. IsFiniteSet(Provider)
      BY <2>1, <2>3, FS_Surjection
    <2>5. QED
      BY <2>4, FS_Subset DEF TypeOK
  <1> HIDE DEF f
  <1>3. QED
    BY <1>1, <1>2, FS_Injection, FS_CardinalityType

(* The current provider takes no longer than OneProvider, as the ones      *)
(* before it did.                                                          *)
LEMMA WithinOneProvider ==
  ASSUME IsFiniteSet(RetryAfter), NEW n \in Nat, NEW m \in Nat, n + 1 <= m,
         NEW t \in Nat, t <= MaxRetries, NEW e \in Nat,
         e <= n * OneProvider + t * (LongestResponse + LongestWait) + Timeout
  PROVE  e <= (n + 1) * OneProvider /\ e <= m * OneProvider
  <1> DEFINE U == LongestResponse + LongestWait
  <1>1. U \in Nat
    BY TimesType
  <1> HIDE DEF U
  <1>2. t * U <= MaxRetries * U /\ t * U \in Nat /\ MaxRetries * U \in Nat
    BY <1>1, Scaled, TimesType
  <1>3. OneProvider = MaxRetries * U + Timeout /\ OneProvider \in Nat
    BY TimesType DEF OneProvider, U
  <1>4. (n + 1) * OneProvider = n * OneProvider + OneProvider /\ n * OneProvider \in Nat
    BY <1>3, ScaledNext
  <1>5. e <= n * OneProvider + t * U + Timeout
    BY DEF U
  <1>6. e <= (n + 1) * OneProvider
    BY <1>2, <1>3, <1>4, <1>5, TimesType
  <1>7. (n + 1) * OneProvider <= m * OneProvider /\ m * OneProvider \in Nat
    BY <1>3, Scaled
  <1>8. QED
    BY <1>3, <1>4, <1>6, <1>7

LEMMA OtherCallTimeKept ==
  ASSUME NEW d, UNCHANGED configured, phase'[d] = phase[d], start'[d] = start[d],
         pos'[d] = pos[d], tries'[d] = tries[d], elapsed'[d] = elapsed[d], TimeCall(d)
  PROVE  TimeCall(d)'
  <1>1. Chain(start[d])' = Chain(start[d])
    BY ChainKept
  <1>2. Asked(d)' = Asked(d)
    BY <1>1 DEF Asked
  <1>3. Current(d)' = Current(d)
    BY DEF Current, Candidates
  <1>4. Before(d)' = Before(d)
    BY <1>2 DEF Before
  <1>5. QED
    BY <1>1, <1>3, <1>4 DEF TimeCall

(* What is known of a call at a provider.                                  *)
LEMMA AtProvider ==
  ASSUME IsFiniteSet(RetryAfter), TypeOK, ChainInv, NEW c \in Call, phase[c] \in Working
  PROVE  /\ Cardinality(Asked(c)) \in Nat /\ Cardinality(Chain(start[c])) \in Nat
         /\ Cardinality(Asked(c)) + 1 <= Cardinality(Chain(start[c]))
         /\ tries[c][Current(c)] \in Nat /\ elapsed[c] \in Nat
         /\ Before(c) \in Nat
         /\ tries[c][Current(c)] * (LongestResponse + LongestWait) \in Nat
  <1>1. Position(c)
    BY DEF ChainInv, CallInv
  <1>2. tries[c][Current(c)] \in Nat /\ elapsed[c] \in Nat
    BY CurrentType DEF TypeOK
  <1>3. Cardinality(Asked(c)) \in Nat
    BY <1>1, AskedCount
  <1>4. Before(c) \in Nat
    BY <1>3, TimesType, Scaled DEF Before
  <1>5. LongestResponse + LongestWait \in Nat
    BY TimesType
  <1>6. tries[c][Current(c)] * (LongestResponse + LongestWait) \in Nat
    BY <1>2, <1>5, Scaled
  <1>7. QED
    BY <1>1, <1>2, <1>4, <1>6, AskedCount

LEMMA NoTime ==
  ASSUME IsFiniteSet(RetryAfter)
  PROVE  /\ 0 * OneProvider = 0 /\ 0 * (LongestResponse + LongestWait) = 0
  <1>1. \A u \in Nat : 0 * u = 0
    OBVIOUS
  <1>2. OneProvider \in Nat /\ LongestResponse + LongestWait \in Nat
    BY TimesType
  <1>3. QED
    BY <1>1, <1>2

LEMMA BeginKeepsTime ==
  ASSUME IsFiniteSet(RetryAfter), TypeOK, ChainInv, NEW c \in Call, Begin(c)
  PROVE  TimeCall(c)'
  <1>1. /\ elapsed'[c] = 0 /\ phase'[c] # "waiting" /\ start'[c] = provider
        /\ configured' = configured /\ tries'[c] = [p \in Provider |-> 0]
        /\ provider \in Provider
    BY DEF Begin, ChainInv, CallInv, Idle, Goto, TypeOK, session
  <1>2. Chain(start[c])' = Chain(provider)
    BY <1>1, ChainKept
  <1>3. 0 <= Cardinality(Chain(start[c]))' * OneProvider
    <2>1. Cardinality(Chain(provider)) \in Nat
      BY <1>1, ChainIsShort
    <2>2. QED
      BY <1>2, <2>1, TimesType, Scaled
  <1>4. ASSUME phase'[c] = "requesting"
        PROVE  Before(c)' = 0 /\ tries'[c][Current(c)'] = 0
    <2>1. Chain(provider) # {} /\ pos'[c] = Smallest(Chain(provider))
      BY <1>4 DEF Begin, Goto, TypeOK
    <2>2. Chain(provider) \in SUBSET Int /\ IsFiniteSet(Chain(provider))
      BY <1>1, ChainType, ChainAssumption
    <2>3. pos'[c] \in Chain(provider) /\ \A i \in Chain(provider) : pos'[c] <= i
      BY <2>1, <2>2, SmallestIsLeast
    <2>4. Asked(c)' = {}
      BY <1>2, <2>2, <2>3 DEF Asked
    <2>5. Before(c)' = 0
      BY <2>4, NoTime, FS_EmptySet DEF Before
    <2>6. Candidates(provider)[pos'[c]] \in Provider
      BY <1>1, <2>3, ChainType
    <2>7. QED
      BY <1>1, <2>5, <2>6 DEF Current, Candidates
  <1>5. QED
    BY <1>1, <1>3, <1>4, NoTime DEF TimeCall

LEMMA AnswerKeepsTime ==
  ASSUME IsFiniteSet(RetryAfter), TypeOK, ChainInv, TimeInv, NEW c \in Call, Answer(c)
  PROVE  TimeCall(c)'
  <1>1. /\ phase[c] = "requesting" /\ phase'[c] \in {"done", "switching"}
        /\ configured' = configured /\ start' = start
    BY DEF Answer, Goto, TypeOK, session
  <1>2. PICK d \in ResponseTime : elapsed'[c] = elapsed[c] + d
    BY DEF Answer, Takes, TypeOK
  <1>3. d \in Nat /\ d <= Timeout
    BY <1>2, ResponseBound, ChainAssumption
  <1>4. Chain(start[c])' = Chain(start[c])
    BY <1>1, ChainKept
  <1>5. tries[c][Current(c)] <= MaxRetries
    BY <1>1 DEF ChainInv, CallInv, Working, Attempts
  <1>6. elapsed[c] <= Before(c)
                        + tries[c][Current(c)] * (LongestResponse + LongestWait)
    BY <1>1 DEF TimeInv, TimeCall
  <1>7. elapsed'[c] <= Cardinality(Chain(start[c])) * OneProvider
    <2> DEFINE A == Before(c)
               T == tries[c][Current(c)] * (LongestResponse + LongestWait)
    <2>1. A \in Nat /\ T \in Nat /\ elapsed[c] \in Nat
      BY <1>1, AtProvider DEF Working
    <2>2. elapsed[c] <= A + T
      BY <1>6
    <2> HIDE DEF A, T
    <2>3. elapsed'[c] \in Nat /\ elapsed'[c] <= A + T + Timeout
      BY <1>2, <1>3, <2>1, <2>2, TimesType
    <2>4. elapsed'[c] <= Cardinality(Asked(c)) * OneProvider
            + tries[c][Current(c)] * (LongestResponse + LongestWait) + Timeout
      BY <2>3 DEF A, T, Before
    <2>5. QED
      BY <1>1, <1>5, <2>3, <2>4, AtProvider, WithinOneProvider DEF Working
  <1>8. QED
    BY <1>1, <1>4, <1>7 DEF TimeCall

LEMMA WaitKeepsTime ==
  ASSUME IsFiniteSet(RetryAfter), TypeOK, ChainInv, TimeInv, NEW c \in Call, Wait(c)
  PROVE  TimeCall(c)'
  <1>1. /\ phase[c] = "waiting" /\ phase'[c] = "requesting"
        /\ configured' = configured /\ start' = start /\ pos' = pos /\ tries' = tries
    BY DEF Wait, Goto, TypeOK, session
  <1>2. tries[c][Current(c)] \in 1..MaxRetries
    BY <1>1 DEF ChainInv, CallInv, Working, Attempts
  <1>3. \E d \in Nat : d <= LongestWait /\ elapsed'[c] = elapsed[c] + d
    <2>1. CASE error[c][Current(c)] = "told"
      <3>1. PICK d \in RetryAfter : elapsed'[c] = elapsed[c] + d
        BY <2>1 DEF Wait, Takes, TypeOK
      <3>2. QED
        BY <3>1, WaitBound, ChainAssumption
    <2>2. CASE error[c][Current(c)] # "told"
      <3> DEFINE d == BackoffBase * 2^(tries[c][Current(c)] - 1)
      <3>1. Takes(c, d)
        BY <2>2 DEF Wait
      <3>2. d \in Nat /\ d <= LongestWait
        <4>1. tries[c][Current(c)] \in Nat /\ tries[c][Current(c)] > 0
          BY <1>2, ChainAssumption
        <4>2. QED
          BY <1>2, <4>1, BackoffType, WaitBound
      <3> HIDE DEF d
      <3>3. elapsed'[c] = elapsed[c] + d
        BY <3>1 DEF Takes, TypeOK
      <3>4. QED
        BY <3>2, <3>3
    <2>3. QED
      BY <2>1, <2>2
  <1>4. elapsed[c] + LongestWait
          <= Before(c) + tries[c][Current(c)] * (LongestResponse + LongestWait)
    BY <1>1 DEF TimeInv, TimeCall
  <1> DEFINE A == Before(c)
             T == tries[c][Current(c)] * (LongestResponse + LongestWait)
  <1>5. A \in Nat /\ T \in Nat /\ elapsed[c] \in Nat
    BY <1>1, AtProvider DEF Working
  <1>6. elapsed[c] + LongestWait <= A + T
    BY <1>4
  <1>7. elapsed'[c] \in Nat /\ elapsed'[c] <= A + T /\ elapsed'[c] <= A + T + Timeout
    <2> HIDE DEF A, T
    <2>1. QED
      BY <1>3, <1>5, <1>6, TimesType
  <1>8. elapsed'[c] <= Cardinality(Chain(start[c])) * OneProvider
    <2>1. elapsed'[c] <= Cardinality(Asked(c)) * OneProvider
            + tries[c][Current(c)] * (LongestResponse + LongestWait) + Timeout
      BY <1>7 DEF Before
    <2>2. tries[c][Current(c)] \in Nat /\ tries[c][Current(c)] <= MaxRetries
      BY <1>2, ChainAssumption
    <2>3. QED
      BY <1>1, <1>7, <2>1, <2>2, AtProvider, WithinOneProvider DEF Working
  <1>9. /\ Chain(start[c])' = Chain(start[c])
        /\ Current(c)' = Current(c) /\ Before(c)' = Before(c)
    BY <1>1, ChainKept DEF Current, Candidates, Before, Asked
  <1>10. elapsed'[c] <= Before(c)'
           + tries'[c][Current(c)'] * (LongestResponse + LongestWait)
    BY <1>1, <1>7, <1>9
  <1>11. QED
    BY <1>1, <1>8, <1>9, <1>10 DEF TimeCall

LEMMA FailKeepsTime ==
  ASSUME IsFiniteSet(RetryAfter), TypeOK, ChainInv, TimeInv, NEW c \in Call, Fail(c)
  PROVE  TimeCall(c)'
  <1>1. /\ phase[c] = "requesting" /\ configured' = configured /\ start' = start
        /\ tries' = [tries EXCEPT ![c][Current(c)] = @ + 1]
    BY DEF Fail, session
  <1>2. PICK k \in Errors(Current(c)) :
          /\ \E d \in ResponseTime \cup {Timeout} :
               (k = "abort" <=> d = Timeout) /\ Takes(c, d)
          /\ IF Retries(c, k) THEN Goto(c, "waiting") /\ UNCHANGED pos
                              ELSE MoveOn(c)
    BY DEF Fail
  <1>3. PICK d \in ResponseTime \cup {Timeout} :
          (k = "abort" <=> d = Timeout) /\ elapsed'[c] = elapsed[c] + d
    BY <1>2 DEF Takes, TypeOK
  <1>4. /\ Position(c) /\ Attempts(c) /\ TimeCall(c)
    BY <1>1 DEF ChainInv, CallInv, Working, TimeInv
  <1>5. tries[c][Current(c)] \in Nat /\ tries[c][Current(c)] <= MaxRetries
    BY <1>1, <1>4, CurrentType DEF Attempts
  <1> DEFINE U == LongestResponse + LongestWait
             A == Before(c)
             T == tries[c][Current(c)] * U
  <1>6. A \in Nat /\ T \in Nat /\ U \in Nat /\ elapsed[c] \in Nat /\ elapsed[c] <= A + T
    BY <1>1, <1>4, AtProvider, TimesType DEF Working, TimeCall
  <1>7. d \in Nat /\ d <= Timeout /\ (k # "abort" => d <= LongestResponse)
    BY <1>3, ResponseBound, ChainAssumption
  <1>8. elapsed'[c] \in Nat /\ elapsed'[c] <= A + T + Timeout
    <2> HIDE DEF A, T, U
    <2>1. QED
      BY <1>3, <1>6, <1>7, TimesType
  <1>9. /\ elapsed'[c] <= (Cardinality(Asked(c)) + 1) * OneProvider
        /\ elapsed'[c] <= Cardinality(Chain(start[c])) * OneProvider
    <2>1. elapsed'[c] <= Cardinality(Asked(c)) * OneProvider
            + tries[c][Current(c)] * (LongestResponse + LongestWait) + Timeout
      BY <1>8 DEF Before
    <2>2. QED
      BY <1>1, <1>5, <1>8, <2>1, AtProvider, WithinOneProvider DEF Working
  <1>10. Chain(start[c])' = Chain(start[c])
    BY <1>1, ChainKept
  <1>11. CASE Retries(c, k)
    <2>1. phase'[c] = "waiting" /\ pos' = pos
      BY <1>2, <1>11 DEF Goto, TypeOK
    <2>2. /\ Before(c)' = Before(c) /\ Current(c)' = Current(c)
          /\ tries'[c][Current(c)] = tries[c][Current(c)] + 1
      BY <1>1, <1>10, <2>1, CurrentType
         DEF Before, Asked, Current, Candidates, TypeOK
    <2>3. elapsed'[c] + LongestWait <= A + (T + U)
      <3>1. k # "abort"
        BY <1>11 DEF Retries, Retryable
      <3>2. elapsed'[c] <= A + T + LongestResponse
        <4> HIDE DEF A, T, U
        <4>1. QED
          BY <1>3, <1>6, <1>7, <3>1, TimesType
      <3>3. U = LongestResponse + LongestWait
        OBVIOUS
      <3> HIDE DEF A, T, U
      <3>4. QED
        BY <1>6, <1>8, <3>2, <3>3, TimesType
    <2>4. T + U = (tries[c][Current(c)] + 1) * U
      <3> DEFINE t == tries[c][Current(c)]
      <3>1. t \in Nat /\ T = t * U
        BY <1>5
      <3> HIDE DEF T, U, t
      <3>2. (t + 1) * U = t * U + U
        BY <1>6, <3>1, ScaledNext
      <3>3. QED
        BY <3>1, <3>2 DEF t
    <2>5. elapsed'[c] + LongestWait
            <= Before(c)' + tries'[c][Current(c)'] * (LongestResponse + LongestWait)
      BY <2>2, <2>3, <2>4
    <2>6. QED
      BY <1>9, <1>10, <2>1, <2>5 DEF TimeCall
  <1>12. CASE ~Retries(c, k)
    <2>1. MoveOn(c)
      BY <1>2, <1>12
    <2>2. CASE Later(c) = {}
      BY <1>9, <1>10, <2>1, <2>2 DEF MoveOn, Goto, TypeOK, TimeCall
    <2>3. CASE Later(c) # {}
      <3>1. phase'[c] = "requesting" /\ pos'[c] = Smallest(Later(c))
        BY <2>1, <2>3 DEF MoveOn, Goto, TypeOK
      <3>2. /\ Chain(start[c]) \in SUBSET Int /\ IsFiniteSet(Chain(start[c]))
            /\ pos[c] \in Int
        BY CurrentType, ChainType, ChainAssumption
      <3>3. Later(c) \in SUBSET Chain(start[c])
        BY DEF Later
      <3>4. Later(c) \in SUBSET Int /\ IsFiniteSet(Later(c))
        BY <3>2, <3>3, FS_Subset
      <3>5. pos'[c] \in Later(c) /\ \A i \in Later(c) : pos'[c] <= i
        BY <2>3, <3>1, <3>4, SmallestIsLeast
      <3>6. pos'[c] \in Chain(start[c]) /\ pos'[c] > pos[c]
        BY <3>5 DEF Later
      <3>7. Asked(c)' = Asked(c) \cup {pos[c]}
        <4>1. \A i \in Chain(start[c]) : i < pos'[c] <=> i < pos[c] \/ i = pos[c]
          BY <3>2, <3>5, <3>6 DEF Later
        <4>2. QED
          BY <1>4, <1>10, <4>1 DEF Asked, Position
      <3>8. Cardinality(Asked(c)') = Cardinality(Asked(c)) + 1
        <4>1. Asked(c) \in SUBSET Chain(start[c])
          BY DEF Asked
        <4>2. IsFiniteSet(Asked(c))
          BY <3>2, <4>1, FS_Subset
        <4>3. pos[c] \notin Asked(c)
          BY <3>2 DEF Asked
        <4>4. QED
          BY <3>7, <4>2, <4>3, FS_AddElement
      <3>9. Before(c)' = (Cardinality(Asked(c)) + 1) * OneProvider
        BY <3>8 DEF Before
      <3>10. tries'[c][Current(c)'] = 0
        <4>1. /\ Candidates(start[c])[pos'[c]] \in Provider
              /\ Candidates(start[c])[pos'[c]] # Current(c)
          BY <1>4, <3>2, <3>6, ChainType, CurrentType DEF Current, Position
        <4>2. Current(c)' = Candidates(start[c])[pos'[c]]
          BY <1>1 DEF Current, Candidates
        <4>3. tries[c][Candidates(start[c])[pos'[c]]] = 0
          BY <1>4, <3>6 DEF Position, Unasked
        <4>4. QED
          BY <1>1, <4>1, <4>2, <4>3 DEF TypeOK
      <3>11. elapsed'[c] <= Before(c)'
               + tries'[c][Current(c)'] * (LongestResponse + LongestWait)
        <4> DEFINE N == (Cardinality(Asked(c)) + 1) * OneProvider
        <4>1. N \in Nat
          <5>1. Cardinality(Asked(c)) + 1 \in Nat
            BY <1>1, AtProvider DEF Working
          <5>2. QED
            BY <5>1, TimesType, Scaled
        <4>2. elapsed'[c] <= N
          BY <1>9
        <4> HIDE DEF N
        <4>3. elapsed'[c] <= N + 0
          BY <4>1, <4>2
        <4>4. QED
          BY <3>9, <3>10, <4>3, NoTime DEF N
      <3>12. QED
        BY <1>9, <1>10, <3>1, <3>11 DEF TimeCall
    <2>4. QED
      BY <2>2, <2>3
  <1>13. QED
    BY <1>11, <1>12

LEMMA CallStepKeepsTime ==
  ASSUME IsFiniteSet(RetryAfter), TypeOK, ChainInv, TimeInv, NEW c \in Call, CallStep(c)
  PROVE  TimeInv'
  <1>1. TimeCall(c)'
    <2>1. CASE PersistProviderSwitch(c)
      <3>1. /\ phase[c] = "switching" /\ phase'[c] \in {"done", "unsaved"}
            /\ start' = start /\ elapsed' = elapsed
        BY <2>1 DEF PersistProviderSwitch, Goto, TypeOK
      <3>2. Chain(start[c])' = Chain(start[c])
        BY <3>1, StepSetting, ChainKept
      <3>3. QED
        BY <3>1, <3>2 DEF TimeInv, TimeCall
    <2>2. QED
      BY <2>1, BeginKeepsTime, AnswerKeepsTime, FailKeepsTime, WaitKeepsTime
         DEF CallStep
  <1>2. ASSUME NEW d \in Call, d # c
        PROVE  TimeCall(d)'
    <2>1. TimeCall(d) /\ configured' = configured
      BY StepSetting DEF TimeInv
    <2>2. QED
      BY <1>2, <2>1, StepOfOneCall, OtherCallTimeKept
  <1>3. QED
    BY <1>1, <1>2 DEF TimeInv

(* An AI call, however it fails and wherever it falls back to, ends within *)
(* the time of MaxRetries errors, as many waits and one timeout for each   *)
(* configured provider.  The waits providers ask for have a longest one:   *)
(* the timer that waits holds at most 2^31 - 1 ms.                         *)
THEOREM CallsEndInTime ==
  ASSUME IsFiniteSet(RetryAfter)
  PROVE  Spec => []WaitBounded
  <1>1. Init => TimeInv
    BY DEF Init, TimeInv, TimeCall
  <1>2. TypeOK /\ ChainInv /\ TimeInv /\ [Next]_vars => TimeInv'
    <2> SUFFICES ASSUME TypeOK, ChainInv, TimeInv, [Next]_vars
                 PROVE  TimeInv'
      OBVIOUS
    <2>1. CASE UNCHANGED vars
      BY <2>1, OtherCallTimeKept DEF TimeInv, vars, session
    <2>2. QED
      BY <2>1, NextIsACallStep, CallStepKeepsTime
  <1>3. TypeOK /\ ChainInv /\ TimeInv => WaitBounded
    <2> SUFFICES ASSUME TypeOK, ChainInv, TimeInv, NEW c \in Call
                 PROVE  elapsed[c] <= Cardinality(configured) * OneProvider
      BY DEF WaitBounded, OneProvider, LongestResponse
    <2>1. /\ Cardinality(Chain(start[c])) \in Nat /\ Cardinality(configured) \in Nat
          /\ Cardinality(Chain(start[c])) <= Cardinality(configured)
      BY ChainIsShort DEF TypeOK
    <2>2. /\ Cardinality(Chain(start[c])) * OneProvider
               <= Cardinality(configured) * OneProvider
          /\ Cardinality(Chain(start[c])) * OneProvider \in Nat
          /\ Cardinality(configured) * OneProvider \in Nat
      BY <2>1, TimesType, Scaled
    <2>3. elapsed[c] <= Cardinality(Chain(start[c])) * OneProvider
      <3>1. CASE phase[c] = "idle"
        BY <2>2, <3>1 DEF ChainInv, CallInv, Idle
      <3>2. CASE phase[c] # "idle"
        BY <3>2 DEF TimeInv, TimeCall
      <3>3. QED
        BY <3>1, <3>2
    <2>4. elapsed[c] \in Nat
      BY DEF TypeOK
    <2>5. QED
      BY <2>2, <2>3, <2>4
  <1>4. QED
    BY <1>1, <1>2, <1>3, CallsFollowTheChain, PTL DEF Spec

=============================================================================
