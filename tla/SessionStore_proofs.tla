------------------------- MODULE SessionStore_proofs -------------------------
(***************************************************************************)
(* What InterviewRepository keeps through outages, for any number of       *)
(* callers, sessions and memory entries, and any number of outages and     *)
(* restarts: StoreInv is inductive, and OneStore, AnsweredOnceInStore and  *)
(* RecordedStays are conjuncts of it; ListInv adds the types and what the  *)
(* lists may show of the sessions that were claimed.  With RowsInv, every  *)
(* step is one of the abstract store of rows (SessionRows), or none.       *)
(***************************************************************************)
EXTENDS SessionStore, TLAPS

Active(c) == call[c].at \in {"asking", "querying"}
Creates(c) == Active(c) /\ call[c].query = "create"
Writes(c) == Active(c) /\ call[c].task = "answer" /\ call[c].query = "update"

CallRecord ==
  [at : {"idle", "queued", "asking", "querying"}, task : Task, query : Query,
   session : Session, arg : User \cup {Nobody} \cup Question,
   ids : SUBSET Session, row : Row \cup {NoRow},
   by : {"none", "database", "memory"}, known : SUBSET Session]

TypeInv ==
  /\ db \in [Session -> Row \cup {NoRow}]
  /\ mem \in [Session -> Row \cup {NoRow}]
  /\ order \in Seq(Session) /\ \A s \in Session : mem[s] # NoRow => s \in ToSet(order)
  /\ born \subseteq Session
  /\ holder \in [Session -> Caller \cup {Nobody}]
  /\ call \in [Caller -> CallRecord]
  /\ split \subseteq Session /\ gone \subseteq Session
  /\ recorded \subseteq Session \X Question
  /\ claimed \subseteq Session

(* Which queries a call makes, and with which argument.                    *)
CallOK(c) ==
  /\ call[c].at = "queued" => call[c].task = "answer" /\ call[c].query = "get"
  /\ call[c].query = "create" <=> call[c].task = "create"
  /\ call[c].query = "update" => call[c].task \in {"answer", "end"}
  /\ call[c].query = "get" => call[c].task \in {"answer", "look"}
  /\ call[c].query = "claim" => call[c].task = "claim"
  /\ call[c].query = "list" => call[c].task \in {"list", "email"}
  /\ call[c].task = "create" => call[c].arg \in User \cup {Nobody}
  /\ call[c].task = "claim" => call[c].arg \in User
  /\ call[c].task = "answer" => call[c].arg \in Question
  /\ Writes(c) => call[c].row \in Row

CallInv == \A c \in Caller : call[c].at # "idle" => CallOK(c)

(* The lock is held by the recordAnswer that runs.                         *)
LockInv ==
  \A s \in Session, c \in Caller :
    holder[s] = c <=> call[c].session = s /\ call[c].task = "answer" /\ Active(c)

(* A session that is not created yet, or is being created, is in no store. *)
BirthInv ==
  /\ \A s \in Session \ born : db[s] = NoRow /\ mem[s] = NoRow
  /\ \A c \in Caller : Creates(c) =>
       /\ call[c].session \in born
       /\ db[call[c].session] = NoRow /\ mem[call[c].session] = NoRow
  /\ \A c, d \in Caller :
       Creates(c) /\ Creates(d) /\ call[c].session = call[d].session => c = d

(* What a recordAnswer that is about to write has read: its question is    *)
(* not answered there ...                                                  *)
FreshInv ==
  \A c \in Caller : Writes(c) =>
    IsInjective(call[c].row.answers) /\ ~Contains(call[c].row.answers, call[c].arg)

(* ... and the answers are still those of the session, in the store where  *)
(* it is.                                                                  *)
CurrentInv ==
  \A c \in Caller :
    LET s == call[c].session IN
    Writes(c) /\ s \notin split \cup gone =>
      ReadEither(s) # NoRow /\ ReadEither(s).answers = call[c].row.answers

StoreInv == /\ TypeInv /\ CallInv /\ LockInv /\ BirthInv /\ FreshInv /\ CurrentInv
            /\ OneStore /\ AnsweredOnceInStore /\ RecordedStays

-----------------------------------------------------------------------------
(* Sequences                                                               *)

LEMMA AppendedOnce ==
  ASSUME NEW S, NEW s \in Seq(S), NEW e \in S
  PROVE  /\ Append(s, e) \in Seq(S)
         /\ \A x : Contains(Append(s, e), x) <=> Contains(s, x) \/ x = e
         /\ ToSet(Append(s, e)) = ToSet(s) \cup {e}
         /\ IsInjective(s) /\ ~Contains(s, e) => IsInjective(Append(s, e))
  <1>1. /\ Append(s, e) \in Seq(S) /\ Len(Append(s, e)) = Len(s) + 1 /\ Len(s) \in Nat
        /\ DOMAIN s = 1..Len(s) /\ DOMAIN Append(s, e) = 1..(Len(s) + 1)
        /\ \A i \in 1..Len(s) : Append(s, e)[i] = s[i]
        /\ Append(s, e)[Len(s) + 1] = e
    OBVIOUS
  <1>2. \A i \in 1..(Len(s) + 1) : i \in 1..Len(s) \/ i = Len(s) + 1
    BY <1>1
  <1>3. \A i \in 1..Len(s) : i \in 1..(Len(s) + 1)
    BY <1>1
  <1>4. Len(s) + 1 \in 1..(Len(s) + 1)
    BY <1>1
  <1>5. \A x : Contains(Append(s, e), x) <=> Contains(s, x) \/ x = e
    BY <1>1, <1>2, <1>3, <1>4 DEF Contains
  <1>6. ToSet(Append(s, e)) = ToSet(s) \cup {e}
    BY <1>1, <1>2, <1>3, <1>4 DEF ToSet
  <1>7. ASSUME IsInjective(s), ~Contains(s, e)
        PROVE  IsInjective(Append(s, e))
    BY <1>1, <1>2, <1>7 DEF IsInjective, Contains
  <1>8. QED
    BY <1>1, <1>5, <1>6, <1>7

(* What enforceBound leaves of the keys is keys that were there.           *)
LEMMA BoundKeeps ==
  ASSUME NEW keys \in Seq(Session)
  PROVE  /\ Bounded(keys) \in Seq(Session) /\ ToSet(Bounded(keys)) \subseteq ToSet(keys)
         /\ IsInjective(keys) => IsInjective(Bounded(keys))
  <1>1. CASE Len(keys) > MaxEntries
    <2>1. keys # <<>> /\ Bounded(keys) = Tail(keys)
      BY <1>1, StoreAssumption DEF Bounded
    <2>2. /\ Tail(keys) \in Seq(Session) /\ Len(Tail(keys)) = Len(keys) - 1
          /\ Len(keys) \in Nat /\ DOMAIN keys = 1..Len(keys)
          /\ DOMAIN Tail(keys) = 1..(Len(keys) - 1)
          /\ \A i \in 1..(Len(keys) - 1) : Tail(keys)[i] = keys[i + 1]
      BY <2>1
    <2>3. \A i \in 1..(Len(keys) - 1) : i + 1 \in 1..Len(keys)
      BY <2>2
    <2>4. QED
      BY <2>1, <2>2, <2>3 DEF ToSet, IsInjective
  <1>2. CASE ~(Len(keys) > MaxEntries)
    BY <1>2 DEF Bounded
  <1>3. QED
    BY <1>1, <1>2

-----------------------------------------------------------------------------
(* What a query may do to a store, and to the call that makes it.          *)

Answers(store, c, x) ==
  \/ store'[x].answers = store[x].answers
  \/ /\ Writes(c) /\ x = call[c].session
     /\ store'[x].answers = Append(call[c].row.answers, call[c].arg)

StoresStep(c) ==
  /\ db' \in [Session -> Row \cup {NoRow}] /\ mem' \in [Session -> Row \cup {NoRow}]
  /\ order' \in Seq(Session) /\ \A x \in Session : mem'[x] # NoRow => x \in ToSet(order')
  /\ split \subseteq split' /\ gone \subseteq gone'
  /\ split' \subseteq Session /\ gone' \subseteq Session /\ claimed' \subseteq Session
  /\ \A x \in Session :
       /\ db[x] # NoRow => db'[x] # NoRow /\ Answers(db, c, x)
       /\ mem[x] # NoRow /\ mem'[x] # NoRow => Answers(mem, c, x)
       /\ mem[x] # NoRow /\ mem'[x] = NoRow => x \in gone'
       /\ db[x] = NoRow /\ db'[x] # NoRow =>
            Creates(c) /\ x = call[c].session /\ db'[x].answers = <<>>
       /\ mem[x] = NoRow /\ mem'[x] # NoRow =>
            Creates(c) /\ x = call[c].session /\ mem'[x].answers = <<>>
       /\ db[x] = NoRow /\ db'[x] # NoRow /\ mem'[x] # NoRow => x \in split'

(* The call ends; if it recorded an answer, one of the stores has it.      *)
Ends(c) ==
  LET s == call[c].session IN
  /\ call' = [call EXCEPT ![c] = Idle]
  /\ holder' = IF call[c].task = "answer" THEN [holder EXCEPT ![s] = Nobody] ELSE holder
  /\ \/ recorded' = recorded
     \/ /\ Writes(c) /\ recorded' = recorded \cup {<<s, call[c].arg>>}
        /\ \/ db[s] # NoRow
              /\ db'[s].answers = Append(call[c].row.answers, call[c].arg)
           \/ mem[s] # NoRow /\ mem'[s] # NoRow
              /\ mem'[s].answers = Append(call[c].row.answers, call[c].arg)

(* recordAnswer has read a row without the answer, and goes on to write it.*)
GoesOn(c) ==
  LET s == call[c].session IN
  /\ call[c].task = "answer" /\ db' = db /\ mem' = mem
  /\ \E row \in Row, by \in {"database", "memory"} :
       /\ row = ReadEither(s) \/ row = mem[s]
       /\ ~Contains(row.answers, call[c].arg)
       /\ call' = [call EXCEPT ![c] = [@ EXCEPT !.at = "asking", !.row = row,
                                                !.by = by, !.query = "update"]]
  /\ UNCHANGED <<holder, recorded>>

Asks(c) ==
  /\ call[c].at = "asking" /\ call' = [call EXCEPT ![c].at = "querying"]
  /\ UNCHANGED <<db, mem, holder, recorded>>

QueryStep(c) ==
  Active(c) /\ StoresStep(c) /\ (Ends(c) \/ GoesOn(c) \/ Asks(c)) /\ UNCHANGED born

LEMMA IdleRecord == Idle \in CallRecord /\ Idle.at = "idle"
  <1>1. (CHOOSE s \in Session : TRUE) \in Session
    BY StoreAssumption
  <1>2. QED
    BY <1>1 DEF Idle, CallRecord, Task, Query

(* What a query changes of the calls.                                      *)
LEMMA OthersKept ==
  ASSUME TypeInv, NEW c \in Caller, QueryStep(c)
  PROVE  /\ call' \in [Caller -> CallRecord]
         /\ \A d \in Caller \ {c} : call'[d] = call[d]
         /\ Ends(c) => call'[c] = Idle
         /\ GoesOn(c) =>
              /\ call'[c].at = "asking" /\ call'[c].query = "update"
              /\ call'[c].row \in Row /\ ~Contains(call'[c].row.answers, call[c].arg)
              /\ \/ call'[c].row = ReadEither(call[c].session)
                 \/ call'[c].row = mem[call[c].session]
              /\ call'[c].session = call[c].session
              /\ call'[c].task = call[c].task /\ call'[c].arg = call[c].arg
         /\ Asks(c) =>
              /\ call'[c].at = "querying" /\ call'[c].query = call[c].query
              /\ call'[c].session = call[c].session /\ call'[c].row = call[c].row
              /\ call'[c].task = call[c].task /\ call'[c].arg = call[c].arg
  <1>0. call[c] \in CallRecord /\ call \in [Caller -> CallRecord]
    BY DEF TypeInv
  <1>1. ASSUME Ends(c)
        PROVE  /\ call' \in [Caller -> CallRecord] /\ call'[c] = Idle
               /\ \A d \in Caller \ {c} : call'[d] = call[d]
    BY <1>0, <1>1, IdleRecord DEF Ends
  <1>2. ASSUME GoesOn(c)
        PROVE  /\ call' \in [Caller -> CallRecord]
               /\ \A d \in Caller \ {c} : call'[d] = call[d]
               /\ call'[c].at = "asking" /\ call'[c].query = "update"
               /\ call'[c].row \in Row /\ ~Contains(call'[c].row.answers, call[c].arg)
               /\ \/ call'[c].row = ReadEither(call[c].session)
                  \/ call'[c].row = mem[call[c].session]
               /\ call'[c].session = call[c].session
               /\ call'[c].task = call[c].task /\ call'[c].arg = call[c].arg
    <2>1. PICK row \in Row, by \in {"database", "memory"} :
            /\ row = ReadEither(call[c].session) \/ row = mem[call[c].session]
            /\ ~Contains(row.answers, call[c].arg)
            /\ call' = [call EXCEPT ![c] = [@ EXCEPT !.at = "asking", !.row = row,
                                                     !.by = by, !.query = "update"]]
      BY <1>2 DEF GoesOn
    <2> DEFINE next == [call[c] EXCEPT !.at = "asking", !.row = row,
                                       !.by = by, !.query = "update"]
    <2>2. /\ next \in CallRecord /\ next.session = call[c].session
          /\ next.at = "asking" /\ next.query = "update" /\ next.row = row
          /\ next.task = call[c].task /\ next.arg = call[c].arg
      BY <1>0 DEF CallRecord, Query
    <2>3. call' = [call EXCEPT ![c] = next]
      BY <2>1
    <2> HIDE DEF next
    <2>4. call' \in [Caller -> CallRecord] /\ call'[c] = next
          /\ \A d \in Caller \ {c} : call'[d] = call[d]
      BY <1>0, <2>2, <2>3
    <2>5. QED
      BY <2>1, <2>2, <2>4
  <1>3. ASSUME Asks(c)
        PROVE  /\ call' \in [Caller -> CallRecord]
               /\ \A d \in Caller \ {c} : call'[d] = call[d]
               /\ call'[c].at = "querying" /\ call'[c].query = call[c].query
               /\ call'[c].session = call[c].session /\ call'[c].row = call[c].row
               /\ call'[c].task = call[c].task /\ call'[c].arg = call[c].arg
    <2> DEFINE next == [call[c] EXCEPT !.at = "querying"]
    <2>1. /\ next \in CallRecord /\ next.at = "querying" /\ next.query = call[c].query
          /\ next.session = call[c].session /\ next.row = call[c].row
          /\ next.task = call[c].task /\ next.arg = call[c].arg
      BY <1>0 DEF CallRecord
    <2>2. call' = [call EXCEPT ![c] = next]
      BY <1>3 DEF Asks
    <2> HIDE DEF next
    <2>3. QED
      BY <1>0, <2>1, <2>2
  <1>4. QED
    BY <1>1, <1>2, <1>3 DEF QueryStep

LEMMA QueryTypes ==
  ASSUME StoreInv, NEW c \in Caller, QueryStep(c)
  PROVE  TypeInv' /\ CallInv'
  <1> USE DEF StoreInv
  <1>1. TypeInv'
    <2>1. holder' \in [Session -> Caller \cup {Nobody}]
      BY DEF TypeInv, QueryStep, Ends, GoesOn, Asks
    <2>2. recorded' \subseteq Session \X Question
      <3>1. Writes(c) => call[c].arg \in Question /\ call[c].session \in Session
        BY DEF CallInv, CallOK, Writes, Active, TypeInv, CallRecord
      <3>2. \/ recorded' = recorded
            \/ Writes(c) /\ recorded' = recorded \cup {<<call[c].session, call[c].arg>>}
        BY DEF QueryStep, Ends, GoesOn, Asks
      <3>3. recorded \subseteq Session \X Question
        BY DEF TypeInv
      <3>4. QED
        BY <3>1, <3>2, <3>3
    <2>3. born' \subseteq Session
      BY DEF TypeInv, QueryStep
    <2>4. QED
      BY <2>1, <2>2, <2>3, OthersKept DEF TypeInv, QueryStep, StoresStep
  <1>2. CallInv'
    <2> SUFFICES ASSUME NEW d \in Caller, call'[d].at # "idle"
                 PROVE  CallOK(d)'
      BY DEF CallInv
    <2>1. CASE d # c
      BY <2>1, OthersKept DEF CallInv, CallOK, TypeInv, Writes, Active
    <2>2. CASE d = c /\ GoesOn(c)
      BY <2>2, OthersKept DEF CallInv, CallOK, TypeInv, Writes, Active, GoesOn, QueryStep
    <2>3. CASE d = c /\ Asks(c)
      BY <2>3, OthersKept DEF CallInv, CallOK, TypeInv, Writes, Active, Asks, QueryStep
    <2>4. CASE d = c /\ Ends(c)
      BY <2>4, OthersKept, IdleRecord DEF TypeInv
    <2>5. QED
      BY <2>1, <2>2, <2>3, <2>4 DEF QueryStep
  <1>3. QED
    BY <1>1, <1>2

LEMMA QueryLock ==
  ASSUME StoreInv, NEW c \in Caller, QueryStep(c)
  PROVE  LockInv'
  <1> USE DEF StoreInv
  <1> SUFFICES ASSUME NEW s \in Session, NEW d \in Caller
               PROVE  (holder[s] = d <=> call[d].session = s
                         /\ call[d].task = "answer" /\ Active(d))'
    BY DEF LockInv
  <1>0. /\ holder \in [Session -> Caller \cup {Nobody}] /\ Nobody \notin Caller
        /\ call[c].session \in Session
        /\ \A d2 \in Caller : holder[s] = d2 <=>
             call[d2].session = s /\ call[d2].task = "answer" /\ Active(d2)
    BY StoreAssumption DEF TypeInv, CallRecord, LockInv
  <1>1. CASE Ends(c)
    <2>1. ~Active(c)'
      BY <1>1, OthersKept, IdleRecord DEF Active
    <2>2. holder'[s] = IF call[c].task = "answer" /\ s = call[c].session
                         THEN Nobody ELSE holder[s]
      BY <1>0, <1>1 DEF Ends
    <2>3. CASE d = c
      BY <1>0, <2>1, <2>2, <2>3
    <2>4. CASE d # c
      <3>1. call'[d] = call[d] /\ (Active(d)' <=> Active(d))
        BY <2>4, OthersKept DEF Active
      <3>2. Active(c)
        BY DEF QueryStep
      <3>3. QED
        BY <1>0, <2>2, <2>4, <3>1, <3>2
    <2>5. QED
      BY <2>3, <2>4
  <1>2. CASE GoesOn(c) \/ Asks(c)
    <2>1. /\ call'[d].session = call[d].session /\ call'[d].task = call[d].task
          /\ Active(d)' <=> Active(d)
      BY <1>2, OthersKept DEF Active, QueryStep
    <2>2. holder' = holder
      BY <1>2 DEF GoesOn, Asks
    <2>3. QED
      BY <1>0, <2>1, <2>2
  <1>3. QED
    BY <1>1, <1>2 DEF QueryStep

LEMMA QueryBirth ==
  ASSUME StoreInv, NEW c \in Caller, QueryStep(c)
  PROVE  BirthInv'
  <1> USE DEF StoreInv
  <1>1. ASSUME NEW s \in Session \ born 
        PROVE  db'[s] = NoRow /\ mem'[s] = NoRow
    BY <1>1 DEF QueryStep, StoresStep, BirthInv
  <1>2. ASSUME NEW d \in Caller, Creates(d)'
        PROVE  /\ Creates(d) /\ call'[d].session = call[d].session
               /\ db'[call[d].session] = NoRow /\ mem'[call[d].session] = NoRow
    <2>1. CASE d # c
      <3>1. Creates(d) /\ call'[d] = call[d] /\ call[d].session \in Session
        BY <1>2, <2>1, OthersKept DEF Creates, Active, TypeInv, CallRecord
      <3>2. QED
        BY <3>1, <2>1 DEF QueryStep, StoresStep, BirthInv
    <2>2. CASE d = c
      <3>1. Asks(c)
        BY <1>2, <2>2, OthersKept, IdleRecord DEF QueryStep, Creates, Active, TypeInv
      <3>2. QED
        BY <1>2, <2>2, <3>1, OthersKept DEF Asks, BirthInv, Creates, Active, TypeInv
    <2>3. QED
      BY <2>1, <2>2
  <1>3. QED
    BY <1>1, <1>2 DEF BirthInv, QueryStep

LEMMA QueryFresh ==
  ASSUME StoreInv, NEW c \in Caller, QueryStep(c)
  PROVE  FreshInv'
  <1> USE DEF StoreInv
  <1> SUFFICES ASSUME NEW d \in Caller, Writes(d)'
               PROVE  (IsInjective(call[d].row.answers)
                         /\ ~Contains(call[d].row.answers, call[d].arg))'
    BY DEF FreshInv
  <1>1. CASE call'[d] = call[d]
    BY <1>1 DEF FreshInv, Writes, Active
  <1>2. CASE d = c /\ GoesOn(c)
    <2>1. call[c].session \in Session
      BY DEF TypeInv, CallRecord
    <2>2. IsInjective(call'[c].row.answers)
      BY <1>2, <2>1, OthersKept, StoreAssumption DEF AnsweredOnceInStore, ReadEither
    <2>3. QED
      BY <1>2, <2>2, OthersKept
  <1>3. CASE d = c /\ Asks(c)
    BY <1>3, OthersKept DEF FreshInv, Writes, Active, QueryStep
  <1>4. CASE d = c /\ Ends(c)
    BY <1>4, OthersKept, IdleRecord DEF Writes, Active
  <1>5. QED
    BY <1>1, <1>2, <1>3, <1>4, OthersKept DEF QueryStep

LEMMA QueryStores ==
  ASSUME StoreInv, NEW c \in Caller, QueryStep(c)
  PROVE  OneStore' /\ AnsweredOnceInStore'
  <1> USE DEF StoreInv
  <1>1. OneStore'
    <2> SUFFICES ASSUME NEW s \in Session, db'[s] # NoRow, mem'[s] # NoRow
                 PROVE  s \in split'
      BY DEF OneStore
    <2>1. CASE db[s] = NoRow
      BY <2>1 DEF QueryStep, StoresStep
    <2>2. CASE db[s] # NoRow /\ mem[s] = NoRow
      BY <2>2 DEF QueryStep, StoresStep, BirthInv
    <2>3. CASE db[s] # NoRow /\ mem[s] # NoRow
      BY <2>3 DEF QueryStep, StoresStep, OneStore
    <2>4. QED
      BY <2>1, <2>2, <2>3
  <1>2. Writes(c) => IsInjective(Append(call[c].row.answers, call[c].arg))
    <2> SUFFICES ASSUME Writes(c)
                 PROVE  IsInjective(Append(call[c].row.answers, call[c].arg))
      OBVIOUS
    <2>1. call[c].row.answers \in Seq(Question) /\ call[c].arg \in Question
      BY DEF CallInv, CallOK, Writes, Active, Row
    <2>2. QED
      BY <2>1, AppendedOnce DEF FreshInv
  <1>3. IsInjective(<<>>)
    BY DEF IsInjective
  <1>4. ASSUME NEW s \in Session, db'[s] # NoRow
        PROVE  IsInjective(db'[s].answers)
    BY <1>2, <1>3, <1>4 DEF AnsweredOnceInStore, QueryStep, StoresStep, Answers
  <1>5. ASSUME NEW s \in Session, mem'[s] # NoRow
        PROVE  IsInjective(mem'[s].answers)
    BY <1>2, <1>3, <1>5 DEF AnsweredOnceInStore, QueryStep, StoresStep, Answers
  <1>6. QED
    BY <1>1, <1>4, <1>5 DEF AnsweredOnceInStore

(* A session that is neither split nor gone keeps its answers, unless c,   *)
(* which holds its lock, adds one.                                         *)
LEMMA SessionKept ==
  ASSUME StoreInv, NEW c \in Caller, QueryStep(c), NEW s \in Session,
         ReadEither(s) # NoRow, s \notin split' \cup gone'
  PROVE  /\ ReadEither(s)' # NoRow
         /\ \/ ReadEither(s)'.answers = ReadEither(s).answers
            \/ /\ Writes(c) /\ s = call[c].session
               /\ ReadEither(s)'.answers = Append(call[c].row.answers, call[c].arg)
  <1>1. ~(Creates(c) /\ s = call[c].session)
    BY DEF StoreInv, BirthInv, ReadEither
  <1>2. CASE db[s] # NoRow
    BY <1>2 DEF QueryStep, StoresStep, Answers, ReadEither
  <1>3. CASE db[s] = NoRow
    BY <1>1, <1>3 DEF QueryStep, StoresStep, Answers, ReadEither
  <1>4. QED
    BY <1>2, <1>3

LEMMA QueryCurrent ==
  ASSUME StoreInv, NEW c \in Caller, QueryStep(c)
  PROVE  CurrentInv'
  <1> USE DEF StoreInv
  <1> SUFFICES ASSUME NEW d \in Caller, Writes(d)',
                      call'[d].session \notin split' \cup gone'
               PROVE  (/\ ReadEither(call[d].session) # NoRow
                       /\ ReadEither(call[d].session).answers = call[d].row.answers)'
    BY DEF CurrentInv
  <1>0. /\ split \subseteq split' /\ gone \subseteq gone'
        /\ call[d].session \in Session /\ call[c].session \in Session
    BY DEF QueryStep, StoresStep, TypeInv, CallRecord
  <1>1. CASE d # c
    <2>1. call'[d] = call[d] /\ Writes(d)
      BY <1>1, OthersKept DEF Writes, Active
    <2>2. /\ ReadEither(call[d].session) # NoRow
          /\ ReadEither(call[d].session).answers = call[d].row.answers
      BY <1>0, <2>1 DEF CurrentInv
    <2>3. ~(Writes(c) /\ call[c].session = call[d].session)
      BY <1>0, <1>1, <2>1 DEF LockInv, Writes
    <2>4. QED
      BY <1>0, <2>1, <2>2, <2>3, SessionKept
  <1>2. CASE d = c /\ GoesOn(c)
    <2> DEFINE s == call[c].session
    <2>1. db' = db /\ mem' = mem
      BY <1>2 DEF GoesOn
    <2>2. call'[c].row # NoRow /\ call'[c].session = s
          /\ (call'[c].row = ReadEither(s) \/ call'[c].row = mem[s])
      BY <1>2, OthersKept, StoreAssumption
    <2>3. s \in Session /\ s \notin split
      BY <1>0, <1>2, <2>2
    <2>4. ReadEither(s) = call'[c].row
      BY <2>2, <2>3 DEF ReadEither, OneStore
    <2>5. ReadEither(s)' = ReadEither(s)
      BY <1>2, <2>1, <2>2 DEF ReadEither
    <2>6. QED
      BY <1>2, <2>2, <2>4, <2>5
  <1>3. CASE d = c /\ Asks(c)
    BY <1>0, <1>3, OthersKept
       DEF Asks, ReadEither, CurrentInv, Writes, Active, QueryStep
  <1>4. CASE d = c /\ Ends(c)
    BY <1>4, OthersKept, IdleRecord DEF Writes, Active
  <1>5. QED
    BY <1>1, <1>2, <1>3, <1>4 DEF QueryStep

LEMMA QueryRecorded ==
  ASSUME StoreInv, NEW c \in Caller, QueryStep(c)
  PROVE  RecordedStays'
  <1> USE DEF StoreInv
  <1> SUFFICES ASSUME NEW s \in Session, NEW q \in Question, <<s, q>> \in recorded',
                      s \notin split' \cup gone'
               PROVE  ReadEither(s)' # NoRow /\ Contains(ReadEither(s)'.answers, q)
    BY QueryTypes DEF RecordedStays, TypeInv
  <1>0. split \subseteq split' /\ gone \subseteq gone' /\ call[c].session \in Session
    BY DEF QueryStep, StoresStep, TypeInv, CallRecord
  <1>1. Writes(c) =>
          \A x : Contains(Append(call[c].row.answers, call[c].arg), x) <=>
                  Contains(call[c].row.answers, x) \/ x = call[c].arg
    <2> SUFFICES ASSUME Writes(c)
                 PROVE  \A x : Contains(Append(call[c].row.answers, call[c].arg), x) <=>
                          Contains(call[c].row.answers, x) \/ x = call[c].arg
      OBVIOUS
    <2>1. call[c].row.answers \in Seq(Question) /\ call[c].arg \in Question
      BY DEF CallInv, CallOK, Writes, Active, Row
    <2>2. QED
      BY <2>1, AppendedOnce
  <1>2. CASE <<s, q>> \in recorded
    <2>1. ReadEither(s) # NoRow /\ Contains(ReadEither(s).answers, q)
      BY <1>0, <1>2 DEF RecordedStays
    <2>2. Writes(c) /\ s = call[c].session => Contains(call[c].row.answers, q)
      BY <1>0, <2>1 DEF CurrentInv
    <2>3. QED
      BY <1>1, <2>1, <2>2, SessionKept
  <1>3. CASE <<s, q>> \notin recorded
    <2>1. /\ Writes(c) /\ s = call[c].session /\ q = call[c].arg
          /\ \/ db[s] # NoRow
                /\ db'[s].answers = Append(call[c].row.answers, call[c].arg)
             \/ mem'[s] # NoRow
                /\ mem'[s].answers = Append(call[c].row.answers, call[c].arg)
      <3>1. Ends(c) /\ recorded' # recorded
        BY <1>3 DEF QueryStep, GoesOn, Asks
      <3>2. <<s, q>> \in recorded \cup {<<call[c].session, call[c].arg>>}
        BY <3>1 DEF Ends
      <3>3. s = call[c].session /\ q = call[c].arg
        BY <1>3, <3>2
      <3>4. QED
        BY <3>1, <3>3 DEF Ends
    <2>2. ReadEither(s)' # NoRow
          /\ ReadEither(s)'.answers = Append(call[c].row.answers, call[c].arg)
      BY <2>1, QueryStores DEF ReadEither, OneStore, QueryStep, StoresStep
    <2>3. QED
      BY <1>1, <2>1, <2>2
  <1>4. QED
    BY <1>2, <1>3

LEMMA QueryKeepsInv ==
  ASSUME StoreInv, NEW c \in Caller, QueryStep(c)
  PROVE  StoreInv'
  BY QueryTypes, QueryLock, QueryBirth, QueryFresh, QueryStores, QueryCurrent,
     QueryRecorded DEF StoreInv

-----------------------------------------------------------------------------
(* What the queries do                                                     *)

(* An update changes one column of a row.                                  *)
LEMMA UpdatedRow ==
  ASSUME StoreInv, NEW c \in Caller, Active(c), call[c].query = "update",
         NEW row \in Row
  PROVE  /\ Updated(row, c) \in Row
         /\ \/ Updated(row, c).answers = row.answers /\ ~Writes(c)
            \/ /\ Writes(c)
               /\ Updated(row, c).answers = Append(call[c].row.answers, call[c].arg)
  <1> USE DEF StoreInv
  <1>1. CASE Writes(c)
    <2>1. call[c].row.answers \in Seq(Question) /\ call[c].arg \in Question
      BY <1>1 DEF CallInv, CallOK, Writes, Active, Row
    <2>2. Append(call[c].row.answers, call[c].arg) \in Seq(Question)
      BY <2>1, AppendedOnce
    <2>3. Updated(row, c) = [row EXCEPT !.answers = Append(call[c].row.answers, call[c].arg)]
      BY <1>1 DEF Updated, Writes
    <2> HIDE DEF StoreInv
    <2>4. QED
      BY <1>1, <2>2, <2>3 DEF Row
  <1>2. CASE ~Writes(c)
    BY <1>2 DEF CallInv, CallOK, Writes, Updated, Row, Active
  <1>3. QED
    BY <1>1, <1>2

LEMMA CreatedRow ==
  ASSUME StoreInv, NEW c \in Caller, Creates(c)
  PROVE  NewRow(c) \in Row /\ NewRow(c).answers = <<>> /\ NewRow(c) # NoRow
  <1>1. call[c].arg \in User \cup {Nobody}
    BY DEF StoreInv, CallInv, CallOK, Creates, Active
  <1>2. NewRow(c) \in Row /\ NewRow(c).answers = <<>>
    BY <1>1 DEF NewRow, Row
  <1>3. QED
    BY <1>2, StoreAssumption

LEMMA ClaimedRows ==
  ASSUME StoreInv, NEW c \in Caller, Active(c), call[c].query = "claim",
         NEW store \in [Session -> Row \cup {NoRow}]
  PROVE  /\ Claim(store, c) \in [Session -> Row \cup {NoRow}]
         /\ \A x \in Session :
              /\ Claim(store, c)[x] = NoRow <=> store[x] = NoRow
              /\ store[x] # NoRow => Claim(store, c)[x].answers = store[x].answers
  <1>1. call[c].arg \in User
    BY DEF StoreInv, CallInv, CallOK, Active
  <1>2. ASSUME NEW x \in Session, store[x] # NoRow
        PROVE  /\ [store[x] EXCEPT !.owner = call[c].arg] \in Row
               /\ [store[x] EXCEPT !.owner = call[c].arg].answers = store[x].answers
    <2>1. store[x] \in Row
      BY <1>2
    <2>2. QED
      BY <1>1, <2>1 DEF Row
  <1>3. \A x \in Session : Claim(store, c)[x] = NoRow \/ Claim(store, c)[x] \in Row
    BY <1>2 DEF Claim, Free
  <1>4. ASSUME NEW x \in Session
        PROVE  /\ Claim(store, c)[x] = NoRow <=> store[x] = NoRow
               /\ store[x] # NoRow => Claim(store, c)[x].answers = store[x].answers
    <2>1. CASE store[x] = NoRow
      BY <2>1 DEF Claim, Free
    <2>2. CASE store[x] # NoRow
      BY <1>2, <2>2, StoreAssumption DEF Claim
    <2>3. QED
      BY <2>1, <2>2
  <1>5. QED
    BY <1>3, <1>4 DEF Claim

(* The database's part of a query.                                         *)
LEMMA ApplyStep ==
  ASSUME StoreInv, NEW c \in Caller, Active(c)
  PROVE  /\ Apply(c) \in [Session -> Row \cup {NoRow}]
         /\ call[c].query = "get" => Apply(c) = db
         /\ \A x \in Session :
              /\ db[x] # NoRow => Apply(c)[x] # NoRow
              /\ db[x] # NoRow =>
                   \/ Apply(c)[x].answers = db[x].answers
                   \/ /\ Writes(c) /\ x = call[c].session
                      /\ Apply(c)[x].answers = Append(call[c].row.answers, call[c].arg)
              /\ db[x] = NoRow /\ Apply(c)[x] # NoRow =>
                   Creates(c) /\ x = call[c].session /\ Apply(c)[x].answers = <<>>
         /\ Writes(c) /\ db[call[c].session] # NoRow =>
              Apply(c)[call[c].session].answers = Append(call[c].row.answers, call[c].arg)
  <1>0. db \in [Session -> Row \cup {NoRow}] /\ call[c].session \in Session
    BY DEF StoreInv, TypeInv, CallRecord
  <1>1. CASE call[c].query = "create"
    <2>1. Creates(c)
      BY <1>1 DEF Creates
    <2>2. Apply(c) = [db EXCEPT ![call[c].session] = NewRow(c)]
      BY <1>1 DEF Apply
    <2>3. db[call[c].session] = NoRow
      BY <2>1 DEF StoreInv, BirthInv
    <2>4. QED
      BY <1>0, <1>1, <2>1, <2>2, <2>3, CreatedRow DEF Writes
  <1>2. CASE call[c].query = "update" /\ db[call[c].session] # NoRow
    <2>1. Apply(c) = [db EXCEPT ![call[c].session] = Updated(db[call[c].session], c)]
      BY <1>2 DEF Apply
    <2>2. db[call[c].session] \in Row
      BY <1>0, <1>2
    <2>3. Updated(db[call[c].session], c) # NoRow
      BY <1>2, <2>2, UpdatedRow, StoreAssumption
    <2>4. QED
      BY <1>0, <1>2, <2>1, <2>2, <2>3, UpdatedRow
  <1>3. CASE call[c].query = "claim"
    <2>1. Apply(c) = Claim(db, c)
      BY <1>3 DEF Apply
    <2>2. QED
      BY <1>0, <1>3, <2>1, ClaimedRows DEF Writes
  <1>4. CASE /\ call[c].query \notin {"create", "claim"}
             /\ call[c].query = "update" => db[call[c].session] = NoRow
    <2>1. Apply(c) = db
      BY <1>4 DEF Apply
    <2>2. QED
      BY <1>0, <1>4, <2>1 DEF Writes
  <1>5. QED
    BY <1>1, <1>2, <1>3, <1>4

(* The memory copy's part.                                                 *)
MemoryStep(c) ==
  /\ mem' \in [Session -> Row \cup {NoRow}]
  /\ order' \in Seq(Session) /\ \A x \in Session : mem'[x] # NoRow => x \in ToSet(order')
  /\ gone \subseteq gone' /\ gone' \subseteq Session /\ claimed' \subseteq Session
  /\ \A x \in Session :
       /\ mem[x] # NoRow /\ mem'[x] # NoRow => Answers(mem, c, x)
       /\ mem[x] # NoRow /\ mem'[x] = NoRow => x \in gone'
       /\ mem[x] = NoRow /\ mem'[x] # NoRow =>
            Creates(c) /\ x = call[c].session /\ mem'[x].answers = <<>>

(* How a call that memory has answered goes on.                            *)
EndsInMemory(c) ==
  LET s == call[c].session IN
  /\ call' = [call EXCEPT ![c] = Idle]
  /\ holder' = IF call[c].task = "answer" THEN [holder EXCEPT ![s] = Nobody] ELSE holder
  /\ \/ recorded' = recorded
     \/ /\ Writes(c) /\ recorded' = recorded \cup {<<s, call[c].arg>>}
        /\ mem[s] # NoRow /\ mem'[s] # NoRow
        /\ mem'[s].answers = Append(call[c].row.answers, call[c].arg)

GoesOnFrom(c, row) ==
  /\ call[c].task = "answer" /\ call[c].query = "get" /\ row # NoRow
  /\ ~Contains(row.answers, call[c].arg)
  /\ \E by \in {"database", "memory"} :
       call' = [call EXCEPT ![c] = [@ EXCEPT !.at = "asking", !.row = row,
                                             !.by = by, !.query = "update"]]
  /\ UNCHANGED <<holder, recorded>>

(* A return records an answer only if it is recordAnswer's, and done.      *)
LEMMA Returned ==
  ASSUME NEW c \in Caller, NEW out, NEW page, NEW by, Return(c, out, page, by)
  PROVE  /\ call' = [call EXCEPT ![c] = Idle]
         /\ holder' = IF call[c].task = "answer"
                        THEN [holder EXCEPT ![call[c].session] = Nobody] ELSE holder
         /\ ~(call[c].task = "answer" /\ out = "done") => recorded' = recorded
         /\ call[c].task = "answer" /\ out = "done" =>
              recorded' = recorded \cup {<<call[c].session, call[c].arg>>}
  BY DEF Return

LEMMA ReadStep ==
  ASSUME NEW c \in Caller, StoreInv, Active(c), call[c].query = "get",
         NEW row, NEW by \in {"database", "memory"}, Read(c, row, by)
  PROVE  \/ /\ call' = [call EXCEPT ![c] = Idle] /\ recorded' = recorded
            /\ holder' = IF call[c].task = "answer"
                           THEN [holder EXCEPT ![call[c].session] = Nobody] ELSE holder
         \/ GoesOnFrom(c, row)
  <1>1. call[c].task \in {"answer", "look"}
    BY DEF StoreInv, CallInv, CallOK, Active
  <1>2. CASE row = NoRow
    <2>1. Return(c, "not_found", {}, by)
      BY <1>2 DEF Read
    <2>2. QED
      BY <2>1, Returned
  <1>3. CASE row # NoRow /\ call[c].task = "look"
    <2>1. Return(c, "done", {}, by)
      BY <1>3 DEF Read
    <2>2. QED
      BY <1>3, <2>1, Returned
  <1>4. CASE row # NoRow /\ call[c].task = "answer" /\ Contains(row.answers, call[c].arg)
    <2>1. Return(c, "duplicate", {}, by)
      BY <1>4 DEF Read
    <2>2. QED
      BY <2>1, Returned
  <1>5. CASE row # NoRow /\ call[c].task = "answer" /\ ~Contains(row.answers, call[c].arg)
    BY <1>5 DEF Read, GoesOnFrom
  <1>6. QED
    BY <1>1, <1>2, <1>3, <1>4, <1>5

LEMMA CreateInMemoryStep ==
  ASSUME StoreInv, NEW c \in Caller, Creates(c), CreateInMemory(c)
  PROVE  MemoryStep(c) /\ EndsInMemory(c)
  <1> DEFINE s == call[c].session
             keys == Append(order, s)
  <1>0. /\ mem \in [Session -> Row \cup {NoRow}] /\ order \in Seq(Session)
        /\ s \in Session /\ mem[s] = NoRow /\ gone \subseteq Session
        /\ claimed \subseteq Session /\ call[c].task = "create"
        /\ \A x \in Session : mem[x] # NoRow => x \in ToSet(order)
    BY DEF StoreInv, TypeInv, CallRecord, BirthInv, CallInv, CallOK, Creates, Active
  <1>1. keys \in Seq(Session) /\ ToSet(keys) = ToSet(order) \cup {s}
    BY <1>0, AppendedOnce
  <1>2. Bounded(keys) \in Seq(Session) /\ ToSet(Bounded(keys)) \subseteq ToSet(keys)
    BY <1>1, BoundKeeps
  <1>3. ToSet(keys) \subseteq Session
    BY <1>1 DEF ToSet
  <1>4. /\ order' = Bounded(keys) /\ gone' = gone \cup (ToSet(keys) \ ToSet(Bounded(keys)))
        /\ mem' = [x \in Session |-> IF x \notin ToSet(Bounded(keys)) THEN NoRow
                                      ELSE IF x = s THEN NewRow(c) ELSE mem[x]]
        /\ Return(c, "done", {}, "memory") /\ UNCHANGED claimed
    BY DEF CreateInMemory
  <1> HIDE DEF keys
  <1>5. NewRow(c) \in Row /\ NewRow(c).answers = <<>>
    BY CreatedRow
  <1>6. mem' \in [Session -> Row \cup {NoRow}]
    BY <1>0, <1>4, <1>5
  <1>7. ASSUME NEW x \in Session
        PROVE  /\ mem'[x] # NoRow => x \in ToSet(order')
               /\ mem[x] # NoRow /\ mem'[x] # NoRow => mem'[x] = mem[x]
               /\ mem[x] # NoRow /\ mem'[x] = NoRow => x \in gone'
               /\ mem[x] = NoRow /\ mem'[x] # NoRow =>
                    x = s /\ mem'[x].answers = <<>>
    BY <1>0, <1>1, <1>4, <1>5
  <1>8. MemoryStep(c)
    BY <1>0, <1>2, <1>3, <1>4, <1>6, <1>7 DEF MemoryStep, Answers
  <1>9. EndsInMemory(c)
    BY <1>0, <1>4, Returned DEF EndsInMemory
  <1>10. QED
    BY <1>8, <1>9

LEMMA UpdateInMemoryStep ==
  ASSUME StoreInv, NEW c \in Caller, Active(c), call[c].query = "update",
         ApplyToMemory(c), UNCHANGED <<gone, claimed>>
  PROVE  MemoryStep(c) /\ EndsInMemory(c)
  <1> DEFINE s == call[c].session
  <1>0. /\ mem \in [Session -> Row \cup {NoRow}] /\ order \in Seq(Session)
        /\ s \in Session /\ gone \subseteq Session /\ claimed \subseteq Session
        /\ \A x \in Session : mem[x] # NoRow => x \in ToSet(order)
    BY DEF StoreInv, TypeInv, CallRecord
  <1>1. CASE mem[s] = NoRow
    <2>1. mem' = mem /\ order' = order /\ Return(c, "not_found", {}, "memory")
      BY <1>1 DEF ApplyToMemory
    <2>2. MemoryStep(c)
      BY <1>0, <2>1 DEF MemoryStep, Answers
    <2>3. EndsInMemory(c)
      BY <2>1, Returned DEF EndsInMemory
    <2>4. QED
      BY <2>2, <2>3
  <1>2. CASE mem[s] # NoRow
    <2>1. /\ mem' = [mem EXCEPT ![s] = Updated(mem[s], c)] /\ order' = order
          /\ Return(c, "done", {}, "memory")
      BY <1>2 DEF ApplyToMemory
    <2>2. mem[s] \in Row
      BY <1>0, <1>2
    <2>3. Updated(mem[s], c) \in Row /\ Updated(mem[s], c) # NoRow
      BY <2>2, UpdatedRow, StoreAssumption
    <2>4. \/ Updated(mem[s], c).answers = mem[s].answers /\ ~Writes(c)
          \/ /\ Writes(c)
             /\ Updated(mem[s], c).answers = Append(call[c].row.answers, call[c].arg)
      BY <2>2, UpdatedRow
    <2>5. MemoryStep(c)
      <3>1. /\ mem' \in [Session -> Row \cup {NoRow}]
            /\ mem'[s] = Updated(mem[s], c) /\ \A x \in Session \ {s} : mem'[x] = mem[x]
        BY <1>0, <2>1, <2>3
      <3>2. \A x \in Session : mem'[x] # NoRow <=> mem[x] # NoRow
        BY <1>2, <2>3, <3>1
      <3>3. \A x \in Session : Answers(mem, c, x)
        BY <2>4, <3>1 DEF Answers
      <3>4. QED
        BY <1>0, <2>1, <3>1, <3>2, <3>3 DEF MemoryStep
    <2>6. call[c].task = "answer" => Writes(c)
      BY DEF Writes
    <2>7. EndsInMemory(c)
      BY <1>0, <1>2, <2>1, <2>3, <2>4, <2>6, Returned DEF EndsInMemory
    <2>8. QED
      BY <2>5, <2>7
  <1>3. QED
    BY <1>1, <1>2

LEMMA FromMemoryStep ==
  ASSUME StoreInv, NEW c \in Caller, Active(c), FromMemory(c)
  PROVE  /\ MemoryStep(c)
         /\ EndsInMemory(c) \/ (mem' = mem /\ GoesOnFrom(c, mem[call[c].session]))
  <1>0. /\ mem \in [Session -> Row \cup {NoRow}] /\ order \in Seq(Session)
        /\ call[c].session \in Session /\ call[c].ids \subseteq Session
        /\ gone \subseteq Session /\ claimed \subseteq Session
        /\ \A x \in Session : mem[x] # NoRow => x \in ToSet(order)
    BY DEF StoreInv, TypeInv, CallRecord
  <1>1. CASE call[c].query = "create" /\ CreateInMemory(c)
    BY <1>1, CreateInMemoryStep DEF Creates
  <1>2. CASE call[c].query = "get" /\ Read(c, mem[call[c].session], "memory")
             /\ UNCHANGED <<mem, order, gone, claimed>>
    <2>1. MemoryStep(c)
      BY <1>0, <1>2 DEF MemoryStep, Answers
    <2>2. QED
      BY <1>2, <2>1, ReadStep DEF EndsInMemory
  <1>3. CASE call[c].query = "update" /\ ApplyToMemory(c) /\ UNCHANGED <<gone, claimed>>
    BY <1>3, UpdateInMemoryStep
  <1>4. CASE /\ call[c].query = "claim" /\ mem' = Claim(mem, c)
             /\ claimed' = claimed \cup Free(mem, call[c].ids)
             /\ Return(c, "done", {}, "memory") /\ UNCHANGED <<order, gone>>
    <2>1. claimed' \subseteq Session
      BY <1>0, <1>4 DEF Free
    <2>2. MemoryStep(c)
      BY <1>0, <1>4, <2>1, ClaimedRows DEF MemoryStep, Answers
    <2>3. call[c].task = "claim"
      BY <1>4 DEF StoreInv, CallInv, CallOK, Active
    <2>4. QED
      BY <1>4, <2>2, <2>3, Returned DEF EndsInMemory
  <1>5. CASE call[c].query = "list" /\ Return(c, "done", Completed(mem, c), "memory")
             /\ UNCHANGED <<mem, order, gone, claimed>>
    <2>1. MemoryStep(c)
      BY <1>0, <1>5 DEF MemoryStep, Answers
    <2>2. call[c].task \in {"list", "email"}
      BY <1>5 DEF StoreInv, CallInv, CallOK, Active
    <2>3. QED
      BY <1>5, <2>1, <2>2, Returned DEF EndsInMemory
  <1>6. QED
    BY <1>1, <1>2, <1>3, <1>4, <1>5 DEF FromMemory

-----------------------------------------------------------------------------
(* The actions                                                             *)

LEMMA AskKeeps ==
  ASSUME StoreInv, NEW c \in Caller, Ask(c)
  PROVE  StoreInv'
  <1>0. /\ Active(c) /\ UNCHANGED <<db, born, split>>
        /\ db \in [Session -> Row \cup {NoRow}] /\ split \subseteq Session
    BY DEF Ask, Active, StoreInv, TypeInv
  <1>1. CASE open
    <2>1. FromMemory(c)
      BY <1>1 DEF Ask
    <2>2. /\ MemoryStep(c)
          /\ EndsInMemory(c) \/ (mem' = mem /\ GoesOnFrom(c, mem[call[c].session]))
      BY <1>0, <2>1, FromMemoryStep
    <2>3. StoresStep(c)
      BY <1>0, <2>2 DEF MemoryStep, StoresStep, Answers
    <2>4. Ends(c) \/ GoesOn(c)
      <3>1. CASE EndsInMemory(c)
        BY <3>1 DEF EndsInMemory, Ends
      <3>2. CASE mem' = mem /\ GoesOnFrom(c, mem[call[c].session])
        <4>1. mem[call[c].session] \in Row
          BY <3>2 DEF GoesOnFrom, StoreInv, TypeInv, CallRecord
        <4>2. QED
          BY <1>0, <3>2, <4>1 DEF GoesOnFrom, GoesOn
      <3>3. QED
        BY <2>2, <3>1, <3>2
    <2>5. QED
      BY <1>0, <2>3, <2>4, QueryKeepsInv DEF QueryStep
  <1>2. CASE ~open
    <2>1. /\ call' = [call EXCEPT ![c].at = "querying"] /\ call[c].at = "asking"
          /\ UNCHANGED <<db, mem, order, holder, gone, recorded, claimed, split>>
      BY <1>2 DEF Ask
    <2>2. StoresStep(c)
      BY <2>1 DEF StoresStep, Answers, StoreInv, TypeInv
    <2>3. QED
      BY <1>0, <2>1, <2>2, QueryKeepsInv DEF QueryStep, Asks
  <1>3. QED
    BY <1>1, <1>2

LEMMA UnreachableKeeps ==
  ASSUME StoreInv, NEW c \in Caller, Unreachable(c)
  PROVE  StoreInv'
  <1> DEFINE s == call[c].session
  <1>0. /\ Active(c) /\ born' = born /\ FromMemory(c) /\ db' \in {db, Apply(c)}
        /\ split' = IF call[c].query = "create" /\ db' # db THEN split \cup {s} ELSE split
        /\ db \in [Session -> Row \cup {NoRow}] /\ split \subseteq Session /\ s \in Session
    BY DEF Unreachable, Active, StoreInv, TypeInv, CallRecord
  <1>1. /\ MemoryStep(c)
        /\ EndsInMemory(c) \/ (mem' = mem /\ GoesOnFrom(c, mem[s]))
    BY <1>0, FromMemoryStep
  <1>2. /\ db' \in [Session -> Row \cup {NoRow}] /\ split' \subseteq Session
        /\ \A x \in Session :
             /\ db[x] # NoRow => db'[x] # NoRow /\ Answers(db, c, x)
             /\ db[x] = NoRow /\ db'[x] # NoRow =>
                  Creates(c) /\ x = s /\ db'[x].answers = <<>> /\ x \in split'
    <2>1. CASE db' = db
      BY <1>0, <2>1 DEF Answers
    <2>2. CASE db' = Apply(c)
      BY <1>0, <2>2, ApplyStep DEF Answers, Creates
    <2>3. QED
      BY <1>0, <2>1, <2>2
  <1>3. StoresStep(c)
    BY <1>0, <1>1, <1>2 DEF MemoryStep, StoresStep
  <1>4. Ends(c) \/ GoesOn(c)
    <2>1. CASE EndsInMemory(c)
      BY <2>1 DEF EndsInMemory, Ends
    <2>2. CASE mem' = mem /\ GoesOnFrom(c, mem[s])
      <3>1. mem[s] \in Row
        BY <2>2 DEF GoesOnFrom, StoreInv, TypeInv, CallRecord
      <3>2. db' = db
        BY <1>0, <2>2, ApplyStep DEF GoesOnFrom
      <3>3. QED
        BY <2>2, <3>1, <3>2 DEF GoesOnFrom, GoesOn
    <2>3. QED
      BY <1>1, <2>1, <2>2
  <1>5. QED
    BY <1>0, <1>3, <1>4, QueryKeepsInv DEF QueryStep

LEMMA AnsweredKeeps ==
  ASSUME StoreInv, NEW c \in Caller, Answered(c)
  PROVE  StoreInv'
  <1> DEFINE s == call[c].session
  <1>0. /\ Active(c) /\ db' = Apply(c) /\ UNCHANGED <<mem, order, born, split, gone>>
        /\ TypeInv /\ s \in Session /\ call[c].ids \subseteq Session
    BY DEF Answered, Active, StoreInv, TypeInv, CallRecord
  <1>1. claimed' \subseteq Session
    BY <1>0 DEF Answered, TypeInv, Free
  <1>2. StoresStep(c)
    <2>1. \A x \in Session : Creates(c) /\ x = s => mem[x] = NoRow
      BY DEF StoreInv, BirthInv
    <2>2. QED
      BY <1>0, <1>1, <2>1, ApplyStep DEF StoresStep, Answers, TypeInv
  <1>3. Ends(c) \/ GoesOn(c)
    <2>1. CASE call[c].query = "get"
      <3>1. Read(c, ReadEither(s), "database")
        BY <2>1 DEF Answered
      <3>2. db' = db
        BY <1>0, <2>1, ApplyStep
      <3>3. ReadEither(s) \in Row \cup {NoRow}
        BY <1>0 DEF ReadEither, TypeInv
      <3>4. CASE GoesOnFrom(c, ReadEither(s))
        BY <1>0, <3>2, <3>3, <3>4 DEF GoesOnFrom, GoesOn
      <3>5. CASE ~GoesOnFrom(c, ReadEither(s))
        BY <1>0, <2>1, <3>1, <3>5, ReadStep DEF Ends
      <3>6. QED
        BY <3>4, <3>5
    <2>2. CASE call[c].query = "list"
      <3>1. Return(c, "done", Completed(db, c), "database") /\ call[c].task # "answer"
        BY <1>0, <2>2 DEF Answered, StoreInv, CallInv, CallOK, Active
      <3>2. QED
        BY <3>1, Returned DEF Ends
    <2>3. CASE call[c].query = "update" /\ db[s] = NoRow
      <3>1. Return(c, "missing", {}, "database")
        BY <2>3 DEF Answered
      <3>2. QED
        BY <3>1, Returned DEF Ends
    <2>4. CASE call[c].query = "update" /\ db[s] # NoRow
      <3>1. Return(c, "done", {}, "database")
        BY <2>4 DEF Answered
      <3>2. CASE call[c].task = "answer"
        <4>1. Writes(c)
          BY <1>0, <2>4, <3>2 DEF Writes
        <4>2. db'[s].answers = Append(call[c].row.answers, call[c].arg)
          BY <1>0, <2>4, <4>1, ApplyStep
        <4>3. QED
          BY <2>4, <3>1, <3>2, <4>1, <4>2, Returned DEF Ends
      <3>3. CASE call[c].task # "answer"
        BY <3>1, <3>3, Returned DEF Ends
      <3>4. QED
        BY <3>2, <3>3
    <2>5. CASE call[c].query \in {"create", "claim"}
      <3>1. Return(c, "done", {}, "database") /\ call[c].task # "answer"
        BY <1>0, <2>5 DEF Answered, StoreInv, CallInv, CallOK, Active
      <3>2. QED
        BY <3>1, Returned DEF Ends
    <2>6. QED
      BY <1>0, <2>1, <2>2, <2>3, <2>4, <2>5 DEF TypeInv, CallRecord, Query
  <1>4. QED
    BY <1>0, <1>2, <1>3, QueryKeepsInv DEF QueryStep

LEMMA RefusedKeeps ==
  ASSUME StoreInv, NEW c \in Caller, Refused(c)
  PROVE  StoreInv'
  <1>1. /\ Active(c) /\ Return(c, "error", {}, "database")
        /\ UNCHANGED <<db, mem, order, born, split, gone, claimed>>
    BY DEF Refused, Active
  <1>2. StoresStep(c)
    BY <1>1 DEF StoresStep, Answers, StoreInv, TypeInv
  <1>3. Ends(c)
    BY <1>1, Returned DEF Ends
  <1>4. QED
    BY <1>1, <1>2, <1>3, QueryKeepsInv DEF QueryStep

(* A call that begins makes its first query, or waits for the lock; it     *)
(* neither holds the lock nor is about to write.                           *)
LEMMA Begun ==
  ASSUME TypeInv, NEW c \in Caller, NEW task \in Task, NEW s \in Session, NEW arg,
         NEW ids \in SUBSET Session, Starts(c, task, s, arg, ids),
         arg \in User \cup {Nobody} \cup Question,
         task = "create" => arg \in User \cup {Nobody},
         task = "claim" => arg \in User, task = "answer" => arg \in Question
  PROVE  /\ call' \in [Caller -> CallRecord]
         /\ \A d \in Caller \ {c} : call'[d] = call[d]
         /\ CallOK(c)' /\ ~Writes(c)'
         /\ ~(call'[c].task = "answer" /\ Active(c)')
         /\ Creates(c)' => task = "create" /\ call'[c].session = s
  <1> DEFINE next ==
        [Idle EXCEPT !.at = IF task = "answer" THEN "queued" ELSE "asking",
           !.task = task, !.session = s, !.arg = arg, !.ids = ids,
           !.query = CASE task = "create" -> "create"  [] task = "end" -> "update"
                       [] task = "claim" -> "claim"
                       [] task \in {"list", "email"} -> "list" [] OTHER -> "get",
           !.known = IF task = "email" THEN claimed ELSE {}]
             query == CASE task = "create" -> "create"  [] task = "end" -> "update"
                       [] task = "claim" -> "claim"
                       [] task \in {"list", "email"} -> "list" [] OTHER -> "get"
  <1>1. query \in Query
    BY DEF Query
  <1>2. /\ next \in CallRecord /\ next.task = task /\ next.session = s
        /\ next.arg = arg /\ next.query = query
        /\ next.at = IF task = "answer" THEN "queued" ELSE "asking"
    <2> HIDE DEF query
    <2>1. next = [Idle EXCEPT !.at = IF task = "answer" THEN "queued" ELSE "asking",
                    !.task = task, !.session = s, !.arg = arg, !.ids = ids,
                    !.query = query, !.known = IF task = "email" THEN claimed ELSE {}]
      BY DEF query
    <2> HIDE DEF next
    <2>2. claimed \in SUBSET Session
      BY DEF TypeInv
    <2>3. QED
      BY <1>1, <2>1, <2>2, IdleRecord DEF CallRecord
  <1>3. call \in [Caller -> CallRecord] /\ call' = [call EXCEPT ![c] = next]
    BY DEF TypeInv, Starts
  <1>4. /\ query = "create" <=> task = "create"
        /\ query = "update" => task = "end"
        /\ query = "get" => task \in {"answer", "look"}
        /\ query = "claim" => task = "claim"
        /\ query = "list" => task \in {"list", "email"}
        /\ task = "answer" => query = "get"
    BY DEF Task
  <1> HIDE DEF next, query
  <1>5. /\ call' \in [Caller -> CallRecord] /\ call'[c] = next
        /\ \A d \in Caller \ {c} : call'[d] = call[d]
    BY <1>2, <1>3
  <1>6. ~Writes(c)' /\ ~(call'[c].task = "answer" /\ Active(c)')
    BY <1>2, <1>4, <1>5 DEF Writes, Active
  <1>7. CallOK(c)'
    BY <1>2, <1>4, <1>5, <1>6 DEF CallOK
  <1>8. QED
    BY <1>2, <1>4, <1>5, <1>6, <1>7 DEF Creates

(* Steps that leave the stores, the locks and the history alone.           *)
LEMMA CallsChange ==
  ASSUME StoreInv, NEW c \in Caller,
         UNCHANGED <<db, mem, order, holder, split, gone, recorded, claimed>>,
         call[c].at \in {"idle", "queued"}, call' \in [Caller -> CallRecord],
         \A d \in Caller \ {c} : call'[d] = call[d],
         CallOK(c)', ~Writes(c)', ~(call'[c].task = "answer" /\ Active(c)'),
         born' \subseteq Session, born \subseteq born',
         \A s \in born' \ born : Creates(c)' /\ call'[c].session = s,
         Creates(c)' => call'[c].session \in born' \ born
  PROVE  StoreInv'
  <1> USE DEF StoreInv
  <1>1. TypeInv'
    BY DEF TypeInv
  <1>2. CallInv'
    BY DEF CallInv, CallOK, Writes, Active
  <1>3. LockInv'
    BY DEF LockInv, Active
  <1>4. BirthInv'
    <2>1. call[c].session \in Session /\ call'[c].session \in Session
      BY DEF TypeInv, CallRecord
    <2>2. \A d \in Caller \ {c} : (Creates(d)' <=> Creates(d)) /\ call'[d] = call[d]
      BY DEF Creates, Active
    <2>3. QED
      BY <2>1, <2>2 DEF BirthInv
  <1>5. FreshInv' /\ CurrentInv'
    BY DEF FreshInv, CurrentInv, Writes, Active, ReadEither
  <1>6. OneStore' /\ AnsweredOnceInStore' /\ RecordedStays'
    BY DEF OneStore, AnsweredOnceInStore, RecordedStays, ReadEither
  <1>7. QED
    BY <1>1, <1>2, <1>3, <1>4, <1>5, <1>6

LEMMA BeginKeeps ==
  ASSUME StoreInv, NEW c \in Caller, Begin(c)
  PROVE  StoreInv'
  <1>0. /\ UNCHANGED <<db, mem, order, holder, split, gone, recorded, claimed>>
        /\ call[c].at = "idle" /\ TypeInv
        /\ born \subseteq Session /\ Idle.session \in Session
    BY IdleRecord DEF Begin, StoreInv, TypeInv, CallRecord
  <1>1. ASSUME NEW s \in Session \ born, NEW u \in User \cup {Nobody},
               Starts(c, "create", s, u, {}), born' = born \cup {s}
        PROVE  StoreInv'
    <2>1. born' \subseteq Session
      BY <1>0, <1>1
    <2>2. /\ call' \in [Caller -> CallRecord] /\ \A d \in Caller \ {c} : call'[d] = call[d]
          /\ CallOK(c)' /\ ~Writes(c)' /\ ~(call'[c].task = "answer" /\ Active(c)')
          /\ Creates(c)' => call'[c].session = s
      BY <1>0, <1>1, Begun DEF Task
    <2>3. Creates(c)' /\ call'[c].session = s
      <3>1. call'[c] = [Idle EXCEPT !.at = "asking", !.task = "create", !.session = s,
                          !.arg = u, !.ids = {}, !.query = "create", !.known = {}]
        BY <1>0, <1>1 DEF Starts, TypeInv
      <3>2. QED
        BY <2>2, <3>1, IdleRecord DEF Creates, Active, CallRecord
    <2>4. QED
      BY <1>0, <1>1, <2>1, <2>2, <2>3, CallsChange
  <1>2. ASSUME NEW task \in Task \ {"create"}, NEW s \in Session,
               NEW arg \in User \cup {Nobody} \cup Question, NEW ids \in SUBSET Session,
               Starts(c, task, s, arg, ids), born' = born,
               task = "claim" => arg \in User, task = "answer" => arg \in Question
        PROVE  StoreInv'
    <2>1. /\ call' \in [Caller -> CallRecord] /\ \A d \in Caller \ {c} : call'[d] = call[d]
          /\ CallOK(c)' /\ ~Writes(c)' /\ ~(call'[c].task = "answer" /\ Active(c)')
          /\ ~Creates(c)'
      BY <1>0, <1>2, Begun
    <2>2. QED
      BY <1>0, <1>2, <2>1, CallsChange
  <1>3. ASSUME NEW s \in born, born' = born,
               \/ \E task \in {"look", "end"} : Starts(c, task, s, Nobody, {})
               \/ \E q \in Question : Starts(c, "answer", s, q, {})
        PROVE  StoreInv'
    <2>1. s \in Session /\ {} \in SUBSET Session
      BY <1>0
    <2>2. ASSUME NEW task \in {"look", "end"}, Starts(c, task, s, Nobody, {})
          PROVE  StoreInv'
      <3>1. task \in Task \ {"create"} /\ task # "claim" /\ task # "answer"
        BY DEF Task
      <3>2. QED
        BY <1>2, <1>3, <2>1, <2>2, <3>1
    <2>3. ASSUME NEW q \in Question, Starts(c, "answer", s, q, {})
          PROVE  StoreInv'
      <3>1. "answer" \in Task \ {"create"} /\ "answer" # "claim"
        BY DEF Task
      <3>2. QED
        BY <1>2, <1>3, <2>1, <2>3, <3>1
    <2>4. QED
      BY <1>3, <2>2, <2>3
  <1>4. ASSUME NEW u \in User, born' = born,
               \/ Starts(c, "list", Idle.session, u, {})
               \/ \E ids \in SUBSET born \ {{}} :
                    Starts(c, "claim", Idle.session, u, ids)
        PROVE  StoreInv'
    <2>1. {} \in SUBSET Session
      OBVIOUS
    <2>2. ASSUME Starts(c, "list", Idle.session, u, {})
          PROVE  StoreInv'
      <3>1. "list" \in Task \ {"create"} /\ "list" # "claim" /\ "list" # "answer"
        BY DEF Task
      <3>2. QED
        BY <1>0, <1>2, <1>4, <2>1, <2>2, <3>1
    <2>3. ASSUME NEW ids \in SUBSET born, Starts(c, "claim", Idle.session, u, ids)
          PROVE  StoreInv'
      <3>1. "claim" \in Task \ {"create"} /\ "claim" # "answer"
        BY DEF Task
      <3>2. ids \in SUBSET Session
        BY <1>0
      <3>3. QED
        BY <1>0, <1>2, <1>4, <2>3, <3>1, <3>2
    <2>4. QED
      BY <1>4, <2>2, <2>3
  <1>5. ASSUME Starts(c, "email", Idle.session, Nobody, {}), born' = born
        PROVE  StoreInv'
    <2>1. /\ "email" \in Task \ {"create"} /\ "email" # "claim" /\ "email" # "answer"
          /\ {} \in SUBSET Session /\ Nobody \in User \cup {Nobody} \cup Question
      BY DEF Task
    <2>2. QED
      BY <1>0, <1>2, <1>5, <2>1
  <1>6. QED
    BY <1>1, <1>3, <1>4, <1>5 DEF Begin

LEMMA EnterKeeps ==
  ASSUME StoreInv, NEW c \in Caller, Enter(c)
  PROVE  StoreInv'
  <1> DEFINE s == call[c].session
             next == [call[c] EXCEPT !.at = "asking"]
  <1> USE DEF StoreInv
  <1>0. /\ call[c].at = "queued" /\ holder[s] = Nobody /\ s \in Session
        /\ call' = [call EXCEPT ![c] = next] /\ holder' = [holder EXCEPT ![s] = c]
        /\ UNCHANGED <<db, mem, order, open, born, split, gone, recorded, claimed>>
        /\ call \in [Caller -> CallRecord] /\ call[c] \in CallRecord
        /\ holder \in [Session -> Caller \cup {Nobody}]
        /\ call[c].task = "answer" /\ call[c].query = "get" /\ CallOK(c)
    BY DEF Enter, TypeInv, CallRecord, CallInv, CallOK
  <1>1. /\ next \in CallRecord /\ next.at = "asking" /\ next.session = s
        /\ next.task = "answer" /\ next.query = "get" /\ next.arg = call[c].arg
    BY <1>0 DEF CallRecord
  <1> HIDE DEF next
  <1>2. /\ call' \in [Caller -> CallRecord] /\ call'[c] = next
        /\ \A d \in Caller \ {c} : call'[d] = call[d]
    BY <1>0, <1>1
  <1>3. TypeInv'
    BY <1>0, <1>2 DEF TypeInv
  <1>4. CallInv'
    BY <1>0, <1>1, <1>2 DEF CallInv, CallOK, Writes, Active
  <1>5. LockInv'
    <2> SUFFICES ASSUME NEW x \in Session, NEW d \in Caller
                 PROVE  (holder[x] = d <=> call[d].session = x
                           /\ call[d].task = "answer" /\ Active(d))'
      BY DEF LockInv
    <2>1. holder'[x] = IF x = s THEN c ELSE holder[x]
      BY <1>0
    <2>2. holder[x] = d <=> call[d].session = x /\ call[d].task = "answer" /\ Active(d)
      BY DEF LockInv
    <2>3. CASE d = c
      BY <1>0, <1>1, <1>2, <2>1, <2>2, <2>3 DEF Active
    <2>4. CASE d # c
      BY <1>0, <1>2, <2>1, <2>2, <2>4, StoreAssumption DEF Active
    <2>5. QED
      BY <2>3, <2>4
  <1>6. BirthInv' /\ FreshInv' /\ CurrentInv'
    <2>1. ~Creates(c)' /\ ~Writes(c)'
      BY <1>1, <1>2 DEF Creates, Writes
    <2>2. QED
      BY <1>0, <1>2, <2>1 DEF BirthInv, FreshInv, CurrentInv, Creates, Writes, Active, ReadEither
  <1>7. OneStore' /\ AnsweredOnceInStore' /\ RecordedStays'
    BY <1>0 DEF OneStore, AnsweredOnceInStore, RecordedStays, ReadEither
  <1>8. QED
    BY <1>3, <1>4, <1>5, <1>6, <1>7

LEMMA RestartKeeps ==
  ASSUME StoreInv, Restart
  PROVE  StoreInv'
  <1> USE DEF StoreInv
  <1>0. /\ mem' = [s \in Session |-> NoRow] /\ order' = <<>>
        /\ gone' = gone \cup ToSet(order) /\ call' = [c \in Caller |-> Idle]
        /\ holder' = [s \in Session |-> Nobody]
        /\ UNCHANGED <<db, born, split, recorded, claimed>>
        /\ \A c \in Caller : call'[c].at = "idle"
    BY IdleRecord DEF Restart
  <1>1. TypeInv'
    BY <1>0, IdleRecord DEF TypeInv, ToSet
  <1>2. CallInv' /\ FreshInv' /\ CurrentInv'
    BY <1>0 DEF CallInv, FreshInv, CurrentInv, Writes, Active
  <1>3. LockInv'
    BY <1>0, StoreAssumption DEF LockInv, Active
  <1>4. BirthInv'
    BY <1>0 DEF BirthInv, Creates, Active
  <1>5. OneStore' /\ AnsweredOnceInStore'
    BY <1>0 DEF OneStore, AnsweredOnceInStore
  <1>6. RecordedStays'
    <2> SUFFICES ASSUME NEW r \in recorded, r[1] \notin split \cup gone \cup ToSet(order)
                 PROVE  ReadEither(r[1])' # NoRow /\ Contains(ReadEither(r[1])'.answers, r[2])
      BY <1>0 DEF RecordedStays
    <2>1. r[1] \in Session
      BY DEF TypeInv
    <2>2. mem[r[1]] = NoRow
      BY <2>1 DEF TypeInv
    <2>3. QED
      BY <1>0, <2>1, <2>2 DEF RecordedStays, ReadEither
  <1>7. QED
    BY <1>1, <1>2, <1>3, <1>4, <1>5, <1>6

LEMMA CooledDownKeeps ==
  ASSUME StoreInv, CooledDown \/ UNCHANGED vars
  PROVE  StoreInv'
  <1>1. UNCHANGED <<db, mem, order, holder, call, born, split, gone, recorded, claimed>>
    BY DEF CooledDown, vars
  <1>2. QED
    BY <1>1 DEF StoreInv, TypeInv, CallInv, CallOK, LockInv, BirthInv, FreshInv, CurrentInv,
         OneStore, AnsweredOnceInStore, RecordedStays, ReadEither, Creates, Writes, Active

LEMMA InitStore == Init => StoreInv
  BY IdleRecord, StoreAssumption
     DEF Init, StoreInv, TypeInv, CallInv, LockInv, BirthInv, FreshInv, CurrentInv,
         OneStore, AnsweredOnceInStore, RecordedStays, Creates, Writes, Active, ToSet

LEMMA NextStore ==
  ASSUME StoreInv, [Next]_vars
  PROVE  StoreInv'
  BY AskKeeps, UnreachableKeeps, AnsweredKeeps, RefusedKeeps, BeginKeeps, EnterKeeps,
     RestartKeeps, CooledDownKeeps DEF Next

-----------------------------------------------------------------------------
(* StoreInv holds in every reachable state.                                *)
THEOREM StoreInvariant == Spec => []StoreInv
  BY InitStore, NextStore, PTL DEF Spec

(* An outage of the database, or any number of them, does not leave a      *)
(* session in both stores of InterviewRepository, unless its creation was  *)
(* applied and reported unreachable.                                       *)
THEOREM StoresDoNotPart == Spec => []OneStore
  <1>1. StoreInv => OneStore
    BY DEF StoreInv
  <1>2. QED
    BY <1>1, StoreInvariant, PTL

(* recordAnswer puts a question's answer into a store once, although it    *)
(* reads under one look at the cooldown and writes under another.          *)
THEOREM OneAnswerInEachStore == Spec => []AnsweredOnceInStore
  <1>1. StoreInv => AnsweredOnceInStore
    BY DEF StoreInv
  <1>2. QED
    BY <1>1, StoreInvariant, PTL

(* An answer that recordAnswer reported as recorded stays in its session,  *)
(* in the database or in memory, until memory forgets the whole session.   *)
THEOREM RecordedAnswersStay == Spec => []RecordedStays
  <1>1. StoreInv => RecordedStays
    BY DEF StoreInv
  <1>2. QED
    BY <1>1, StoreInvariant, PTL

-----------------------------------------------------------------------------
(* Types, and the sessions that were claimed                               *)

Owned(row) == row # NoRow => row.owner # Nobody

(* A session whose claim was reported has an owner in every store, and is  *)
(* not being created any more.                                             *)
ClaimInv ==
  /\ \A s \in claimed \ split : Owned(db[s]) /\ Owned(mem[s])
  /\ \A c \in Caller : Creates(c) => call[c].session \notin claimed
  /\ \A c \in Caller : call[c].known \subseteq claimed

(* The keys of memory are those it has a session for, each once.           *)
OrderOK ==
  IsInjective(order) /\ \A s \in ToSet(order) : mem[s] # NoRow

ReplyOK ==
  /\ reply = NoReply \/ (reply.task \in Task /\ reply.page \subseteq Session)
  /\ EmailHidesClaimed

ListInv ==
  /\ open \in BOOLEAN /\ OrderOK /\ ReplyOK /\ ClaimInv
  /\ split \cup gone \cup claimed \subseteq born

LEMMA StoredIsBorn ==
  ASSUME StoreInv, NEW s \in Session, db[s] # NoRow \/ mem[s] # NoRow
  PROVE  s \in born /\ \A c \in Caller : Creates(c) => call[c].session # s
  BY DEF StoreInv, BirthInv

(* What a call that runs becomes: it ends, or makes the same query or the  *)
(* one after it.                                                           *)
Moves(c) ==
  /\ \A d \in Caller \ {c} : call'[d] = call[d]
  /\ call'[c].known \subseteq call[c].known
  /\ Creates(c)' => Creates(c) /\ call'[c].session = call[c].session

LEMMA ReturnMoves ==
  ASSUME StoreInv, NEW c \in Caller, NEW out, NEW page, NEW by,
         Return(c, out, page, by)
  PROVE  /\ Moves(c) /\ reply'.task = call[c].task /\ reply'.page = page
         /\ reply'.known = call[c].known
  <1>1. call \in [Caller -> CallRecord] /\ call' = [call EXCEPT ![c] = Idle]
    BY DEF StoreInv, TypeInv, Return
  <1>2. Idle.known = {} /\ Idle.at = "idle"
    BY DEF Idle
  <1>3. Moves(c)
    BY <1>1, <1>2 DEF Moves, Creates, Active
  <1>4. QED
    BY <1>3 DEF Return

(* A return that lists nothing.                                            *)
LEMMA ReturnsNothing ==
  ASSUME StoreInv, NEW c \in Caller, NEW out, NEW by, Return(c, out, {}, by)
  PROVE  Moves(c) /\ ReplyOK'
  <1>1. call[c].task \in Task
    BY DEF StoreInv, TypeInv, CallRecord
  <1>2. QED
    BY <1>1, ReturnMoves DEF ReplyOK, EmailHidesClaimed

LEMMA ReadMoves ==
  ASSUME StoreInv, NEW c \in Caller, NEW row, NEW by, Read(c, row, by)
  PROVE  Moves(c) /\ ReplyOK'
  <1>1. CASE \E out : Return(c, out, {}, by)
    BY <1>1, ReturnsNothing
  <1>2. CASE /\ call' = [call EXCEPT ![c] = [@ EXCEPT !.at = "asking", !.row = row,
                                               !.by = by, !.query = "update"]]
             /\ reply' = NoReply
    <2>1. call[c] \in CallRecord /\ call \in [Caller -> CallRecord]
      BY DEF StoreInv, TypeInv
    <2>2. /\ call'[c] = [call[c] EXCEPT !.at = "asking", !.row = row,
                                        !.by = by, !.query = "update"]
          /\ \A d \in Caller \ {c} : call'[d] = call[d]
      BY <1>2, <2>1
    <2>3. call'[c].known = call[c].known /\ call'[c].query = "update"
      BY <2>1, <2>2 DEF CallRecord
    <2>4. ReplyOK'
      BY <1>2 DEF ReplyOK, EmailHidesClaimed, NoReply
    <2>5. QED
      BY <2>2, <2>3, <2>4 DEF Moves, Creates
  <1>3. QED
    BY <1>1, <1>2 DEF Read

(* A list by email shows only sessions without an owner.                   *)
LEMMA ListMoves ==
  ASSUME StoreInv, ListInv, NEW c \in Caller, NEW by,
         NEW store, store = db \/ store = mem,
         Return(c, "done", Completed(store, c), by), split' = split
  PROVE  Moves(c) /\ ReplyOK'
  <1>1. /\ reply'.task = call[c].task /\ reply'.page = Completed(store, c)
        /\ reply'.known = call[c].known /\ Moves(c)
    BY ReturnMoves
  <1>2. call[c].task \in Task /\ born \subseteq Session /\ call[c].known \subseteq claimed
    BY DEF StoreInv, TypeInv, CallRecord, ListInv, ClaimInv
  <1>3. Completed(store, c) \subseteq Session
    BY <1>2 DEF Completed
  <1>4. ASSUME call[c].task = "email"
        PROVE  Completed(store, c) \cap claimed \subseteq split
    BY <1>4 DEF Completed, ListInv, ClaimInv, Owned
  <1>5. QED
    BY <1>1, <1>2, <1>3, <1>4 DEF ReplyOK, EmailHidesClaimed

(* What a query does to owners.                                            *)
LEMMA ClaimedOwners ==
  ASSUME StoreInv, NEW c \in Caller, Active(c), call[c].query = "claim",
         NEW store \in [Session -> Row \cup {NoRow}], NEW s \in Session
  PROVE  /\ Owned(store[s]) => Owned(Claim(store, c)[s])
         /\ s \in Free(store, call[c].ids) => Owned(Claim(store, c)[s])
  <1>1. call[c].arg \in User /\ Nobody \notin User
    BY StoreAssumption DEF StoreInv, CallInv, CallOK, Active
  <1>2. CASE s \in Free(store, call[c].ids)
    <2>1. store[s] \in Row
      BY <1>2 DEF Free
    <2>2. Claim(store, c)[s] = [store[s] EXCEPT !.owner = call[c].arg]
      BY <1>2 DEF Claim
    <2>3. Claim(store, c)[s].owner = call[c].arg
      BY <2>1, <2>2 DEF Row
    <2>4. QED
      BY <1>1, <2>3 DEF Owned
  <1>3. CASE s \notin Free(store, call[c].ids)
    BY <1>3 DEF Claim
  <1>4. QED
    BY <1>2, <1>3

LEMMA UpdatedOwner ==
  ASSUME NEW c \in Caller, NEW row \in Row
  PROVE  Updated(row, c).owner = row.owner
  BY DEF Updated, Row

LEMMA ApplyOwners ==
  ASSUME StoreInv, ListInv, NEW c \in Caller, Active(c), NEW s \in Session
  PROVE  /\ Owned(db[s]) /\ s \in claimed => Owned(Apply(c)[s])
         /\ call[c].query = "claim" /\ s \in Free(db, call[c].ids) => Owned(Apply(c)[s])
  <1>0. db \in [Session -> Row \cup {NoRow}] /\ call[c].session \in Session
    BY DEF StoreInv, TypeInv, CallRecord
  <1>1. CASE call[c].query = "create"
    <2>1. s \in claimed => s # call[c].session
      BY <1>1 DEF ListInv, ClaimInv, Creates
    <2>2. QED
      BY <1>0, <1>1, <2>1 DEF Apply
  <1>2. CASE call[c].query = "update" /\ db[call[c].session] # NoRow
    <2>1. Apply(c) = [db EXCEPT ![call[c].session] = Updated(db[call[c].session], c)]
      BY <1>2 DEF Apply
    <2>2. db[call[c].session] \in Row
      BY <1>0, <1>2
    <2>3. Updated(db[call[c].session], c).owner = db[call[c].session].owner
      BY <2>2, UpdatedOwner
    <2>4. QED
      BY <1>0, <1>2, <2>1, <2>3 DEF Owned
  <1>3. CASE call[c].query = "claim"
    BY <1>0, <1>3, ClaimedOwners DEF Apply
  <1>4. CASE /\ call[c].query \notin {"create", "claim"}
             /\ call[c].query = "update" => db[call[c].session] = NoRow
    BY <1>4 DEF Apply
  <1>5. QED
    BY <1>1, <1>2, <1>3, <1>4

(* What memory does with a query.                                          *)
Remembers(c) ==
  /\ OrderOK' /\ ReplyOK' /\ Moves(c)
  /\ claimed \subseteq claimed' /\ gone' \subseteq born
  /\ \A s \in claimed' \ claimed : s \in Session /\ mem[s] # NoRow
  /\ \A s \in claimed' \ split : Owned(mem'[s])

LEMMA CreateRemembers ==
  ASSUME StoreInv, ListInv, NEW c \in Caller, Creates(c), CreateInMemory(c)
  PROVE  Remembers(c)
  <1> DEFINE s == call[c].session
             keys == Append(order, s)
  <1>0. /\ mem \in [Session -> Row \cup {NoRow}] /\ order \in Seq(Session)
        /\ s \in Session /\ s \in born /\ mem[s] = NoRow /\ s \notin claimed
        /\ gone \subseteq born /\ OrderOK
    BY DEF StoreInv, TypeInv, CallRecord, BirthInv, ListInv, ClaimInv
  <1>1. ~Contains(order, s)
    BY <1>0 DEF OrderOK, Contains, ToSet
  <1>2. keys \in Seq(Session) /\ ToSet(keys) = ToSet(order) \cup {s} /\ IsInjective(keys)
    BY <1>0, <1>1, AppendedOnce DEF OrderOK
  <1>3. /\ Bounded(keys) \in Seq(Session) /\ ToSet(Bounded(keys)) \subseteq ToSet(keys)
        /\ IsInjective(Bounded(keys))
    BY <1>2, BoundKeeps
  <1>4. /\ order' = Bounded(keys) /\ gone' = gone \cup (ToSet(keys) \ ToSet(Bounded(keys)))
        /\ mem' = [x \in Session |-> IF x \notin ToSet(Bounded(keys)) THEN NoRow
                                      ELSE IF x = s THEN NewRow(c) ELSE mem[x]]
        /\ Return(c, "done", {}, "memory") /\ UNCHANGED claimed
    BY DEF CreateInMemory
  <1>5. NewRow(c) # NoRow
    BY CreatedRow
  <1>6. ToSet(order) \subseteq born \cap Session
    <2>1. ToSet(order) \subseteq Session
      BY <1>0 DEF ToSet
    <2>2. QED
      BY <1>0, <2>1, StoredIsBorn DEF OrderOK
  <1> HIDE DEF keys
  <1>7. OrderOK'
    <2>1. ASSUME NEW x \in ToSet(order')
          PROVE  mem'[x] # NoRow
      BY <1>0, <1>2, <1>3, <1>4, <1>5, <1>6, <2>1 DEF OrderOK
    <2>2. QED
      BY <1>3, <1>4, <2>1 DEF OrderOK
  <1>8. gone' \subseteq born
    BY <1>0, <1>2, <1>4, <1>6
  <1>9. \A x \in claimed' \ split : Owned(mem'[x])
    <2>1. claimed \subseteq Session /\ \A x \in claimed \ split : Owned(mem[x])
      BY DEF StoreInv, TypeInv, ListInv, ClaimInv
    <2>2. QED
      BY <1>0, <1>4, <2>1 DEF Owned
  <1>10. QED
    BY <1>4, <1>7, <1>8, <1>9, ReturnsNothing DEF Remembers

LEMMA UpdateRemembers ==
  ASSUME StoreInv, ListInv, NEW c \in Caller, Active(c), call[c].query = "update",
         ApplyToMemory(c), UNCHANGED <<gone, claimed>>
  PROVE  Remembers(c)
  <1> DEFINE s == call[c].session
  <1>0. /\ mem \in [Session -> Row \cup {NoRow}] /\ s \in Session /\ order' = order
        /\ claimed \subseteq Session /\ gone \subseteq born /\ OrderOK
        /\ \A x \in claimed \ split : Owned(mem[x])
    BY DEF StoreInv, TypeInv, CallRecord, ListInv, ClaimInv, ApplyToMemory
  <1>1. Moves(c) /\ ReplyOK'
    BY ReturnsNothing DEF ApplyToMemory
  <1>2. \A x \in Session : /\ mem[x] # NoRow => mem'[x] # NoRow
                           /\ Owned(mem[x]) => Owned(mem'[x])
    <2>1. CASE mem[s] = NoRow
      BY <2>1 DEF ApplyToMemory
    <2>2. CASE mem[s] # NoRow
      <3>1. mem[s] \in Row
        BY <1>0, <2>2
      <3>2. mem' = [mem EXCEPT ![s] = Updated(mem[s], c)]
        BY <2>2 DEF ApplyToMemory
      <3>3. Updated(mem[s], c).owner = mem[s].owner
        BY <3>1, UpdatedOwner
      <3>4. Updated(mem[s], c) # NoRow
        BY <3>1, UpdatedRow, StoreAssumption
      <3>5. QED
        BY <1>0, <2>2, <3>2, <3>3, <3>4 DEF Owned
    <2>3. QED
      BY <2>1, <2>2
  <1>3. OrderOK'
    <2>1. ToSet(order) \subseteq Session
      BY DEF StoreInv, TypeInv, ToSet
    <2>2. QED
      BY <1>0, <1>2, <2>1 DEF OrderOK
  <1>4. QED
    BY <1>0, <1>1, <1>2, <1>3 DEF Remembers

LEMMA FromMemoryRemembers ==
  ASSUME StoreInv, ListInv, NEW c \in Caller, Active(c), FromMemory(c),
         call[c].query = "list" => split' = split
  PROVE  Remembers(c)
  <1>0. /\ mem \in [Session -> Row \cup {NoRow}] /\ call[c].ids \subseteq Session
        /\ claimed \subseteq Session /\ gone \subseteq born /\ OrderOK
        /\ \A x \in claimed \ split : Owned(mem[x])
    BY DEF StoreInv, TypeInv, CallRecord, ListInv, ClaimInv
  <1>1. CASE call[c].query = "create" /\ CreateInMemory(c)
    BY <1>1, CreateRemembers DEF Creates
  <1>2. CASE call[c].query = "get" /\ Read(c, mem[call[c].session], "memory")
             /\ UNCHANGED <<mem, order, gone, claimed>>
    <2>1. Moves(c) /\ ReplyOK'
      BY <1>2, ReadMoves
    <2>2. OrderOK'
      BY <1>0, <1>2 DEF OrderOK
    <2>3. QED
      BY <1>0, <1>2, <2>1, <2>2 DEF Remembers
  <1>3. CASE call[c].query = "update" /\ ApplyToMemory(c) /\ UNCHANGED <<gone, claimed>>
    BY <1>3, UpdateRemembers
  <1>4. CASE /\ call[c].query = "claim" /\ mem' = Claim(mem, c)
             /\ claimed' = claimed \cup Free(mem, call[c].ids)
             /\ Return(c, "done", {}, "memory") /\ UNCHANGED <<order, gone>>
    <2>1. Moves(c) /\ ReplyOK'
      BY <1>4, ReturnsNothing
    <2>2. OrderOK'
      <3>1. ToSet(order) \subseteq Session
        BY DEF StoreInv, TypeInv, ToSet
      <3>2. QED
        BY <1>0, <1>4, <3>1, ClaimedRows DEF OrderOK
    <2>3. \A s \in claimed' \ claimed : s \in Session /\ mem[s] # NoRow
      BY <1>0, <1>4 DEF Free
    <2>4. \A s \in claimed' \ split : Owned(mem'[s])
      BY <1>0, <1>4, <2>3, ClaimedOwners
    <2>5. QED
      BY <1>0, <1>4, <2>1, <2>2, <2>3, <2>4 DEF Remembers
  <1>5. CASE call[c].query = "list" /\ Return(c, "done", Completed(mem, c), "memory")
             /\ UNCHANGED <<mem, order, gone, claimed>>
    <2>1. Moves(c) /\ ReplyOK'
      BY <1>5, ListMoves
    <2>2. OrderOK'
      BY <1>0, <1>5 DEF OrderOK
    <2>3. QED
      BY <1>0, <1>5, <2>1, <2>2 DEF Remembers
  <1>6. QED
    BY <1>1, <1>2, <1>3, <1>4, <1>5 DEF FromMemory

(* A query keeps the invariant if what it newly claims is owned wherever   *)
(* it is stored.                                                           *)
LEMMA QueryKeepsList ==
  ASSUME StoreInv, ListInv, NEW c \in Caller, Moves(c), OrderOK', ReplyOK',
         open' \in BOOLEAN, born' = born,
         split \subseteq split', split' \cup gone' \subseteq born,
         claimed \subseteq claimed',
         \A s \in claimed' \ claimed :
           s \in Session /\ (db[s] # NoRow \/ mem[s] # NoRow),
         \A s \in claimed' \ split' : Owned(db'[s]) /\ Owned(mem'[s])
  PROVE  ListInv'
  <1>1. \A s \in claimed' \ claimed :
          s \in born /\ \A d \in Caller : Creates(d) => call[d].session # s
    BY StoredIsBorn
  <1>2. claimed' \subseteq born
    BY <1>1 DEF ListInv
  <1>3. \A d \in Caller : /\ Creates(d)' => Creates(d) /\ call'[d].session = call[d].session
                          /\ call'[d].known \subseteq call[d].known
    BY DEF Moves, Creates, Active
  <1>4. \A d \in Caller : Creates(d)' => call'[d].session \notin claimed'
    BY <1>1, <1>3 DEF ListInv, ClaimInv
  <1>5. \A d \in Caller : call'[d].known \subseteq claimed'
    BY <1>3 DEF ListInv, ClaimInv
  <1>6. ClaimInv'
    BY <1>4, <1>5 DEF ClaimInv
  <1>7. QED
    BY <1>2, <1>6 DEF ListInv

-----------------------------------------------------------------------------
(* The actions, again                                                      *)

LEMMA AskKeepsList ==
  ASSUME StoreInv, ListInv, NEW c \in Caller, Ask(c)
  PROVE  ListInv'
  <1>0. /\ Active(c) /\ UNCHANGED <<db, open, born, split>> /\ open \in BOOLEAN
        /\ split \cup gone \subseteq born /\ OrderOK
        /\ \A s \in claimed \ split : Owned(db[s]) /\ Owned(mem[s])
    BY DEF Ask, Active, ListInv, ClaimInv
  <1>1. CASE open
    <2>1. Remembers(c)
      BY <1>0, <1>1, FromMemoryRemembers DEF Ask
    <2>2. \A s \in claimed' \ split : Owned(db[s])
      <3>1. \A s \in claimed' \ claimed : s \notin split => db[s] = NoRow
        BY <2>1 DEF Remembers, StoreInv, OneStore
      <3>2. QED
        BY <1>0, <3>1 DEF Owned
    <2>3. QED
      BY <1>0, <2>1, <2>2, QueryKeepsList DEF Remembers
  <1>2. CASE ~open
    <2>1. /\ call' = [call EXCEPT ![c].at = "querying"] /\ call[c].at = "asking"
          /\ reply' = NoReply /\ UNCHANGED <<mem, order, gone, claimed>>
      BY <1>2 DEF Ask
    <2>2. Moves(c)
      <3>1. call[c] \in CallRecord /\ call \in [Caller -> CallRecord]
        BY DEF StoreInv, TypeInv
      <3>2. /\ call'[c] = [call[c] EXCEPT !.at = "querying"]
            /\ \A d \in Caller \ {c} : call'[d] = call[d]
        BY <2>1, <3>1
      <3>3. /\ call'[c].known = call[c].known /\ call'[c].query = call[c].query
            /\ call'[c].session = call[c].session
        BY <3>1, <3>2 DEF CallRecord
      <3>4. QED
        BY <1>0, <3>2, <3>3 DEF Moves, Creates
    <2>3. OrderOK' /\ ReplyOK'
      BY <1>0, <2>1 DEF OrderOK, ReplyOK, EmailHidesClaimed, NoReply
    <2>4. QED
      BY <1>0, <2>1, <2>2, <2>3, QueryKeepsList
  <1>3. QED
    BY <1>1, <1>2

LEMMA UnreachableKeepsList ==
  ASSUME StoreInv, ListInv, NEW c \in Caller, Unreachable(c)
  PROVE  ListInv'
  <1>0. /\ Active(c) /\ born' = born /\ FromMemory(c) /\ db' \in {db, Apply(c)}
        /\ split' = IF call[c].query = "create" /\ db' # db
                      THEN split \cup {call[c].session} ELSE split
        /\ open' \in BOOLEAN /\ split \subseteq born
        /\ db \in [Session -> Row \cup {NoRow}] /\ claimed \subseteq Session
    BY DEF Unreachable, Active, ListInv, StoreInv, TypeInv
  <1>1. Remembers(c)
    BY <1>0, FromMemoryRemembers
  <1>2. split \subseteq split' /\ split' \subseteq born
    BY <1>0 DEF StoreInv, BirthInv, Creates
  <1>3. \A s \in claimed' \ split' : Owned(db'[s])
    <2>1. ASSUME NEW s \in claimed' \ split', s \notin claimed
          PROVE  Owned(db'[s])
      <3>1. s \in Session /\ mem[s] # NoRow /\ s \notin split
        BY <1>1, <1>2, <2>1 DEF Remembers
      <3>2. db[s] = NoRow /\ \A d \in Caller : Creates(d) => call[d].session # s
        BY <3>1, StoredIsBorn DEF StoreInv, OneStore
      <3>3. db'[s] = NoRow
        BY <1>0, <3>1, <3>2, ApplyStep
      <3>4. QED
        BY <3>3 DEF Owned
    <2>2. ASSUME NEW s \in claimed \ split'
          PROVE  Owned(db'[s])
      <3>1. Owned(db[s]) /\ s \in Session
        BY <1>0, <1>2, <2>2 DEF ListInv, ClaimInv
      <3>2. QED
        BY <1>0, <2>2, <3>1, ApplyOwners
    <2>3. QED
      BY <2>1, <2>2
  <1>4. QED
    BY <1>0, <1>1, <1>2, <1>3, QueryKeepsList DEF Remembers

LEMMA AnsweredKeepsList ==
  ASSUME StoreInv, ListInv, NEW c \in Caller, Answered(c)
  PROVE  ListInv'
  <1>0. /\ Active(c) /\ db' = Apply(c) /\ UNCHANGED <<mem, order, open, born, split, gone>>
        /\ open \in BOOLEAN /\ split \cup gone \subseteq born /\ OrderOK
        /\ claimed \subseteq Session /\ call[c].ids \subseteq Session
        /\ db \in [Session -> Row \cup {NoRow}]
        /\ \A s \in claimed \ split : Owned(db[s]) /\ Owned(mem[s])
        /\ claimed' = IF call[c].query = "claim" THEN claimed \cup Free(db, call[c].ids)
                                                 ELSE claimed
    BY DEF Answered, Active, ListInv, ClaimInv, StoreInv, TypeInv, CallRecord
  <1>1. Moves(c) /\ ReplyOK'
    <2>1. CASE call[c].query = "get"
      BY <2>1, ReadMoves DEF Answered
    <2>2. CASE call[c].query = "list"
      BY <1>0, <2>2, ListMoves DEF Answered
    <2>3. CASE call[c].query \notin {"get", "list"}
      <3>1. \E out : Return(c, out, {}, "database")
        BY <2>3 DEF Answered
      <3>2. QED
        BY <3>1, ReturnsNothing
    <2>4. QED
      BY <2>1, <2>2, <2>3
  <1>2. \A s \in claimed' \ claimed : s \in Session /\ db[s] # NoRow
    BY <1>0 DEF Free
  <1>3. \A s \in claimed' \ split : Owned(db'[s]) /\ Owned(mem'[s])
    <2>1. ASSUME NEW s \in claimed' \ split, s \notin claimed
          PROVE  Owned(db'[s]) /\ Owned(mem'[s])
      <3>1. s \in Session /\ call[c].query = "claim" /\ s \in Free(db, call[c].ids)
        BY <1>0, <2>1, <1>2
      <3>2. mem[s] = NoRow
        BY <1>2, <2>1, <3>1 DEF StoreInv, OneStore
      <3>3. QED
        BY <1>0, <3>1, <3>2, ApplyOwners DEF Owned
    <2>2. ASSUME NEW s \in claimed \ split
          PROVE  Owned(db'[s]) /\ Owned(mem'[s])
      BY <1>0, <2>2, ApplyOwners
    <2>3. QED
      BY <1>0, <2>1, <2>2
  <1>4. OrderOK'
    BY <1>0 DEF OrderOK
  <1>5. QED
    BY <1>0, <1>1, <1>2, <1>3, <1>4, QueryKeepsList

LEMMA RefusedKeepsList ==
  ASSUME StoreInv, ListInv, NEW c \in Caller, Refused(c)
  PROVE  ListInv'
  <1>1. Moves(c) /\ ReplyOK'
    BY ReturnsNothing DEF Refused
  <1>2. /\ UNCHANGED <<db, mem, order, open, born, split, gone, claimed>>
        /\ open \in BOOLEAN /\ split \cup gone \subseteq born /\ OrderOK
        /\ \A s \in claimed \ split : Owned(db[s]) /\ Owned(mem[s])
    BY DEF Refused, ListInv, ClaimInv
  <1>3. OrderOK'
    BY <1>2 DEF OrderOK
  <1>4. QED
    BY <1>1, <1>2, <1>3, QueryKeepsList

(* A call that begins to list by email knows of the claims made so far; a  *)
(* session that begins to be created has not been claimed.                 *)
LEMMA BeginKeepsList ==
  ASSUME StoreInv, ListInv, NEW c \in Caller, Begin(c)
  PROVE  ListInv'
  <1>0. /\ UNCHANGED <<db, mem, order, open, split, gone, claimed>> /\ reply' = NoReply
        /\ born \subseteq Session /\ call \in [Caller -> CallRecord]
    BY DEF Begin, StoreInv, TypeInv
  <1>1. /\ born \subseteq born'
        /\ \E task, s, arg, ids :
             /\ task \in Task /\ Starts(c, task, s, arg, ids)
             /\ task = "create" => s \notin born
    BY DEF Begin, Task
  <1>2. PICK task, s, arg, ids :
          /\ task \in Task /\ Starts(c, task, s, arg, ids)
          /\ task = "create" => s \notin born
    BY <1>1
  <1> DEFINE query == CASE task = "create" -> "create"  [] task = "end" -> "update"
                       [] task = "claim" -> "claim"
                       [] task \in {"list", "email"} -> "list" [] OTHER -> "get"
             next ==
        [Idle EXCEPT !.at = IF task = "answer" THEN "queued" ELSE "asking",
           !.task = task, !.session = s, !.arg = arg, !.ids = ids,
           !.query = query, !.known = IF task = "email" THEN claimed ELSE {}]
  <1>3. call' = [call EXCEPT ![c] = next]
    BY <1>2 DEF Starts
  <1>4. query = "create" <=> task = "create"
    BY <1>2 DEF Task
  <1>5. next.session = s /\ next.query = query /\ next.known \subseteq claimed
    <2> HIDE DEF query
    <2>1. QED
      BY DEF Idle
  <1> HIDE DEF next, query
  <1>6. call'[c] = next /\ \A d \in Caller \ {c} : call'[d] = call[d]
    BY <1>0, <1>3
  <1>7. Creates(c)' => call'[c].session \notin claimed
    BY <1>2, <1>4, <1>5, <1>6 DEF Creates, ListInv
  <1>8. ClaimInv'
    BY <1>0, <1>5, <1>6, <1>7 DEF ListInv, ClaimInv, Creates, Active
  <1>9. OrderOK' /\ ReplyOK'
    BY <1>0 DEF ListInv, OrderOK, ReplyOK, EmailHidesClaimed, NoReply
  <1>10. QED
    BY <1>0, <1>1, <1>8, <1>9 DEF ListInv

LEMMA OthersKeepList ==
  ASSUME StoreInv, ListInv,
         \/ \E c \in Caller : Enter(c)
         \/ Restart \/ CooledDown \/ UNCHANGED vars
  PROVE  ListInv'
  <1>1. ASSUME NEW c \in Caller, Enter(c)
        PROVE  ListInv'
    <2>1. /\ call' = [call EXCEPT ![c].at = "asking"] /\ call[c].at = "queued"
          /\ UNCHANGED <<db, mem, order, open, born, split, gone, claimed>>
          /\ reply' = NoReply /\ call \in [Caller -> CallRecord]
      BY <1>1 DEF Enter, StoreInv, TypeInv
    <2>2. call[c] \in CallRecord /\ call[c].query # "create"
      BY <2>1 DEF StoreInv, CallInv, CallOK
    <2>3. /\ call'[c].known = call[c].known /\ call'[c].query = call[c].query
          /\ \A d \in Caller \ {c} : call'[d] = call[d]
      BY <2>1, <2>2 DEF CallRecord
    <2>4. ClaimInv'
      BY <2>1, <2>2, <2>3 DEF ListInv, ClaimInv, Creates, Active
    <2>5. OrderOK' /\ ReplyOK'
      BY <2>1 DEF ListInv, OrderOK, ReplyOK, EmailHidesClaimed, NoReply
    <2>6. QED
      BY <2>1, <2>4, <2>5 DEF ListInv
  <1>2. ASSUME Restart
        PROVE  ListInv'
    <2>1. /\ mem' = [s \in Session |-> NoRow] /\ order' = <<>> /\ open' = FALSE
          /\ gone' = gone \cup ToSet(order) /\ call' = [c \in Caller |-> Idle]
          /\ UNCHANGED <<db, born, split, claimed>> /\ reply' = NoReply
      BY <1>2 DEF Restart
    <2>2. ToSet(order) \subseteq born
      <3>1. ToSet(order) \subseteq Session
        BY DEF StoreInv, TypeInv, ToSet
      <3>2. QED
        BY <3>1, StoredIsBorn DEF ListInv, OrderOK
    <2>3. OrderOK' /\ ReplyOK'
      BY <2>1 DEF OrderOK, ReplyOK, EmailHidesClaimed, NoReply, IsInjective, ToSet
    <2>4. ClaimInv'
      <3>1. claimed \subseteq Session
        BY DEF StoreInv, TypeInv
      <3>2. QED
        BY <2>1, <3>1 DEF ListInv, ClaimInv, Creates, Active, Idle, Owned
    <2>5. QED
      BY <2>1, <2>2, <2>3, <2>4 DEF ListInv
  <1>3. ASSUME CooledDown
        PROVE  ListInv'
    BY <1>3 DEF CooledDown, ListInv, ClaimInv, OrderOK, ReplyOK, EmailHidesClaimed,
                NoReply, Creates, Active
  <1>4. ASSUME UNCHANGED vars
        PROVE  ListInv'
    BY <1>4 DEF vars, ListInv, ClaimInv, OrderOK, ReplyOK, EmailHidesClaimed, Creates,
                Active
  <1>5. QED
    BY <1>1, <1>2, <1>3, <1>4

LEMMA ListInvariant == Spec => []ListInv
  <1>1. ASSUME Init
        PROVE  ListInv
    <2>1. \A c \in Caller : call[c].at = "idle" /\ call[c].known = {}
      BY <1>1 DEF Init, Idle
    <2>2. open \in BOOLEAN /\ split \cup gone \cup claimed \subseteq born
      BY <1>1 DEF Init
    <2>3. ClaimInv
      BY <1>1, <2>1 DEF Init, ClaimInv, Creates, Active
    <2>4. OrderOK /\ ReplyOK
      BY <1>1 DEF Init, OrderOK, ReplyOK, EmailHidesClaimed, NoReply, IsInjective, ToSet
    <2>5. QED
      BY <2>2, <2>3, <2>4 DEF ListInv
  <1>2. StoreInv /\ ListInv /\ [Next]_vars => ListInv'
    BY AskKeepsList, UnreachableKeepsList, AnsweredKeepsList, RefusedKeepsList,
       BeginKeepsList, OthersKeepList DEF Next
  <1>3. QED
    BY <1>1, <1>2, StoreInvariant, PTL DEF Spec

(* The types: memoryStore has one key for each of its sessions, and the    *)
(* lock of a session is held by the recordAnswer that runs.                *)
THEOREM StoreTypes == Spec => []TypeOK
  <1>1. StoreInv /\ ListInv => TypeOK
    <2> SUFFICES ASSUME StoreInv, ListInv PROVE TypeOK
      OBVIOUS
    <2>1. ToSet(order) \subseteq Session
      BY DEF StoreInv, TypeInv, ToSet
    <2>2. {s \in Session : mem[s] # NoRow} = ToSet(order)
      BY <2>1 DEF StoreInv, TypeInv, ListInv, OrderOK
    <2>3. \A c \in Caller : call[c] \in CallRecord
      BY DEF StoreInv, TypeInv
    <2>4. \A c \in Caller :
            holder[call[c].session] = c <=>
              call[c].task = "answer" /\ call[c].at \in {"asking", "querying"}
      BY <2>3 DEF StoreInv, LockInv, Active, CallRecord
    <2>5. QED
      BY <2>2, <2>3, <2>4 DEF TypeOK, StoreInv, TypeInv, ListInv, OrderOK, ReplyOK,
                              CallRecord
  <1>2. QED
    BY <1>1, StoreInvariant, ListInvariant, PTL

(* A session whose claim was reported before a list by email began is not  *)
(* on it, although the claim may have gone to memory and the list to the   *)
(* database, or the other way round.                                       *)
THEOREM ClaimedIsNotListed == Spec => []EmailHidesClaimed
  <1>1. ListInv => EmailHidesClaimed
    BY DEF ListInv, ReplyOK
  <1>2. QED
    BY <1>1, ListInvariant, PTL

-----------------------------------------------------------------------------
(* The promise of SessionRows                                              *)

(* What memory forgot is nowhere, and neither it nor a session that has    *)
(* two rows is being created.                                              *)
RowsInv ==
  /\ \A s \in gone : mem[s] = NoRow /\ (s \in split \/ db[s] = NoRow)
  /\ \A c \in Caller : Creates(c) => call[c].session \notin gone \cup split
  /\ \A c \in Caller : call[c].task = "list" => call[c].arg \in User

(* Where the row of a session is.                                          *)
LEMMA WhereRow ==
  ASSUME StoreInv, RowsInv, NEW s \in Session
  PROVE  /\ RowOf[s] \in Row \cup {NoRow}
         /\ s \in Rows!Live <=> s \notin split /\ (db[s] # NoRow \/ mem[s] # NoRow)
         /\ s \in Durable <=> s \notin split /\ db[s] # NoRow
         /\ s \notin split /\ db[s] # NoRow => RowOf[s] = db[s] /\ mem[s] = NoRow
         /\ s \notin split /\ db[s] = NoRow => RowOf[s] = mem[s]
         /\ s \in split => RowOf[s] = NoRow
         /\ s \in gone => s \notin Rows!Live
  <1>1. db[s] \in Row \cup {NoRow} /\ mem[s] \in Row \cup {NoRow}
    BY DEF StoreInv, TypeInv
  <1>2. RowOf[s] = IF s \in split THEN NoRow ELSE IF db[s] # NoRow THEN db[s] ELSE mem[s]
    BY DEF RowOf, ReadEither
  <1>3. s \in Rows!Live <=> RowOf[s] # NoRow
    BY DEF Rows!Live
  <1>4. s \notin split /\ db[s] # NoRow => mem[s] = NoRow
    BY DEF StoreInv, OneStore
  <1>5. QED
    BY <1>1, <1>2, <1>3, <1>4 DEF Durable, RowsInv

(* The rows are the same if the stores differ in torn sessions only.       *)
LEMMA RowsKept ==
  ASSUME \A s \in Session \ split : db'[s] = db[s] /\ mem'[s] = mem[s], split' = split
  PROVE  RowOf' = RowOf /\ Durable' = Durable
  BY DEF RowOf, Durable, ReadEither

(* A row is written in the store where it is.                              *)
LEMMA RowWritten ==
  ASSUME StoreInv, RowsInv, NEW s \in Session \ split, NEW new \in Row,
         \/ db[s] # NoRow /\ db' = [db EXCEPT ![s] = new] /\ mem' = mem
         \/ mem[s] # NoRow /\ mem' = [mem EXCEPT ![s] = new] /\ db' = db,
         split' = split
  PROVE  RowOf' = [RowOf EXCEPT ![s] = new] /\ Durable' = Durable
  <1>1. db \in [Session -> Row \cup {NoRow}] /\ mem \in [Session -> Row \cup {NoRow}]
    BY DEF StoreInv, TypeInv
  <1>2. new # NoRow
    BY StoreAssumption
  <1>3. /\ \A x \in Session \ {s} : db'[x] = db[x] /\ mem'[x] = mem[x]
        /\ ReadEither(s)' = new /\ (db'[s] # NoRow <=> db[s] # NoRow)
    BY <1>1, <1>2 DEF StoreInv, OneStore, ReadEither
  <1>4. Durable' = Durable
    BY <1>3 DEF Durable
  <1>5. \A x \in Session : RowOf'[x] = IF x = s THEN new ELSE RowOf[x]
    BY <1>3 DEF RowOf, ReadEither
  <1>6. QED
    BY <1>4, <1>5 DEF RowOf

(* What a return says.                                                     *)
LEMMA ReturnSays ==
  ASSUME NEW c \in Caller, NEW out, NEW page, NEW by, Return(c, out, page, by)
  PROVE  /\ Rows!Says(call[c].task, call[c].session, out)
         /\ reply'.task = call[c].task /\ reply'.out = out
         /\ reply'.by = by /\ reply'.page = page
  BY DEF Return, Rows!Says

-----------------------------------------------------------------------------
(* Each query is a step of SessionRows                                     *)

(* A write to the row of the call's own session.                           *)
LEMMA UpdateIsStep ==
  ASSUME StoreInv, RowsInv, NEW c \in Caller, Active(c), call[c].query = "update",
         call[c].session \in Rows!Live,
         RowOf' = [RowOf EXCEPT ![call[c].session] =
                                   Updated(RowOf[call[c].session], c)],
         Durable' = Durable, UNCHANGED <<gone, split, claimed>>,
         NEW out, NEW by, Return(c, out, {}, by),
         out = "done" \/ (out = "not_found" /\ call[c].session \in Durable)
  PROVE  Rows!Next
  <1> DEFINE s == call[c].session
             q == call[c].arg
  <1>1. s \in Session /\ call[c].task \in {"answer", "end"}
    BY DEF StoreInv, TypeInv, CallRecord, CallInv, CallOK, Active
  <1>2. RowOf[s] \in Row /\ s \notin split \cup gone /\ RowOf[s] = ReadEither(s)
    BY <1>1, WhereRow DEF RowOf, Rows!Live
  <1>3. /\ Rows!Says(call[c].task, s, out) /\ reply'.out = out
        /\ call[c].task = "answer" /\ out = "done" => recorded' = recorded \cup {<<s, q>>}
        /\ ~(call[c].task = "answer" /\ out = "done") => recorded' = recorded
    BY ReturnSays, Returned
  <1>4. RowOf \in [Session -> Row \cup {NoRow}]
    BY WhereRow DEF RowOf
  <1>5. Rows!Reported(call[c].task, s)
    BY <1>3 DEF Rows!Reported
  <1>6. CASE call[c].task = "answer"
    <2>1. Writes(c) /\ q \in Question
      BY <1>6 DEF Writes, StoreInv, CallInv, CallOK, Active
    <2>2. RowOf[s].answers = call[c].row.answers /\ ~Contains(RowOf[s].answers, q)
      BY <1>2, <2>1 DEF StoreInv, CurrentInv, FreshInv
    <2>3. Updated(RowOf[s], c) = [RowOf[s] EXCEPT !.answers = Append(RowOf[s].answers, q)]
      BY <1>6, <2>2 DEF Updated
    <2>4. RowOf' = [RowOf EXCEPT ![s].answers = Append(@, q)]
      BY <2>3
    <2>5. recorded' = IF reply'.out = "done" THEN recorded \cup {<<s, q>>} ELSE recorded
      BY <1>3, <1>6
    <2>6. Rows!Answer(s, q)
      BY <1>5, <1>6, <2>2, <2>4, <2>5 DEF Rows!Answer, Contains, Rows!Contains
    <2>7. QED
      BY <1>1, <2>1, <2>6 DEF Rows!Next
  <1>7. CASE call[c].task = "end"
    <2>1. Updated(RowOf[s], c) = [RowOf[s] EXCEPT !.status = "completed"]
      BY <1>7 DEF Updated
    <2>2. RowOf' = [RowOf EXCEPT ![s].status = "completed"]
      BY <2>1
    <2>3. Rows!Complete(s)
      BY <1>3, <1>5, <1>7, <2>2 DEF Rows!Complete
    <2>4. QED
      BY <1>1, <2>3 DEF Rows!Next
  <1>8. QED
    BY <1>1, <1>6, <1>7

(* A torn session is promised nothing.                                     *)
LEMMA TornIsStep ==
  ASSUME StoreInv, NEW c \in Caller, Active(c), call[c].query \in {"get", "update"},
         call[c].session \in split, RowOf' = RowOf, Durable' = Durable,
         UNCHANGED <<gone, split, claimed>>,
         NEW out \in {"done", "duplicate"}, NEW by, Return(c, out, {}, by)
  PROVE  Rows!Next
  <1> DEFINE s == call[c].session
             q == call[c].arg
  <1>1. /\ s \in Session /\ call[c].task \in {"answer", "look", "end"}
        /\ call[c].task = "answer" => q \in Question
    BY DEF StoreInv, TypeInv, CallRecord, CallInv, CallOK, Active
  <1>2. Rows!Says(call[c].task, s, out)
    BY ReturnSays
  <1>3. recorded' = recorded \/ \E x \in Question : recorded' = recorded \cup {<<s, x>>}
    BY <1>1, Returned
  <1>4. Rows!OfTorn(s)
    BY <1>1, <1>2, <1>3 DEF Rows!OfTorn
  <1>5. QED
    BY <1>1, <1>4 DEF Rows!Next

(* A session is not found, or no row matches an update.                    *)
LEMMA NotFoundIsStep ==
  ASSUME StoreInv, NEW c \in Caller, Active(c), call[c].query \in {"get", "update"},
         RowOf' = RowOf, Durable' = Durable, UNCHANGED <<gone, split, claimed>>,
         NEW out, NEW by, Return(c, out, {}, by),
         \/ /\ out = "not_found"
            /\ call[c].session \in Rows!Live =>
                 call[c].session \in Durable /\ by = "memory"
         \/ out = "missing" /\ call[c].session \notin Durable /\ call[c].query = "update"
  PROVE  Rows!Next
  <1> DEFINE s == call[c].session
  <1>1. /\ s \in Session /\ call[c].task \in {"answer", "look", "end"}
        /\ call[c].query = "update" => call[c].task \in {"answer", "end"}
    BY DEF StoreInv, TypeInv, CallRecord, CallInv, CallOK, Active
  <1>2. Rows!Says(call[c].task, s, out) /\ reply'.by = by /\ recorded' = recorded
    BY ReturnSays, Returned
  <1>3. Rows!Same
    BY <1>2 DEF Rows!Same
  <1>4. CASE out = "not_found"
    <2>1. Rows!NotFound(s)
      BY <1>1, <1>2, <1>3, <1>4 DEF Rows!NotFound
    <2>2. QED
      BY <1>1, <2>1 DEF Rows!Next
  <1>5. CASE out = "missing"
    <2>1. Rows!Missing(s)
      BY <1>1, <1>2, <1>3, <1>5 DEF Rows!Missing
    <2>2. QED
      BY <1>1, <2>1 DEF Rows!Next
  <1>6. QED
    BY <1>4, <1>5

(* What changes nothing and returns nothing.                               *)
LEMMA QuietStep ==
  ASSUME UNCHANGED <<db, mem, split, gone, recorded, claimed>>, reply' = NoReply
  PROVE  Rows!Next
  <1>1. RowOf' = RowOf /\ Durable' = Durable
    BY RowsKept
  <1>2. QED
    BY <1>1 DEF Rows!Next, Rows!Quiet, Rows!Silent, Rows!Same, NoReply

LEMMA ReadIsStep ==
  ASSUME StoreInv, RowsInv, NEW c \in Caller, Active(c), call[c].query = "get",
         UNCHANGED <<db, mem, split, gone, claimed>>, NEW row, NEW by,
         \/ row = ReadEither(call[c].session) /\ by = "database"
         \/ row = mem[call[c].session] /\ by = "memory",
         Read(c, row, by)
  PROVE  Rows!Next
  <1> DEFINE s == call[c].session
             q == call[c].arg
  <1>1. /\ s \in Session /\ call[c].task \in {"answer", "look"}
        /\ call[c].task = "answer" => q \in Question
    BY DEF StoreInv, TypeInv, CallRecord, CallInv, CallOK, Active
  <1>2. RowOf' = RowOf /\ Durable' = Durable
    BY RowsKept
  <1>3. /\ row # NoRow /\ s \notin split => s \in Rows!Live /\ row = RowOf[s]
        /\ row = NoRow /\ s \in Rows!Live => s \in Durable /\ by = "memory"
    BY <1>1, WhereRow DEF ReadEither
  <1>4. CASE row = NoRow
    <2>1. Return(c, "not_found", {}, by)
      BY <1>4 DEF Read
    <2>2. QED
      BY <1>2, <1>3, <1>4, <2>1, NotFoundIsStep
  <1>5. CASE row # NoRow /\ call[c].task = "look"
    <2>1. Return(c, "done", {}, by)
      BY <1>5 DEF Read
    <2>2. CASE s \notin split
      <3>1. Rows!Says("look", s, "done") /\ recorded' = recorded
        BY <1>5, <2>1, ReturnSays, Returned
      <3>2. Rows!Found(s)
        BY <1>2, <1>3, <1>5, <2>2, <3>1 DEF Rows!Found, Rows!Same
      <3>3. QED
        BY <1>1, <3>2 DEF Rows!Next
    <2>3. QED
      BY <1>2, <2>1, <2>2, TornIsStep
  <1>6. CASE row # NoRow /\ call[c].task = "answer" /\ Contains(row.answers, q)
    <2>1. Return(c, "duplicate", {}, by)
      BY <1>6 DEF Read
    <2>2. CASE s \notin split
      <3>1. Rows!Says("answer", s, "duplicate") /\ recorded' = recorded
        BY <1>6, <2>1, ReturnSays, Returned
      <3>2. Rows!Duplicate(s, q)
        BY <1>2, <1>3, <1>6, <2>2, <3>1 DEF Rows!Duplicate, Rows!Same, Contains, Rows!Contains
      <3>3. QED
        BY <1>1, <1>6, <3>2 DEF Rows!Next
    <2>3. QED
      BY <1>2, <2>1, <2>2, TornIsStep
  <1>7. CASE row # NoRow /\ call[c].task = "answer" /\ ~Contains(row.answers, q)
    <2>1. reply' = NoReply /\ UNCHANGED recorded
      BY <1>7 DEF Read
    <2>2. QED
      BY <2>1, QuietStep
  <1>8. QED
    BY <1>1, <1>4, <1>5, <1>6, <1>7

(* An update that memory answers; the database may have applied it.        *)
LEMMA MemoryUpdateIsStep ==
  ASSUME StoreInv, RowsInv, NEW c \in Caller, Active(c), call[c].query = "update",
         ApplyToMemory(c), db' \in {db, Apply(c)}, UNCHANGED <<gone, split, claimed>>
  PROVE  Rows!Next
  <1> DEFINE s == call[c].session
  <1>0. /\ s \in Session /\ db \in [Session -> Row \cup {NoRow}]
        /\ mem \in [Session -> Row \cup {NoRow}]
    BY DEF StoreInv, TypeInv, CallRecord
  <1>1. /\ \/ /\ mem[s] = NoRow /\ mem' = mem /\ Return(c, "not_found", {}, "memory")
           \/ /\ mem[s] # NoRow /\ mem' = [mem EXCEPT ![s] = Updated(mem[s], c)]
              /\ Return(c, "done", {}, "memory")
        /\ \/ db' = db
           \/ db[s] # NoRow /\ db' = [db EXCEPT ![s] = Updated(db[s], c)]
    BY DEF ApplyToMemory, Apply
  <1>2. CASE s \in split
    <2>1. RowOf' = RowOf /\ Durable' = Durable
      BY <1>0, <1>1, <1>2, RowsKept
    <2>2. s \notin Rows!Live
      BY <1>0, <1>2, WhereRow
    <2>3. QED
      BY <1>1, <1>2, <2>1, <2>2, TornIsStep, NotFoundIsStep
  <1>3. CASE s \notin split /\ mem[s] # NoRow
    <2>1. db[s] = NoRow /\ RowOf[s] = mem[s] /\ s \in Rows!Live
      BY <1>0, <1>3, WhereRow
    <2>2. Updated(mem[s], c) \in Row
      BY <1>0, <1>3, UpdatedRow
    <2>3. RowOf' = [RowOf EXCEPT ![s] = Updated(RowOf[s], c)] /\ Durable' = Durable
      BY <1>0, <1>1, <1>3, <2>1, <2>2, RowWritten
    <2>4. Return(c, "done", {}, "memory")
      BY <1>1, <1>3
    <2>5. QED
      BY <2>1, <2>3, <2>4, UpdateIsStep
  <1>4. CASE s \notin split /\ mem[s] = NoRow
    <2>1. Return(c, "not_found", {}, "memory") /\ mem' = mem
      BY <1>1, <1>4
    <2>2. CASE db' = db
      <3>1. RowOf' = RowOf /\ Durable' = Durable
        BY <2>1, <2>2, RowsKept
      <3>2. s \in Rows!Live => s \in Durable
        BY <1>0, <1>4, WhereRow
      <3>3. QED
        BY <2>1, <3>1, <3>2, NotFoundIsStep
    <2>3. CASE db[s] # NoRow /\ db' = [db EXCEPT ![s] = Updated(db[s], c)]
      <3>1. RowOf[s] = db[s] /\ s \in Rows!Live /\ s \in Durable
        BY <1>0, <1>4, <2>3, WhereRow
      <3>2. Updated(db[s], c) \in Row
        BY <1>0, <2>3, UpdatedRow
      <3>3. RowOf' = [RowOf EXCEPT ![s] = Updated(RowOf[s], c)] /\ Durable' = Durable
        BY <1>0, <1>4, <2>1, <2>3, <3>1, <3>2, RowWritten
      <3>4. QED
        BY <2>1, <3>1, <3>3, UpdateIsStep
    <2>4. QED
      BY <1>1, <2>2, <2>3
  <1>5. QED
    BY <1>2, <1>3, <1>4

(* An update that the database answers.                                    *)
LEMMA DatabaseUpdateIsStep ==
  ASSUME StoreInv, RowsInv, NEW c \in Caller, Answered(c), call[c].query = "update"
  PROVE  Rows!Next
  <1> DEFINE s == call[c].session
  <1>0. /\ s \in Session /\ db \in [Session -> Row \cup {NoRow}] /\ Active(c)
        /\ UNCHANGED <<mem, gone, split, claimed>> /\ db' = Apply(c)
    BY DEF Answered, Active, StoreInv, TypeInv, CallRecord
  <1>1. CASE db[s] = NoRow
    <2>1. Return(c, "missing", {}, "database") /\ db' = db
      BY <1>0, <1>1 DEF Answered, Apply
    <2>2. RowOf' = RowOf /\ Durable' = Durable /\ s \notin Durable
      BY <1>0, <1>1, <2>1, RowsKept DEF Durable
    <2>3. QED
      BY <1>0, <2>1, <2>2, NotFoundIsStep
  <1>2. CASE db[s] # NoRow
    <2>1. /\ Return(c, "done", {}, "database")
          /\ db' = [db EXCEPT ![s] = Updated(db[s], c)]
      BY <1>0, <1>2 DEF Answered, Apply
    <2>2. CASE s \in split
      <3>1. RowOf' = RowOf /\ Durable' = Durable
        BY <1>0, <2>1, <2>2, RowsKept
      <3>2. QED
        BY <1>0, <2>1, <2>2, <3>1, TornIsStep
    <2>3. CASE s \notin split
      <3>1. RowOf[s] = db[s] /\ s \in Rows!Live
        BY <1>0, <1>2, <2>3, WhereRow
      <3>2. Updated(db[s], c) \in Row
        BY <1>0, <1>2, UpdatedRow
      <3>3. RowOf' = [RowOf EXCEPT ![s] = Updated(RowOf[s], c)] /\ Durable' = Durable
        BY <1>0, <1>2, <2>1, <2>3, <3>1, <3>2, RowWritten
      <3>4. QED
        BY <1>0, <2>1, <3>1, <3>3, UpdateIsStep
    <2>4. QED
      BY <2>2, <2>3
  <1>3. QED
    BY <1>1, <1>2

(* A list shows the sessions of the store that answers.                    *)
LEMMA ListIsStep ==
  ASSUME StoreInv, ListInv, RowsInv, NEW c \in Caller, Active(c), call[c].query = "list",
         NEW store, store = db \/ store = mem, NEW by,
         Return(c, "done", Completed(store, c), by),
         UNCHANGED <<db, mem, split, gone, claimed>>
  PROVE  Rows!Next
  <1> DEFINE u == call[c].arg
             hits == IF call[c].task = "email"
                       THEN {s \in Rows!Completed \cap Tagged : RowOf[s].owner = Nobody}
                       ELSE {s \in Rows!Completed : RowOf[s].owner = u}
  <1>1. /\ call[c].task \in {"list", "email"}
        /\ call[c].task = "list" => u \in User
        /\ born \subseteq Session
    BY DEF StoreInv, TypeInv, CallInv, CallOK, Active, RowsInv
  <1>2. /\ RowOf' = RowOf /\ Durable' = Durable /\ recorded' = recorded
        /\ reply'.task = call[c].task /\ reply'.out = "done"
        /\ reply'.page = Completed(store, c)
    <2>1. RowOf' = RowOf /\ Durable' = Durable
      BY RowsKept
    <2>2. recorded' = recorded
      BY <1>1, Returned
    <2>3. QED
      BY <2>1, <2>2, ReturnSays
  <1>3. ASSUME NEW s
        PROVE  s \in Completed(store, c) \ split <=>
                 /\ s \in hits
                 /\ IF store = db THEN s \in Durable ELSE s \notin Durable
    <2>1. CASE s \in Session \ split
      <3>1. store[s] # NoRow => s \in born
        BY <2>1, StoredIsBorn
      <3>2. store[s] # NoRow <=>
              /\ s \in Rows!Live
              /\ IF store = db THEN s \in Durable ELSE s \notin Durable
        BY <2>1, WhereRow
      <3>3. store[s] # NoRow => store[s] = RowOf[s]
        BY <2>1, WhereRow
      <3>4. s \in Completed(store, c) <=>
              /\ store[s] # NoRow /\ store[s].status = "completed"
              /\ IF call[c].task = "email" THEN s \in Tagged /\ store[s].owner = Nobody
                                           ELSE store[s].owner = u
        BY <3>1 DEF Completed
      <3>5. s \in hits <=>
              /\ s \in Rows!Live /\ RowOf[s].status = "completed"
              /\ IF call[c].task = "email" THEN s \in Tagged /\ RowOf[s].owner = Nobody
                                           ELSE RowOf[s].owner = u
        BY DEF Rows!Completed
      <3>6. QED
        BY <2>1, <3>2, <3>3, <3>4, <3>5
    <2>2. CASE s \in split
      <3>1. s \in Session /\ s \notin Rows!Live
        BY <2>2, WhereRow DEF StoreInv, TypeInv
      <3>2. QED
        BY <2>2, <3>1 DEF Rows!Completed
    <2>3. CASE s \notin Session
      BY <1>1, <2>3 DEF Completed, Rows!Completed, Rows!Live
    <2>4. QED
      BY <2>1, <2>2, <2>3
  <1>4. Completed(store, c) \ split \in {hits \cap Durable, hits \ Durable}
    <2> HIDE DEF hits
    <2>1. ASSUME store = db
          PROVE  Completed(store, c) \ split = hits \cap Durable
      BY <1>3, <2>1
    <2>2. ASSUME store # db
          PROVE  Completed(store, c) \ split = hits \ Durable
      BY <1>3, <2>2
    <2>3. QED
      BY <2>1, <2>2
  <1>5. Rows!Shows(call[c].task, hits)
    BY <1>2, <1>4 DEF Rows!Shows, Rows!Same
  <1>6. CASE call[c].task = "email"
    BY <1>5, <1>6 DEF Rows!ListByEmail, Rows!Next
  <1>7. CASE call[c].task = "list"
    <2>1. Rows!List(u)
      BY <1>5, <1>7 DEF Rows!List
    <2>2. QED
      BY <1>1, <1>7, <2>1 DEF Rows!Next
  <1>8. QED
    BY <1>1, <1>6, <1>7

(* A claim takes what is free in the store that answers, and maybe in the  *)
(* database too.                                                           *)
LEMMA ClaimIsStep ==
  ASSUME StoreInv, RowsInv, NEW c \in Caller, Active(c), call[c].query = "claim",
         db' \in {db, Claim(db, c)}, mem' \in {mem, Claim(mem, c)},
         NEW told,
         \/ told = Free(db, call[c].ids) /\ db' = Claim(db, c) /\ mem' = mem
         \/ told = Free(mem, call[c].ids) /\ mem' = Claim(mem, c),
         claimed' = claimed \cup told, NEW by, Return(c, "done", {}, by),
         UNCHANGED <<split, gone>>
  PROVE  Rows!Next
  <1> DEFINE u == call[c].arg
             ids == call[c].ids
             free == {s \in ids \cap Rows!Live : RowOf[s].owner = Nobody}
             claims(taken) == [s \in Session |-> IF s \in taken
                                 THEN [RowOf[s] EXCEPT !.owner = u] ELSE RowOf[s]]
  <1>0. /\ u \in User /\ ids \subseteq Session /\ call[c].task = "claim"
        /\ db \in [Session -> Row \cup {NoRow}] /\ mem \in [Session -> Row \cup {NoRow}]
    BY DEF StoreInv, TypeInv, CallRecord, CallInv, CallOK, Active
  <1>1. recorded' = recorded /\ reply'.task = "claim" /\ reply'.out = "done"
    BY <1>0, ReturnSays, Returned
  <1>2. ASSUME NEW s \in Session, s \notin split
        PROVE  /\ s \in Free(db, ids) <=> s \in free /\ s \in Durable
               /\ s \in Free(mem, ids) <=> s \in free /\ s \notin Durable
    BY <1>0, <1>2, WhereRow DEF Free
  <1>3. \A s \in free : s \in Session /\ s \notin split
    BY <1>0, WhereRow
  <1>4. ASSUME NEW s \in Session
        PROVE  /\ Claim(db, c)[s] = NoRow <=> db[s] = NoRow
               /\ Claim(mem, c)[s] = NoRow <=> mem[s] = NoRow
               /\ s \in Free(db, ids) => Claim(db, c)[s] = [db[s] EXCEPT !.owner = u]
               /\ s \notin Free(db, ids) => Claim(db, c)[s] = db[s]
               /\ s \in Free(mem, ids) => Claim(mem, c)[s] = [mem[s] EXCEPT !.owner = u]
               /\ s \notin Free(mem, ids) => Claim(mem, c)[s] = mem[s]
    BY <1>0, ClaimedRows DEF Claim
  <1>5. Durable' = Durable
    BY <1>4 DEF Durable
  <1> HIDE DEF free
  <1>6. \E taken \in {free \cap Durable, free \ Durable, free} :
          RowOf' = claims(taken) /\ told \cap Rows!Live \subseteq taken
    <2>0. told \subseteq ids /\ \A s \in told \cap Rows!Live : s \notin split /\ s \in Session
      BY <1>0, WhereRow DEF Free
    <2>1. CASE told = Free(db, ids) /\ db' = Claim(db, c) /\ mem' = mem
      <3>1. \A s \in Session : RowOf'[s] = claims(free \cap Durable)[s]
        <4>1. ASSUME NEW s \in Session, s \in split
              PROVE  RowOf'[s] = claims(free \cap Durable)[s]
          BY <1>3, <4>1 DEF RowOf
        <4>2. ASSUME NEW s \in Session, s \notin split
              PROVE  RowOf'[s] = claims(free \cap Durable)[s]
          BY <1>2, <1>4, <2>1, <4>2, WhereRow DEF RowOf, ReadEither
        <4>3. QED
          BY <4>1, <4>2
      <3>2. RowOf' = claims(free \cap Durable)
        BY <3>1 DEF RowOf
      <3>3. told \cap Rows!Live \subseteq free \cap Durable
        BY <1>2, <2>0, <2>1
      <3>4. QED
        BY <3>2, <3>3
    <2>2. CASE told = Free(mem, ids) /\ mem' = Claim(mem, c) /\ db' = db
      <3>1. \A s \in Session : RowOf'[s] = claims(free \ Durable)[s]
        <4>1. ASSUME NEW s \in Session, s \in split
              PROVE  RowOf'[s] = claims(free \ Durable)[s]
          BY <1>3, <4>1 DEF RowOf
        <4>2. ASSUME NEW s \in Session, s \notin split
              PROVE  RowOf'[s] = claims(free \ Durable)[s]
          BY <1>2, <1>4, <2>2, <4>2, WhereRow DEF RowOf, ReadEither
        <4>3. QED
          BY <4>1, <4>2
      <3>2. RowOf' = claims(free \ Durable)
        BY <3>1 DEF RowOf
      <3>3. told \cap Rows!Live \subseteq free \ Durable
        BY <1>2, <2>0, <2>2
      <3>4. QED
        BY <3>2, <3>3
    <2>3. CASE told = Free(mem, ids) /\ mem' = Claim(mem, c) /\ db' = Claim(db, c)
      <3>1. \A s \in Session : RowOf'[s] = claims(free)[s]
        <4>1. ASSUME NEW s \in Session, s \in split
              PROVE  RowOf'[s] = claims(free)[s]
          BY <1>3, <4>1 DEF RowOf
        <4>2. ASSUME NEW s \in Session, s \notin split
              PROVE  RowOf'[s] = claims(free)[s]
          BY <1>2, <1>4, <2>3, <4>2, WhereRow DEF RowOf, ReadEither
        <4>3. QED
          BY <4>1, <4>2
      <3>2. RowOf' = claims(free)
        BY <3>1 DEF RowOf
      <3>3. told \cap Rows!Live \subseteq free
        BY <1>2, <2>0, <2>3
      <3>4. QED
        BY <3>2, <3>3
    <2>4. QED
      BY <2>1, <2>2, <2>3
  <1>7. told \in SUBSET ids
    BY DEF Free
  <1> USE DEF free
  <1>8. Rows!Claim(ids, u)
    BY <1>1, <1>5, <1>6, <1>7 DEF Rows!Claim
  <1>9. QED
    BY <1>0, <1>8 DEF Rows!Next

(* The newest key is kept.                                                 *)
LEMMA NewestKept ==
  ASSUME NEW keys \in Seq(Session), NEW s \in Session
  PROVE  s \in ToSet(Bounded(Append(keys, s)))
  <1> DEFINE all == Append(keys, s)
  <1>1. /\ all \in Seq(Session) /\ Len(all) = Len(keys) + 1 /\ Len(keys) \in Nat
        /\ all[Len(all)] = s
    OBVIOUS
  <1>2. CASE Len(all) > MaxEntries
    <2>1. Len(all) - 1 \in 1..(Len(all) - 1) /\ all # <<>>
      BY <1>1, <1>2, StoreAssumption
    <2>2. Len(Tail(all)) = Len(all) - 1 /\ Tail(all)[Len(all) - 1] = s
      BY <1>1, <2>1
    <2>3. Tail(all) \in Seq(Session) /\ DOMAIN Tail(all) = 1..(Len(all) - 1)
      BY <1>1, <2>1, <2>2
    <2>4. QED
      BY <1>2, <2>1, <2>2, <2>3 DEF Bounded, ToSet
  <1>3. CASE ~(Len(all) > MaxEntries)
    <2>1. Len(all) \in DOMAIN all
      BY <1>1
    <2>2. QED
      BY <1>1, <1>3, <2>1 DEF Bounded, ToSet
  <1>4. QED
    BY <1>2, <1>3

(* A creation in memory, which the database may have applied too.          *)
LEMMA CreateIsStep ==
  ASSUME StoreInv, ListInv, RowsInv, NEW c \in Caller, Creates(c), CreateInMemory(c),
         db' \in {db, Apply(c)},
         split' = IF db' # db THEN split \cup {call[c].session} ELSE split
  PROVE  /\ Rows!Next
         /\ \A x \in gone' \ gone : x \in Session /\ mem[x] # NoRow
         /\ \A x \in gone' : mem'[x] = NoRow /\ (x \in split' \/ db'[x] = NoRow)
  <1> DEFINE s == call[c].session
             u == call[c].arg
             new == [owner |-> u, answers |-> <<>>, status |-> "active"]
             kept == ToSet(Bounded(Append(order, s)))
             F == ToSet(Append(order, s)) \ kept
  <1>0. /\ s \in Session /\ db \in [Session -> Row \cup {NoRow}]
        /\ mem \in [Session -> Row \cup {NoRow}] /\ order \in Seq(Session)
        /\ db[s] = NoRow /\ mem[s] = NoRow /\ s \notin gone \cup split
        /\ u \in User \cup {Nobody} /\ call[c].task = "create" /\ gone \subseteq Session
    BY DEF StoreInv, TypeInv, CallRecord, BirthInv, RowsInv, CallInv, CallOK, Creates,
           Active
  <1>1. /\ mem' = [x \in Session |-> IF x \notin kept THEN NoRow
                                      ELSE IF x = s THEN new ELSE mem[x]]
        /\ gone' = gone \cup F /\ claimed' = claimed
        /\ Return(c, "done", {}, "memory")
    BY DEF CreateInMemory, NewRow
  <1>2. Apply(c) = [db EXCEPT ![s] = new]
    BY DEF Apply, NewRow, Creates
  <1>3. new # NoRow
    BY CreatedRow DEF NewRow
  <1>4. /\ s \in kept /\ \A x \in F : x \in ToSet(order)
        /\ \A x \in Session : mem[x] # NoRow <=> x \in ToSet(order)
        /\ \A x \in ToSet(order) : x \in kept \/ x \in F
        /\ kept \subseteq ToSet(order) \cup {s}
    <2>1. ToSet(Append(order, s)) = ToSet(order) \cup {s} /\ Append(order, s) \in Seq(Session)
      BY <1>0, AppendedOnce
    <2>2. kept \subseteq ToSet(Append(order, s)) /\ s \in kept
      BY <1>0, <2>1, BoundKeeps, NewestKept
    <2>3. \A x \in Session : mem[x] # NoRow <=> x \in ToSet(order)
      BY DEF StoreInv, TypeInv, ListInv, OrderOK
    <2>4. QED
      BY <2>1, <2>2, <2>3
  <1> HIDE DEF kept, F, new
  <1>5. ToSet(order) \subseteq Session
    BY <1>0 DEF ToSet
  <1>6. /\ mem'[s] = new /\ \A x \in F : mem'[x] = NoRow /\ mem[x] # NoRow /\ x # s
        /\ \A x \in Session : x \notin F /\ x # s => mem'[x] = mem[x]
        /\ F \subseteq Session
    <2>1. \A x \in F : x \in Session /\ x \notin kept /\ mem[x] # NoRow
      BY <1>4, <1>5 DEF F
    <2>2. mem'[s] = new
      BY <1>0, <1>1, <1>4
    <2>3. ASSUME NEW x \in Session, x \notin F, x # s
          PROVE  mem'[x] = mem[x]
      BY <1>1, <1>4, <2>3
    <2>4. QED
      BY <1>0, <1>1, <1>4, <2>1, <2>2, <2>3
  <1>7. \A x \in Session \ {s} : db'[x] = db[x]
    BY <1>0, <1>2
  <1>8. Rows!Forgets(F)
    <2>1. \A x \in F : x \in split \/ (x \in Rows!Live /\ x \notin Durable)
      BY <1>6, WhereRow
    <2>2. QED
      BY <1>1, <2>1 DEF Rows!Forgets
  <1>9. s \notin Rows!Live \cup gone \cup split
    BY <1>0, WhereRow
  <1>10. /\ Rows!Says("create", s, "done") /\ recorded' = recorded
    BY <1>0, <1>1, ReturnSays, Returned
  <1>11. \A x \in Session \ {s} : RowOf'[x] = IF x \in F THEN NoRow ELSE RowOf[x]
    <2>1. ASSUME NEW x \in Session \ {s}
          PROVE  RowOf'[x] = IF x \in F THEN NoRow ELSE RowOf[x]
      <3>1. x \in split' <=> x \in split
        BY <2>1
      <3>2. x \in F => db[x] = NoRow \/ x \in split
        BY <1>6, <2>1 DEF StoreInv, OneStore
      <3>3. QED
        BY <1>6, <1>7, <2>1, <3>1, <3>2 DEF RowOf, ReadEither
    <2>2. QED
      BY <2>1
  <1>12. Durable' = Durable
    <2>1. \A x \in Session \ {s} : x \in Durable' <=> x \in Durable
      BY <1>7 DEF Durable
    <2>2. s \notin Durable /\ s \notin Durable'
      BY <1>0 DEF Durable
    <2>3. QED
      BY <2>1, <2>2 DEF Durable
  <1>13. \/ RowOf' = [Rows!Without(F) EXCEPT ![s] = new] /\ split' = split
         \/ RowOf' = Rows!Without(F) /\ split' = split \cup {s}
    <2>1. CASE db' = db
      <3>1. RowOf'[s] = new
        BY <1>0, <1>6, <2>1 DEF RowOf, ReadEither
      <3>2. \A x \in Session : RowOf'[x] = [Rows!Without(F) EXCEPT ![s] = new][x]
        BY <1>11, <3>1 DEF Rows!Without
      <3>3. QED
        BY <2>1, <3>2 DEF RowOf, Rows!Without
    <2>2. CASE db' # db
      <3>1. RowOf'[s] = NoRow /\ RowOf[s] = NoRow
        BY <1>0, <2>2 DEF RowOf, ReadEither
      <3>2. \A x \in Session : RowOf'[x] = Rows!Without(F)[x]
        BY <1>11, <3>1 DEF Rows!Without
      <3>3. QED
        BY <2>2, <3>2 DEF RowOf, Rows!Without
    <2>3. QED
      BY <2>1, <2>2
  <1>14. Rows!Create(s, u)
    BY <1>6, <1>8, <1>9, <1>10, <1>1, <1>12, <1>13 DEF Rows!Create, new
  <1>15. Rows!Next
    BY <1>0, <1>14 DEF Rows!Next
  <1>16. ASSUME NEW x \in gone'
         PROVE  mem'[x] = NoRow /\ (x \in split' \/ db'[x] = NoRow)
    <2>1. x \in Session /\ x # s
      BY <1>0, <1>1, <1>6, <1>16
    <2>2. split \subseteq split'
      OBVIOUS
    <2>3. CASE x \in F
      <3>1. db[x] = NoRow \/ x \in split
        BY <1>6, <2>1, <2>3 DEF StoreInv, OneStore
      <3>2. QED
        BY <1>6, <1>7, <2>1, <2>2, <2>3, <3>1
    <2>4. CASE x \notin F
      <3>1. mem[x] = NoRow /\ (x \in split \/ db[x] = NoRow)
        BY <1>1, <1>16, <2>4 DEF RowsInv
      <3>2. QED
        BY <1>6, <1>7, <2>1, <2>2, <2>4, <3>1
    <2>5. QED
      BY <2>3, <2>4
  <1>17. QED
    BY <1>1, <1>6, <1>15, <1>16

-----------------------------------------------------------------------------
(* Each action is a step of SessionRows, and keeps RowsInv                 *)

(* A call that ends, or goes on to its update, creates nothing any more.   *)
Over(c) == Moves(c) /\ ~Creates(c)' /\ call'[c].task # "list"

LEMMA ReturnIsOver ==
  ASSUME StoreInv, NEW c \in Caller, NEW out, NEW page, NEW by,
         Return(c, out, page, by)
  PROVE  Over(c)
  <1>1. call \in [Caller -> CallRecord] /\ call' = [call EXCEPT ![c] = Idle]
    BY DEF StoreInv, TypeInv, Return
  <1>2. call'[c].at = "idle" /\ call'[c].task = "look"
    BY <1>1 DEF Idle
  <1>3. QED
    BY <1>2, ReturnMoves DEF Over, Creates, Active

LEMMA ReadIsOver ==
  ASSUME StoreInv, NEW c \in Caller, Active(c), call[c].query = "get",
         NEW row, NEW by, Read(c, row, by)
  PROVE  Over(c)
  <1>1. CASE \E out : Return(c, out, {}, by)
    BY <1>1, ReturnIsOver
  <1>2. CASE call' = [call EXCEPT ![c] = [@ EXCEPT !.at = "asking", !.row = row,
                                            !.by = by, !.query = "update"]]
    <2>1. call[c] \in CallRecord /\ call \in [Caller -> CallRecord]
          /\ call[c].task \in {"answer", "look"}
      BY DEF StoreInv, TypeInv, CallInv, CallOK, Active
    <2>2. call'[c] = [call[c] EXCEPT !.at = "asking", !.row = row,
                                     !.by = by, !.query = "update"]
      BY <1>2, <2>1
    <2>3. call'[c].query = "update" /\ call'[c].task = call[c].task
      BY <2>1, <2>2 DEF CallRecord
    <2>4. QED
      BY <2>1, <2>3, ReadMoves DEF Over, Creates
  <1>3. QED
    BY <1>1, <1>2 DEF Read

LEMMA OverKeepsRows ==
  ASSUME StoreInv, RowsInv, NEW c \in Caller, Over(c), split \subseteq split',
         \A x \in split' \ split : Creates(c) /\ x = call[c].session,
         \A x \in gone' \ gone : x \in Session /\ mem[x] # NoRow,
         \A x \in gone' : mem'[x] = NoRow /\ (x \in split' \/ db'[x] = NoRow)
  PROVE  RowsInv'
  <1>1. ASSUME NEW d \in Caller, Creates(d)'
        PROVE  call'[d].session \notin gone' \cup split'
    <2>1. d # c /\ call'[d] = call[d] /\ Creates(d)
      BY <1>1 DEF Over, Moves, Creates, Active
    <2>2. call[d].session \notin gone \cup split
      BY <2>1 DEF RowsInv
    <2>3. call[d].session \notin gone' \ gone
      BY <2>1, StoredIsBorn
    <2>4. call[d].session \notin split' \ split
      BY <2>1 DEF StoreInv, BirthInv
    <2>5. QED
      BY <2>1, <2>2, <2>3, <2>4
  <1>2. ASSUME NEW d \in Caller, call'[d].task = "list"
        PROVE  call'[d].arg \in User
    BY <1>2 DEF Over, Moves, RowsInv
  <1>3. QED
    BY <1>1, <1>2 DEF RowsInv

(* A query that memory answers, because of the cooldown or because the     *)
(* database could not be reached.                                          *)
LEMMA FromMemoryIsStep ==
  ASSUME StoreInv, ListInv, RowsInv, NEW c \in Caller, Active(c), FromMemory(c),
         db' \in {db, Apply(c)},
         split' = IF call[c].query = "create" /\ db' # db
                    THEN split \cup {call[c].session} ELSE split
  PROVE  Rows!Next /\ RowsInv'
  <1> DEFINE s == call[c].session
  <1>1. CASE call[c].query = "create" /\ CreateInMemory(c)
    <2>1. Creates(c)
      BY <1>1 DEF Creates
    <2>2. /\ Rows!Next
          /\ \A x \in gone' \ gone : x \in Session /\ mem[x] # NoRow
          /\ \A x \in gone' : mem'[x] = NoRow /\ (x \in split' \/ db'[x] = NoRow)
      BY <1>1, <2>1, CreateIsStep
    <2>3. Over(c)
      BY <1>1, ReturnIsOver DEF CreateInMemory
    <2>4. RowsInv'
      BY <2>1, <2>2, <2>3, OverKeepsRows
    <2>5. QED
      BY <2>2, <2>4
  <1>2. CASE call[c].query = "get" /\ Read(c, mem[s], "memory")
             /\ UNCHANGED <<mem, order, gone, claimed>>
    <2>1. db' = db /\ split' = split
      BY <1>2, ApplyStep
    <2>2. Rows!Next
      BY <1>2, <2>1, ReadIsStep
    <2>3. Over(c)
      BY <1>2, ReadIsOver
    <2>4. RowsInv'
      BY <1>2, <2>1, <2>3, OverKeepsRows DEF RowsInv
    <2>5. QED
      BY <2>2, <2>4
  <1>3. CASE call[c].query = "update" /\ ApplyToMemory(c) /\ UNCHANGED <<gone, claimed>>
    <2>1. split' = split
      BY <1>3
    <2>2. Rows!Next
      BY <1>3, <2>1, MemoryUpdateIsStep
    <2>3. Over(c)
      BY <1>3, ReturnIsOver DEF ApplyToMemory
    <2>4. \A x \in gone : mem'[x] = NoRow /\ (x \in split \/ db'[x] = NoRow)
      <3>1. \A x \in Session : /\ mem[x] = NoRow => mem'[x] = NoRow
                               /\ db[x] = NoRow => db'[x] = NoRow
        <4>1. ~Creates(c)
          BY <1>3 DEF Creates
        <4>2. \/ mem[s] = NoRow /\ mem' = mem
              \/ mem[s] # NoRow /\ mem' = [mem EXCEPT ![s] = Updated(mem[s], c)]
          BY <1>3 DEF ApplyToMemory
        <4>3. mem \in [Session -> Row \cup {NoRow}]
          BY DEF StoreInv, TypeInv
        <4>4. QED
          BY <4>1, <4>2, <4>3, ApplyStep
      <3>2. gone \subseteq Session
        BY DEF StoreInv, TypeInv
      <3>3. QED
        BY <3>1, <3>2 DEF RowsInv
    <2>5. RowsInv'
      BY <1>3, <2>1, <2>3, <2>4, OverKeepsRows
    <2>6. QED
      BY <2>2, <2>5
  <1>4. CASE /\ call[c].query = "claim" /\ mem' = Claim(mem, c)
             /\ claimed' = claimed \cup Free(mem, call[c].ids)
             /\ Return(c, "done", {}, "memory") /\ UNCHANGED <<order, gone>>
    <2>1. split' = split /\ db' \in {db, Claim(db, c)}
      BY <1>4 DEF Apply
    <2>2. Rows!Next
      BY <1>4, <2>1, ClaimIsStep
    <2>3. Over(c)
      BY <1>4, ReturnIsOver
    <2>4. \A x \in gone : mem'[x] = NoRow /\ (x \in split \/ db'[x] = NoRow)
      <3>1. gone \subseteq Session /\ db \in [Session -> Row \cup {NoRow}]
            /\ mem \in [Session -> Row \cup {NoRow}]
        BY DEF StoreInv, TypeInv
      <3>2. \A x \in Session : /\ mem[x] = NoRow => mem'[x] = NoRow
                               /\ db[x] = NoRow => db'[x] = NoRow
        BY <1>4, <2>1, <3>1, ClaimedRows
      <3>3. QED
        BY <3>1, <3>2 DEF RowsInv
    <2>5. RowsInv'
      BY <1>4, <2>1, <2>3, <2>4, OverKeepsRows
    <2>6. QED
      BY <2>2, <2>5
  <1>5. CASE call[c].query = "list" /\ Return(c, "done", Completed(mem, c), "memory")
             /\ UNCHANGED <<mem, order, gone, claimed>>
    <2>1. db' = db /\ split' = split
      BY <1>5 DEF Apply
    <2>2. Rows!Next
      BY <1>5, <2>1, ListIsStep
    <2>3. Over(c)
      BY <1>5, ReturnIsOver
    <2>4. RowsInv'
      BY <1>5, <2>1, <2>3, OverKeepsRows DEF RowsInv
    <2>5. QED
      BY <2>2, <2>4
  <1>6. QED
    BY <1>1, <1>2, <1>3, <1>4, <1>5 DEF FromMemory

LEMMA AskIsStep ==
  ASSUME StoreInv, ListInv, RowsInv, NEW c \in Caller, Ask(c)
  PROVE  Rows!Next /\ RowsInv'
  <1>1. Active(c) /\ UNCHANGED <<db, split>> /\ call[c].at = "asking"
    BY DEF Ask, Active
  <1>2. CASE open
    BY <1>1, <1>2, FromMemoryIsStep DEF Ask
  <1>3. CASE ~open
    <2>1. /\ call' = [call EXCEPT ![c].at = "querying"] /\ reply' = NoReply
          /\ UNCHANGED <<mem, gone, recorded, claimed>>
      BY <1>3 DEF Ask
    <2>2. call[c] \in CallRecord /\ call \in [Caller -> CallRecord]
      BY DEF StoreInv, TypeInv
    <2>3. /\ \A d \in Caller \ {c} : call'[d] = call[d]
          /\ call'[c].session = call[c].session /\ call'[c].query = call[c].query
          /\ call'[c].task = call[c].task /\ call'[c].arg = call[c].arg
      BY <2>1, <2>2 DEF CallRecord
    <2>4. RowsInv'
      BY <1>1, <2>1, <2>3 DEF RowsInv, Creates, Active
    <2>5. QED
      BY <1>1, <2>1, <2>4, QuietStep
  <1>4. QED
    BY <1>2, <1>3

LEMMA AnsweredIsStep ==
  ASSUME StoreInv, ListInv, RowsInv, NEW c \in Caller, Answered(c)
  PROVE  Rows!Next /\ RowsInv'
  <1> DEFINE s == call[c].session
             u == call[c].arg
             new == [owner |-> u, answers |-> <<>>, status |-> "active"]
  <1>0. /\ Active(c) /\ db' = Apply(c) /\ UNCHANGED <<mem, split, gone>>
        /\ s \in Session /\ db \in [Session -> Row \cup {NoRow}]
        /\ gone \subseteq Session /\ call[c].query \in Query
    BY DEF Answered, Active, StoreInv, TypeInv, CallRecord
  <1>1. Over(c)
    <2>1. CASE call[c].query = "get"
      BY <1>0, <2>1, ReadIsOver DEF Answered
    <2>2. CASE call[c].query # "get"
      <3>1. \E out, page : Return(c, out, page, "database")
        BY <2>2 DEF Answered
      <3>2. QED
        BY <3>1, ReturnIsOver
    <2>3. QED
      BY <2>1, <2>2
  <1>2. \A x \in gone : mem[x] = NoRow /\ (x \in split \/ db'[x] = NoRow)
    <2>1. ASSUME NEW x \in gone, x \notin split
          PROVE  db'[x] = NoRow
      BY <1>0, <2>1, ApplyStep DEF RowsInv
    <2>2. QED
      BY <2>1 DEF RowsInv
  <1>3. RowsInv'
    BY <1>0, <1>1, <1>2, OverKeepsRows
  <1>4. CASE call[c].query = "get"
    <2>1. /\ Read(c, ReadEither(s), "database") /\ db' = db /\ claimed' = claimed
      BY <1>0, <1>4, ApplyStep DEF Answered
    <2>2. QED
      BY <1>0, <1>3, <1>4, <2>1, ReadIsStep
  <1>5. CASE call[c].query = "list"
    <2>1. /\ Return(c, "done", Completed(db, c), "database") /\ db' = db
          /\ claimed' = claimed
      BY <1>0, <1>5 DEF Answered, Apply
    <2>2. QED
      BY <1>0, <1>3, <1>5, <2>1, ListIsStep
  <1>6. CASE call[c].query = "update"
    BY <1>3, <1>6, DatabaseUpdateIsStep
  <1>7. CASE call[c].query = "claim"
    <2>1. /\ Return(c, "done", {}, "database") /\ db' = Claim(db, c)
          /\ claimed' = claimed \cup Free(db, call[c].ids)
      BY <1>0, <1>7 DEF Answered, Apply
    <2>2. QED
      BY <1>0, <1>3, <1>7, <2>1, ClaimIsStep
  <1>8. CASE call[c].query = "create"
    <2>1. /\ Return(c, "done", {}, "database") /\ claimed' = claimed
          /\ db' = [db EXCEPT ![s] = new]
      BY <1>0, <1>8 DEF Answered, Apply, NewRow
    <2>2. /\ db[s] = NoRow /\ mem[s] = NoRow /\ s \notin gone \cup split
          /\ u \in User \cup {Nobody} /\ call[c].task = "create" /\ new # NoRow
      BY <1>0, <1>8, CreatedRow DEF StoreInv, BirthInv, RowsInv, Creates, CallInv, CallOK,
                                    Active, NewRow
    <2> HIDE DEF new
    <2>3. RowOf'[s] = new /\ \A x \in Session \ {s} : RowOf'[x] = RowOf[x]
      BY <1>0, <2>1, <2>2 DEF RowOf, ReadEither
    <2>4. RowOf' = [RowOf EXCEPT ![s] = new]
      BY <1>0, <2>3 DEF RowOf
    <2>5. Durable' = Durable \cup {s}
      BY <1>0, <2>1, <2>2 DEF Durable
    <2>6. Rows!Says("create", s, "done") /\ recorded' = recorded
      BY <2>1, <2>2, ReturnSays, Returned
    <2>7. s \notin Rows!Live \cup gone \cup split
      BY <1>0, <2>2, WhereRow
    <2>8. Rows!Create(s, u)
      BY <1>0, <2>1, <2>4, <2>5, <2>6, <2>7 DEF Rows!Create, new
    <2>9. QED
      BY <1>0, <1>3, <2>2, <2>8 DEF Rows!Next
  <1>9. QED
    BY <1>0, <1>4, <1>5, <1>6, <1>7, <1>8 DEF Query

LEMMA RefusedIsStep ==
  ASSUME StoreInv, RowsInv, NEW c \in Caller, Refused(c)
  PROVE  Rows!Next /\ RowsInv'
  <1>1. /\ Return(c, "error", {}, "database")
        /\ UNCHANGED <<db, mem, split, gone, claimed>>
    BY DEF Refused
  <1>2. RowOf' = RowOf /\ Durable' = Durable
    BY <1>1, RowsKept
  <1>3. call[c].task # "none"
    BY DEF StoreInv, TypeInv, CallRecord, Task
  <1>4. recorded' = recorded /\ reply'.task # "none" /\ reply'.out = "error"
    BY <1>1, <1>3, Returned, ReturnSays
  <1>5. Rows!Refuse
    BY <1>1, <1>2, <1>4 DEF Rows!Refuse, Rows!Same
  <1>6. RowsInv'
    BY <1>1, ReturnIsOver, OverKeepsRows DEF RowsInv
  <1>7. QED
    BY <1>5, <1>6 DEF Rows!Next

LEMMA BeginIsStep ==
  ASSUME StoreInv, ListInv, RowsInv, NEW c \in Caller, Begin(c)
  PROVE  Rows!Next /\ RowsInv'
  <1>0. /\ UNCHANGED <<db, mem, split, gone, recorded, claimed>> /\ reply' = NoReply
        /\ call \in [Caller -> CallRecord]
    BY DEF Begin, StoreInv, TypeInv
  <1>1. \E task, s, arg, ids :
          /\ task \in Task /\ Starts(c, task, s, arg, ids)
          /\ task = "create" => s \notin born
          /\ task = "list" => arg \in User
    BY DEF Begin, Task
  <1>2. PICK task, s, arg, ids :
          /\ task \in Task /\ Starts(c, task, s, arg, ids)
          /\ task = "create" => s \notin born
          /\ task = "list" => arg \in User
    BY <1>1
  <1> DEFINE query == CASE task = "create" -> "create"  [] task = "end" -> "update"
                       [] task = "claim" -> "claim"
                       [] task \in {"list", "email"} -> "list" [] OTHER -> "get"
             next ==
        [Idle EXCEPT !.at = IF task = "answer" THEN "queued" ELSE "asking",
           !.task = task, !.session = s, !.arg = arg, !.ids = ids,
           !.query = query, !.known = IF task = "email" THEN claimed ELSE {}]
  <1>3. call' = [call EXCEPT ![c] = next]
    BY <1>2 DEF Starts
  <1>4. query = "create" <=> task = "create"
    BY <1>2 DEF Task
  <1>5. next.session = s /\ next.query = query /\ next.task = task /\ next.arg = arg
    <2> HIDE DEF query
    <2>1. QED
      BY DEF Idle
  <1> HIDE DEF next, query
  <1>6. call'[c] = next /\ \A d \in Caller \ {c} : call'[d] = call[d]
    BY <1>0, <1>3
  <1>7. Creates(c)' => call'[c].session \notin gone \cup split
    BY <1>2, <1>4, <1>5, <1>6 DEF Creates, ListInv
  <1>8. RowsInv'
    BY <1>0, <1>2, <1>5, <1>6, <1>7 DEF RowsInv, Creates, Active
  <1>9. QED
    BY <1>0, <1>8, QuietStep

LEMMA EnterIsStep ==
  ASSUME StoreInv, RowsInv, NEW c \in Caller, Enter(c)
  PROVE  Rows!Next /\ RowsInv'
  <1>1. /\ call' = [call EXCEPT ![c].at = "asking"] /\ call[c].at = "queued"
        /\ UNCHANGED <<db, mem, split, gone, recorded, claimed>>
        /\ reply' = NoReply /\ call \in [Caller -> CallRecord]
    BY DEF Enter, StoreInv, TypeInv
  <1>2. call[c] \in CallRecord /\ call[c].query # "create" /\ call[c].task = "answer"
    BY <1>1 DEF StoreInv, CallInv, CallOK
  <1>3. /\ call'[c].query = call[c].query /\ call'[c].task = call[c].task
        /\ \A d \in Caller \ {c} : call'[d] = call[d]
    BY <1>1, <1>2 DEF CallRecord
  <1>4. RowsInv'
    BY <1>1, <1>2, <1>3 DEF RowsInv, Creates, Active
  <1>5. QED
    BY <1>1, <1>4, QuietStep

LEMMA RestartIsStep ==
  ASSUME StoreInv, ListInv, RowsInv, Restart
  PROVE  Rows!Next /\ RowsInv'
  <1> DEFINE F == ToSet(order)
  <1>1. /\ mem' = [s \in Session |-> NoRow] /\ gone' = gone \cup F
        /\ call' = [c \in Caller |-> Idle] /\ reply' = NoReply
        /\ UNCHANGED <<db, split, recorded, claimed>>
    BY DEF Restart
  <1>2. F \subseteq Session /\ \A s \in Session : mem[s] # NoRow <=> s \in F
    <2>1. F \subseteq Session
      BY DEF StoreInv, TypeInv, ToSet
    <2>2. QED
      BY <2>1 DEF StoreInv, TypeInv, ListInv, OrderOK
  <1> HIDE DEF F
  <1>3. \A s \in F : s \in split \/ (s \in Rows!Live /\ s \notin Durable)
    BY <1>2, WhereRow
  <1>4. RowOf' = Rows!Without(F)
    <2>1. \A s \in Session : RowOf'[s] = Rows!Without(F)[s]
      <3>1. ASSUME NEW s \in Session
            PROVE  RowOf'[s] = IF s \in F THEN NoRow ELSE RowOf[s]
        BY <1>1, <1>2 DEF RowOf, ReadEither, StoreInv, OneStore
      <3>2. QED
        BY <3>1 DEF Rows!Without
    <2>2. QED
      BY <2>1 DEF RowOf, Rows!Without
  <1>5. Durable' = Durable
    BY <1>1 DEF Durable
  <1>6. Rows!Restart
    BY <1>1, <1>2, <1>3, <1>4, <1>5 DEF Rows!Restart, Rows!Forgets, Rows!Silent, NoReply
  <1>7. RowsInv'
    <2>1. \A s \in F : s \in split \/ db[s] = NoRow
      BY <1>2 DEF StoreInv, OneStore
    <2>2. gone \subseteq Session
      BY DEF StoreInv, TypeInv
    <2>3. Idle.at = "idle" /\ Idle.task = "look"
      BY DEF Idle
    <2>4. QED
      BY <1>1, <1>2, <2>1, <2>2, <2>3 DEF RowsInv, Creates, Active
  <1>8. QED
    BY <1>6, <1>7 DEF Rows!Next

(* One step of the repository is one step of the promise.                  *)
LEMMA StepOfRows ==
  ASSUME StoreInv, ListInv, RowsInv, [Next]_vars
  PROVE  [Rows!Next]_Rows!vars /\ RowsInv'
  <1>1. ASSUME NEW c \in Caller, Unreachable(c)
        PROVE  Rows!Next /\ RowsInv'
    <2>1. /\ Active(c) /\ FromMemory(c) /\ db' \in {db, Apply(c)}
          /\ split' = IF call[c].query = "create" /\ db' # db
                        THEN split \cup {call[c].session} ELSE split
      BY <1>1 DEF Unreachable, Active
    <2>2. QED
      BY <2>1, FromMemoryIsStep
  <1>2. ASSUME CooledDown
        PROVE  Rows!Next /\ RowsInv'
    BY <1>2, QuietStep DEF CooledDown, RowsInv, Creates, Active
  <1>3. ASSUME UNCHANGED vars
        PROVE  UNCHANGED Rows!vars /\ RowsInv'
    <2>1. RowOf' = RowOf /\ Durable' = Durable
      BY <1>3, RowsKept DEF vars
    <2>2. QED
      BY <1>3, <2>1 DEF vars, Rows!vars, RowsInv, Creates, Active
  <1>4. QED
    BY <1>1, <1>2, <1>3, AskIsStep, AnsweredIsStep, RefusedIsStep, BeginIsStep,
       EnterIsStep, RestartIsStep DEF Next

(* The interview store keeps one promise over its two stores: the database *)
(* with its memory copy, cooldown, lock, outages and restarts implements   *)
(* SessionRows, for any number of callers, sessions and memory entries.    *)
THEOREM StoreKeepsRows == Spec => KeepsRows
  <1>1. Init => Rows!Init /\ RowsInv
    <2> SUFFICES ASSUME Init PROVE Rows!Init /\ RowsInv
      OBVIOUS
    <2>1. \A c \in Caller : call[c].at = "idle" /\ call[c].task = "look"
      BY DEF Init, Idle
    <2>2. RowsInv
      BY <2>1 DEF Init, RowsInv, Creates, Active
    <2>3. RowOf = [s \in Session |-> NoRow] /\ Durable = {}
      BY DEF Init, RowOf, Durable, ReadEither
    <2>4. QED
      BY <2>2, <2>3 DEF Init, Rows!Init, NoReply
  <1>2. StoreInv /\ ListInv /\ RowsInv /\ [Next]_vars =>
          [Rows!Next]_Rows!vars /\ RowsInv'
    BY StepOfRows
  <1>3. QED
    BY <1>1, <1>2, StoreInvariant, ListInvariant, PTL DEF Spec, KeepsRows, Rows!Spec

=============================================================================
