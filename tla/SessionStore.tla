---------------------------- MODULE SessionStore ----------------------------
(***************************************************************************)
(* InterviewRepository (interview.repository.ts): rows of the database,    *)
(* the bounded memory copy that stands in for it during an outage, and the *)
(* cooldown that says which of the two a call goes to.                     *)
(*                                                                         *)
(* A call makes one query, or under the session's lock a read and then an  *)
(* update.  Before each query it looks at the cooldown; the answer of the  *)
(* database comes in a later step.  It is the result, an error of the      *)
(* query, or that the database cannot be reached, in which case the write  *)
(* may have been applied (P1008, P1017) or not.                            *)
(***************************************************************************)
EXTENDS Integers, Sequences, SequencesExt

CONSTANTS
  Caller,      \* concurrent callers of the repository
  Session,     \* session ids
  Question,    \* question ids
  User,        \* accounts
  Tagged,      \* the sessions tagged with one and the same history email
  MaxEntries,  \* MAX_MEMORY_ENTRIES
  NoRow, Nobody

Row == [owner : User \cup {Nobody}, answers : Seq(Question),
        status : {"active", "completed"}]

ASSUME StoreAssumption ==
  /\ Session # {} /\ Tagged \subseteq Session
  /\ MaxEntries \in Nat \ {0}
  /\ NoRow \notin Row /\ NoRow # Nobody /\ Nobody \notin User \cup Caller

VARIABLES
  db,       \* the table
  mem,      \* memoryStore
  order,    \* the keys of memoryStore in insertion order
  open,     \* isDbLikelyDown: the cooldown is running
  holder,   \* who runs under each session's lock
  call,     \* what each caller is doing
  born,     \* the sessions whose creation was called
  \* history
  split,    \* sessions whose creation was applied but reported unreachable
  gone,     \* sessions evicted from memory or lost with the process
  recorded, \* answers reported as recorded
  claimed,  \* sessions whose claim was reported
  reply     \* what the last step returned to a caller, if it did

vars == <<db, mem, order, open, holder, call, born,
          split, gone, recorded, claimed, reply>>

(* The calls: recordAnswer, which reads and updates under the lock, and    *)
(* those that make one query.                                              *)
Task == {"answer", "create", "look", "end", "claim", "list", "email"}
Query == {"create", "get", "update", "claim", "list"}

Idle == [at |-> "idle", task |-> "look", query |-> "get",
         session |-> CHOOSE s \in Session : TRUE, arg |-> Nobody, ids |-> {},
         row |-> NoRow, by |-> "none", known |-> {}]
NoReply == [task |-> "none"]

TypeOK ==
  /\ db \in [Session -> Row \cup {NoRow}]
  /\ mem \in [Session -> Row \cup {NoRow}]
  /\ IsInjective(order) /\ {s \in Session : mem[s] # NoRow} = ToSet(order)
  /\ open \in BOOLEAN
  /\ holder \in [Session -> Caller \cup {Nobody}]
  /\ \A c \in Caller :
       /\ call[c].at \in {"idle", "queued", "asking", "querying"}
       /\ call[c].task \in Task /\ call[c].query \in Query
       /\ call[c].session \in Session /\ call[c].ids \subseteq Session
       /\ call[c].row \in Row \cup {NoRow}
       /\ call[c].by \in {"none", "database", "memory"}
       /\ call[c].known \subseteq Session
       /\ holder[call[c].session] = c <=>
            call[c].task = "answer" /\ call[c].at \in {"asking", "querying"}
  /\ split \cup gone \cup claimed \subseteq born /\ born \subseteq Session
  /\ recorded \subseteq Session \X Question
  /\ reply = NoReply \/ (reply.task \in Task /\ reply.page \subseteq Session)

Init ==
  /\ db = [s \in Session |-> NoRow] /\ mem = [s \in Session |-> NoRow]
  /\ order = <<>> /\ open = FALSE
  /\ holder = [s \in Session |-> Nobody]
  /\ call = [c \in Caller |-> Idle]
  /\ born = {}
  /\ split = {} /\ gone = {} /\ recorded = {} /\ claimed = {}
  /\ reply = NoReply

-----------------------------------------------------------------------------
(* What the queries do to a store, and what they return.                   *)

NewRow(c) == [owner |-> call[c].arg, answers |-> <<>>, status |-> "active"]

(* Defect: the update writes back the row that was read.                   *)
WritesBack(row, c) ==
  IF call[c].task = "answer"
    THEN [call[c].row EXCEPT !.answers = Append(@, call[c].arg)]
    ELSE [row EXCEPT !.status = "completed"]

(* An update carries one column, computed from the row that was read; the  *)
(* others keep their value.                                                *)
Updated(row, c) ==
  IF call[c].task = "answer"
    THEN [row EXCEPT !.answers = Append(call[c].row.answers, call[c].arg)]
    ELSE [row EXCEPT !.status = "completed"]

Free(store, ids) ==
  {s \in ids : store[s] # NoRow /\ store[s].owner = Nobody}

(* Only rows without an owner change hands.                                *)
Claim(store, c) ==
  [s \in Session |-> IF s \in Free(store, call[c].ids)
                       THEN [store[s] EXCEPT !.owner = call[c].arg] ELSE store[s]]

(* Defect: the list by email does not ask whether the session was claimed. *)
ListsClaimed(store, c) ==
  {s \in born :
    /\ store[s] # NoRow /\ store[s].status = "completed"
    /\ IF call[c].task = "email" THEN s \in Tagged
                                 ELSE store[s].owner = call[c].arg}

(* The completed sessions of a user, or the unclaimed ones under the email,*)
(* whatever their order on the page.                                       *)
Completed(store, c) ==
  {s \in born :
    /\ store[s] # NoRow /\ store[s].status = "completed"
    /\ IF call[c].task = "email" THEN s \in Tagged /\ store[s].owner = Nobody
                                 ELSE store[s].owner = call[c].arg}

(* enforceBound; one entry at most was added.                              *)
Bounded(keys) == IF Len(keys) > MaxEntries THEN Tail(keys) ELSE keys

(* A call ends: it returns or throws, and the lock is handed on.           *)
Return(c, out, page, by) ==
  LET k == call[c] IN
  /\ call' = [call EXCEPT ![c] = Idle]
  /\ reply' = [task |-> k.task, session |-> k.session, out |-> out, by |-> by,
               page |-> page, read |-> k.by, known |-> k.known]
  /\ holder' = IF k.task = "answer" THEN [holder EXCEPT ![k.session] = Nobody]
                                     ELSE holder
  /\ recorded' = IF k.task = "answer" /\ out = "done"
                   THEN recorded \cup {<<k.session, k.arg>>} ELSE recorded

(* Defect: the question is not looked up in the answers that were read.    *)
AnswersAgain(c, row, by) ==
  IF row = NoRow THEN Return(c, "not_found", {}, by)
  ELSE IF call[c].task = "look" THEN Return(c, "done", {}, by)
  ELSE /\ call' = [call EXCEPT ![c] = [@ EXCEPT !.at = "asking", !.row = row,
                                                !.by = by, !.query = "update"]]
       /\ reply' = NoReply /\ UNCHANGED <<holder, recorded>>

(* What was read: there is no session, the answer is there already, or the *)
(* update is computed from it.                                             *)
Read(c, row, by) ==
  IF row = NoRow THEN Return(c, "not_found", {}, by)
  ELSE IF call[c].task = "look" THEN Return(c, "done", {}, by)
  ELSE IF call[c].task = "answer" /\ Contains(row.answers, call[c].arg)
         THEN Return(c, "duplicate", {}, by)
  ELSE /\ call' = [call EXCEPT ![c] = [@ EXCEPT !.at = "asking", !.row = row,
                                                !.by = by, !.query = "update"]]
       /\ reply' = NoReply /\ UNCHANGED <<holder, recorded>>

(* Defect: a session that is not in memory is written there all the same.  *)
Upserts(c) ==
  LET s == call[c].session
      row == IF mem[s] = NoRow THEN [NewRow(c) EXCEPT !.owner = Nobody] ELSE mem[s] IN
  /\ mem' = [mem EXCEPT ![s] = Updated(row, c)]
  /\ order' = IF mem[s] = NoRow THEN Append(order, s) ELSE order
  /\ Return(c, "done", {}, "memory")

(* applyToMemory: only what is in memory is updated; its age stays.        *)
ApplyToMemory(c) ==
  LET s == call[c].session IN
  /\ IF mem[s] = NoRow
       THEN mem' = mem /\ Return(c, "not_found", {}, "memory")
       ELSE mem' = [mem EXCEPT ![s] = Updated(@, c)] /\ Return(c, "done", {}, "memory")
  /\ order' = order

CreateInMemory(c) ==
  LET s == call[c].session
      kept == Bounded(Append(order, s)) IN
  /\ order' = kept
  /\ mem' = [x \in Session |-> IF x \notin ToSet(kept) THEN NoRow
                                ELSE IF x = s THEN NewRow(c) ELSE mem[x]]
  /\ gone' = gone \cup (ToSet(Append(order, s)) \ ToSet(kept))
  /\ Return(c, "done", {}, "memory") /\ UNCHANGED claimed

(* The answer of the memory copy to a query.                               *)
FromMemory(c) ==
  LET q == call[c].query IN
  \/ q = "create" /\ CreateInMemory(c)
  \/ /\ q = "get" /\ Read(c, mem[call[c].session], "memory")
     /\ UNCHANGED <<mem, order, gone, claimed>>
  \/ q = "update" /\ ApplyToMemory(c) /\ UNCHANGED <<gone, claimed>>
  \/ /\ q = "claim" /\ mem' = Claim(mem, c)
     /\ claimed' = claimed \cup Free(mem, call[c].ids)
     /\ Return(c, "done", {}, "memory") /\ UNCHANGED <<order, gone>>
  \/ /\ q = "list" /\ Return(c, "done", Completed(mem, c), "memory")
     /\ UNCHANGED <<mem, order, gone, claimed>>

(* Before each query the cooldown is looked at: memory answers at once, or *)
(* the database is asked.                                                  *)
Ask(c) ==
  /\ call[c].at = "asking"
  /\ IF open
       THEN FromMemory(c)
       ELSE /\ call' = [call EXCEPT ![c].at = "querying"]
            /\ reply' = NoReply
            /\ UNCHANGED <<mem, order, holder, gone, recorded, claimed>>
  /\ UNCHANGED <<db, open, born, split>>

Apply(c) ==
  LET k == call[c] IN
  CASE k.query = "create" -> [db EXCEPT ![k.session] = NewRow(c)]
    [] k.query = "update" /\ db[k.session] # NoRow ->
         [db EXCEPT ![k.session] = Updated(@, c)]
    [] k.query = "claim" -> Claim(db, c)
    [] OTHER -> db

(* getSession: a session the database does not have may be in memory.      *)
ReadEither(s) == IF db[s] # NoRow THEN db[s] ELSE mem[s]

(* The database answers.  An update of a missing row throws (P2025).       *)
Answered(c) ==
  LET k == call[c] IN
  /\ k.at = "querying" /\ db' = Apply(c)
  /\ CASE k.query = "get" -> Read(c, ReadEither(k.session), "database")
       [] k.query = "list" -> Return(c, "done", Completed(db, c), "database")
       [] k.query = "update" /\ db[k.session] = NoRow -> Return(c, "missing", {}, "database")
       [] OTHER -> Return(c, "done", {}, "database")
  /\ claimed' = IF k.query = "claim" THEN claimed \cup Free(db, k.ids) ELSE claimed
  /\ UNCHANGED <<mem, order, open, born, split, gone>>

(* The query is refused (isDatabaseUnreachable is false): the call throws. *)
Refused(c) ==
  /\ call[c].at = "querying" /\ Return(c, "error", {}, "database")
  /\ UNCHANGED <<db, mem, order, open, born, split, gone, claimed>>

(* The database cannot be reached: markDbDown, and memory answers.  The    *)
(* write may have been applied.                                            *)
Unreachable(c) ==
  /\ call[c].at = "querying" /\ FromMemory(c)
  /\ open' = TRUE
  /\ db' \in {db, Apply(c)}
  /\ split' = IF call[c].query = "create" /\ db' # db
                THEN split \cup {call[c].session} ELSE split
  /\ UNCHANGED born

(* The cooldown is over.                                                   *)
CooledDown ==
  /\ open /\ open' = FALSE /\ reply' = NoReply
  /\ UNCHANGED <<db, mem, order, holder, call, born, split, gone,
                 recorded, claimed>>

Starts(c, task, s, arg, ids) ==
  call' = [call EXCEPT ![c] =
    [Idle EXCEPT !.at = IF task = "answer" THEN "queued" ELSE "asking",
       !.task = task, !.session = s, !.arg = arg, !.ids = ids,
       !.query = CASE task = "create" -> "create"  [] task = "end" -> "update"
                   [] task = "claim" -> "claim"
                   [] task \in {"list", "email"} -> "list" [] OTHER -> "get",
       !.known = IF task = "email" THEN claimed ELSE {}]]

(* The service calls the repository: on a new session, on an existing one, *)
(* or for a list.                                                          *)
Begin(c) ==
  /\ call[c].at = "idle"
  /\ \/ \E s \in Session \ born, u \in User \cup {Nobody} :
          Starts(c, "create", s, u, {}) /\ born' = born \cup {s}
     \/ /\ \E s \in born :
             \/ \E task \in {"look", "end"} : Starts(c, task, s, Nobody, {})
             \/ \E q \in Question : Starts(c, "answer", s, q, {})
        /\ UNCHANGED born
     \/ /\ \E u \in User :
             \/ Starts(c, "list", Idle.session, u, {})
             \/ \E ids \in SUBSET born \ {{}} :
                  Starts(c, "claim", Idle.session, u, ids)
        /\ UNCHANGED born
     \/ Starts(c, "email", Idle.session, Nobody, {}) /\ UNCHANGED born
  /\ reply' = NoReply
  /\ UNCHANGED <<db, mem, order, open, holder, split, gone, recorded, claimed>>

(* Defect: the operation does not wait for the lock.                       *)
EnterAtOnce(c) ==
  /\ call[c].at = "queued"
  /\ call' = [call EXCEPT ![c].at = "asking"]
  /\ holder' = [holder EXCEPT ![call[c].session] = c] /\ reply' = NoReply
  /\ UNCHANGED <<db, mem, order, open, born, split, gone, recorded, claimed>>

(* withSessionLock: one operation of a session at a time.                  *)
Enter(c) ==
  /\ call[c].at = "queued" /\ holder[call[c].session] = Nobody
  /\ call' = [call EXCEPT ![c].at = "asking"]
  /\ holder' = [holder EXCEPT ![call[c].session] = c] /\ reply' = NoReply
  /\ UNCHANGED <<db, mem, order, open, born, split, gone, recorded, claimed>>

(* The process is restarted.                                               *)
Restart ==
  /\ mem' = [s \in Session |-> NoRow] /\ order' = <<>>
  /\ gone' = gone \cup ToSet(order) /\ open' = FALSE
  /\ call' = [c \in Caller |-> Idle] /\ reply' = NoReply
  /\ holder' = [s \in Session |-> Nobody]
  /\ UNCHANGED <<db, born, split, recorded, claimed>>

Next ==
  \/ CooledDown \/ Restart
  \/ \E c \in Caller : \/ Begin(c) \/ Enter(c) \/ Ask(c)
                       \/ Answered(c) \/ Refused(c) \/ Unreachable(c)

Spec == Init /\ [][Next]_vars

-----------------------------------------------------------------------------
(* Properties                                                              *)

(* An outage does not leave a session in both stores, where they would     *)
(* part: an update in memory is only made to a session that is there.  The *)
(* one exception is a creation that was applied and reported unreachable.  *)
OneStore ==
  \A s \in Session : db[s] # NoRow /\ mem[s] # NoRow => s \in split

(* recordAnswer's contract, whatever the cooldown does between its read    *)
(* and its write: a question has one answer in each store.                 *)
AnsweredOnceInStore ==
  \A s \in Session :
    /\ db[s] # NoRow => IsInjective(db[s].answers)
    /\ mem[s] # NoRow => IsInjective(mem[s].answers)

(* An answer reported as recorded stays in the session, wherever that is,  *)
(* through outages, recoveries and updates by others; memory may forget    *)
(* the whole session (eviction, restart), but never part of it.            *)
RecordedStays ==
  \A r \in recorded :
    LET s == r[1] row == ReadEither(s) IN
    s \notin split \cup gone => row # NoRow /\ Contains(row.answers, r[2])

(* The interview store keeps one promise over its two stores (SessionRows):*)
(* a session lives in the store it was created in, a row of the database   *)
(* stays, an answer is appended once and an owner never changes, a list    *)
(* shows one store's sessions exactly, and only an outage hides a row that *)
(* is there.                                                               *)
RowOf == [s \in Session |-> IF s \in split THEN NoRow ELSE ReadEither(s)]
Durable == {s \in Session \ split : db[s] # NoRow}
Rows == INSTANCE SessionRows
          WITH row <- RowOf, durable <- Durable, lost <- gone, torn <- split
KeepsRows == Rows!Spec

(* P1-04: a session whose claim was reported before a list by email began  *)
(* is not on that list, whichever store each of the two calls went to.     *)
EmailHidesClaimed ==
  reply.task = "email" => reply.page \cap reply.known \subseteq split

(* "Self healing": a session that recordAnswer has just read while the     *)
(* database answers can be written; the service recovers after an outage.  *)
RecoveredSessionWritable ==
  reply # NoReply /\ reply.out = "missing" => reply.read # "database"

=============================================================================
