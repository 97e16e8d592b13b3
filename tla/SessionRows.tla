---------------------------- MODULE SessionRows ----------------------------
(***************************************************************************)
(* What the interview store promises its callers, whichever of its two     *)
(* stores answers them: a row for each session, in the store it was        *)
(* created in.  A row in the database stays; one in memory may be          *)
(* forgotten, as a whole and for good.  A session whose creation was       *)
(* reported unreachable and applied all the same has two rows, and is      *)
(* promised nothing.                                                       *)
(***************************************************************************)
EXTENDS Integers, Sequences, SequencesExt

CONSTANTS Session, Question, User, Tagged, NoRow, Nobody

VARIABLES
  row,      \* the row of a session, NoRow when it has none or has two
  durable,  \* the sessions whose row is in the database
  lost,     \* the sessions that memory forgot
  torn,     \* the sessions that have two rows
  recorded, \* answers reported as recorded
  claimed,  \* sessions whose claim was reported
  reply     \* what the last step returned to a caller, if it did

vars == <<row, durable, lost, torn, recorded, claimed, reply>>

Live == {s \in Session : row[s] # NoRow}

Init ==
  /\ row = [s \in Session |-> NoRow]
  /\ durable = {} /\ lost = {} /\ torn = {} /\ recorded = {} /\ claimed = {}
  /\ reply = [task |-> "none"]

Silent == reply' = [task |-> "none"]
Says(task, s, out) ==
  reply'.task = task /\ reply'.session = s /\ reply'.out = out

(* Memory forgets some of its rows, or those of torn sessions.             *)
Without(F) == [s \in Session |-> IF s \in F THEN NoRow ELSE row[s]]
Forgets(F) == F \subseteq (Live \ durable) \cup torn /\ lost' = lost \cup F

Restart ==
  /\ \E F \in SUBSET Session : Forgets(F) /\ row' = Without(F)
  /\ Silent /\ UNCHANGED <<durable, torn, recorded, claimed>>

(* A session is created once: in the database, in memory, where it may     *)
(* take the place of others, or torn.                                      *)
Create(s, u) ==
  LET new == [owner |-> u, answers |-> <<>>, status |-> "active"] IN
  /\ s \notin Live \cup lost \cup torn
  /\ \/ /\ row' = [row EXCEPT ![s] = new] /\ durable' = durable \cup {s}
        /\ UNCHANGED <<lost, torn>>
     \/ \E F \in SUBSET Session :
          /\ Forgets(F) /\ durable' = durable
          /\ \/ row' = [Without(F) EXCEPT ![s] = new] /\ torn' = torn
             \/ row' = Without(F) /\ torn' = torn \cup {s}
  /\ Says("create", s, "done") /\ UNCHANGED <<recorded, claimed>>

(* An update of a row is reported as done; when the database could not be  *)
(* reached it is reported as not_found, and may have been applied.         *)
Reported(task, s) ==
  \/ Says(task, s, "done")
  \/ s \in durable /\ Says(task, s, "not_found")

Answer(s, q) ==
  /\ s \in Live /\ ~Contains(row[s].answers, q)
  /\ row' = [row EXCEPT ![s].answers = Append(@, q)]
  /\ Reported("answer", s)
  /\ recorded' = IF reply'.out = "done" THEN recorded \cup {<<s, q>>} ELSE recorded
  /\ UNCHANGED <<durable, lost, torn, claimed>>

Complete(s) ==
  /\ s \in Live /\ row' = [row EXCEPT ![s].status = "completed"]
  /\ Reported("end", s)
  /\ UNCHANGED <<durable, lost, torn, recorded, claimed>>

(* A claim takes the sessions without an owner of one store.  Those in the *)
(* database may change hands unreported while memory answers.              *)
Claim(ids, u) ==
  LET free == {s \in ids \cap Live : row[s].owner = Nobody} IN
  /\ \E taken \in {free \cap durable, free \ durable, free} :
       /\ row' = [s \in Session |-> IF s \in taken THEN [row[s] EXCEPT !.owner = u]
                                                   ELSE row[s]]
       /\ \E told \in SUBSET ids :
            told \cap Live \subseteq taken /\ claimed' = claimed \cup told
  /\ reply'.task = "claim" /\ reply'.out = "done"
  /\ UNCHANGED <<durable, lost, torn, recorded>>

-----------------------------------------------------------------------------
(* What changes no row.                                                    *)

Same == UNCHANGED <<row, durable, lost, torn, recorded, claimed>>

Duplicate(s, q) ==
  s \in Live /\ Contains(row[s].answers, q) /\ Says("answer", s, "duplicate") /\ Same

Found(s) == s \in Live /\ Says("look", s, "done") /\ Same

(* A row in memory is found at all times, one in the database unless it is *)
(* memory that answers.                                                    *)
NotFound(s) ==
  /\ s \in Live => s \in durable /\ reply'.by = "memory"
  /\ \E task \in {"look", "answer", "end"} : Says(task, s, "not_found")
  /\ Same

(* The update that no row of the database matched.                         *)
Missing(s) ==
  /\ s \notin durable
  /\ \E task \in {"answer", "end"} : Says(task, s, "missing")
  /\ Same

Refuse == reply'.task # "none" /\ reply'.out = "error" /\ Same

(* A list shows, of its sessions, those of one store.                      *)
Shows(task, hits) ==
  /\ reply'.task = task /\ reply'.out = "done"
  /\ reply'.page \ torn \in {hits \cap durable, hits \ durable}
  /\ Same

Completed == {s \in Live : row[s].status = "completed"}
List(u) == Shows("list", {s \in Completed : row[s].owner = u})
ListByEmail == Shows("email", {s \in Completed \cap Tagged : row[s].owner = Nobody})

(* A torn session: whatever is said of it, no other session changes.       *)
OfTorn(s) ==
  /\ s \in torn /\ \E out \in {"done", "duplicate"}, task \in {"answer", "look", "end"} :
                     Says(task, s, out)
  /\ recorded' = recorded \/ \E q \in Question : recorded' = recorded \cup {<<s, q>>}
  /\ UNCHANGED <<row, durable, lost, torn, claimed>>

Quiet == Silent /\ Same

Next ==
  \/ Restart \/ Quiet \/ Refuse \/ ListByEmail
  \/ \E s \in Session :
       \/ \E u \in User \cup {Nobody} : Create(s, u)
       \/ \E q \in Question : Answer(s, q) \/ Duplicate(s, q)
       \/ Complete(s) \/ Found(s) \/ NotFound(s) \/ Missing(s) \/ OfTorn(s)
  \/ \E u \in User : List(u) \/ \E ids \in SUBSET Session : Claim(ids, u)

Spec == Init /\ [][Next]_vars

=============================================================================
