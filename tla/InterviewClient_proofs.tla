----------------------- MODULE InterviewClient_proofs -----------------------
(***************************************************************************)
(* Of the page of one browser, for any number of sessions, questions and   *)
(* faults.  Also of a user who waits for no reply: what is sent as an      *)
(* answer goes to the session whose question was asked, an open connection *)
(* is in the room of the interview unless its own join failed, and no      *)
(* session is remembered twice.  Of a user who waits: the page leaves a    *)
(* question behind only when the server has its answer, nothing is heard   *)
(* when the result is shown, a history view that meets no fault forgets    *)
(* only dead sessions, and TypeOK.  Last, while nobody logs in or out: the *)
(* socket names the account.                                               *)
(***************************************************************************)
EXTENDS InterviewClient, FiniteSetTheorems, NaturalsInduction, WellFoundedInduction,
        TLAPS

Id == Session \cup {NoSession}

Message ==
  [ev : {"answer", "end", "join"}, s : Id, q : Nat, of : Id, ok : BOOLEAN,
   at : {"buffered", "sent", "done"}]

Matched(m) == m.ev = "answer" => m.s = m.of

(* The fields of App, without what they hold.                              *)
IsApp(a) ==
  /\ DOMAIN a = {"st", "panel", "session", "source", "idx", "total", "startOn", "box",
                 "detail"}
  /\ a = [x \in DOMAIN a |-> a[x]]

(* A page that shows a question has the session and the questions of one   *)
(* reply.                                                                  *)
AppOK(a) ==
  /\ IsApp(a) /\ a.idx \in Nat /\ a.session \in Id /\ a.source \in Id /\ a.detail \in Id
  /\ a.panel = "interview" => a.session = a.source

ClientInv ==
  /\ AppOK(app)
  /\ msgs \in Seq(Message) /\ \A i \in DOMAIN msgs : Matched(msgs[i])
  /\ \A c \in calls : c.s \in Id
  /\ pending \in Id

-----------------------------------------------------------------------------
(* Sequences of messages                                                   *)

Mail(ms) == ms \in Seq(Message) /\ \A i \in DOMAIN ms : Matched(ms[i])

LEMMA Emitted ==
  ASSUME NEW ms, Mail(ms), NEW ev \in {"answer", "end", "join"}, NEW s \in Id,
         NEW q \in Nat, NEW of \in Id, ev = "answer" => s = of
  PROVE  Mail(Emit(ms, ev, s, q, of))
  <1> DEFINE m == [ev |-> ev, s |-> s, q |-> q, of |-> of, ok |-> TRUE,
                   at |-> IF net = "open" THEN "sent" ELSE "buffered"]
  <1>1. m \in Message /\ Matched(m)
    BY DEF Message, Matched
  <1>2. Emit(ms, ev, s, q, of) = Append(ms, m)
    BY DEF Emit
  <1> HIDE DEF m
  <1>3. /\ Append(ms, m) \in Seq(Message)
        /\ \A i \in DOMAIN Append(ms, m) : Append(ms, m)[i] = m
             \/ (i \in DOMAIN ms /\ Append(ms, m)[i] = ms[i])
    BY <1>1 DEF Mail
  <1>4. QED
    BY <1>1, <1>2, <1>3 DEF Mail

LEMMA Removed ==
  ASSUME NEW ms, Mail(ms), NEW i \in DOMAIN ms
  PROVE  Mail(RemoveAt(ms, i))
  <1>1. /\ ms \in Seq(Message) /\ Len(ms) \in Nat /\ DOMAIN ms = 1..Len(ms)
        /\ i \in 1..Len(ms)
    BY DEF Mail
  <1> DEFINE left == SubSeq(ms, 1, i - 1)
             right == SubSeq(ms, i + 1, Len(ms))
  <1>2. /\ left \in Seq(Message) /\ DOMAIN left = 1..(i - 1)
        /\ \A j \in 1..(i - 1) : left[j] = ms[j]
    BY <1>1
  <1>3. /\ right \in Seq(Message) /\ DOMAIN right = 1..(Len(ms) - i)
        /\ \A j \in 1..(Len(ms) - i) : right[j] = ms[j + i]
    BY <1>1
  <1>4. RemoveAt(ms, i) = left \o right
    BY DEF RemoveAt
  <1>5. \A j \in 1..(i - 1) : j \in DOMAIN ms
    BY <1>1
  <1>6. \A j \in 1..(Len(ms) - i) : j + i \in DOMAIN ms
    BY <1>1
  <1>7. (\A j \in DOMAIN left : Matched(left[j])) /\ \A j \in DOMAIN right : Matched(right[j])
    BY <1>2, <1>3, <1>5, <1>6 DEF Mail
  <1> HIDE DEF left, right
  <1>8. /\ left \o right \in Seq(Message)
        /\ \A j \in DOMAIN (left \o right) :
             \/ j \in DOMAIN left /\ (left \o right)[j] = left[j]
             \/ j - Len(left) \in DOMAIN right /\ (left \o right)[j] = right[j - Len(left)]
    BY <1>2, <1>3
  <1>9. QED
    BY <1>4, <1>7, <1>8 DEF Mail

(* A message in hand changes where it is, and whether it was accepted.     *)
LEMMA Remarked ==
  ASSUME NEW ms, Mail(ms), NEW i \in DOMAIN ms, NEW ok \in BOOLEAN
  PROVE  Mail([ms EXCEPT ![i].at = "done", ![i].ok = ok])
  <1> DEFINE m == [ms[i] EXCEPT !.at = "done", !.ok = ok]
  <1>1. ms \in Seq(Message) /\ ms[i] \in Message /\ Matched(ms[i])
    BY DEF Mail
  <1>2. m \in Message /\ Matched(m)
    BY <1>1 DEF Message, Matched
  <1>3. [ms EXCEPT ![i].at = "done", ![i].ok = ok] = [ms EXCEPT ![i] = m]
    BY <1>1
  <1> HIDE DEF m
  <1>4. /\ [ms EXCEPT ![i] = m] \in Seq(Message)
        /\ DOMAIN [ms EXCEPT ![i] = m] = DOMAIN ms
        /\ \A j \in DOMAIN ms : [ms EXCEPT ![i] = m][j] = IF j = i THEN m ELSE ms[j]
    BY <1>1, <1>2
  <1>5. QED
    BY <1>2, <1>3, <1>4 DEF Mail

LEMMA Flushed ==
  ASSUME NEW ms, Mail(ms)
  PROVE  Mail([i \in DOMAIN ms |-> [ms[i] EXCEPT !.at = "sent"]])
  <1> DEFINE sent == [i \in DOMAIN ms |-> [ms[i] EXCEPT !.at = "sent"]]
  <1>1. ms \in Seq(Message) /\ Len(ms) \in Nat /\ DOMAIN ms = 1..Len(ms)
    BY DEF Mail
  <1>2. ASSUME NEW i \in DOMAIN ms
        PROVE  sent[i] \in Message /\ Matched(sent[i])
    <2>1. ms[i] \in Message /\ Matched(ms[i])
      BY <1>1 DEF Mail
    <2>2. QED
      BY <2>1 DEF Message, Matched
  <1>3. sent \in [1..Len(ms) -> Message]
    BY <1>1, <1>2
  <1>4. sent \in Seq(Message) /\ DOMAIN sent = DOMAIN ms
    BY <1>1, <1>3
  <1>5. QED
    BY <1>2, <1>4 DEF Mail

-----------------------------------------------------------------------------
(* What handlers are made of                                               *)

LEMMA Shown ==
  ASSUME NEW a, AppOK(a), NEW panel, NEW st, panel # "interview"
  PROVE  AppOK(Show(a, panel, st)) /\ Show(a, panel, st).session = a.session
         /\ Show(a, panel, st).panel = panel
  BY DEF AppOK, IsApp, Show

LEMMA ShownAgain ==
  ASSUME NEW a, AppOK(a), NEW panel, NEW st, panel # "interview", NEW on
  PROVE  AppOK([Show(a, panel, st) EXCEPT !.startOn = on])
  BY DEF AppOK, IsApp, Show

LEMMA Restart ==
  ASSUME NEW a, AppOK(a)
  PROVE  AppOK(Restarted(a))
  BY DEF AppOK, IsApp, Restarted, Show, Id

(* The state and the answer box change, the question stays.                *)
LEMMA Faced ==
  ASSUME NEW a, AppOK(a), NEW st, NEW box
  PROVE  AppOK([a EXCEPT !.st = st, !.box = box])
  BY DEF AppOK, IsApp

LEMMA Asked ==
  ASSUME NEW a, AppOK(a), NEW ms, Mail(ms), Ask(a, ms)
  PROVE  AppOK(app') /\ Mail(msgs')
  <1>1. CASE a.idx >= a.total
    <2>1. AppOK(app')
      BY <1>1, Shown DEF Ask
    <2>2. a.session \in Id /\ a.source \in Id
      BY DEF AppOK
    <2>3. Mail(Emit(ms, "end", a.session, 0, a.source))
      BY <2>2, Emitted
    <2>4. QED
      BY <1>1, <2>1, <2>3 DEF Ask
  <1>2. CASE ~(a.idx >= a.total)
    <2>1. app' = [a EXCEPT !.st = "speaking", !.box = FALSE] /\ msgs' = ms
      BY <1>2 DEF Ask
    <2>2. AppOK([a EXCEPT !.st = "speaking", !.box = FALSE])
      BY Faced
    <2>3. QED
      BY <2>1, <2>2
  <1>3. QED
    BY <1>1, <1>2

LEMMA Completed ==
  ASSUME NEW a, IsApp(a), a.idx \in Nat, a.session \in Id, a.source \in Id, a.detail \in Id,
         Complete(a)
  PROVE  AppOK(app')
  BY DEF AppOK, IsApp, Complete, Show

LEMMA Listened ==
  ASSUME AppOK(app), Listen
  PROVE  AppOK(app')
  BY Faced DEF Listen

-----------------------------------------------------------------------------
(* The invariant                                                           *)

LEMMA ClientInit == Init => ClientInv
  <1>1. SUFFICES ASSUME Init PROVE ClientInv
    OBVIOUS
  <1>2. app = [st |-> "idle", panel |-> "boot", session |-> NoSession, source |-> NoSession,
               idx |-> 0, total |-> 0, startOn |-> TRUE, box |-> FALSE, detail |-> NoSession]
    BY <1>1 DEF Init
  <1>3. AppOK(app)
    BY <1>2 DEF AppOK, IsApp, Id
  <1>4. msgs = <<>> /\ calls = {} /\ pending = NoSession
    BY <1>1 DEF Init
  <1>5. msgs \in Seq(Message) /\ \A i \in DOMAIN msgs : Matched(msgs[i])
    BY <1>4
  <1>6. QED
    BY <1>3, <1>4, <1>5 DEF ClientInv, Id

(* A call without a reply is for a session, or for none.                   *)
LEMMA Called ==
  ASSUME ClientInv, NEW kind, NEW s \in Id, Calls(kind, s)
  PROVE  \A c \in calls' : c.s \in Id
  BY DEF ClientInv, Calls

LEMMA UserKeeps ==
  ASSUME ClientInv, UserStep
  PROVE  ClientInv'
  <1> USE DEF wire, rest
  <1>1. AppOK(app) /\ Mail(msgs) /\ NoSession \in Id
    BY DEF ClientInv, Mail, Id
  <1>2. CASE Start
    <2>1. AppOK(app')
      BY <1>1, <1>2, ShownAgain DEF Start
    <2>2. \A c \in calls' : c.s \in Id
      BY <1>1, <1>2, Called DEF Start
    <2>3. QED
      BY <1>2, <2>1, <2>2 DEF Start, ClientInv
  <1>3. CASE Submit
    <2>1. AppOK(app')
      BY <1>1, <1>3, Faced DEF Submit
    <2>2. app.session \in Id /\ app.source \in Id /\ app.session = app.source
          /\ app.idx + 1 \in Nat
      BY <1>1, <1>3 DEF Submit, AppOK
    <2>3. Mail(Emit(msgs, "answer", app.session, app.idx + 1, app.source))
      BY <1>1, <2>2, Emitted
    <2>4. QED
      BY <1>3, <2>1, <2>3 DEF Submit, ClientInv, Mail
  <1>4. CASE Record
    <2>1. AppOK(app')
      BY <1>1, <1>4, Listened DEF Record
    <2>2. QED
      BY <1>4, <2>1 DEF Record, ClientInv
  <1>5. CASE EndEarly
    <2>1. AppOK(app')
      BY <1>1, <1>5, Shown DEF EndEarly
    <2>2. app.session \in Id /\ app.source \in Id
      BY <1>1 DEF AppOK
    <2>3. Mail(Emit(msgs, "end", app.session, 0, app.source))
      BY <1>1, <2>2, Emitted
    <2>4. QED
      BY <1>5, <2>1, <2>3 DEF EndEarly, ClientInv, Mail
  <1>6. CASE RestartApp
    <2>1. AppOK(app')
      BY <1>1, <1>6, Restart DEF RestartApp
    <2>2. QED
      BY <1>1, <1>6, <2>1 DEF RestartApp, ClientInv
  <1>7. CASE Extend
    <2>1. AppOK(app') /\ app.session \in Id
      BY <1>1, <1>7, Shown DEF Extend, AppOK
    <2>2. \A c \in calls' : c.s \in Id
      BY <1>7, <2>1, Called DEF Extend
    <2>3. QED
      BY <1>7, <2>1, <2>2 DEF Extend, ClientInv
  <1>8. CASE RefreshOverallFeedback
    <2>1. app.session \in Id
      BY <1>1 DEF AppOK
    <2>2. \A c \in calls' : c.s \in Id
      BY <1>8, <2>1, Called DEF RefreshOverallFeedback
    <2>3. QED
      BY <1>8, <2>2 DEF RefreshOverallFeedback, ClientInv
  <1>9. CASE LoadHistory
    <2>1. AppOK(app')
      BY <1>1, <1>9, Shown DEF LoadHistory
    <2>2. \A c \in calls' : c.s \in Id
      BY <1>1, <1>9, Called DEF LoadHistory
    <2>3. QED
      BY <1>9, <2>1, <2>2 DEF LoadHistory, ClientInv
  <1>10. CASE BackToSetup
    <2>1. AppOK(app')
      BY <1>1, <1>10, Shown DEF BackToSetup
    <2>2. QED
      BY <1>10, <2>1 DEF BackToSetup, ClientInv
  <1>11. CASE RefreshHistoryDetail
    <2>1. app.detail \in Id
      BY <1>1 DEF AppOK
    <2>2. \A c \in calls' : c.s \in Id
      BY <1>11, <2>1, Called DEF RefreshHistoryDetail
    <2>3. QED
      BY <1>11, <2>2 DEF RefreshHistoryDetail, ClientInv
  <1>12. CASE SignIn
    <2>1. AppOK(app')
      BY <1>1, <1>12 DEF SignIn, AppOK, IsApp
    <2>2. QED
      BY <1>12, <2>1 DEF SignIn, ClientInv
  <1>13. CASE LoginOrLogout
    <2>1. \A c \in calls' : c.s \in Id
      BY <1>1, <1>13, Called DEF LoginOrLogout
    <2>2. QED
      BY <1>13, <2>1 DEF LoginOrLogout, ClientInv
  <1>14. CASE \E s \in Session : ViewHistoryDetail(s)
    <2>1. PICK s \in Session : ViewHistoryDetail(s)
      BY <1>14
    <2>2. AppOK(app') /\ s \in Id
      BY <1>1, <2>1 DEF ViewHistoryDetail, AppOK, IsApp, Id
    <2>3. \A c \in calls' : c.s \in Id
      BY <2>1, <2>2, Called DEF ViewHistoryDetail
    <2>4. QED
      BY <2>1, <2>2, <2>3 DEF ViewHistoryDetail, ClientInv
  <1>15. QED
    BY <1>2, <1>3, <1>4, <1>5, <1>6, <1>7, <1>8, <1>9, <1>10, <1>11, <1>12, <1>13, <1>14
       DEF UserStep

LEMMA StartedKeeps ==
  ASSUME ClientInv, NEW c \in calls, Started(c)
  PROVE  ClientInv'
  <1>1. PICK s \in Session :
          /\ Taken(c) /\ pending' = s
          /\ Ask([app EXCEPT !.session = s, !.source = s, !.idx = 0, !.total = Count,
                    !.panel = "interview"],
                 Emit(msgs, "join", s, 0, s))
    BY DEF Started
  <1> DEFINE a == [app EXCEPT !.session = s, !.source = s, !.idx = 0, !.total = Count,
                     !.panel = "interview"]
             ms == Emit(msgs, "join", s, 0, s)
  <1>2. AppOK(app) /\ Mail(msgs) /\ s \in Id
    BY DEF ClientInv, Mail, Id
  <1>3. AppOK(a)
    BY <1>2 DEF AppOK, IsApp
  <1>4. Mail(ms)
    BY <1>2, Emitted
  <1>5. Ask(a, ms)
    BY <1>1
  <1> HIDE DEF a, ms
  <1>6. AppOK(app') /\ Mail(msgs')
    BY <1>3, <1>4, <1>5, Asked
  <1>7. QED
    BY <1>1, <1>2, <1>6 DEF ClientInv, Mail, Taken

(* The reply of an extension brings session and questions together, what-  *)
(* ever the page has turned to since.                                      *)
LEMMA ExtendedKeeps ==
  ASSUME ClientInv, NEW c \in calls, Extended(c)
  PROVE  ClientInv'
  <1> DEFINE a == [app EXCEPT !.session = c.s, !.source = c.s, !.panel = "interview",
                     !.total = srv[c.s].size + Extra]
  <1>1. AppOK(app) /\ Mail(msgs) /\ c.s \in Id
    BY DEF ClientInv, Mail
  <1>2. AppOK(a)
    BY <1>1 DEF AppOK, IsApp
  <1>3. Ask(a, msgs)
    BY DEF Extended
  <1> HIDE DEF a
  <1>4. AppOK(app') /\ Mail(msgs')
    BY <1>1, <1>2, <1>3, Asked
  <1>5. QED
    BY <1>4 DEF ClientInv, Mail, Extended, Taken

LEMMA FailedKeeps ==
  ASSUME ClientInv, NEW c \in calls, Failed(c)
  PROVE  ClientInv'
  <1>1. AppOK(app)
    BY DEF ClientInv
  <1>2. CASE c.kind = "start"
    <2>1. /\ app' = [Show(app, "setup", "setup") EXCEPT !.startOn = TRUE]
          /\ calls' = calls \ {c} /\ msgs' = msgs /\ pending' = pending
      BY <1>2 DEF Failed, wire
    <2>2. AppOK(app')
      BY <1>1, <2>1, ShownAgain
    <2>3. QED
      BY <2>1, <2>2 DEF ClientInv
  <1>3. CASE c.kind = "extend"
    <2>1. app' = Show(app, "completion", "complete") /\ calls' = calls \ {c}
      BY <1>3 DEF Failed
    <2>2. QED
      BY <1>1, <2>1, Shown DEF Failed, ClientInv, wire
  <1>4. CASE c.kind = "detail"
    <2>1. /\ app' = Show(app, "history", "idle")
          /\ calls' = (calls \ {c}) \cup {[kind |-> "history", s |-> NoSession, who |-> account]}
      BY <1>4 DEF Failed
    <2>2. \A d \in calls' : d.s \in Id
      BY <2>1 DEF ClientInv, Id
    <2>3. QED
      BY <1>1, <2>1, <2>2, Shown DEF Failed, ClientInv, wire
  <1>5. CASE c.kind \notin {"start", "extend", "detail"}
    <2>1. app' = app /\ calls' = calls \ {c}
      BY <1>5 DEF Failed
    <2>2. QED
      BY <2>1 DEF Failed, ClientInv, wire
  <1>6. QED
    BY <1>2, <1>3, <1>4, <1>5

LEMMA ReplyKeeps ==
  ASSUME ClientInv, Reply
  PROVE  ClientInv'
  <1> USE DEF wire
  <1>1. PICK c \in calls :
          \/ Started(c) \/ Extended(c) \/ Refreshed(c) \/ DetailShown(c) \/ Failed(c)
          \/ HistoryLoaded(c) \/ HistoryFails(c) \/ LoggedIn(c) \/ LoggedOut(c)
    BY DEF Reply
  <1>2. AppOK(app) /\ Mail(msgs) /\ c.s \in Id
    BY DEF ClientInv, Mail
  <1>3. CASE Refreshed(c)
    <2> DEFINE a == [app EXCEPT !.session = c.s]
    <2>1. /\ IsApp(a) /\ a.idx \in Nat
          /\ a.session \in Id /\ a.source \in Id /\ a.detail \in Id
      BY <1>2 DEF AppOK, IsApp
    <2>2. Complete(a)
      BY <1>3 DEF Refreshed
    <2> HIDE DEF a
    <2>3. AppOK(app')
      BY <2>1, <2>2, Completed
    <2>4. QED
      BY <1>3, <2>3 DEF Refreshed, ClientInv, Taken
  <1>4. CASE DetailShown(c)
    <2>1. AppOK(app')
      BY <1>2, <1>4 DEF DetailShown, AppOK, IsApp
    <2>2. QED
      BY <1>4, <2>1 DEF DetailShown, ClientInv, Taken
  <1>5. CASE HistoryLoaded(c)
    BY <1>5 DEF HistoryLoaded, ClientInv, Taken
  <1>6. CASE HistoryFails(c)
    BY <1>6 DEF HistoryFails, ClientInv, Taken
  <1>7. CASE LoggedIn(c)
    <2>1. AppOK(app')
      BY <1>2, <1>7, Shown DEF LoggedIn
    <2>2. QED
      BY <1>7, <2>1 DEF LoggedIn, ClientInv, Taken
  <1>8. CASE LoggedOut(c)
    <2>1. AppOK(app')
      BY <1>2, <1>8, Restart DEF LoggedOut
    <2>2. Mail(<<>>)
      BY DEF Mail
    <2>3. msgs' = <<>> \/ msgs' = msgs
      BY <1>8 DEF LoggedOut
    <2>4. Mail(msgs')
      BY <1>2, <2>2, <2>3
    <2>5. QED
      BY <1>8, <2>1, <2>4 DEF LoggedOut, ClientInv, Mail, Taken, Id
  <1>9. QED
    BY <1>1, <1>3, <1>4, <1>5, <1>6, <1>7, <1>8, StartedKeeps, ExtendedKeeps, FailedKeeps

LEMMA ConnectedKeeps ==
  ASSUME ClientInv, Connected
  PROVE  ClientInv'
  <1> DEFINE sent == [i \in DOMAIN msgs |-> [msgs[i] EXCEPT !.at = "sent"]]
             join == [ev |-> "join", s |-> pending, q |-> 0, of |-> pending,
                      ok |-> TRUE, at |-> "sent"]
  <1>1. Mail(msgs) /\ pending \in Id
    BY DEF ClientInv, Mail
  <1>2. Mail(sent)
    BY <1>1, Flushed
  <1>3. join \in Message /\ Matched(join)
    BY <1>1 DEF Message, Matched
  <1>4. msgs' = sent \/ msgs' = Append(sent, join)
    BY DEF Connected
  <1> HIDE DEF sent, join
  <1>5. /\ Append(sent, join) \in Seq(Message)
        /\ \A i \in DOMAIN Append(sent, join) : Append(sent, join)[i] = join
             \/ (i \in DOMAIN sent /\ Append(sent, join)[i] = sent[i])
    BY <1>2, <1>3 DEF Mail
  <1>6. Mail(Append(sent, join))
    BY <1>2, <1>3, <1>5 DEF Mail
  <1>7. QED
    BY <1>2, <1>4, <1>6 DEF Connected, ClientInv, Mail, rest

LEMMA DeliveredKeeps ==
  ASSUME ClientInv, NEW i \in DOMAIN msgs, Delivered(i)
  PROVE  ClientInv'
  <1> USE DEF wire, rest
  <1>1. AppOK(app) /\ Mail(msgs)
    BY DEF ClientInv, Mail
  <1>2. Mail(RemoveAt(msgs, i))
    BY <1>1, Removed
  <1>3. CASE ~msgs[i].ok
    <2>1. app' = app /\ msgs' = RemoveAt(msgs, i)
      BY <1>3 DEF Delivered
    <2>2. QED
      BY <1>2, <2>1 DEF Delivered, ClientInv, Mail
  <1>4. CASE msgs[i].ok /\ msgs[i].ev = "end"
    <2>1. Complete(app) /\ msgs' = RemoveAt(msgs, i)
      BY <1>4 DEF Delivered
    <2>2. AppOK(app')
      BY <1>1, <2>1, Completed DEF AppOK
    <2>3. QED
      BY <1>2, <2>1, <2>2 DEF Delivered, ClientInv, Mail
  <1>5. CASE msgs[i].ok /\ msgs[i].ev # "end"
    <2> DEFINE a == [app EXCEPT !.idx = @ + 1]
    <2>1. AppOK(a)
      BY <1>1 DEF AppOK, IsApp
    <2>2. Ask(a, RemoveAt(msgs, i))
      BY <1>5 DEF Delivered
    <2> HIDE DEF a
    <2>3. AppOK(app') /\ Mail(msgs')
      BY <1>2, <2>1, <2>2, Asked
    <2>4. QED
      BY <2>3 DEF Delivered, ClientInv, Mail
  <1>6. QED
    BY <1>3, <1>4, <1>5

LEMMA HandledKeeps ==
  ASSUME ClientInv, NEW i \in DOMAIN msgs, Handled(i)
  PROVE  ClientInv'
  <1>1. Mail(msgs)
    BY DEF ClientInv, Mail
  <1>2. Mail(msgs')
    <2>1. CASE msgs[i].ev = "join"
      BY <1>1, <2>1, Removed DEF Handled
    <2>2. CASE msgs[i].ev # "join"
      <3>1. Allowed(msgs[i]) \in BOOLEAN
        BY DEF Allowed, Accessible, Exists
      <3>2. msgs' = [msgs EXCEPT ![i].at = "done", ![i].ok = Allowed(msgs[i])]
        BY <2>2 DEF Handled
      <3>3. QED
        BY <1>1, <3>1, <3>2, Remarked
    <2>3. QED
      BY <2>1, <2>2
  <1>3. QED
    BY <1>2 DEF Handled, ClientInv, Mail

LEMMA SocketKeeps ==
  ASSUME ClientInv, Socket
  PROVE  ClientInv'
  <1> USE DEF wire, rest
  <1>1. CASE Connected
    BY <1>1, ConnectedKeeps
  <1>2. CASE Reopen
    BY <1>2 DEF Reopen, ClientInv
  <1>3. CASE Dropped
    <2>1. Mail(<<>>)
      BY DEF Mail
    <2>2. QED
      BY <1>3, <2>1 DEF Dropped, ClientInv, Mail
  <1>4. CASE Expired
    BY <1>4 DEF Expired, ClientInv, Id
  <1>5. ASSUME NEW i \in DOMAIN msgs, HandlerFails(i)
        PROVE  ClientInv'
    <2>1. Mail(msgs) /\ msgs' = [msgs EXCEPT ![i].at = "done", ![i].ok = FALSE]
      BY <1>5 DEF ClientInv, Mail, HandlerFails
    <2>2. Mail(msgs')
      BY <2>1, Remarked
    <2>3. QED
      BY <1>5, <2>2 DEF HandlerFails, ClientInv, Mail
  <1>6. ASSUME NEW i \in DOMAIN msgs, JoinFails(i)
        PROVE  ClientInv'
    <2>1. Mail(msgs')
      BY <1>6, Removed DEF JoinFails, ClientInv, Mail
    <2>2. QED
      BY <1>6, <2>1 DEF JoinFails, ClientInv, Mail
  <1>7. QED
    BY <1>1, <1>2, <1>3, <1>4, <1>5, <1>6, HandledKeeps, DeliveredKeeps DEF Socket

LEMMA ClientStep ==
  ASSUME ClientInv, [Next]_vars
  PROVE  ClientInv'
  <1> USE DEF wire, rest
  <1>1. AppOK(app)
    BY DEF ClientInv
  <1>2. CASE Boot
    <2>1. AppOK(app')
      BY <1>1, <1>2, Shown DEF Boot
    <2>2. QED
      BY <1>2, <2>1 DEF Boot, ClientInv
  <1>3. CASE VoiceEnds
    <2>1. AppOK(app')
      BY <1>1, <1>3, Listened DEF VoiceEnds
    <2>2. QED
      BY <1>3, <2>1 DEF VoiceEnds, ClientInv
  <1>4. CASE MicEnds
    <2>1. AppOK(app')
      <3>1. CASE Listen
        BY <1>1, <3>1, Listened
      <3>2. CASE app' = [app EXCEPT !.st = "editing", !.box = TRUE]
        <4>1. AppOK([app EXCEPT !.st = "editing", !.box = TRUE])
          BY <1>1, Faced
        <4>2. QED
          BY <3>2, <4>1
      <3>3. QED
        BY <1>4, <3>1, <3>2 DEF MicEnds
    <2>2. QED
      BY <1>4, <2>1 DEF MicEnds, ClientInv
  <1>5. CASE UNCHANGED vars
    BY <1>5 DEF vars, ClientInv
  <1>6. QED
    BY <1>2, <1>3, <1>4, <1>5, UserKeeps, ReplyKeeps, SocketKeeps DEF Next

-----------------------------------------------------------------------------

(* App, what it has emitted and the calls it waits for keep their shape,   *)
(* and a page that shows a question has session and questions of one       *)
(* reply, through every order of replies, callbacks and lost connections.  *)
THEOREM ClientInvariant == Spec => []ClientInv
  BY ClientInit, ClientStep, PTL DEF Spec

(* submitAnswer sends an answer to the session whose question was asked,   *)
(* also when the user acts while replies to older requests are awaited.    *)
THEOREM AnswersGoToTheirSession == Spec => []AnswersMatchQuestions
  <1>1. ClientInv => AnswersMatchQuestions
    BY DEF ClientInv, Matched, AnswersMatchQuestions
  <1>2. QED
    BY <1>1, ClientInvariant, PTL

-----------------------------------------------------------------------------
(* The sessions of the server                                              *)

Row == [owner : {Guest, Member}, size : Nat, answered : SUBSET Nat, ended : BOOLEAN]

ServerOK ==
  /\ srv \in [Session -> Row]
  /\ account \in {Guest, Member}
  /\ \A c \in calls : c.who \in {Guest, Member}

(* What happens to a session that exists: answers and questions are added, *)
(* and an owner to one that has none.                                      *)
Grown(s, new) ==
  /\ new[s].size >= srv[s].size
  /\ srv[s].answered \subseteq new[s].answered
  /\ srv[s].owner # Guest => new[s].owner = srv[s].owner

Grows == \A s \in Session : Exists(s) => Grown(s, srv')

LEMMA ExistsStays ==
  ASSUME ServerOK, ServerOK', Grows, NEW s \in Id, Exists(s)
  PROVE  /\ s \in Session /\ Exists(s)' /\ Grown(s, srv')
         /\ \A who : Accessible(s, who)' => Accessible(s, who)
  <1>1. s \in Session /\ Grown(s, srv')
    BY DEF Exists, Id, Grows
  <1>2. srv[s] \in Row /\ srv'[s] \in Row
    BY <1>1 DEF ServerOK
  <1>3. srv[s].size \in Nat /\ srv'[s].size \in Nat /\ srv[s].owner \in {Guest, Member}
    BY <1>2 DEF Row
  <1>4. Exists(s)'
    BY <1>1, <1>3 DEF Exists, Grown
  <1>5. \A who : Accessible(s, who)' => Accessible(s, who)
    BY <1>1, <1>3 DEF Accessible, Grown
  <1>6. QED
    BY <1>1, <1>4, <1>5

LEMMA Unchanging ==
  ASSUME srv \in [Session -> Row], srv' = srv
  PROVE  srv' \in [Session -> Row] /\ Grows
  <1>1. \A s \in Session : srv[s].size \in Nat
    BY DEF Row
  <1>2. QED
    BY <1>1 DEF Grows, Grown

(* A message that is handled adds an answer or ends the session.           *)
LEMMA Effected ==
  ASSUME ServerOK, NEW m \in Message
  PROVE  /\ Effect(m) \in [Session -> Row]
         /\ \A s \in Session : Grown(s, Effect(m))
         /\ m.ev = "answer" /\ Allowed(m) => m.q \in Effect(m)[m.s].answered
  <1>1. srv \in [Session -> Row] /\ \A s \in Session : srv[s].size \in Nat
    BY DEF ServerOK, Row
  <1>2. CASE ~Allowed(m)
    <2>1. Effect(m) = srv
      BY <1>2 DEF Effect
    <2>2. QED
      BY <1>1, <1>2, <2>1 DEF Grown
  <1>3. CASE Allowed(m)
    <2>1. m.s \in Session /\ m.q \in Nat /\ srv[m.s] \in Row
      BY <1>1, <1>3 DEF Allowed, Accessible, Exists, Message, Id
    <2>2. CASE m.ev = "answer"
      <3> DEFINE new == [srv[m.s] EXCEPT !.answered = @ \cup {m.q}]
      <3>1. Effect(m) = [srv EXCEPT ![m.s].answered = @ \cup {m.q}]
        BY <1>3, <2>2 DEF Effect
      <3>2. Effect(m) = [srv EXCEPT ![m.s] = new]
        BY <1>1, <2>1, <3>1
      <3>3. /\ new \in Row /\ new.size = srv[m.s].size /\ new.owner = srv[m.s].owner
            /\ new.answered = srv[m.s].answered \cup {m.q}
        BY <2>1 DEF Row
      <3> HIDE DEF new
      <3>4. \A s \in Session : Effect(m)[s] = IF s = m.s THEN new ELSE srv[s]
        BY <1>1, <3>2
      <3>5. Effect(m) \in [Session -> Row]
        BY <1>1, <3>2, <3>3
      <3>6. QED
        BY <1>1, <2>1, <3>3, <3>4, <3>5 DEF Grown
    <2>3. CASE m.ev = "end"
      <3> DEFINE new == [srv[m.s] EXCEPT !.ended = TRUE]
      <3>1. Effect(m) = [srv EXCEPT ![m.s] = new]
        BY <1>1, <1>3, <2>1, <2>3 DEF Effect
      <3>2. /\ new \in Row /\ new.size = srv[m.s].size /\ new.owner = srv[m.s].owner
            /\ new.answered = srv[m.s].answered
        BY <2>1 DEF Row
      <3> HIDE DEF new
      <3>3. \A s \in Session : Effect(m)[s] = IF s = m.s THEN new ELSE srv[s]
        BY <1>1, <3>1
      <3>4. Effect(m) \in [Session -> Row]
        BY <1>1, <3>1, <3>2
      <3>5. QED
        BY <1>1, <2>1, <2>3, <3>2, <3>3, <3>4 DEF Grown
    <2>4. CASE m.ev \notin {"answer", "end"}
      <3>1. Effect(m) = srv
        BY <1>3, <2>4 DEF Effect
      <3>2. QED
        BY <1>1, <2>4, <3>1 DEF Grown
    <2>5. QED
      BY <2>2, <2>3, <2>4
  <1>4. QED
    BY <1>2, <1>3

LEMMA ServerInit == Init => ServerOK
  BY ClientAssumption DEF Init, ServerOK, Row, NoRow

LEMMA CalledBy ==
  ASSUME ServerOK, NEW kind, NEW s, Calls(kind, s)
  PROVE  \A c \in calls' : c.who \in {Guest, Member}
  BY DEF ServerOK, Calls

LEMMA UserLeavesServer ==
  ASSUME ServerOK, UserStep
  PROVE  srv' = srv /\ account' = account /\ ServerOK'
  <1>1. srv' = srv /\ account' = account
    BY DEF UserStep, Start, Submit, Record, EndEarly, RestartApp, Extend,
           RefreshOverallFeedback, LoadHistory, BackToSetup, ViewHistoryDetail,
           RefreshHistoryDetail, SignIn, LoginOrLogout, rest
  <1>2. calls' = calls \/ \E kind, s : Calls(kind, s)
    BY DEF UserStep, Start, Submit, Record, EndEarly, RestartApp, Extend,
           RefreshOverallFeedback, LoadHistory, BackToSetup, ViewHistoryDetail,
           RefreshHistoryDetail, SignIn, LoginOrLogout, rest
  <1>3. \A c \in calls' : c.who \in {Guest, Member}
    BY <1>2, CalledBy DEF ServerOK
  <1>4. QED
    BY <1>1, <1>3 DEF ServerOK

LEMMA ReplyOfServer ==
  ASSUME ClientInv, ServerOK, Reply
  PROVE  ServerOK' /\ Grows
  <1>1. PICK c \in calls :
          \/ Started(c) \/ Extended(c) \/ Refreshed(c) \/ DetailShown(c) \/ Failed(c)
          \/ HistoryLoaded(c) \/ HistoryFails(c) \/ LoggedIn(c) \/ LoggedOut(c)
    BY DEF Reply
  <1>2. c.who \in {Guest, Member} /\ c.s \in Id /\ srv \in [Session -> Row]
    BY DEF ClientInv, ServerOK
  <1>3. \A d \in calls' : d.who \in {Guest, Member}
    <2>1. calls' \subseteq calls \cup {[kind |-> "history", s |-> NoSession, who |-> account]}
      BY <1>1 DEF Started, Extended, Refreshed, DetailShown, Failed, HistoryLoaded,
                  HistoryFails, LoggedIn, LoggedOut, Taken
    <2>2. QED
      BY <2>1 DEF ServerOK
  <1>4. account' \in {Guest, Member}
    BY <1>1 DEF Started, Extended, Refreshed, DetailShown, Failed, HistoryLoaded,
                HistoryFails, LoggedIn, LoggedOut, SignedAs, ServerOK
  <1>5. srv' \in [Session -> Row] /\ Grows
    <2>1. CASE Started(c)
      <3>1. PICK s \in Session :
              /\ ~Exists(s)
              /\ srv' = [srv EXCEPT ![s] = [NoRow EXCEPT !.owner = c.who, !.size = Count]]
        BY <2>1 DEF Started
      <3>2. [NoRow EXCEPT !.owner = c.who, !.size = Count] \in Row
        BY <1>2, ClientAssumption DEF NoRow, Row
      <3>3. srv' \in [Session -> Row] /\ \A t \in Session : Exists(t) => srv'[t] = srv[t]
        BY <1>2, <3>1, <3>2
      <3>4. \A t \in Session : srv[t].size \in Nat
        BY <1>2 DEF Row
      <3>5. QED
        BY <3>3, <3>4 DEF Grows, Grown
    <2>2. CASE Extended(c)
      <3>1. c.s \in Session /\ srv[c.s] \in Row
        BY <1>2, <2>2 DEF Extended, Accessible, Exists, Id
      <3> DEFINE new == [srv[c.s] EXCEPT !.size = @ + Extra, !.ended = FALSE]
      <3>2. /\ new \in Row /\ new.size >= srv[c.s].size
            /\ new.answered = srv[c.s].answered /\ new.owner = srv[c.s].owner
        <4>1. Extra \in Nat /\ srv[c.s].size \in Nat
          BY <3>1, ClientAssumption DEF Row
        <4>2. srv[c.s].size + Extra \in Nat /\ srv[c.s].size + Extra >= srv[c.s].size
          BY <4>1
        <4>3. /\ new \in Row /\ new.size = srv[c.s].size + Extra
              /\ new.answered = srv[c.s].answered /\ new.owner = srv[c.s].owner
          BY <3>1, <4>2 DEF Row
        <4>4. QED
          BY <4>2, <4>3
      <3>3. srv' = [srv EXCEPT ![c.s] = new]
        <4>1. srv' = [srv EXCEPT ![c.s].size = @ + Extra, ![c.s].ended = FALSE]
          BY <2>2 DEF Extended
        <4>2. c.s \in DOMAIN srv /\ DOMAIN srv[c.s] = {"owner", "size", "answered", "ended"}
          BY <1>2, <3>1 DEF Row
        <4>3. QED
          BY <4>1, <4>2
      <3> HIDE DEF new
      <3>4. \A s \in Session : srv'[s] = IF s = c.s THEN new ELSE srv[s]
        BY <1>2, <3>3
      <3>5. \A s \in Session : srv[s].size \in Nat
        BY <1>2 DEF Row
      <3>6. Grows
        BY <3>2, <3>4, <3>5 DEF Grows, Grown
      <3>7. QED
        BY <1>2, <3>2, <3>3, <3>6
    <2>3. CASE LoggedIn(c)
      <3>1. srv' = Claimed
        BY <2>3 DEF LoggedIn
      <3>2. ASSUME NEW s \in Session
            PROVE  srv'[s] \in Row /\ Grown(s, srv')
        <4>1. srv[s] \in Row /\ srv[s].size \in Nat
          BY <1>2 DEF Row
        <4>2. [srv[s] EXCEPT !.owner = Member] \in Row
          BY <4>1 DEF Row
        <4>3. srv'[s] = IF s \in Claims /\ srv[s].owner = Guest
                          THEN [srv[s] EXCEPT !.owner = Member] ELSE srv[s]
          BY <3>1 DEF Claimed
        <4>4. QED
          BY <4>1, <4>2, <4>3 DEF Grown, Row
      <3>3. srv' = [s \in Session |-> srv'[s]]
        BY <3>1 DEF Claimed
      <3>4. srv' \in [Session -> Row]
        BY <3>2, <3>3
      <3>5. QED
        BY <3>2, <3>4 DEF Grows
    <2>4. CASE srv' = srv
      BY <1>2, <2>4, Unchanging
    <2>5. QED
      BY <1>1, <2>1, <2>2, <2>3, <2>4
         DEF Refreshed, DetailShown, Failed, HistoryLoaded, HistoryFails, LoggedOut
  <1>6. QED
    BY <1>3, <1>4, <1>5 DEF ServerOK

LEMMA SocketOfServer ==
  ASSUME ClientInv, ServerOK, Socket
  PROVE  ServerOK' /\ Grows
  <1>1. calls' = calls /\ account' = account
    BY DEF Socket, Connected, Reopen, Dropped, Expired, Handled, JoinFails, HandlerFails,
           Delivered, rest
  <1>2. srv \in [Session -> Row] /\ \A i \in DOMAIN msgs : msgs[i] \in Message
    BY DEF ServerOK, ClientInv
  <1>3. srv' = srv \/ \E m \in Message : srv' = Effect(m)
    BY <1>2 DEF Socket, Connected, Reopen, Dropped, Expired, Handled, JoinFails, HandlerFails,
                Delivered, rest
  <1>4. srv' \in [Session -> Row] /\ Grows
    BY <1>2, <1>3, Unchanging, Effected DEF Grows
  <1>5. QED
    BY <1>1, <1>4 DEF ServerOK

LEMMA ServerStep ==
  ASSUME ClientInv, ServerOK, [Next]_vars
  PROVE  ServerOK' /\ Grows
  <1>1. srv \in [Session -> Row]
    BY DEF ServerOK
  <1>2. CASE UserStep
    BY <1>1, <1>2, UserLeavesServer, Unchanging
  <1>3. CASE Boot \/ VoiceEnds \/ MicEnds \/ UNCHANGED vars
    <2>1. srv' = srv /\ calls' = calls /\ account' = account
      BY <1>3 DEF Boot, VoiceEnds, MicEnds, vars, rest
    <2>2. QED
      BY <1>1, <2>1, Unchanging DEF ServerOK
  <1>4. QED
    BY <1>2, <1>3, ReplyOfServer, SocketOfServer DEF Next

-----------------------------------------------------------------------------
(* What is in the mail                                                     *)

LEMMA RemovedAre ==
  ASSUME NEW ms \in Seq(Message), NEW i \in DOMAIN ms
  PROVE  /\ \A k \in DOMAIN RemoveAt(ms, i) :
              \E j \in DOMAIN ms : j # i /\ RemoveAt(ms, i)[k] = ms[j]
         /\ \A j \in DOMAIN ms : j # i =>
              \E k \in DOMAIN RemoveAt(ms, i) : RemoveAt(ms, i)[k] = ms[j]
         /\ \A k, l \in DOMAIN RemoveAt(ms, i) : k # l =>
              \E j, h \in DOMAIN ms :
                j # h /\ RemoveAt(ms, i)[k] = ms[j] /\ RemoveAt(ms, i)[l] = ms[h]
  <1>1. /\ ms \in Seq(Message) /\ Len(ms) \in Nat /\ DOMAIN ms = 1..Len(ms)
        /\ i \in 1..Len(ms)
    OBVIOUS
  <1> DEFINE left == SubSeq(ms, 1, i - 1)
             right == SubSeq(ms, i + 1, Len(ms))
             At(k) == IF k < i THEN k ELSE k + 1
  <1>2. /\ left \in Seq(Message) /\ Len(left) = i - 1
        /\ \A j \in 1..(i - 1) : left[j] = ms[j]
    BY <1>1
  <1>3. /\ right \in Seq(Message) /\ Len(right) = Len(ms) - i
        /\ \A j \in 1..(Len(ms) - i) : right[j] = ms[j + i]
    BY <1>1
  <1>4. RemoveAt(ms, i) = left \o right
    BY DEF RemoveAt
  <1> HIDE DEF left, right
  <1>5. /\ DOMAIN (left \o right) = 1..(Len(ms) - 1)
        /\ \A k \in 1..(Len(ms) - 1) : (left \o right)[k] = ms[At(k)]
    <2>1. DOMAIN (left \o right) = 1..(Len(ms) - 1)
      <3>1. left \o right \in Seq(Message) /\ Len(left \o right) = Len(left) + Len(right)
        <4>1. left \in Seq(Message) /\ right \in Seq(Message)
          BY <1>2, <1>3
        <4>2. left \o right \in Seq(Message)
          BY <4>1
        <4>3. Len(left \o right) = Len(left) + Len(right)
          BY <4>1
        <4>4. QED
          BY <4>2, <4>3
      <3>2. Len(left) + Len(right) = Len(ms) - 1
        BY <1>1, <1>2, <1>3
      <3>3. DOMAIN (left \o right) = 1..Len(left \o right)
        BY <3>1
      <3>4. QED
        BY <3>1, <3>2, <3>3
    <2>2. ASSUME NEW k \in 1..(Len(ms) - 1)
          PROVE  (left \o right)[k] = ms[At(k)]
      <3>1. CASE k < i
        <4>1. k \in 1..(i - 1) /\ (left \o right)[k] = left[k]
          BY <1>1, <1>2, <1>3, <3>1
        <4>2. QED
          BY <1>2, <3>1, <4>1
      <3>2. CASE ~(k < i)
        <4>1. /\ k - (i - 1) \in 1..(Len(ms) - i)
              /\ (left \o right)[k] = right[k - (i - 1)]
              /\ k - (i - 1) + i = k + 1
          BY <1>1, <1>2, <1>3, <3>2
        <4>2. right[k - (i - 1)] = ms[k + 1]
          BY <1>3, <4>1
        <4>3. QED
          BY <3>2, <4>1, <4>2
      <3>3. QED
        BY <3>1, <3>2
    <2>3. QED
      BY <2>1, <2>2
  <1>6. /\ \A k \in 1..(Len(ms) - 1) : At(k) \in 1..Len(ms) /\ At(k) # i
        /\ \A k, l \in 1..(Len(ms) - 1) : k # l => At(k) # At(l)
        /\ \A j \in 1..Len(ms) : j # i =>
             \E k \in 1..(Len(ms) - 1) : At(k) = j
    <2>1. \A k \in 1..(Len(ms) - 1) : At(k) \in 1..Len(ms) /\ At(k) # i
      BY <1>1
    <2>2. \A k, l \in 1..(Len(ms) - 1) : k # l => At(k) # At(l)
      BY <1>1
    <2>3. ASSUME NEW j \in 1..Len(ms), j # i
          PROVE  \E k \in 1..(Len(ms) - 1) : At(k) = j
      <3>1. CASE j < i
        BY <1>1, <3>1
      <3>2. CASE j > i
        <4>1. j - 1 \in 1..(Len(ms) - 1) /\ At(j - 1) = j
          BY <1>1, <3>2
        <4>2. QED
          BY <4>1
      <3>3. QED
        BY <1>1, <2>3, <3>1, <3>2
    <2>4. QED
      BY <2>1, <2>2, <2>3
  <1> HIDE DEF At
  <1> DEFINE R == RemoveAt(ms, i)
  <1>7. /\ DOMAIN R = 1..(Len(ms) - 1)
        /\ \A k \in 1..(Len(ms) - 1) : R[k] = ms[At(k)]
    BY <1>4, <1>5
  <1>8. \A k \in DOMAIN R : \E j \in DOMAIN ms : j # i /\ R[k] = ms[j]
    BY <1>1, <1>6, <1>7
  <1>9. \A j \in DOMAIN ms : j # i => \E k \in DOMAIN R : R[k] = ms[j]
    BY <1>1, <1>6, <1>7
  <1>10. \A k, l \in DOMAIN R : k # l =>
           \E j, h \in DOMAIN ms : j # h /\ R[k] = ms[j] /\ R[l] = ms[h]
    <2> TAKE k, l \in DOMAIN R
    <2> HAVE k # l
    <2>1. /\ At(k) \in DOMAIN ms /\ At(l) \in DOMAIN ms /\ At(k) # At(l)
          /\ R[k] = ms[At(k)] /\ R[l] = ms[At(l)]
      BY <1>1, <1>6, <1>7
    <2>2. QED
      BY <2>1
  <1>11. QED
    BY <1>8, <1>9, <1>10

LEMMA EmittedAre ==
  ASSUME NEW ms \in Seq(Message), NEW ev, NEW s, NEW q, NEW of,
         Emit(ms, ev, s, q, of) \in Seq(Message)
  PROVE  /\ DOMAIN ms \subseteq DOMAIN Emit(ms, ev, s, q, of)
         /\ \A k \in DOMAIN ms : Emit(ms, ev, s, q, of)[k] = ms[k]
         /\ \E k \in DOMAIN Emit(ms, ev, s, q, of) :
              /\ k \notin DOMAIN ms
              /\ DOMAIN Emit(ms, ev, s, q, of) = DOMAIN ms \cup {k}
              /\ Emit(ms, ev, s, q, of)[k].ev = ev
              /\ Emit(ms, ev, s, q, of)[k].s = s
              /\ Emit(ms, ev, s, q, of)[k].q = q
              /\ Emit(ms, ev, s, q, of)[k].at # "done"
  <1> DEFINE m == [ev |-> ev, s |-> s, q |-> q, of |-> of, ok |-> TRUE,
                   at |-> IF net = "open" THEN "sent" ELSE "buffered"]
  <1>1. Emit(ms, ev, s, q, of) = Append(ms, m)
    BY DEF Emit
  <1>2. m.ev = ev /\ m.s = s /\ m.q = q /\ m.at # "done"
    OBVIOUS
  <1> HIDE DEF m
  <1>3. Len(ms) \in Nat /\ DOMAIN ms = 1..Len(ms)
    OBVIOUS
  <1>4. /\ DOMAIN Append(ms, m) = 1..(Len(ms) + 1)
        /\ \A k \in DOMAIN ms : Append(ms, m)[k] = ms[k]
        /\ Append(ms, m)[Len(ms) + 1] = m
    BY <1>3
  <1>5. /\ 1..(Len(ms) + 1) = 1..Len(ms) \cup {Len(ms) + 1}
        /\ Len(ms) + 1 \notin 1..Len(ms) /\ Len(ms) + 1 \in 1..(Len(ms) + 1)
    BY <1>3
  <1>6. QED
    BY <1>1, <1>2, <1>3, <1>4, <1>5

-----------------------------------------------------------------------------
(* The room                                                                *)

JoinsOpen(ms) == \A i \in DOMAIN ms : ms[i].ev = "join" => ms[i].at # "done"
Joining(ms, s) == \E i \in DOMAIN ms : ms[i].ev = "join" /\ ms[i].s = s

(* The session whose room is wanted exists, and an open connection that    *)
(* may enter is in the room, has asked to be, or was told of a failure.    *)
RoomInv ==
  /\ pending # NoSession => Exists(pending)
  /\ JoinsOpen(msgs)
  /\ net = "open" /\ pending # NoSession /\ Accessible(pending, ident) =>
       pending \in rooms \cup refused \/ Joining(msgs, pending)

(* What the page emits takes no request to join away.                      *)
JoinsKept(ms, new) ==
  /\ JoinsOpen(ms) => JoinsOpen(new)
  /\ \A s : Joining(ms, s) => Joining(new, s)

LEMMA EmitKeepsJoins ==
  ASSUME NEW ms, Mail(ms), NEW ev \in {"answer", "end", "join"}, NEW s \in Id,
         NEW q \in Nat, NEW of \in Id, ev = "answer" => s = of
  PROVE  /\ JoinsKept(ms, Emit(ms, ev, s, q, of))
         /\ ev = "join" => Joining(Emit(ms, ev, s, q, of), s)
  <1> DEFINE new == Emit(ms, ev, s, q, of)
  <1>1. ms \in Seq(Message) /\ new \in Seq(Message)
    BY Emitted DEF Mail
  <1>2. PICK k \in DOMAIN new :
          /\ k \notin DOMAIN ms
          /\ DOMAIN new = DOMAIN ms \cup {k}
          /\ new[k].ev = ev
          /\ new[k].s = s
          /\ new[k].q = q
          /\ new[k].at # "done"
    <2>1. Emit(ms, ev, s, q, of) \in Seq(Message)
      BY <1>1
    <2>2. QED
      BY <1>1, <2>1, EmittedAre, Zenon
  <1>3. \A j \in DOMAIN ms : new[j] = ms[j]
    BY <1>1, EmittedAre
  <1> HIDE DEF new
  <1>4. JoinsKept(ms, new)
    BY <1>2, <1>3 DEF JoinsKept, JoinsOpen, Joining
  <1>5. ev = "join" => Joining(new, s)
    BY <1>2 DEF Joining
  <1>6. QED
    BY <1>4, <1>5 DEF new

LEMMA AskKeepsJoins ==
  ASSUME NEW a, AppOK(a), NEW ms, Mail(ms), Ask(a, ms)
  PROVE  JoinsKept(ms, msgs')
  <1>1. JoinsKept(ms, ms)
    BY DEF JoinsKept
  <1>2. JoinsKept(ms, Emit(ms, "end", a.session, 0, a.source))
    <2>1. a.session \in Id /\ a.source \in Id
      BY DEF AppOK
    <2>2. QED
      BY <2>1, EmitKeepsJoins
  <1>3. msgs' = ms \/ msgs' = Emit(ms, "end", a.session, 0, a.source)
    BY DEF Ask
  <1>4. QED
    BY <1>1, <1>2, <1>3

LEMMA RemoveKeepsJoins ==
  ASSUME NEW ms, Mail(ms), NEW i \in DOMAIN ms
  PROVE  /\ JoinsOpen(ms) => JoinsOpen(RemoveAt(ms, i))
         /\ \A s : Joining(ms, s) =>
              \/ Joining(RemoveAt(ms, i), s)
              \/ ms[i].ev = "join" /\ ms[i].s = s
  <1> DEFINE R == RemoveAt(ms, i)
  <1>1. /\ \A k \in DOMAIN R : \E j \in DOMAIN ms : R[k] = ms[j]
        /\ \A j \in DOMAIN ms : j # i => \E k \in DOMAIN R : R[k] = ms[j]
    BY RemovedAre DEF Mail
  <1> HIDE DEF R
  <1>2. JoinsOpen(ms) => JoinsOpen(R)
    BY <1>1 DEF JoinsOpen
  <1>3. ASSUME NEW s, Joining(ms, s)
        PROVE  Joining(R, s) \/ (ms[i].ev = "join" /\ ms[i].s = s)
    <2>1. PICK j \in DOMAIN ms : ms[j].ev = "join" /\ ms[j].s = s
      BY <1>3 DEF Joining
    <2>2. CASE j = i
      BY <2>1, <2>2
    <2>3. CASE j # i
      BY <1>1, <2>1, <2>3 DEF Joining
    <2>4. QED
      BY <2>2, <2>3
  <1>4. QED
    BY <1>2, <1>3 DEF R

(* A step that leaves the connection and the wanted room as they are.      *)
LEMMA RoomKept ==
  ASSUME ClientInv, ServerOK, ServerOK', Grows, RoomInv,
         pending' = pending, ident' = ident, net' = "open" => net = "open",
         rooms \subseteq rooms', refused \subseteq refused', JoinsOpen(msgs'),
         \A s : Joining(msgs, s) =>
           Joining(msgs', s) \/ s \in (rooms \cup refused)' \/ ~Accessible(s, ident)
  PROVE  RoomInv'
  <1>1. pending \in Id
    BY DEF ClientInv
  <1>2. \A s \in Id : Exists(s) =>
          /\ s # NoSession /\ srv'[s].size > 0
          /\ \A who : srv'[s].owner \in {Guest, who} => srv[s].owner \in {Guest, who}
    <2> TAKE s \in Id
    <2> HAVE Exists(s)
    <2>1. Exists(s)' /\ \A who : Accessible(s, who)' => Accessible(s, who)
      BY ExistsStays
    <2>2. QED
      BY <2>1 DEF Exists, Accessible
  <1>3. pending # NoSession =>
          Exists(pending)' /\ (Accessible(pending, ident)' => Accessible(pending, ident))
    <2>1. SUFFICES ASSUME pending # NoSession
                   PROVE  /\ Exists(pending)'
                          /\ Accessible(pending, ident)' => Accessible(pending, ident)
      OBVIOUS
    <2>2. Exists(pending)
      BY <2>1 DEF RoomInv
    <2>3. srv'[pending].size > 0 /\ \A who :
            srv'[pending].owner \in {Guest, who} => srv[pending].owner \in {Guest, who}
      BY <1>1, <1>2, <2>2
    <2>4. Exists(pending)'
      BY <2>1, <2>3 DEF Exists
    <2>5. QED
      BY <2>2, <2>3, <2>4 DEF Accessible
  <1>4. net' = "open" /\ pending' # NoSession /\ Accessible(pending, ident)' =>
          pending' \in (rooms \cup refused)' \/ Joining(msgs', pending')
    BY <1>3 DEF RoomInv
  <1>5. QED
    BY <1>3, <1>4 DEF RoomInv, Joining, JoinsOpen

(* A step after which no room is wanted.                                   *)
LEMMA NoRoom ==
  ASSUME pending' = NoSession, JoinsOpen(msgs')
  PROVE  RoomInv'
  BY DEF RoomInv, JoinsOpen

LEMMA SameMail ==
  ASSUME RoomInv, msgs' = msgs
  PROVE  /\ JoinsOpen(msgs')
         /\ \A s : Joining(msgs, s) => Joining(msgs', s)
  BY DEF RoomInv

LEMMA UserKeepsRoom ==
  ASSUME ClientInv, ServerOK, ServerOK', Grows, RoomInv, UserStep
  PROVE  RoomInv'
  <1>1. AppOK(app) /\ Mail(msgs) /\ app.idx + 1 \in Nat
        /\ app.session \in Id /\ app.source \in Id
    BY DEF ClientInv, Mail, AppOK
  <1>2. JoinsKept(msgs, msgs')
    <2>1. CASE Submit
      <3>1. msgs' = Emit(msgs, "answer", app.session, app.idx + 1, app.source)
        BY <2>1 DEF Submit
      <3>2. app.session = app.source
        BY <1>1, <2>1 DEF Submit, AppOK
      <3>3. QED
        BY <1>1, <3>1, <3>2, EmitKeepsJoins
    <2>2. CASE EndEarly
      <3>1. msgs' = Emit(msgs, "end", app.session, 0, app.source)
        BY <2>2 DEF EndEarly
      <3>2. QED
        BY <1>1, <3>1, EmitKeepsJoins
    <2>3. CASE ~Submit /\ ~EndEarly
      <3>1. msgs' = msgs
        BY <2>3 DEF UserStep, Start, Record, RestartApp, Extend,
             RefreshOverallFeedback, LoadHistory, BackToSetup, ViewHistoryDetail,
             RefreshHistoryDetail, SignIn, LoginOrLogout
      <3>2. QED
        BY <3>1 DEF JoinsKept
    <2>4. QED
      BY <2>1, <2>2, <2>3
  <1>3. JoinsOpen(msgs') /\ \A s : Joining(msgs, s) => Joining(msgs', s)
    BY <1>2 DEF JoinsKept, RoomInv
  <1>4. CASE RestartApp
    <2>1. pending' = NoSession
      BY <1>4 DEF RestartApp
    <2>2. QED
      BY <1>3, <2>1, NoRoom
  <1>5. CASE ~RestartApp
    <2>1. UNCHANGED wire
      BY <1>5 DEF UserStep, Start, Submit, EndEarly, Record, Extend,
           RefreshOverallFeedback, LoadHistory, BackToSetup, ViewHistoryDetail,
           RefreshHistoryDetail, SignIn, LoginOrLogout
    <2>2. /\ net' = net /\ ident' = ident /\ pending' = pending
          /\ rooms' = rooms /\ refused' = refused
      BY <2>1 DEF wire
    <2>3. QED
      BY <1>3, <2>2, RoomKept
  <1>6. QED
    BY <1>4, <1>5

LEMMA ReplyKeepsRoom ==
  ASSUME ClientInv, ServerOK, ServerOK', Grows, RoomInv, Reply
  PROVE  RoomInv'
  <1>1. PICK c \in calls :
          \/ Started(c) \/ Extended(c) \/ Refreshed(c) \/ DetailShown(c) \/ Failed(c)
          \/ HistoryLoaded(c) \/ HistoryFails(c) \/ LoggedIn(c) \/ LoggedOut(c)
    BY DEF Reply
  <1>2. AppOK(app) /\ Mail(msgs) /\ c.s \in Id
    BY DEF ClientInv, Mail
  <1>3. CASE Started(c)
    <2>1. PICK s \in Session :
            /\ srv' = [srv EXCEPT ![s] = [NoRow EXCEPT !.owner = c.who, !.size = Count]]
            /\ pending' = s
            /\ Ask([app EXCEPT !.session = s, !.source = s, !.idx = 0, !.total = Count,
                      !.panel = "interview"],
                   Emit(msgs, "join", s, 0, s))
      BY <1>3 DEF Started
    <2> DEFINE a == [app EXCEPT !.session = s, !.source = s, !.idx = 0, !.total = Count,
                       !.panel = "interview"]
               ms == Emit(msgs, "join", s, 0, s)
    <2>2. s \in Id /\ AppOK(a)
      BY <1>2 DEF AppOK, IsApp, Id
    <2>3. Mail(ms) /\ JoinsKept(msgs, ms) /\ Joining(ms, s)
      BY <1>2, <2>2, Emitted, EmitKeepsJoins
    <2>4. Ask(a, ms)
      BY <2>1
    <2> HIDE DEF a, ms
    <2>5. JoinsKept(ms, msgs')
      BY <2>2, <2>3, <2>4, AskKeepsJoins
    <2>6. JoinsOpen(msgs') /\ Joining(msgs', s)
      BY <2>3, <2>5 DEF JoinsKept, RoomInv
    <2>7. Exists(s)'
      <3>1. srv'[s] = [NoRow EXCEPT !.owner = c.who, !.size = Count]
        BY <2>1 DEF ServerOK
      <3>2. srv'[s].size = Count /\ Count > 0
        BY <3>1, ClientAssumption DEF NoRow
      <3>3. QED
        BY <3>2, ClientAssumption DEF Exists
    <2>8. QED
      BY <2>1, <2>6, <2>7 DEF RoomInv, Exists, JoinsOpen, Joining
  <1>4. CASE Extended(c)
    <2> DEFINE a == [app EXCEPT !.session = c.s, !.source = c.s, !.panel = "interview",
                       !.total = srv[c.s].size + Extra]
    <2>1. AppOK(a)
      BY <1>2 DEF AppOK, IsApp
    <2>2. Ask(a, msgs)
      BY <1>4 DEF Extended
    <2> HIDE DEF a
    <2>3. JoinsKept(msgs, msgs')
      BY <1>2, <2>1, <2>2, AskKeepsJoins
    <2>4. /\ net' = net /\ ident' = ident /\ pending' = pending
          /\ rooms' = rooms /\ refused' = refused
      BY <1>4 DEF Extended
    <2>5. QED
      BY <2>3, <2>4, RoomKept DEF JoinsKept, RoomInv
  <1>5. CASE Refreshed(c) \/ DetailShown(c) \/ Failed(c) \/ HistoryLoaded(c)
             \/ HistoryFails(c)
    <2>1. msgs' = msgs /\ UNCHANGED wire
      BY <1>5 DEF Refreshed, DetailShown, Failed, HistoryLoaded, HistoryFails
    <2>2. /\ net' = net /\ ident' = ident /\ pending' = pending
          /\ rooms' = rooms /\ refused' = refused
      BY <2>1 DEF wire
    <2>3. QED
      BY <2>1, <2>2, SameMail, RoomKept
  <1>6. CASE LoggedIn(c)
    <2>1. /\ msgs' = msgs /\ ident' = ident /\ pending' = pending
          /\ rooms' = rooms /\ refused' = refused
          /\ net' = "open" => net = "open"
      BY <1>6 DEF LoggedIn, Connect
    <2>2. QED
      BY <2>1, SameMail, RoomKept
  <1>7. CASE LoggedOut(c)
    <2>1. pending' = NoSession /\ (msgs' = <<>> \/ msgs' = msgs)
      BY <1>7 DEF LoggedOut
    <2>2. JoinsOpen(<<>>)
      BY DEF JoinsOpen
    <2>3. JoinsOpen(msgs')
      BY <2>1, <2>2 DEF RoomInv
    <2>4. QED
      BY <2>1, <2>3, NoRoom
  <1>8. QED
    BY <1>1, <1>3, <1>4, <1>5, <1>6, <1>7

LEMMA ConnectedKeepsRoom ==
  ASSUME ClientInv, ServerOK, RoomInv, Connected
  PROVE  RoomInv'
  <1> DEFINE sent == [i \in DOMAIN msgs |-> [msgs[i] EXCEPT !.at = "sent"]]
             join == [ev |-> "join", s |-> pending, q |-> 0, of |-> pending,
                      ok |-> TRUE, at |-> "sent"]
  <1>1. msgs \in Seq(Message) /\ pending \in Id
    BY DEF ClientInv
  <1>2. Mail(sent)
    BY Flushed DEF ClientInv, Mail
  <1>3. JoinsOpen(sent)
    <2>1. ASSUME NEW i \in DOMAIN msgs
          PROVE  sent[i].at = "sent"
      <3>1. msgs[i] \in Message
        BY <1>1
      <3>2. QED
        BY <3>1 DEF Message
    <2>2. DOMAIN sent = DOMAIN msgs
      OBVIOUS
    <2> HIDE DEF sent
    <2>3. QED
      BY <2>1, <2>2 DEF JoinsOpen
  <1>4. join \in Message /\ join.ev = "join" /\ join.s = pending /\ join.at = "sent"
    BY <1>1 DEF Message
  <1>5. \/ pending = NoSession /\ msgs' = sent
        \/ Contains(sent, join) /\ msgs' = sent
        \/ msgs' = Append(sent, join)
    BY DEF Connected
  <1> HIDE DEF sent, join
  <1>6. Contains(sent, join) => Joining(sent, pending)
    BY <1>4 DEF Contains, Joining
  <1>7. /\ DOMAIN Append(sent, join) = 1..(Len(sent) + 1) /\ Len(sent) \in Nat
        /\ DOMAIN sent = 1..Len(sent)
        /\ \A k \in DOMAIN sent : Append(sent, join)[k] = sent[k]
        /\ Append(sent, join)[Len(sent) + 1] = join
    BY <1>2, <1>4 DEF Mail
  <1>8. 1..(Len(sent) + 1) = 1..Len(sent) \cup {Len(sent) + 1}
    BY <1>7
  <1>9. JoinsOpen(Append(sent, join)) /\ Joining(Append(sent, join), pending)
    BY <1>3, <1>4, <1>7, <1>8 DEF JoinsOpen, Joining
  <1>10. JoinsOpen(msgs') /\ (pending # NoSession => Joining(msgs', pending))
    BY <1>3, <1>5, <1>6, <1>9
  <1>11. pending' = pending /\ srv' = srv
    BY DEF Connected, rest
  <1>12. QED
    BY <1>10, <1>11 DEF RoomInv, Exists, JoinsOpen, Joining

LEMMA HandledKeepsRoom ==
  ASSUME ClientInv, ServerOK, ServerOK', Grows, RoomInv,
         NEW i \in DOMAIN msgs, Handled(i)
  PROVE  RoomInv'
  <1>1. Mail(msgs) /\ JoinsOpen(msgs)
    BY DEF ClientInv, Mail, RoomInv
  <1>2. /\ net' = net /\ ident' = ident /\ pending' = pending
        /\ rooms \subseteq rooms' /\ refused' = refused
    BY DEF Handled
  <1>3. CASE msgs[i].ev = "join"
    <2>1. msgs' = RemoveAt(msgs, i)
      BY <1>3 DEF Handled
    <2>2. JoinsOpen(msgs')
      BY <1>1, <2>1, RemoveKeepsJoins
    <2>3. msgs[i].s \in rooms' \/ ~Accessible(msgs[i].s, ident)
      BY <1>3 DEF Handled, Allowed
    <2>4. ASSUME NEW s, Joining(msgs, s)
          PROVE  Joining(msgs', s) \/ s \in rooms' \/ ~Accessible(s, ident)
      BY <1>1, <2>1, <2>3, <2>4, RemoveKeepsJoins
    <2>5. QED
      BY <1>2, <2>2, <2>4, RoomKept
  <1>4. CASE msgs[i].ev # "join"
    <2>1. msgs' = [msgs EXCEPT ![i].at = "done", ![i].ok = Allowed(msgs[i])]
      BY <1>4 DEF Handled
    <2>2. msgs \in Seq(Message) /\ msgs[i] \in Message
      BY <1>1 DEF Mail
    <2>3. /\ DOMAIN msgs' = DOMAIN msgs
          /\ \A k \in DOMAIN msgs : k # i => msgs'[k] = msgs[k]
          /\ msgs'[i].ev = msgs[i].ev
      BY <2>1, <2>2 DEF Message
    <2>4. JoinsOpen(msgs')
      BY <1>1, <1>4, <2>3 DEF JoinsOpen
    <2>5. \A s : Joining(msgs, s) => Joining(msgs', s)
      BY <1>4, <2>3 DEF Joining
    <2>6. QED
      BY <1>2, <2>4, <2>5, RoomKept
  <1>5. QED
    BY <1>3, <1>4

LEMMA DeliveredKeepsRoom ==
  ASSUME ClientInv, ServerOK, ServerOK', Grows, RoomInv,
         NEW i \in DOMAIN msgs, Delivered(i)
  PROVE  RoomInv'
  <1>1. Mail(msgs) /\ JoinsOpen(msgs) /\ AppOK(app)
    BY DEF ClientInv, Mail, RoomInv
  <1>2. /\ net' = net /\ ident' = ident /\ pending' = pending
        /\ rooms' = rooms /\ refused' = refused
    BY DEF Delivered, wire
  <1> DEFINE ms == RemoveAt(msgs, i)
  <1>3. Mail(ms) /\ JoinsKept(msgs, ms)
    <2>1. msgs[i].at = "done"
      BY DEF Delivered
    <2>2. msgs[i].ev # "join"
      BY <1>1, <2>1 DEF JoinsOpen
    <2>3. QED
      BY <1>1, <2>2, Removed, RemoveKeepsJoins DEF JoinsKept
  <1>4. JoinsKept(ms, msgs')
    <2>1. CASE msgs' = ms
      BY <2>1 DEF JoinsKept
    <2>2. CASE msgs[i].ok /\ msgs[i].ev # "end"
      <3> DEFINE a == [app EXCEPT !.idx = @ + 1]
      <3>1. AppOK(a)
        BY <1>1 DEF AppOK, IsApp
      <3>2. Ask(a, ms)
        BY <2>2 DEF Delivered
      <3> HIDE DEF a, ms
      <3>3. QED
        BY <1>3, <3>1, <3>2, AskKeepsJoins
    <2>3. QED
      BY <2>1, <2>2 DEF Delivered
  <1>5. JoinsOpen(msgs') /\ \A s : Joining(msgs, s) => Joining(msgs', s)
    BY <1>1, <1>3, <1>4 DEF JoinsKept
  <1>6. QED
    BY <1>2, <1>5, RoomKept

LEMMA SocketKeepsRoom ==
  ASSUME ClientInv, ServerOK, ServerOK', Grows, RoomInv, Socket
  PROVE  RoomInv'
  <1>1. CASE Reopen
    <2>1. /\ msgs' = msgs /\ ident' = ident /\ pending' = pending
          /\ rooms' = rooms /\ refused' = refused
          /\ net' = "open" => net = "open"
      BY <1>1 DEF Reopen, Connect
    <2>2. QED
      BY <2>1, SameMail, RoomKept
  <1>2. CASE Dropped
    <2>1. net' # "open" /\ pending' = pending /\ msgs' = <<>>
      BY <1>2 DEF Dropped
    <2>2. pending \in Id /\ (pending # NoSession => Exists(pending))
      BY DEF ClientInv, RoomInv
    <2>3. \A s \in Id : Exists(s) => srv'[s].size > 0
      <3> TAKE s \in Id
      <3> HAVE Exists(s)
      <3>1. Exists(s)'
        BY ExistsStays
      <3>2. QED
        BY <3>1 DEF Exists
    <2>4. pending' # NoSession => Exists(pending)'
      BY <2>1, <2>2, <2>3 DEF Exists
    <2>5. JoinsOpen(msgs')
      BY <2>1 DEF JoinsOpen
    <2>6. QED
      BY <2>1, <2>4, <2>5 DEF RoomInv, JoinsOpen
  <1>3. CASE Expired
    <2>1. pending' = NoSession /\ msgs' = msgs
      BY <1>3 DEF Expired
    <2>2. QED
      BY <2>1, SameMail, NoRoom
  <1>4. ASSUME NEW i \in DOMAIN msgs, HandlerFails(i)
        PROVE  RoomInv'
    <2>1. /\ msgs' = [msgs EXCEPT ![i].at = "done", ![i].ok = FALSE]
          /\ msgs[i].ev # "join"
          /\ net' = net /\ ident' = ident /\ pending' = pending
          /\ rooms' = rooms /\ refused' = refused
      BY <1>4 DEF HandlerFails, wire
    <2>2. msgs \in Seq(Message) /\ msgs[i] \in Message /\ JoinsOpen(msgs)
      BY DEF ClientInv, RoomInv
    <2>3. /\ DOMAIN msgs' = DOMAIN msgs
          /\ \A k \in DOMAIN msgs : k # i => msgs'[k] = msgs[k]
          /\ msgs'[i].ev = msgs[i].ev
      BY <2>1, <2>2 DEF Message
    <2>4. JoinsOpen(msgs')
      BY <2>1, <2>2, <2>3 DEF JoinsOpen
    <2>5. \A s : Joining(msgs, s) => Joining(msgs', s)
      BY <2>1, <2>3 DEF Joining
    <2>6. QED
      BY <2>1, <2>4, <2>5, RoomKept
  <1>5. ASSUME NEW i \in DOMAIN msgs, JoinFails(i)
        PROVE  RoomInv'
    <2>1. /\ msgs' = RemoveAt(msgs, i) /\ net' = net /\ ident' = ident
          /\ pending' = pending /\ rooms' = rooms /\ refused' = refused \cup {msgs[i].s}
      BY <1>5 DEF JoinFails
    <2>2. Mail(msgs) /\ JoinsOpen(msgs)
      BY DEF ClientInv, Mail, RoomInv
    <2>3. JoinsOpen(msgs')
      BY <2>1, <2>2, RemoveKeepsJoins
    <2>4. ASSUME NEW s, Joining(msgs, s)
          PROVE  Joining(msgs', s) \/ s \in (rooms \cup refused)'
      BY <2>1, <2>2, <2>4, RemoveKeepsJoins
    <2>5. QED
      BY <2>1, <2>3, <2>4, RoomKept
  <1>6. QED
    BY <1>1, <1>2, <1>3, <1>4, <1>5, ConnectedKeepsRoom, HandledKeepsRoom,
       DeliveredKeepsRoom DEF Socket

LEMMA RoomStep ==
  ASSUME ClientInv, ServerOK, ServerOK', Grows, RoomInv, [Next]_vars
  PROVE  RoomInv'
  <1>1. CASE Boot \/ VoiceEnds \/ MicEnds \/ UNCHANGED vars
    <2>1. /\ msgs' = msgs /\ ident' = ident /\ pending' = pending
          /\ rooms' = rooms /\ refused' = refused
          /\ net' = "open" => net = "open"
      BY <1>1 DEF Boot, VoiceEnds, MicEnds, vars, wire, Connect
    <2>2. QED
      BY <2>1, SameMail, RoomKept
  <1>2. QED
    BY <1>1, UserKeepsRoom, ReplyKeepsRoom, SocketKeepsRoom DEF Next

LEMMA ServerInvariant == Spec => []ServerOK
  <1>1. ClientInv /\ ServerOK /\ [Next]_vars => ServerOK'
    BY ServerStep
  <1>2. QED
    BY <1>1, ServerInit, ClientInvariant, PTL DEF Spec

LEMMA RoomInvariant == Spec => []RoomInv
  <1>1. Init => RoomInv
    BY DEF Init, RoomInv, JoinsOpen
  <1>2. ClientInv /\ ServerOK /\ ServerOK' /\ RoomInv /\ [Next]_vars => RoomInv'
    BY ServerStep, RoomStep
  <1>3. QED
    BY <1>1, <1>2, ClientInvariant, ServerInvariant, PTL DEF Spec

(* An open connection that may enter it is in the room of the session that *)
(* is interviewed, or has asked to join, unless the join failed on this    *)
(* connection: also after a connection was lost, one on which a join had   *)
(* failed included, refused as expired or opened again for another account.*)
THEOREM RoomIsRejoined == Spec => []RoomRejoined
  <1>1. RoomInv => RoomRejoined
    BY DEF RoomInv, RoomRejoined, Joining
  <1>2. QED
    BY <1>1, RoomInvariant, PTL

-----------------------------------------------------------------------------
(* What the page left behind is recorded                                   *)

NoneAsked(ms) == \A i \in DOMAIN ms : ms[i].ev = "join"
OneAsked(ms) == \A i, j \in DOMAIN ms : ms[i].ev # "join" /\ ms[j].ev # "join" => i = j

(* A user who waits has one request under way, a call or a message.        *)
WaitInv ==
  /\ \A c, d \in calls : c = d
  /\ calls # {} => NoneAsked(msgs)
  /\ OneAsked(msgs)

(* The sessions of the server are a parameter, for a step changes them.    *)
Reached(a, rows) ==
  /\ a.source = a.session
  /\ a.session # NoSession =>
       rows[a.session].size > 0 /\ 1..a.idx \subseteq rows[a.session].answered

(* An answer under way is to the question that is shown, and is recorded   *)
(* when its reply says so.                                                 *)
Fits(m, a, rows) ==
  m.ev = "answer" =>
    /\ m.s = a.session /\ m.q = a.idx + 1
    /\ m.at = "done" /\ m.ok =>
         m.s \in Session /\ rows[m.s].size > 0 /\ m.q \in rows[m.s].answered

AllFit(ms, a, rows) == \A i \in DOMAIN ms : Fits(ms[i], a, rows)

AdvanceInv ==
  /\ Reached(app, srv)
  /\ \A c \in calls : c.kind \in {"extend", "refresh"} => c.s = app.session
  /\ AllFit(msgs, app, srv)

(* The question that is shown is the same, of the same session.            *)
SameQuestion(a, b) == a.session = b.session /\ a.source = b.source /\ a.idx = b.idx

LEMMA RowsGrow ==
  ASSUME ServerOK, ServerOK', Grows
  PROVE  /\ \A a : AppOK(a) /\ Reached(a, srv) => Reached(a, srv')
         /\ \A m, a : Fits(m, a, srv) => Fits(m, a, srv')
  <1>1. \A s \in Session : srv[s].size > 0 =>
          srv'[s].size > 0 /\ srv[s].answered \subseteq srv'[s].answered
    <2> TAKE s \in Session
    <2> HAVE srv[s].size > 0
    <2>1. Exists(s) /\ s \in Id
      BY ClientAssumption DEF Exists, Id
    <2>2. Exists(s)' /\ Grown(s, srv')
      BY <2>1, ExistsStays
    <2>3. QED
      BY <2>2 DEF Exists, Grown
  <1>2. ASSUME NEW a, AppOK(a), Reached(a, srv)
        PROVE  Reached(a, srv')
    <2>1. a.session \in Id
      BY <1>2 DEF AppOK
    <2>2. QED
      BY <1>1, <1>2, <2>1 DEF Reached, Id
  <1>3. ASSUME NEW m, NEW a, Fits(m, a, srv)
        PROVE  Fits(m, a, srv')
    BY <1>1, <1>3 DEF Fits
  <1>4. QED
    BY <1>2, <1>3

LEMMA SameFits ==
  ASSUME NEW a, NEW b, SameQuestion(a, b), NEW rows
  PROVE  /\ Reached(a, rows) => Reached(b, rows)
         /\ \A ms : AllFit(ms, a, rows) => AllFit(ms, b, rows)
  BY DEF SameQuestion, Reached, AllFit, Fits

LEMMA NoneFits ==
  ASSUME NEW ms, NoneAsked(ms)
  PROVE  OneAsked(ms) /\ \A a, rows : AllFit(ms, a, rows)
  BY DEF NoneAsked, OneAsked, AllFit, Fits

LEMMA EmitFits ==
  ASSUME NEW ms, Mail(ms), NEW ev \in {"answer", "end", "join"}, NEW s \in Id,
         NEW q \in Nat, NEW of \in Id, ev = "answer" => s = of
  PROVE  /\ NoneAsked(ms) => OneAsked(Emit(ms, ev, s, q, of))
         /\ NoneAsked(ms) /\ ev = "join" => NoneAsked(Emit(ms, ev, s, q, of))
         /\ \A a, rows : AllFit(ms, a, rows)
                           /\ (ev = "answer" => s = a.session /\ q = a.idx + 1) =>
              AllFit(Emit(ms, ev, s, q, of), a, rows)
  <1> DEFINE new == Emit(ms, ev, s, q, of)
  <1>1. ms \in Seq(Message) /\ Emit(ms, ev, s, q, of) \in Seq(Message)
    BY Emitted DEF Mail
  <1>2. PICK k \in DOMAIN new :
          /\ k \notin DOMAIN ms
          /\ DOMAIN new = DOMAIN ms \cup {k}
          /\ new[k].ev = ev
          /\ new[k].s = s
          /\ new[k].q = q
          /\ new[k].at # "done"
    BY <1>1, EmittedAre, Zenon
  <1>3. \A j \in DOMAIN ms : new[j] = ms[j]
    BY <1>1, EmittedAre
  <1> HIDE DEF new
  <1>4. NoneAsked(ms) => OneAsked(new)
    BY <1>2, <1>3 DEF NoneAsked, OneAsked
  <1>5. NoneAsked(ms) /\ ev = "join" => NoneAsked(new)
    BY <1>2, <1>3 DEF NoneAsked
  <1>6. ASSUME NEW a, NEW rows, AllFit(ms, a, rows),
               ev = "answer" => s = a.session /\ q = a.idx + 1
        PROVE  AllFit(new, a, rows)
    <2>1. Fits(new[k], a, rows)
      BY <1>2, <1>6 DEF Fits
    <2>2. QED
      BY <1>2, <1>3, <1>6, <2>1 DEF AllFit
  <1>7. QED
    BY <1>4, <1>5, <1>6 DEF new

LEMMA AskFits ==
  ASSUME NEW a, AppOK(a), NEW ms, Mail(ms), NoneAsked(ms), Ask(a, ms)
  PROVE  /\ SameQuestion(a, app') /\ OneAsked(msgs')
         /\ \A rows : AllFit(msgs', app', rows)
  <1>1. a.session \in Id /\ a.source \in Id /\ IsApp(a)
    BY DEF AppOK
  <1>2. SameQuestion(a, app')
    BY <1>1 DEF Ask, Show, SameQuestion, IsApp
  <1>3. OneAsked(ms) /\ \A b, rows : AllFit(ms, b, rows)
    BY NoneFits
  <1>4. /\ OneAsked(Emit(ms, "end", a.session, 0, a.source))
        /\ \A b, rows : AllFit(Emit(ms, "end", a.session, 0, a.source), b, rows)
    BY <1>1, <1>3, EmitFits
  <1>5. msgs' = ms \/ msgs' = Emit(ms, "end", a.session, 0, a.source)
    BY DEF Ask
  <1>6. QED
    BY <1>2, <1>3, <1>4, <1>5

LEMMA RemoveFits ==
  ASSUME NEW ms, Mail(ms), NEW i \in DOMAIN ms
  PROVE  /\ NoneAsked(ms) => NoneAsked(RemoveAt(ms, i))
         /\ OneAsked(ms) => OneAsked(RemoveAt(ms, i))
         /\ OneAsked(ms) /\ ms[i].ev # "join" => NoneAsked(RemoveAt(ms, i))
         /\ \A a, rows : AllFit(ms, a, rows) => AllFit(RemoveAt(ms, i), a, rows)
  <1> DEFINE R == RemoveAt(ms, i)
  <1>1. /\ \A k \in DOMAIN R : \E j \in DOMAIN ms : j # i /\ R[k] = ms[j]
        /\ \A k, l \in DOMAIN R : k # l =>
             \E j, h \in DOMAIN ms : j # h /\ R[k] = ms[j] /\ R[l] = ms[h]
    BY RemovedAre DEF Mail
  <1> HIDE DEF R
  <1>2. NoneAsked(ms) => NoneAsked(R)
    BY <1>1 DEF NoneAsked
  <1>3. OneAsked(ms) => OneAsked(R)
    BY <1>1 DEF OneAsked
  <1>4. OneAsked(ms) /\ ms[i].ev # "join" => NoneAsked(R)
    BY <1>1 DEF OneAsked, NoneAsked
  <1>5. \A a, rows : AllFit(ms, a, rows) => AllFit(R, a, rows)
    BY <1>1 DEF AllFit
  <1>6. QED
    BY <1>2, <1>3, <1>4, <1>5 DEF R

(* A step that moves no question and takes no message up.                  *)
LEMMA AdvanceKept ==
  ASSUME ClientInv, ServerOK, ServerOK', Grows, AdvanceInv, SameQuestion(app, app'),
         \A c \in calls' : c.kind \in {"extend", "refresh"} => c.s = app.session,
         AllFit(msgs', app, srv')
  PROVE  AdvanceInv'
  <1>1. AppOK(app) /\ Reached(app, srv)
    BY DEF ClientInv, AdvanceInv
  <1>2. Reached(app, srv')
    BY <1>1, RowsGrow
  <1>3. Reached(app', srv') /\ AllFit(msgs', app', srv')
    BY <1>2, SameFits
  <1>4. app'.session = app.session
    BY DEF SameQuestion
  <1>5. QED
    BY <1>3, <1>4 DEF AdvanceInv

LEMMA MailFits ==
  ASSUME ServerOK, ServerOK', Grows, AdvanceInv
  PROVE  AllFit(msgs, app, srv')
  BY RowsGrow DEF AdvanceInv, AllFit

LEMMA UserIsIdle ==
  ASSUME Hasty = FALSE, UserStep
  PROVE  calls = {} /\ NoneAsked(msgs)
  <1>1. User
    BY DEF UserStep, Start, Submit, Record, EndEarly, RestartApp, Extend,
           RefreshOverallFeedback, LoadHistory, BackToSetup, ViewHistoryDetail,
           RefreshHistoryDetail, SignIn, LoginOrLogout
  <1>2. QED
    BY <1>1 DEF User, Awaited, NoneAsked

LEMMA UserKeepsAdvance ==
  ASSUME Hasty = FALSE, ClientInv, ServerOK, ServerOK', Grows, WaitInv, AdvanceInv,
         UserStep
  PROVE  WaitInv' /\ AdvanceInv'
  <1> USE DEF wire, rest
  <1>1. /\ AppOK(app) /\ Mail(msgs) /\ IsApp(app) /\ app.idx + 1 \in Nat
        /\ app.session \in Id /\ app.source \in Id /\ app.detail \in Id
    BY DEF ClientInv, Mail, AppOK
  <1>2. calls = {} /\ NoneAsked(msgs) /\ OneAsked(msgs)
    BY UserIsIdle, NoneFits
  <1>3. AllFit(msgs, app, srv')
    BY MailFits
  <1>4. CASE Submit
    <2>1. /\ msgs' = Emit(msgs, "answer", app.session, app.idx + 1, app.source)
          /\ app.session = app.source
      BY <1>1, <1>4 DEF Submit, AppOK
    <2>2. /\ OneAsked(msgs')
          /\ AllFit(msgs', app, srv')
      BY <1>1, <1>2, <1>3, <2>1, EmitFits
    <2>3. SameQuestion(app, app') /\ calls' = calls
      BY <1>1, <1>4 DEF Submit, SameQuestion, IsApp
    <2>4. AdvanceInv'
      BY <1>2, <2>2, <2>3, AdvanceKept
    <2>5. QED
      BY <1>2, <2>2, <2>3, <2>4 DEF WaitInv
  <1>5. CASE EndEarly
    <2>1. msgs' = Emit(msgs, "end", app.session, 0, app.source)
      BY <1>5 DEF EndEarly
    <2>2. OneAsked(msgs') /\ AllFit(msgs', app, srv')
      BY <1>1, <1>2, <1>3, <2>1, EmitFits
    <2>3. SameQuestion(app, app') /\ calls' = calls
      BY <1>1, <1>5 DEF EndEarly, SameQuestion, IsApp, Show
    <2>4. AdvanceInv'
      BY <1>2, <2>2, <2>3, AdvanceKept
    <2>5. QED
      BY <1>2, <2>2, <2>3, <2>4 DEF WaitInv
  <1>6. CASE RestartApp
    <2>1. /\ msgs' = msgs /\ calls' = calls
          /\ app'.session = NoSession /\ app'.source = NoSession
      BY <1>1, <1>6 DEF RestartApp, Restarted, Show, IsApp
    <2>2. Reached(app', srv')
      BY <2>1 DEF Reached
    <2>3. AllFit(msgs', app', srv')
      BY <1>2, <2>1, NoneFits
    <2>4. QED
      BY <1>2, <2>1, <2>2, <2>3 DEF WaitInv, AdvanceInv
  <1>7. CASE ~Submit /\ ~EndEarly /\ ~RestartApp
    <2>1. msgs' = msgs
      BY <1>7 DEF UserStep, Start, Record, Extend, RefreshOverallFeedback, LoadHistory,
           BackToSetup, ViewHistoryDetail, RefreshHistoryDetail, SignIn, LoginOrLogout
    <2>2. SameQuestion(app, app')
      BY <1>1, <1>7 DEF UserStep, Start, Record, Extend, RefreshOverallFeedback,
           LoadHistory, BackToSetup, ViewHistoryDetail, RefreshHistoryDetail, SignIn,
           LoginOrLogout, SameQuestion, IsApp, Show, Listen
    <2>3. \/ calls' = calls
          \/ \E kind, s : Calls(kind, s) /\ (kind \in {"extend", "refresh"} => s = app.session)
      <3>1. CASE Extend \/ RefreshOverallFeedback
        BY <3>1 DEF Extend, RefreshOverallFeedback
      <3>2. CASE Start \/ LoadHistory \/ RefreshHistoryDetail
                 \/ \E s \in Session : ViewHistoryDetail(s)
        <4>1. \E kind \in {"start", "history", "redetail", "detail"} : \E s : Calls(kind, s)
          BY <3>2 DEF Start, LoadHistory, RefreshHistoryDetail, ViewHistoryDetail
        <4>2. QED
          BY <4>1
      <3>3. CASE LoginOrLogout
        <4>1. \E kind \in {"login", "logout"} : \E s : Calls(kind, s)
          BY <3>3 DEF LoginOrLogout
        <4>2. QED
          BY <4>1
      <3>4. CASE Record \/ BackToSetup \/ SignIn
        BY <3>4 DEF Record, BackToSetup, SignIn
      <3>5. QED
        BY <1>7, <3>1, <3>2, <3>3, <3>4 DEF UserStep
    <2>4. /\ \A c, d \in calls' : c = d
          /\ \A c \in calls' : c.kind \in {"extend", "refresh"} => c.s = app.session
      BY <1>2, <2>3 DEF Calls
    <2>5. AdvanceInv'
      BY <1>3, <2>1, <2>2, <2>4, AdvanceKept
    <2>6. QED
      BY <1>2, <2>1, <2>4, <2>5 DEF WaitInv
  <1>8. QED
    BY <1>4, <1>5, <1>6, <1>7

(* A reply to a call finds nothing else under way.                         *)
LEMMA ReplyKeepsAdvance ==
  ASSUME ClientInv, ServerOK, ServerOK', Grows, WaitInv, AdvanceInv, Reply
  PROVE  WaitInv' /\ AdvanceInv'
  <1>1. PICK c \in calls :
          \/ Started(c) \/ Extended(c) \/ Refreshed(c) \/ DetailShown(c) \/ Failed(c)
          \/ HistoryLoaded(c) \/ HistoryFails(c) \/ LoggedIn(c) \/ LoggedOut(c)
    BY DEF Reply
  <1>2. /\ AppOK(app) /\ Mail(msgs) /\ IsApp(app) /\ c.s \in Id
        /\ calls = {c} /\ NoneAsked(msgs) /\ OneAsked(msgs)
    BY DEF ClientInv, Mail, AppOK, WaitInv
  <1>3. AllFit(msgs, app, srv') /\ Reached(app, srv) /\ Reached(app, srv')
    BY <1>2, MailFits, RowsGrow DEF AdvanceInv
  <1>4. /\ \A d, e \in calls' : d = e
        /\ \A d \in calls' : d.kind \notin {"extend", "refresh"}
    <2>1. calls' \subseteq {[kind |-> "history", s |-> NoSession, who |-> account]}
      BY <1>1, <1>2 DEF Started, Extended, Refreshed, DetailShown, Failed, HistoryLoaded,
                        HistoryFails, LoggedIn, LoggedOut, Taken
    <2>2. QED
      BY <2>1
  <1>5. CASE Started(c)
    <2>1. PICK s \in Session :
            /\ srv' = [srv EXCEPT ![s] = [NoRow EXCEPT !.owner = c.who, !.size = Count]]
            /\ Ask([app EXCEPT !.session = s, !.source = s, !.idx = 0, !.total = Count,
                      !.panel = "interview"],
                   Emit(msgs, "join", s, 0, s))
      BY <1>5 DEF Started
    <2> DEFINE a == [app EXCEPT !.session = s, !.source = s, !.idx = 0, !.total = Count,
                       !.panel = "interview"]
               ms == Emit(msgs, "join", s, 0, s)
    <2>2. s \in Id /\ AppOK(a) /\ a.session = s /\ a.source = s /\ a.idx = 0
      BY <1>2 DEF AppOK, IsApp, Id
    <2>3. Mail(ms) /\ NoneAsked(ms)
      BY <1>2, <2>2, Emitted, EmitFits
    <2>4. Ask(a, ms)
      BY <2>1
    <2>5. calls' = {}
      BY <1>2, <1>5 DEF Started, Taken
    <2> HIDE DEF a, ms
    <2>6. SameQuestion(a, app') /\ OneAsked(msgs') /\ AllFit(msgs', app', srv')
      BY <2>2, <2>3, <2>4, AskFits
    <2>7. srv'[s].size > 0
      <3>1. srv'[s] = [NoRow EXCEPT !.owner = c.who, !.size = Count]
        BY <2>1 DEF ServerOK
      <3>2. srv'[s].size = Count
        BY <3>1 DEF NoRow
      <3>3. QED
        BY <3>2, ClientAssumption
    <2>8. Reached(a, srv')
      <3>1. 1..a.idx = {}
        BY <2>2
      <3>2. QED
        BY <2>2, <2>7, <3>1 DEF Reached
    <2>9. Reached(app', srv')
      BY <2>6, <2>8, SameFits
    <2>10. QED
      BY <1>4, <2>5, <2>6, <2>9 DEF WaitInv, AdvanceInv
  <1>6. CASE Extended(c)
    <2> DEFINE a == [app EXCEPT !.session = c.s, !.source = c.s, !.panel = "interview",
                       !.total = srv[c.s].size + Extra]
    <2>1. AppOK(a)
      BY <1>2 DEF AppOK, IsApp
    <2>2. SameQuestion(app, a)
      <3>1. c.s = app.session /\ app.source = app.session
        BY <1>3, <1>6 DEF Extended, AdvanceInv, Reached
      <3>2. QED
        BY <1>2, <3>1 DEF IsApp, SameQuestion
    <2>3. Ask(a, msgs)
      BY <1>6 DEF Extended
    <2>4. calls' = {}
      BY <1>2, <1>6 DEF Extended, Taken
    <2> HIDE DEF a
    <2>5. SameQuestion(a, app') /\ OneAsked(msgs') /\ AllFit(msgs', app', srv')
      BY <1>2, <2>1, <2>3, AskFits
    <2>6. Reached(app', srv')
      BY <1>3, <2>2, <2>5, SameFits
    <2>7. QED
      BY <1>4, <2>4, <2>5, <2>6 DEF WaitInv, AdvanceInv
  <1>7. CASE LoggedOut(c)
    <2>1. /\ msgs' = msgs \/ msgs' = <<>>
          /\ app'.session = NoSession /\ app'.source = NoSession
      BY <1>2, <1>7 DEF LoggedOut, Restarted, Show, IsApp
    <2>2. NoneAsked(msgs')
      <3>1. NoneAsked(<<>>)
        BY DEF NoneAsked
      <3>2. QED
        BY <1>2, <2>1, <3>1
    <2>3. OneAsked(msgs') /\ AllFit(msgs', app', srv')
      BY <2>2, NoneFits
    <2>4. QED
      BY <1>4, <2>1, <2>2, <2>3 DEF WaitInv, AdvanceInv, Reached
  <1>8. CASE Refreshed(c)
    <2>1. c.s = app.session /\ msgs' = msgs
      BY <1>8 DEF Refreshed, AdvanceInv
    <2>2. SameQuestion(app, app')
      BY <1>2, <1>8, <2>1 DEF Refreshed, Complete, Show, SameQuestion, IsApp
    <2>3. AdvanceInv'
      BY <1>3, <1>4, <2>1, <2>2, AdvanceKept
    <2>4. QED
      BY <1>2, <1>4, <2>1, <2>3 DEF WaitInv
  <1>9. CASE DetailShown(c) \/ Failed(c) \/ HistoryLoaded(c) \/ HistoryFails(c) \/ LoggedIn(c)
    <2>1. msgs' = msgs
      BY <1>9 DEF DetailShown, Failed, HistoryLoaded, HistoryFails, LoggedIn
    <2>2. SameQuestion(app, app')
      BY <1>2, <1>9 DEF DetailShown, Failed, HistoryLoaded, HistoryFails, LoggedIn, Show,
                        SameQuestion, IsApp
    <2>3. AdvanceInv'
      BY <1>3, <1>4, <2>1, <2>2, AdvanceKept
    <2>4. QED
      BY <1>2, <1>4, <2>1, <2>3 DEF WaitInv
  <1>10. QED
    BY <1>1, <1>5, <1>6, <1>7, <1>8, <1>9

LEMMA ConnectedKeepsAdvance ==
  ASSUME ClientInv, ServerOK, ServerOK', Grows, WaitInv, AdvanceInv, Connected
  PROVE  WaitInv' /\ AdvanceInv'
  <1> DEFINE sent == [i \in DOMAIN msgs |-> [msgs[i] EXCEPT !.at = "sent"]]
             join == [ev |-> "join", s |-> pending, q |-> 0, of |-> pending,
                      ok |-> TRUE, at |-> "sent"]
  <1>1. msgs \in Seq(Message) /\ pending \in Id /\ Mail(sent)
    BY Flushed DEF ClientInv, Mail
  <1>2. ASSUME NEW i \in DOMAIN msgs
        PROVE  /\ sent[i].ev = msgs[i].ev /\ sent[i].s = msgs[i].s
               /\ sent[i].q = msgs[i].q /\ sent[i].at = "sent"
    <2>1. msgs[i] \in Message
      BY <1>1
    <2>2. QED
      BY <2>1 DEF Message
  <1>3. DOMAIN sent = DOMAIN msgs
    OBVIOUS
  <1>4. join \in Message /\ join.ev = "join"
    BY <1>1 DEF Message
  <1>5. msgs' = sent \/ msgs' = Append(sent, join)
    BY DEF Connected
  <1> HIDE DEF sent, join
  <1>6. /\ DOMAIN Append(sent, join) = DOMAIN sent \cup {Len(sent) + 1}
        /\ \A k \in DOMAIN sent : Append(sent, join)[k] = sent[k]
        /\ Append(sent, join)[Len(sent) + 1] = join
    <2>1. /\ DOMAIN Append(sent, join) = 1..(Len(sent) + 1) /\ Len(sent) \in Nat
          /\ DOMAIN sent = 1..Len(sent)
          /\ \A k \in DOMAIN sent : Append(sent, join)[k] = sent[k]
          /\ Append(sent, join)[Len(sent) + 1] = join
      BY <1>1, <1>4 DEF Mail
    <2>2. 1..(Len(sent) + 1) = 1..Len(sent) \cup {Len(sent) + 1}
      BY <2>1
    <2>3. QED
      BY <2>1, <2>2
  <1>7. /\ NoneAsked(msgs) => NoneAsked(sent)
        /\ OneAsked(msgs) => OneAsked(sent)
        /\ AllFit(msgs, app, srv') => AllFit(sent, app, srv')
    BY <1>2, <1>3 DEF NoneAsked, OneAsked, AllFit, Fits
  <1>8. /\ NoneAsked(sent) => NoneAsked(Append(sent, join))
        /\ OneAsked(sent) => OneAsked(Append(sent, join))
        /\ AllFit(sent, app, srv') => AllFit(Append(sent, join), app, srv')
    <2>1. NoneAsked(sent) => NoneAsked(Append(sent, join))
      BY <1>4, <1>6 DEF NoneAsked
    <2>2. OneAsked(sent) => OneAsked(Append(sent, join))
      BY <1>4, <1>6 DEF OneAsked
    <2>3. AllFit(sent, app, srv') => AllFit(Append(sent, join), app, srv')
      BY <1>4, <1>6 DEF AllFit, Fits
    <2>4. QED
      BY <2>1, <2>2, <2>3
  <1>9. app' = app /\ calls' = calls
    BY DEF Connected, rest
  <1>10. AllFit(msgs', app, srv')
    BY <1>5, <1>7, <1>8, MailFits
  <1>11. AdvanceInv'
    BY <1>9, <1>10, AdvanceKept DEF SameQuestion, AdvanceInv
  <1>12. WaitInv'
    BY <1>5, <1>7, <1>8, <1>9 DEF WaitInv
  <1>13. QED
    BY <1>11, <1>12

(* The reply to a message is made; one that says yes follows the record.   *)
LEMMA RepliedKeepsAdvance ==
  ASSUME ClientInv, ServerOK, ServerOK', Grows, WaitInv, AdvanceInv,
         NEW i \in DOMAIN msgs, msgs[i].ev # "join", NEW ok \in BOOLEAN,
         msgs' = [msgs EXCEPT ![i].at = "done", ![i].ok = ok],
         app' = app, calls' = calls,
         ok /\ msgs[i].ev = "answer" =>
           /\ msgs[i].s \in Session /\ srv'[msgs[i].s].size > 0
           /\ msgs[i].q \in srv'[msgs[i].s].answered
  PROVE  WaitInv' /\ AdvanceInv'
  <1>1. msgs \in Seq(Message) /\ msgs[i] \in Message
    BY DEF ClientInv
  <1>2. /\ DOMAIN msgs' = DOMAIN msgs
        /\ \A k \in DOMAIN msgs : k # i => msgs'[k] = msgs[k]
        /\ msgs'[i].ev = msgs[i].ev /\ msgs'[i].s = msgs[i].s /\ msgs'[i].q = msgs[i].q
        /\ msgs'[i].ok = ok
    BY <1>1 DEF Message
  <1>3. AllFit(msgs, app, srv')
    BY MailFits
  <1>4. Fits(msgs'[i], app, srv')
    BY <1>2, <1>3 DEF AllFit, Fits
  <1>5. AllFit(msgs', app, srv')
    BY <1>2, <1>3, <1>4 DEF AllFit
  <1>6. AdvanceInv'
    BY <1>5, AdvanceKept DEF SameQuestion, AdvanceInv
  <1>7. NoneAsked(msgs) => NoneAsked(msgs')
    BY <1>2 DEF NoneAsked
  <1>8. OneAsked(msgs) => OneAsked(msgs')
    BY <1>2 DEF OneAsked
  <1>9. QED
    BY <1>6, <1>7, <1>8 DEF WaitInv

LEMMA HandledKeepsAdvance ==
  ASSUME ClientInv, ServerOK, ServerOK', Grows, WaitInv, AdvanceInv,
         NEW i \in DOMAIN msgs, Handled(i)
  PROVE  WaitInv' /\ AdvanceInv'
  <1>1. Mail(msgs) /\ msgs[i] \in Message /\ app' = app /\ calls' = calls
    BY DEF ClientInv, Mail, Handled
  <1>2. CASE msgs[i].ev = "join"
    <2>1. msgs' = RemoveAt(msgs, i) /\ AllFit(msgs, app, srv')
      BY <1>2, MailFits DEF Handled
    <2>2. /\ AllFit(msgs', app, srv')
          /\ NoneAsked(msgs) => NoneAsked(msgs')
          /\ OneAsked(msgs) => OneAsked(msgs')
      BY <1>1, <2>1, RemoveFits
    <2>3. AdvanceInv'
      BY <1>1, <2>2, AdvanceKept DEF SameQuestion, AdvanceInv
    <2>4. QED
      BY <1>1, <2>2, <2>3 DEF WaitInv
  <1>3. CASE msgs[i].ev # "join"
    <2> DEFINE ok == Allowed(msgs[i])
    <2>1. ok \in BOOLEAN /\ msgs' = [msgs EXCEPT ![i].at = "done", ![i].ok = ok]
      BY <1>3 DEF Handled, Allowed, Accessible, Exists
    <2>2. ASSUME ok, msgs[i].ev = "answer"
          PROVE  /\ msgs[i].s \in Session /\ srv'[msgs[i].s].size > 0
                 /\ msgs[i].q \in srv'[msgs[i].s].answered
      <3>1. msgs[i].s \in Id /\ Exists(msgs[i].s)
        BY <1>1, <2>2 DEF Allowed, Accessible, Message
      <3>2. \A s \in Id : Exists(s) => s \in Session /\ srv'[s].size > 0
        <4> TAKE s \in Id
        <4> HAVE Exists(s)
        <4>1. s \in Session /\ Exists(s)'
          BY ExistsStays
        <4>2. QED
          BY <4>1 DEF Exists
      <3>3. srv' = Effect(msgs[i])
        BY DEF Handled
      <3>4. msgs[i].q \in Effect(msgs[i])[msgs[i].s].answered
        BY <1>1, <2>2, Effected
      <3>5. QED
        BY <3>1, <3>2, <3>3, <3>4
    <2> HIDE DEF ok
    <2>3. QED
      BY <1>1, <1>3, <2>1, <2>2, RepliedKeepsAdvance
  <1>4. QED
    BY <1>2, <1>3

(* The page moves on by one question, whose answer is recorded.            *)
LEMMA DeliveredKeepsAdvance ==
  ASSUME ClientInv, ServerOK, ServerOK', Grows, RoomInv, WaitInv, AdvanceInv,
         NEW i \in DOMAIN msgs, Delivered(i)
  PROVE  WaitInv' /\ AdvanceInv'
  <1> DEFINE ms == RemoveAt(msgs, i)
  <1>1. /\ AppOK(app) /\ IsApp(app) /\ Mail(msgs) /\ msgs[i] \in Message
        /\ app.idx \in Nat /\ app.session \in Id
    BY DEF ClientInv, Mail, AppOK
  <1>2. msgs[i].at = "done" /\ msgs[i].ev # "join"
    BY DEF Delivered, RoomInv, JoinsOpen
  <1>3. Mail(ms) /\ NoneAsked(ms)
    BY <1>1, <1>2, Removed, RemoveFits DEF WaitInv
  <1>4. calls = {} /\ calls' = calls
    BY <1>2 DEF WaitInv, NoneAsked, Delivered, rest
  <1>5. Reached(app, srv) /\ Reached(app, srv')
    BY <1>1, RowsGrow DEF AdvanceInv
  <1> HIDE DEF ms
  <1>6. CASE ~(msgs[i].ok /\ msgs[i].ev # "end")
    <2>1. msgs' = ms /\ SameQuestion(app, app')
      BY <1>1, <1>6 DEF Delivered, Complete, Show, SameQuestion, IsApp, ms
    <2>2. OneAsked(msgs') /\ AllFit(msgs', app, srv')
      BY <1>3, <2>1, NoneFits
    <2>3. AdvanceInv'
      BY <1>4, <2>1, <2>2, AdvanceKept
    <2>4. QED
      BY <1>4, <2>2, <2>3 DEF WaitInv
  <1>7. CASE msgs[i].ok /\ msgs[i].ev # "end"
    <2> DEFINE a == [app EXCEPT !.idx = @ + 1]
    <2>1. AppOK(a) /\ a.session = app.session /\ a.source = app.source /\ a.idx = app.idx + 1
      BY <1>1 DEF AppOK, IsApp
    <2>2. Ask(a, ms)
      BY <1>7 DEF Delivered, ms
    <2> HIDE DEF a
    <2>3. SameQuestion(a, app') /\ OneAsked(msgs') /\ AllFit(msgs', app', srv')
      BY <1>3, <2>1, <2>2, AskFits
    <2>4. /\ app.idx + 1 \in srv'[app.session].answered
      <3>1. AllFit(msgs, app, srv')
        BY MailFits
      <3>2. msgs[i].ev = "answer"
        BY <1>1, <1>2, <1>7 DEF Message
      <3>3. QED
        BY <1>2, <1>7, <3>1, <3>2 DEF AllFit, Fits
    <2>5. Reached(a, srv')
      <3>1. 1..(app.idx + 1) = 1..app.idx \cup {app.idx + 1}
        BY <1>1
      <3>2. QED
        BY <1>5, <2>1, <2>4, <3>1 DEF Reached
    <2>6. Reached(app', srv')
      BY <2>3, <2>5, SameFits
    <2>7. QED
      BY <1>4, <2>3, <2>6 DEF WaitInv, AdvanceInv
  <1>8. QED
    BY <1>6, <1>7

LEMMA SocketKeepsAdvance ==
  ASSUME ClientInv, ServerOK, ServerOK', Grows, RoomInv, WaitInv, AdvanceInv, Socket
  PROVE  WaitInv' /\ AdvanceInv'
  <1>1. CASE Reopen \/ Expired
    <2>1. app' = app /\ calls' = calls /\ msgs' = msgs
      BY <1>1 DEF Reopen, Expired, rest
    <2>2. AdvanceInv'
      BY <2>1, MailFits, AdvanceKept DEF SameQuestion, AdvanceInv
    <2>3. QED
      BY <2>1, <2>2 DEF WaitInv
  <1>2. CASE Dropped
    <2>1. app' = app /\ calls' = calls /\ msgs' = <<>>
      BY <1>2 DEF Dropped
    <2>2. NoneAsked(msgs')
      BY <2>1 DEF NoneAsked
    <2>3. OneAsked(msgs') /\ AllFit(msgs', app, srv')
      BY <2>2, NoneFits
    <2>4. AdvanceInv'
      BY <2>1, <2>3, AdvanceKept DEF SameQuestion, AdvanceInv
    <2>5. QED
      BY <2>1, <2>2, <2>3, <2>4 DEF WaitInv
  <1>3. ASSUME NEW i \in DOMAIN msgs, HandlerFails(i)
        PROVE  WaitInv' /\ AdvanceInv'
    <2>1. /\ msgs[i].ev # "join" /\ app' = app /\ calls' = calls
          /\ msgs' = [msgs EXCEPT ![i].at = "done", ![i].ok = FALSE]
      BY <1>3 DEF HandlerFails
    <2>2. QED
      BY <2>1, RepliedKeepsAdvance
  <1>4. ASSUME NEW i \in DOMAIN msgs, JoinFails(i)
        PROVE  WaitInv' /\ AdvanceInv'
    <2>1. /\ msgs' = RemoveAt(msgs, i) /\ app' = app /\ calls' = calls
          /\ Mail(msgs) /\ AllFit(msgs, app, srv')
      BY <1>4, MailFits DEF JoinFails, ClientInv, Mail
    <2>2. /\ AllFit(msgs', app, srv')
          /\ NoneAsked(msgs) => NoneAsked(msgs')
          /\ OneAsked(msgs) => OneAsked(msgs')
      BY <2>1, RemoveFits
    <2>3. AdvanceInv'
      BY <2>1, <2>2, AdvanceKept DEF SameQuestion, AdvanceInv
    <2>4. QED
      BY <2>1, <2>2, <2>3 DEF WaitInv
  <1>5. QED
    BY <1>1, <1>2, <1>3, <1>4, ConnectedKeepsAdvance, HandledKeepsAdvance,
       DeliveredKeepsAdvance DEF Socket

LEMMA AdvanceStep ==
  ASSUME Hasty = FALSE, ClientInv, ServerOK, ServerOK', Grows, RoomInv,
         WaitInv, AdvanceInv, [Next]_vars
  PROVE  WaitInv' /\ AdvanceInv'
  <1>1. CASE Boot \/ VoiceEnds \/ MicEnds \/ UNCHANGED vars
    <2>1. calls' = calls /\ msgs' = msgs
      BY <1>1 DEF Boot, VoiceEnds, MicEnds, vars, rest
    <2>2. IsApp(app)
      BY DEF ClientInv, AppOK
    <2>3. SameQuestion(app, app')
      BY <1>1, <2>2 DEF Boot, VoiceEnds, MicEnds, vars, Listen, Show, SameQuestion, IsApp
    <2>4. AdvanceInv'
      BY <2>1, <2>3, MailFits, AdvanceKept DEF AdvanceInv
    <2>5. QED
      BY <2>1, <2>4 DEF WaitInv
  <1>2. QED
    BY <1>1, UserKeepsAdvance, ReplyKeepsAdvance, SocketKeepsAdvance DEF Next

(* Of a user who waits for what was asked, one call or message is under    *)
(* way, an answer under way is to the question that is shown, and a yes to *)
(* it was recorded first.                                                  *)
THEOREM WaitingInvariant ==
  ASSUME Hasty = FALSE
  PROVE  Spec => [](WaitInv /\ AdvanceInv)
  <1>1. Init => WaitInv /\ AdvanceInv
    <2>1. SUFFICES ASSUME Init PROVE WaitInv /\ AdvanceInv
      OBVIOUS
    <2>2. msgs = <<>> /\ calls = {}
      BY <2>1 DEF Init
    <2>3. NoneAsked(msgs)
      BY <2>2 DEF NoneAsked
    <2>4. app.session = NoSession /\ app.source = NoSession
      BY <2>1 DEF Init
    <2>5. QED
      BY <2>2, <2>3, <2>4, NoneFits DEF WaitInv, AdvanceInv, Reached
  <1>2. ClientInv /\ ServerOK /\ ServerOK' /\ RoomInv /\ (WaitInv /\ AdvanceInv)
          /\ [Next]_vars => (WaitInv /\ AdvanceInv)'
    BY ServerStep, AdvanceStep
  <1>3. QED
    BY <1>1, <1>2, ClientInvariant, ServerInvariant, RoomInvariant, PTL DEF Spec

(* The page leaves a question behind only when the server has its answer,  *)
(* if the user waits for the reply to what was asked.  With Hasty = TRUE   *)
(* the reply to an answer of one interview may come when the page shows a  *)
(* second one, started meanwhile, and is counted there.                    *)
THEOREM LeavesOnlyRecorded ==
  ASSUME Hasty = FALSE
  PROVE  Spec => []AdvanceOnlyRecorded
  <1>1. AdvanceInv => AdvanceOnlyRecorded
    BY DEF AdvanceInv, Reached, AdvanceOnlyRecorded, Exists
  <1>2. QED
    BY <1>1, WaitingInvariant, PTL

-----------------------------------------------------------------------------
(* Types and bounds                                                        *)

KeptOK == kept \in Seq(Session) /\ IsInjective(kept) /\ Len(kept) <= MaxKept

(* What is shown, and what calls back.                                     *)
Face(a) == a.st \in State /\ a.panel \in Panel /\ {a.startOn, a.box} \subseteq BOOLEAN

Buffered(ms) == \A i \in DOMAIN ms : ms[i].at = "buffered"

(* Without a connection nothing is under way, and no room is joined.       *)
NetOK ==
  /\ net \in {"closed", "connecting", "open", "expired"}
  /\ rooms \subseteq Session /\ refused \subseteq Id
  /\ net # "open" => rooms = {} /\ refused = {} /\ Buffered(msgs)

FormInv ==
  /\ Face(app) /\ {voice, mic} \subseteq BOOLEAN /\ NetOK
  /\ faults \in 0..MaxFaults /\ signIns \in 0..MaxSignIns

(* The sessions of the server have no more questions than MaxQuestions,    *)
(* and answers to questions only.                                          *)
Bounded(rows) ==
  \A s \in Session :
    rows[s].size <= MaxQuestions /\ rows[s].answered \subseteq 1..MaxQuestions

(* The page counts no question that the server does not have, and asks for *)
(* an extension that still fits.                                           *)
LimitInv ==
  /\ Bounded(srv)
  /\ app.total \in 0..MaxQuestions
  /\ app.session = NoSession => app.idx = 0
  /\ \A c \in calls : c.kind = "extend" /\ c.s \in Session =>
       srv[c.s].size + Extra <= MaxQuestions

(* A finite set of numbers can be put in order.                            *)

Increasing(f, S) ==
  /\ f \in [1..Cardinality(S) -> S]
  /\ \A i, j \in DOMAIN f : i < j => f[i] < f[j]

LEMMA HasOrder ==
  \A n \in Nat : \A S \in SUBSET (1..n) : \E f : Increasing(f, S)
  <1> DEFINE T == {n \in Nat : \E S \in SUBSET (1..n) : ~ \E f : Increasing(f, S)}
             R == OpToRel(<, Nat)
  <1>1. SUFFICES ASSUME T # {} PROVE FALSE
    OBVIOUS
  <1>2. PICK n \in T : \A m \in T : <<m, n>> \notin R
    <2>1. IsWellFoundedOn(R, Nat) /\ T \subseteq Nat
      BY NatLessThanWellFounded
    <2> HIDE DEF T, R
    <2>2. QED
      BY <1>1, <2>1, WFMin
  <1>3. n \in Nat /\ \A m \in Nat : m < n => m \notin T
    BY <1>2 DEF OpToRel
  <1>4. PICK S \in SUBSET (1..n) : ~ \E f : Increasing(f, S)
    BY <1>2
  <1>5. CASE n \notin S
    <2>1. n # 0
      <3>1. ASSUME S = {}
            PROVE  FALSE
        <4>1. Cardinality(S) = 0
          BY <3>1, FS_EmptySet
        <4>2. Increasing([i \in 1..0 |-> i], S)
          BY <4>1 DEF Increasing
        <4>3. QED
          BY <1>4, <4>2
      <3>2. QED
        BY <1>3, <1>4, <3>1
    <2>2. S \in SUBSET (1..(n - 1)) /\ n - 1 \in Nat /\ n - 1 < n
      BY <1>3, <1>5, <2>1
    <2>3. n - 1 \in T
      BY <1>4, <2>2
    <2>4. QED
      BY <1>3, <2>2, <2>3
  <1>6. CASE n \in S
    <2>1. n - 1 \in Nat /\ n - 1 < n /\ S \ {n} \in SUBSET (1..(n - 1))
      BY <1>3, <1>6
    <2>2. PICK f : Increasing(f, S \ {n})
      BY <1>3, <2>1
    <2>3. IsFiniteSet(S)
      <3>1. IsFiniteSet(1..n)
        BY <1>3, FS_Interval
      <3>2. QED
        BY <3>1, FS_Subset
    <2>4. /\ Cardinality(S) \in Nat /\ Cardinality(S \ {n}) = Cardinality(S) - 1
          /\ Cardinality(S \ {n}) \in Nat
      BY <1>6, <2>3, FS_RemoveElement, FS_CardinalityType
    <2> DEFINE k == Cardinality(S)
               g == [i \in 1..k |-> IF i = k THEN n ELSE f[i]]
    <2>5. f \in [1..(k - 1) -> S \ {n}]
      BY <2>2, <2>4 DEF Increasing
    <2>6. \A i \in 1..(k - 1) : f[i] \in S /\ f[i] < n
      <3> TAKE i \in 1..(k - 1)
      <3>1. f[i] \in S \ {n}
        BY <2>5
      <3>2. f[i] \in 1..n
        BY <3>1
      <3>3. QED
        BY <1>3, <3>1, <3>2
    <2>7. \A i, j \in 1..(k - 1) : i < j => f[i] < f[j]
      BY <2>2, <2>5 DEF Increasing
    <2>8. k \in Nat
      BY <2>4
    <2> HIDE DEF k
    <2>9. g \in [1..k -> S]
      <3>1. \A i \in 1..k : i # k => i \in 1..(k - 1)
        BY <2>8
      <3>2. \A i \in 1..k : (IF i = k THEN n ELSE f[i]) \in S
        BY <1>6, <2>6, <3>1
      <3>3. QED
        BY <3>2
    <2>10. \A i, j \in 1..k : i < j => g[i] < g[j]
      BY <2>6, <2>7, <2>8
    <2> HIDE DEF g
    <2>11. Increasing(g, S)
      BY <2>9, <2>10 DEF Increasing, k
    <2>12. QED
      BY <1>4, <2>11
  <1>7. QED
    BY <1>5, <1>6


(* What is left of the remembered ids keeps its order: no id comes twice,  *)
(* none is new, and none that is in S is missing.                          *)
LEMMA AmongIs ==
  ASSUME NEW ids \in Seq(Session), IsInjective(ids), NEW S
  PROVE  /\ Among(ids, S) \in Seq(Session) /\ IsInjective(Among(ids, S))
         /\ Len(Among(ids, S)) <= Len(ids)
         /\ \A k \in DOMAIN Among(ids, S) : Among(ids, S)[k] \in S
         /\ ToSet(Among(ids, S)) = ToSet(ids) \cap S
  <1> DEFINE at == {i \in DOMAIN ids : ids[i] \in S}
             n == Cardinality(at)
             order == CHOOSE f \in [1..n -> at] : \A i, j \in DOMAIN f : i < j => f[i] < f[j]
  <1>1. Len(ids) \in Nat /\ DOMAIN ids = 1..Len(ids) /\ at \in SUBSET (1..Len(ids))
    OBVIOUS
  <1>2. n \in Nat /\ n <= Len(ids) /\ IsFiniteSet(at)
    <2>1. /\ IsFiniteSet(1..Len(ids))
          /\ Cardinality(1..Len(ids)) = IF 1 > Len(ids) THEN 0 ELSE Len(ids) - 1 + 1
      <3>1. 1 \in Int /\ Len(ids) \in Int
        BY <1>1
      <3>2. QED
        BY ONLY <3>1, FS_Interval
    <2>2. IsFiniteSet(at) /\ n <= Cardinality(1..Len(ids))
      BY <1>1, <2>1, FS_Subset
    <2>3. IsFiniteSet(at) /\ n <= Len(ids)
      BY <1>1, <2>1, <2>2
    <2>4. QED
      BY <2>3, FS_CardinalityType
  <1>3. \E f \in [1..n -> at] : \A i, j \in DOMAIN f : i < j => f[i] < f[j]
    <2>1. PICK f : Increasing(f, at)
      BY <1>1, HasOrder
    <2>2. QED
      BY <2>1 DEF Increasing
  <1>4. order \in [1..n -> at] /\ \A i, j \in 1..n : i < j => order[i] < order[j]
    <2>1. order \in [1..n -> at] /\ \A i, j \in DOMAIN order : i < j => order[i] < order[j]
      BY <1>3
    <2>2. QED
      BY <2>1
  <1>5. Among(ids, S) = [i \in 1..n |-> ids[order[i]]]
    BY DEF Among
  <1> HIDE DEF order
  <1>6. \A p \in at : \E i \in 1..n : order[i] = p
    <2>1. \A i, j \in 1..n : order[i] = order[j] => i = j
      <3>1. \A i \in 1..n : order[i] \in Int
        BY <1>1, <1>4
      <3>2. QED
        BY <1>2, <1>4, <3>1
    <2>2. order \in Injection(1..n, at)
      BY <1>4, <2>1 DEF Injection, IsInjective
    <2>3. Cardinality(1..n) = n
      <3>1. 1 \in Int /\ n \in Int
        BY <1>2
      <3>2. Cardinality(1..n) = IF 1 > n THEN 0 ELSE n - 1 + 1
        BY ONLY <3>1, FS_Interval
      <3>3. QED
        BY <1>2, <3>2
    <2>4. order \in Surjection(1..n, at)
      BY <1>2, <2>2, <2>3, FS_Injection
    <2>5. QED
      BY <2>4 DEF Surjection
  <1> HIDE DEF n
  <1>7. \A i \in 1..n : order[i] \in 1..Len(ids) /\ ids[order[i]] \in S \cap Session
    BY <1>1, <1>4
  <1> DEFINE a == [i \in 1..n |-> ids[order[i]]]
  <1>8. a \in Seq(Session) /\ Len(a) = n /\ DOMAIN a = 1..n
    BY <1>2, <1>7
  <1>9. ASSUME NEW i \in 1..n, NEW j \in 1..n, a[i] = a[j]
        PROVE  i = j
    <2>1. order[i] = order[j]
      BY <1>1, <1>7, <1>9 DEF IsInjective
    <2>2. order[i] \in Int /\ order[j] \in Int
      BY <1>7
    <2>3. QED
      BY <1>2, <1>4, <2>1, <2>2
  <1>10. IsInjective(a)
    BY <1>8, <1>9 DEF IsInjective
  <1>11. \A k \in DOMAIN a : a[k] \in S
    BY <1>7, <1>8
  <1>12. ToSet(a) = ToSet(ids) \cap S
    <2>1. ASSUME NEW p \in DOMAIN ids, ids[p] \in S
          PROVE  \E i \in DOMAIN a : a[i] = ids[p]
      <3>1. PICK i \in 1..n : order[i] = p
        BY <1>6, <2>1
      <3>2. QED
        BY <1>8, <3>1
    <2>2. \A i \in DOMAIN a : order[i] \in DOMAIN ids /\ a[i] = ids[order[i]] /\ a[i] \in S
      BY <1>1, <1>7, <1>8
    <2>3. QED
      BY <2>1, <2>2 DEF ToSet
  <1>13. QED
    BY <1>2, <1>5, <1>8, <1>10, <1>11, <1>12

LEMMA AmongKept ==
  ASSUME KeptOK, NEW S, kept' = Among(kept, S)
  PROVE  KeptOK'
  <1>1. /\ kept' \in Seq(Session) /\ IsInjective(kept') /\ Len(kept') <= Len(kept)
        /\ Len(kept) \in Nat /\ Len(kept') \in Nat
    BY AmongIs DEF KeptOK
  <1>2. QED
    BY <1>1, ClientAssumption DEF KeptOK

(* The new session comes first, the oldest one makes room.                 *)
LEMMA Remembered ==
  ASSUME KeptOK, NEW s \in Session, kept' = Remember(s)
  PROVE  KeptOK'
  <1> DEFINE old == Among(kept, Session \ {s})
             ids == <<s>> \o old
             n == IF Len(ids) < MaxKept THEN Len(ids) ELSE MaxKept
  <1>1. /\ old \in Seq(Session) /\ IsInjective(old)
        /\ \A k \in DOMAIN old : old[k] \in Session \ {s}
    BY AmongIs DEF KeptOK
  <1>2. kept' = SubSeq(ids, 1, n)
    BY DEF Remember
  <1> HIDE DEF old
  <1>3. /\ ids \in Seq(Session) /\ Len(ids) = 1 + Len(old) /\ Len(old) \in Nat
        /\ ids[1] = s /\ DOMAIN old = 1..Len(old)
        /\ \A i \in 2..Len(ids) : i - 1 \in DOMAIN old /\ ids[i] = old[i - 1]
    BY <1>1
  <1> HIDE DEF ids
  <1>4. ASSUME NEW i \in 1..Len(ids), NEW j \in 1..Len(ids), ids[i] = ids[j]
        PROVE  i = j
    <2>1. ASSUME NEW k \in 2..Len(ids) PROVE ids[k] # s
      BY <1>1, <1>3
    <2>2. CASE i = 1 \/ j = 1
      BY <1>3, <1>4, <2>1, <2>2
    <2>3. CASE i # 1 /\ j # 1
      <3>1. i \in 2..Len(ids) /\ j \in 2..Len(ids)
        BY <1>3, <2>3
      <3>2. i - 1 = j - 1
        BY <1>1, <1>3, <1>4, <3>1 DEF IsInjective
      <3>3. QED
        BY <3>1, <3>2
    <2>4. QED
      BY <2>2, <2>3
  <1>5. n \in Nat /\ n >= 1 /\ n <= Len(ids) /\ n <= MaxKept
    BY <1>3, ClientAssumption
  <1> HIDE DEF n
  <1>6. /\ kept' \in Seq(Session) /\ Len(kept') = n /\ DOMAIN kept' = 1..n
        /\ \A i \in 1..n : kept'[i] = ids[i] /\ i \in 1..Len(ids)
    BY <1>2, <1>3, <1>5
  <1>7. IsInjective(kept')
    BY <1>4, <1>6 DEF IsInjective
  <1>8. QED
    BY <1>5, <1>6, <1>7 DEF KeptOK

LEMMA KeptStep ==
  ASSUME KeptOK, [Next]_vars
  PROVE  KeptOK'
  <1>1. CASE kept' = kept
    BY <1>1 DEF KeptOK
  <1>2. ASSUME NEW c \in calls, Started(c)
        PROVE  KeptOK'
    BY <1>2, Remembered DEF Started
  <1>3. ASSUME NEW c \in calls, HistoryLoaded(c) \/ HistoryFails(c)
        PROVE  KeptOK'
    <2>1. kept' = kept \/ \E S : kept' = Among(kept, S)
      BY <1>3 DEF HistoryLoaded, HistoryFails
    <2>2. QED
      BY <1>1, <2>1, AmongKept
  <1>4. CASE Boot \/ UserStep \/ Socket \/ VoiceEnds \/ MicEnds \/ UNCHANGED vars
    <2>1. kept' = kept
      BY <1>4 DEF Boot, UserStep, Start, Submit, Record, EndEarly, RestartApp, Extend,
             RefreshOverallFeedback, LoadHistory, BackToSetup, ViewHistoryDetail,
             RefreshHistoryDetail, SignIn, LoginOrLogout, Socket, Connected, Reopen, Dropped,
             Expired, Handled, JoinFails, HandlerFails, Delivered, VoiceEnds, MicEnds, vars, rest
    <2>2. QED
      BY <1>1, <2>1
  <1>5. ASSUME NEW c \in calls,
               Extended(c) \/ Refreshed(c) \/ DetailShown(c) \/ Failed(c) \/ LoggedIn(c)
                 \/ LoggedOut(c)
        PROVE  KeptOK'
    <2>1. kept' = kept
      BY <1>5 DEF Extended, Refreshed, DetailShown, Failed, LoggedIn, LoggedOut
    <2>2. QED
      BY <1>1, <2>1
  <1>6. QED
    BY <1>2, <1>3, <1>4, <1>5 DEF Next, Reply

(* Of the remembered session ids none comes twice, and no more are kept    *)
(* than MAX_REMEMBERED_SESSIONS, whatever the user does meanwhile.         *)
THEOREM RemembersNoneTwice == Spec => []KeptOK
  <1>1. Init => KeptOK
    BY ClientAssumption DEF Init, KeptOK, IsInjective
  <1>2. QED
    BY <1>1, KeptStep, PTL DEF Spec

-----------------------------------------------------------------------------
(* What is shown, the connection and the counters                          *)

LEMMA AskFace ==
  ASSUME NEW a, IsApp(a), Face(a), NEW ms, voice \in BOOLEAN, Ask(a, ms)
  PROVE  Face(app') /\ voice' \in BOOLEAN
  <1>1. CASE a.idx >= a.total
    BY <1>1 DEF Ask, Show, Face, IsApp, State, Panel
  <1>2. CASE ~(a.idx >= a.total)
    BY <1>2 DEF Ask, Face, IsApp, State
  <1>3. QED
    BY <1>1, <1>2

LEMMA UserFace ==
  ASSUME IsApp(app), Face(app), {voice, mic} \subseteq BOOLEAN, UserStep
  PROVE  Face(app') /\ {voice', mic'} \subseteq BOOLEAN
  <1>1. CASE Start \/ Submit \/ Record \/ EndEarly
    BY <1>1 DEF Start, Submit, Record, EndEarly, Listen, Show, Face, IsApp, State, Panel
  <1>2. CASE RestartApp \/ Extend \/ RefreshOverallFeedback \/ LoadHistory
    BY <1>2 DEF RestartApp, Restarted, Extend, RefreshOverallFeedback, LoadHistory, Show,
                Face, IsApp, State, Panel
  <1>3. CASE BackToSetup \/ RefreshHistoryDetail \/ SignIn \/ LoginOrLogout
               \/ \E s \in Session : ViewHistoryDetail(s)
    BY <1>3 DEF BackToSetup, RefreshHistoryDetail, SignIn, LoginOrLogout,
                ViewHistoryDetail, Show, Face, IsApp, State, Panel
  <1>4. QED
    BY <1>1, <1>2, <1>3 DEF UserStep

LEMMA ReplyFace ==
  ASSUME IsApp(app), Face(app), {voice, mic} \subseteq BOOLEAN, NEW c \in calls,
         \/ Started(c) \/ Extended(c) \/ Refreshed(c) \/ DetailShown(c) \/ Failed(c)
         \/ HistoryLoaded(c) \/ HistoryFails(c) \/ LoggedIn(c) \/ LoggedOut(c)
  PROVE  Face(app') /\ {voice', mic'} \subseteq BOOLEAN
  <1>1. CASE Started(c)
    <2>1. PICK s \in Session :
            Ask([app EXCEPT !.session = s, !.source = s, !.idx = 0, !.total = Count,
                   !.panel = "interview"], Emit(msgs, "join", s, 0, s))
      BY <1>1 DEF Started
    <2> DEFINE a == [app EXCEPT !.session = s, !.source = s, !.idx = 0, !.total = Count,
                       !.panel = "interview"]
    <2>2. IsApp(a) /\ Face(a)
      BY DEF IsApp, Face, Panel
    <2>3. mic' = mic /\ voice \in BOOLEAN
      BY <1>1 DEF Started
    <2> HIDE DEF a
    <2>4. Ask(a, Emit(msgs, "join", s, 0, s))
      BY <2>1 DEF a
    <2>5. QED
      BY <2>2, <2>3, <2>4, AskFace
  <1>2. CASE Extended(c)
    <2> DEFINE a == [app EXCEPT !.session = c.s, !.source = c.s, !.panel = "interview",
                       !.total = srv[c.s].size + Extra]
    <2>1. IsApp(a) /\ Face(a)
      BY DEF IsApp, Face, Panel
    <2>2. Ask(a, msgs) /\ mic' = mic /\ voice \in BOOLEAN
      BY <1>2 DEF Extended
    <2> HIDE DEF a
    <2>3. QED
      BY <2>1, <2>2, AskFace
  <1>3. CASE Refreshed(c) \/ DetailShown(c)
    BY <1>3 DEF Refreshed, DetailShown, Complete, Show, Face, IsApp, State, Panel
  <1>4. CASE Failed(c)
    <2>1. voice' = voice /\ mic' = mic
      BY <1>4 DEF Failed
    <2>2. \/ app' = [Show(app, "setup", "setup") EXCEPT !.startOn = TRUE]
          \/ app' = Show(app, "completion", "complete")
          \/ app' = Show(app, "history", "idle")
          \/ app' = app
      BY <1>4 DEF Failed
    <2>3. QED
      BY <2>1, <2>2 DEF Show, Face, IsApp, State, Panel
  <1>5. CASE HistoryLoaded(c) \/ HistoryFails(c)
    BY <1>5 DEF HistoryLoaded, HistoryFails
  <1>6. CASE LoggedIn(c) \/ LoggedOut(c)
    BY <1>6 DEF LoggedIn, LoggedOut, Restarted, Show, Face, IsApp, State, Panel
  <1>7. QED
    BY <1>1, <1>2, <1>3, <1>4, <1>5, <1>6

LEMMA SocketFace ==
  ASSUME IsApp(app), Face(app), {voice, mic} \subseteq BOOLEAN, Socket
  PROVE  Face(app') /\ {voice', mic'} \subseteq BOOLEAN
  <1>1. CASE Connected \/ Reopen \/ Dropped \/ Expired
    BY <1>1 DEF Connected, Reopen, Dropped, Expired
  <1>2. ASSUME NEW i \in DOMAIN msgs, Handled(i) \/ JoinFails(i) \/ HandlerFails(i)
        PROVE  Face(app') /\ {voice', mic'} \subseteq BOOLEAN
    BY <1>2 DEF Handled, JoinFails, HandlerFails
  <1>3. ASSUME NEW i \in DOMAIN msgs, Delivered(i)
        PROVE  Face(app') /\ {voice', mic'} \subseteq BOOLEAN
    <2>1. mic' = mic /\ voice \in BOOLEAN
      BY <1>3 DEF Delivered
    <2>2. CASE ~msgs[i].ok
      BY <1>3, <2>1, <2>2 DEF Delivered
    <2>3. CASE msgs[i].ok /\ msgs[i].ev = "end"
      BY <1>3, <2>1, <2>3 DEF Delivered, Complete, Show, Face, IsApp, State, Panel
    <2>4. CASE msgs[i].ok /\ msgs[i].ev # "end"
      <3> DEFINE a == [app EXCEPT !.idx = @ + 1]
      <3>1. IsApp(a) /\ Face(a)
        BY DEF IsApp, Face
      <3>2. Ask(a, RemoveAt(msgs, i))
        BY <1>3, <2>4 DEF Delivered
      <3> HIDE DEF a
      <3>3. QED
        BY <2>1, <3>1, <3>2, AskFace
    <2>5. QED
      BY <2>2, <2>3, <2>4
  <1>4. QED
    BY <1>1, <1>2, <1>3 DEF Socket

LEMMA FaceStep ==
  ASSUME IsApp(app), Face(app), {voice, mic} \subseteq BOOLEAN, [Next]_vars
  PROVE  Face(app') /\ {voice', mic'} \subseteq BOOLEAN
  <1>1. CASE Boot \/ VoiceEnds \/ MicEnds \/ UNCHANGED vars
    BY <1>1 DEF Boot, VoiceEnds, MicEnds, vars, Listen, Show, Face, IsApp, State, Panel
  <1>2. QED
    BY <1>1, UserFace, ReplyFace, SocketFace DEF Next, Reply

(* What is emitted without a connection waits for one.                     *)
LEMMA EmitWaits ==
  ASSUME NEW ms, Mail(ms), Buffered(ms), net # "open",
         NEW ev \in {"answer", "end", "join"}, NEW s \in Id, NEW q \in Nat, NEW of \in Id
  PROVE  Buffered(Emit(ms, ev, s, q, of))
  <1> DEFINE m == [ev |-> ev, s |-> s, q |-> q, of |-> of, ok |-> TRUE, at |-> "buffered"]
  <1>1. Emit(ms, ev, s, q, of) = Append(ms, m) /\ m \in Message /\ m.at = "buffered"
    BY DEF Emit, Message
  <1>2. ms \in Seq(Message)
    BY DEF Mail
  <1> HIDE DEF m
  <1>3. \A i \in DOMAIN Append(ms, m) : Append(ms, m)[i] = m
          \/ (i \in DOMAIN ms /\ Append(ms, m)[i] = ms[i])
    BY <1>1, <1>2
  <1>4. QED
    BY <1>1, <1>3 DEF Buffered

LEMMA AskWaits ==
  ASSUME NEW a, a.session \in Id, a.source \in Id, NEW ms, Mail(ms), Buffered(ms),
         net # "open", Ask(a, ms)
  PROVE  Buffered(msgs')
  <1>1. Buffered(Emit(ms, "end", a.session, 0, a.source))
    BY EmitWaits
  <1>2. QED
    BY <1>1 DEF Ask

(* A step that leaves the connection alone.                                *)
LEMMA NetKept ==
  ASSUME NetOK, net' = net, rooms' = rooms, refused' = refused,
         net # "open" => Buffered(msgs')
  PROVE  NetOK'
  BY DEF NetOK

LEMMA UserNet ==
  ASSUME ClientInv, NetOK, UserStep
  PROVE  NetOK'
  <1>1. net' = net /\ rooms' = rooms /\ refused' = refused
    BY DEF UserStep, Start, Submit, Record, EndEarly, RestartApp, Extend,
           RefreshOverallFeedback, LoadHistory, BackToSetup, ViewHistoryDetail,
           RefreshHistoryDetail, SignIn, LoginOrLogout, wire
  <1>2. \/ msgs' = msgs
        \/ msgs' = Emit(msgs, "answer", app.session, app.idx + 1, app.source)
        \/ msgs' = Emit(msgs, "end", app.session, 0, app.source)
    BY DEF UserStep, Start, Submit, Record, EndEarly, RestartApp, Extend,
           RefreshOverallFeedback, LoadHistory, BackToSetup, ViewHistoryDetail,
           RefreshHistoryDetail, SignIn, LoginOrLogout, wire
  <1>3. Mail(msgs) /\ app.session \in Id /\ app.source \in Id /\ app.idx + 1 \in Nat
    BY DEF ClientInv, AppOK, Mail
  <1>4. ASSUME net # "open" PROVE Buffered(msgs')
    BY <1>2, <1>3, <1>4, EmitWaits DEF NetOK
  <1>5. QED
    BY <1>1, <1>4, NetKept

LEMMA ReplyNet ==
  ASSUME ClientInv, NetOK, NEW c \in calls,
         \/ Started(c) \/ Extended(c) \/ Refreshed(c) \/ DetailShown(c) \/ Failed(c)
         \/ HistoryLoaded(c) \/ HistoryFails(c) \/ LoggedIn(c) \/ LoggedOut(c)
  PROVE  NetOK'
  <1>1. /\ Mail(msgs) /\ IsApp(app) /\ app.session \in Id /\ app.source \in Id
        /\ c.s \in Id
    BY DEF ClientInv, AppOK, Mail
  <1>2. CASE Started(c)
    <2>1. PICK s \in Session :
            Ask([app EXCEPT !.session = s, !.source = s, !.idx = 0, !.total = Count,
                   !.panel = "interview"], Emit(msgs, "join", s, 0, s))
      BY <1>2 DEF Started
    <2> DEFINE a == [app EXCEPT !.session = s, !.source = s, !.idx = 0, !.total = Count,
                       !.panel = "interview"]
               ms == Emit(msgs, "join", s, 0, s)
    <2>2. s \in Id /\ a.session = s /\ a.source = s /\ Ask(a, ms)
      BY <1>1, <2>1 DEF IsApp, Id
    <2>3. Mail(ms)
      BY <1>1, <2>2, Emitted
    <2>4. net # "open" => Buffered(ms)
      BY <1>1, <2>2, EmitWaits DEF NetOK
    <2> HIDE DEF a, ms
    <2>5. net # "open" => Buffered(msgs')
      BY <2>2, <2>3, <2>4, AskWaits
    <2>6. net' = net /\ rooms' = rooms /\ refused' = refused
      BY <1>2 DEF Started
    <2>7. QED
      BY <2>5, <2>6, NetKept
  <1>3. CASE Extended(c)
    <2> DEFINE a == [app EXCEPT !.session = c.s, !.source = c.s, !.panel = "interview",
                       !.total = srv[c.s].size + Extra]
    <2>1. a.session \in Id /\ a.source \in Id /\ Ask(a, msgs)
      BY <1>1, <1>3 DEF IsApp, Extended
    <2> HIDE DEF a
    <2>2. net # "open" => Buffered(msgs')
      BY <1>1, <2>1, AskWaits DEF NetOK
    <2>3. net' = net /\ rooms' = rooms /\ refused' = refused
      BY <1>3 DEF Extended
    <2>4. QED
      BY <2>2, <2>3, NetKept
  <1>4. CASE Refreshed(c) \/ DetailShown(c) \/ Failed(c) \/ HistoryLoaded(c) \/ HistoryFails(c)
    <2>1. net' = net /\ rooms' = rooms /\ refused' = refused /\ msgs' = msgs
      BY <1>4 DEF Refreshed, DetailShown, Failed, HistoryLoaded, HistoryFails, wire
    <2>2. QED
      BY <2>1 DEF NetOK
  <1>5. CASE LoggedIn(c)
    <2>1. net' = Connect /\ rooms' = rooms /\ refused' = refused /\ msgs' = msgs
      BY <1>5 DEF LoggedIn
    <2>2. QED
      BY <2>1 DEF NetOK, Connect
  <1>6. CASE LoggedOut(c)
    <2>1. /\ net' = "connecting" /\ rooms' = {} /\ refused' = {}
          /\ msgs' = IF net = "open" THEN <<>> ELSE msgs
      BY <1>6 DEF LoggedOut
    <2>2. Buffered(<<>>)
      BY DEF Buffered
    <2>3. Buffered(msgs')
      BY <2>1, <2>2 DEF NetOK
    <2>4. QED
      BY <2>1, <2>3 DEF NetOK
  <1>7. QED
    BY <1>2, <1>3, <1>4, <1>5, <1>6

LEMMA SocketNet ==
  ASSUME ClientInv, NetOK, Socket
  PROVE  NetOK'
  <1>1. CASE Connected \/ Reopen \/ Expired
    <2>1. CASE Connected
      BY <2>1 DEF Connected, NetOK
    <2>2. CASE Reopen \/ Expired
      BY <2>2 DEF Reopen, Expired, NetOK, Connect
    <2>3. QED
      BY <1>1, <2>1, <2>2
  <1>2. CASE Dropped
    <2>1. net' = "connecting" /\ rooms' = {} /\ refused' = {} /\ msgs' = <<>>
      BY <1>2 DEF Dropped
    <2>2. Buffered(msgs')
      BY <2>1 DEF Buffered
    <2>3. QED
      BY <2>1, <2>2 DEF NetOK
  <1>3. ASSUME NEW i \in DOMAIN msgs,
               Handled(i) \/ JoinFails(i) \/ HandlerFails(i) \/ Delivered(i)
        PROVE  NetOK'
    <2>1. net = "open" /\ net' = net
      <3>1. msgs[i].at # "buffered" /\ net' = net
        BY <1>3 DEF Handled, JoinFails, HandlerFails, Delivered, wire
      <3>2. QED
        BY <3>1 DEF NetOK, Buffered
    <2>2. refused' \subseteq Id
      <3>1. refused' \subseteq refused \cup {msgs[i].s}
        BY <1>3 DEF Handled, JoinFails, HandlerFails, Delivered, wire
      <3>2. msgs[i] \in Message
        BY DEF ClientInv
      <3>3. QED
        BY <3>1, <3>2 DEF NetOK, Message
    <2>3. rooms' \subseteq Session
      <3>1. CASE rooms' = rooms
        BY <3>1 DEF NetOK
      <3>2. CASE rooms' # rooms
        <4>1. Allowed(msgs[i]) /\ rooms' = rooms \cup {msgs[i].s}
          BY <1>3, <3>2 DEF Handled, JoinFails, HandlerFails, Delivered, wire
        <4>2. msgs[i] \in Message /\ msgs[i].s # NoSession
          BY <4>1 DEF ClientInv, Allowed, Accessible, Exists
        <4>3. msgs[i].s \in Session
          BY <4>2 DEF Message, Id
        <4>4. QED
          BY <4>1, <4>3 DEF NetOK
      <3>3. QED
        BY <3>1, <3>2
    <2>4. QED
      BY <2>1, <2>2, <2>3 DEF NetOK
  <1>4. QED
    BY <1>1, <1>2, <1>3 DEF Socket

LEMMA NetStep ==
  ASSUME ClientInv, NetOK, [Next]_vars
  PROVE  NetOK'
  <1>1. CASE Boot \/ VoiceEnds \/ MicEnds \/ UNCHANGED vars
    <2>1. msgs' = msgs /\ rooms' = rooms /\ refused' = refused /\ (net' = net \/ net' = Connect)
      BY <1>1 DEF Boot, VoiceEnds, MicEnds, vars, wire
    <2>2. QED
      BY <2>1 DEF NetOK, Connect
  <1>2. QED
    BY <1>1, UserNet, ReplyNet, SocketNet DEF Next, Reply

(* Faults and logins are counted up to their bounds.                       *)
LEMMA CountersStep ==
  ASSUME faults \in 0..MaxFaults, signIns \in 0..MaxSignIns, [Next]_vars
  PROVE  faults' \in 0..MaxFaults /\ signIns' \in 0..MaxSignIns
  <1>1. faults' = faults \/ (faults < MaxFaults /\ faults' = faults + 1)
    BY DEF Next, Boot, UserStep, Start, Submit, Record, EndEarly, RestartApp, Extend,
           RefreshOverallFeedback, LoadHistory, BackToSetup, ViewHistoryDetail,
           RefreshHistoryDetail, SignIn, LoginOrLogout, Socket, Connected, Reopen, Dropped,
           Expired, Handled, JoinFails, HandlerFails, Delivered, VoiceEnds, MicEnds, Reply,
           Started,
           Extended, Refreshed, DetailShown, Failed, HistoryLoaded, HistoryFails, LoggedIn,
           LoggedOut, vars, rest
  <1>2. signIns' = signIns \/ (signIns < MaxSignIns /\ signIns' = signIns + 1)
    BY DEF Next, Boot, UserStep, Start, Submit, Record, EndEarly, RestartApp, Extend,
           RefreshOverallFeedback, LoadHistory, BackToSetup, ViewHistoryDetail,
           RefreshHistoryDetail, SignIn, LoginOrLogout, Socket, Connected, Reopen, Dropped,
           Expired, Handled, JoinFails, HandlerFails, Delivered, VoiceEnds, MicEnds, Reply,
           Started,
           Extended, Refreshed, DetailShown, Failed, HistoryLoaded, HistoryFails, LoggedIn,
           LoggedOut, vars, rest
  <1>3. MaxFaults \in Nat /\ MaxSignIns \in Nat
    BY ClientAssumption
  <1>4. QED
    BY <1>1, <1>2, <1>3

LEMMA FormInit == Init => FormInv
  <1>1. SUFFICES ASSUME Init PROVE FormInv
    OBVIOUS
  <1>2. Face(app) /\ {voice, mic} \subseteq BOOLEAN
    BY <1>1 DEF Init, Face, State, Panel
  <1>3. NetOK
    BY <1>1 DEF Init, NetOK, Buffered
  <1>4. faults \in 0..MaxFaults /\ signIns \in 0..MaxSignIns
    BY <1>1, ClientAssumption DEF Init
  <1>5. QED
    BY <1>2, <1>3, <1>4 DEF FormInv

LEMMA FormStep ==
  ASSUME ClientInv, FormInv, [Next]_vars
  PROVE  FormInv'
  <1>1. IsApp(app)
    BY DEF ClientInv, AppOK
  <1>2. Face(app') /\ {voice', mic'} \subseteq BOOLEAN
    BY <1>1, FaceStep DEF FormInv
  <1>3. NetOK' /\ faults' \in 0..MaxFaults /\ signIns' \in 0..MaxSignIns
    BY NetStep, CountersStep DEF FormInv
  <1>4. QED
    BY <1>2, <1>3 DEF FormInv

-----------------------------------------------------------------------------
(* The bounds of the questions                                             *)

(* What is handled adds an answer to a question of the session.            *)
LEMMA EffectBounded ==
  ASSUME ServerOK, Bounded(srv), NEW m \in Message, m.ev = "answer" => m.q >= 1
  PROVE  Bounded(Effect(m)) /\ \A s \in Session : Effect(m)[s].size = srv[s].size
  <1>1. \/ Effect(m) = srv
        \/ Allowed(m) /\ m.ev = "answer" /\ Effect(m) = [srv EXCEPT ![m.s].answered = @ \cup {m.q}]
        \/ Allowed(m) /\ Effect(m) = [srv EXCEPT ![m.s].ended = TRUE]
    BY DEF Effect
  <1>2. CASE Effect(m) = srv
    BY <1>2
  <1>3. CASE /\ Allowed(m) /\ m.ev = "answer"
             /\ Effect(m) = [srv EXCEPT ![m.s].answered = @ \cup {m.q}]
    <2> DEFINE new == [srv[m.s] EXCEPT !.answered = @ \cup {m.q}]
    <2>1. m.s \in Session /\ m.q \in Nat /\ m.q >= 1 /\ m.q <= srv[m.s].size
      BY <1>3 DEF Allowed, Accessible, Exists, Message, Id
    <2>2. srv \in [Session -> Row] /\ srv[m.s] \in Row /\ srv[m.s].size \in Nat
      BY <2>1 DEF ServerOK, Row
    <2>3. new.size = srv[m.s].size /\ new.answered = srv[m.s].answered \cup {m.q}
      BY <2>2 DEF Row
    <2>4. \A s \in Session : Effect(m)[s] = IF s = m.s THEN new ELSE srv[s]
      BY <1>3, <2>1, <2>2
    <2> HIDE DEF new
    <2>5. m.q \in 1..MaxQuestions
      BY <2>1, <2>2, ClientAssumption DEF Bounded
    <2>6. QED
      BY <2>1, <2>3, <2>4, <2>5 DEF Bounded
  <1>4. CASE Allowed(m) /\ Effect(m) = [srv EXCEPT ![m.s].ended = TRUE]
    <2> DEFINE new == [srv[m.s] EXCEPT !.ended = TRUE]
    <2>1. m.s \in Session
      BY <1>4 DEF Allowed, Accessible, Exists, Message, Id
    <2>2. srv \in [Session -> Row] /\ srv[m.s] \in Row
      BY <2>1 DEF ServerOK
    <2>3. new.size = srv[m.s].size /\ new.answered = srv[m.s].answered
      BY <2>2 DEF Row
    <2>4. \A s \in Session : Effect(m)[s] = IF s = m.s THEN new ELSE srv[s]
      BY <1>4, <2>1, <2>2
    <2> HIDE DEF new
    <2>5. QED
      BY <2>3, <2>4 DEF Bounded
  <1>5. QED
    BY <1>1, <1>2, <1>3, <1>4

(* An answer is to a question, the first one or a later one.               *)
LEMMA AnswersCount ==
  ASSUME ClientInv, AdvanceInv, NEW i \in DOMAIN msgs
  PROVE  msgs[i] \in Message /\ (msgs[i].ev = "answer" => msgs[i].q >= 1)
  <1>1. msgs[i] \in Message /\ app.idx \in Nat
    BY DEF ClientInv, AppOK
  <1>2. QED
    BY <1>1 DEF AdvanceInv, AllFit, Fits

(* Neither the questions of the page nor the sizes of the sessions change. *)
LEMMA LimitKept ==
  ASSUME LimitInv, Bounded(srv'), \A s \in Session : srv'[s].size = srv[s].size,
         app'.total = app.total, app'.session = app.session, app'.idx = app.idx,
         \A c \in calls' : c \in calls \/ c.kind # "extend"
  PROVE  LimitInv'
  BY DEF LimitInv

LEMMA AskLimit ==
  ASSUME NEW a, IsApp(a), NEW ms, Ask(a, ms)
  PROVE  app'.total = a.total /\ app'.session = a.session /\ app'.idx = a.idx
  BY DEF Ask, Show, IsApp

LEMMA UserLimit ==
  ASSUME Hasty = FALSE, ClientInv, LimitInv, UserStep
  PROVE  LimitInv'
  <1>1. srv' = srv /\ IsApp(app) /\ calls = {}
    BY UserIsIdle DEF UserStep, Start, Submit, Record, EndEarly, RestartApp, Extend,
           RefreshOverallFeedback, LoadHistory, BackToSetup, ViewHistoryDetail,
           RefreshHistoryDetail, SignIn, LoginOrLogout, rest, ClientInv, AppOK
  <1>2. CASE RestartApp
    <2>1. app'.total = 0 /\ app'.idx = 0 /\ calls' = calls
      BY <1>1, <1>2 DEF RestartApp, Restarted, Show, IsApp, rest
    <2>2. QED
      BY <1>1, <2>1, ClientAssumption DEF LimitInv
  <1>3. CASE ~RestartApp
    <2>1. app'.total = app.total /\ app'.session = app.session /\ app'.idx = app.idx
      BY <1>1, <1>3 DEF UserStep, Start, Submit, Record, EndEarly, Extend,
           RefreshOverallFeedback, LoadHistory, BackToSetup, ViewHistoryDetail,
           RefreshHistoryDetail, SignIn, LoginOrLogout, Show, Listen, IsApp
    <2>2. CASE Extend
      <3>1. \A c \in calls' : c.s = app.session
        BY <1>1, <2>2 DEF Extend, Calls
      <3>2. srv[app.session].size + Extra <= MaxQuestions
        BY <2>2 DEF Extend
      <3>3. QED
        BY <1>1, <2>1, <3>1, <3>2 DEF LimitInv
    <2>3. CASE ~Extend
      <3>1. \A c \in calls' : c \in calls \/ c.kind # "extend"
        <4>1. CASE Start \/ LoadHistory \/ RefreshOverallFeedback
          BY <4>1 DEF Start, LoadHistory, RefreshOverallFeedback, Calls
        <4>2. CASE RefreshHistoryDetail \/ \E s \in Session : ViewHistoryDetail(s)
          <5>1. \E kind \in {"redetail", "detail"} : \E s : Calls(kind, s)
            BY <4>2 DEF RefreshHistoryDetail, ViewHistoryDetail
          <5>2. QED
            BY <5>1 DEF Calls
        <4>3. CASE LoginOrLogout
          <5>1. \E kind \in {"login", "logout"} : Calls(kind, NoSession)
            BY <4>3 DEF LoginOrLogout
          <5>2. QED
            BY <5>1 DEF Calls
        <4>4. CASE Submit \/ Record \/ EndEarly \/ BackToSetup \/ SignIn
          BY <4>4 DEF Submit, Record, EndEarly, BackToSetup, SignIn, rest
        <4>5. QED
          BY <1>3, <2>3, <4>1, <4>2, <4>3, <4>4 DEF UserStep
      <3>2. QED
        BY <1>1, <2>1, <3>1, LimitKept DEF LimitInv
    <2>4. QED
      BY <2>2, <2>3
  <1>4. QED
    BY <1>2, <1>3

(* No session changes but the one that is started or extended; a reply     *)
(* leaves no other call behind that asks for an extension.                 *)
LEMMA ReplyLimit ==
  ASSUME ClientInv, ServerOK, WaitInv, AdvanceInv, LimitInv, NEW c \in calls,
         \/ Started(c) \/ Extended(c) \/ Refreshed(c) \/ DetailShown(c) \/ Failed(c)
         \/ HistoryLoaded(c) \/ HistoryFails(c) \/ LoggedIn(c) \/ LoggedOut(c)
  PROVE  LimitInv'
  <1>1. /\ IsApp(app) /\ AppOK(app) /\ c.s \in Id /\ calls = {c}
        /\ srv \in [Session -> Row] /\ Bounded(srv) /\ app.total \in 0..MaxQuestions
    BY DEF ClientInv, AppOK, WaitInv, ServerOK, LimitInv
  <1>2. \A d \in calls' : d.kind # "extend"
    <2>1. calls' \subseteq {[kind |-> "history", s |-> NoSession, who |-> account]}
      BY <1>1 DEF Started, Extended, Refreshed, DetailShown, Failed, HistoryLoaded,
                  HistoryFails, LoggedIn, LoggedOut, Taken
    <2>2. QED
      BY <2>1
  <1>3. CASE Started(c)
    <2>1. PICK s \in Session :
            /\ srv' = [srv EXCEPT ![s] = [NoRow EXCEPT !.owner = c.who, !.size = Count]]
            /\ Ask([app EXCEPT !.session = s, !.source = s, !.idx = 0, !.total = Count,
                      !.panel = "interview"], Emit(msgs, "join", s, 0, s))
      BY <1>3 DEF Started
    <2> DEFINE a == [app EXCEPT !.session = s, !.source = s, !.idx = 0, !.total = Count,
                       !.panel = "interview"]
               new == [NoRow EXCEPT !.owner = c.who, !.size = Count]
    <2>2. IsApp(a) /\ a.total = Count /\ a.idx = 0
      BY <1>1 DEF IsApp
    <2>3. Ask(a, Emit(msgs, "join", s, 0, s))
      BY <2>1
    <2> HIDE DEF a
    <2>4. app'.total = Count /\ app'.idx = 0
      BY <2>2, <2>3, AskLimit
    <2>5. new.size = Count /\ new.answered = {}
      BY DEF NoRow
    <2>6. \A r \in Session : srv'[r] = IF r = s THEN new ELSE srv[r]
      BY <1>1, <2>1
    <2> HIDE DEF new
    <2>7. Bounded(srv')
      BY <1>1, <2>5, <2>6, ClientAssumption DEF Bounded
    <2>8. QED
      BY <1>2, <2>4, <2>7, ClientAssumption DEF LimitInv
  <1>4. CASE Extended(c)
    <2>1. c.s \in Session /\ c.kind = "extend" /\ c.s = app.session
      BY <1>1, <1>4 DEF Extended, Accessible, Exists, Id, AdvanceInv
    <2>2. /\ srv[c.s].size \in Nat /\ srv[c.s] \in Row
          /\ srv[c.s].size + Extra \in 0..MaxQuestions
      BY <1>1, <2>1, ClientAssumption DEF LimitInv, Row
    <2> DEFINE a == [app EXCEPT !.session = c.s, !.source = c.s, !.panel = "interview",
                       !.total = srv[c.s].size + Extra]
               new == [srv[c.s] EXCEPT !.size = @ + Extra, !.ended = FALSE]
    <2>3. IsApp(a) /\ a.total = srv[c.s].size + Extra /\ a.session = c.s
      BY <1>1 DEF IsApp
    <2>4. Ask(a, msgs)
      BY <1>4 DEF Extended
    <2> HIDE DEF a
    <2>5. app'.total = srv[c.s].size + Extra /\ app'.session = c.s
      BY <2>3, <2>4, AskLimit
    <2>6. srv' = [srv EXCEPT ![c.s] = new]
      BY <1>1, <1>4, <2>1, <2>2 DEF Extended, Row
    <2>7. new.size = srv[c.s].size + Extra /\ new.answered = srv[c.s].answered
      BY <2>2 DEF Row
    <2> HIDE DEF new
    <2>8. \A r \in Session : srv'[r] = IF r = c.s THEN new ELSE srv[r]
      BY <1>1, <2>6
    <2>9. Bounded(srv')
      BY <1>1, <2>2, <2>7, <2>8 DEF Bounded
    <2>10. app'.session # NoSession
      BY <2>1, <2>5, ClientAssumption
    <2>11. QED
      BY <1>2, <2>2, <2>5, <2>9, <2>10 DEF LimitInv
  <1>5. CASE LoggedOut(c)
    <2>1. app'.total = 0 /\ app'.idx = 0 /\ srv' = srv
      BY <1>1, <1>5 DEF LoggedOut, Restarted, Show, IsApp
    <2>2. QED
      BY <1>1, <1>2, <2>1, ClientAssumption DEF LimitInv
  <1>6. CASE Refreshed(c) \/ DetailShown(c) \/ Failed(c) \/ HistoryLoaded(c)
               \/ HistoryFails(c) \/ LoggedIn(c)
    <2>1. CASE Refreshed(c)
      <3>1. c.s = app.session /\ srv' = srv
        BY <2>1 DEF Refreshed, AdvanceInv
      <3>2. app'.total = app.total /\ app'.session = app.session /\ app'.idx = app.idx
        BY <1>1, <2>1, <3>1 DEF Refreshed, Complete, Show, IsApp
      <3>3. QED
        BY <1>1, <1>2, <3>1, <3>2, LimitKept
    <2>2. CASE DetailShown(c) \/ Failed(c) \/ HistoryLoaded(c) \/ HistoryFails(c)
      <3>1. app'.total = app.total /\ app'.session = app.session /\ app'.idx = app.idx
        BY <1>1, <2>2 DEF DetailShown, Failed, HistoryLoaded, HistoryFails, Show, IsApp
      <3>2. srv' = srv
        BY <2>2 DEF DetailShown, Failed, HistoryLoaded, HistoryFails
      <3>3. QED
        BY <1>1, <1>2, <3>1, <3>2, LimitKept
    <2>3. CASE LoggedIn(c)
      <3>1. app'.total = app.total /\ app'.session = app.session /\ app'.idx = app.idx
        BY <1>1, <2>3 DEF LoggedIn, Show, IsApp
      <3>2. \A s \in Session : srv'[s] = srv[s] \/ srv'[s] = [srv[s] EXCEPT !.owner = Member]
        BY <2>3 DEF LoggedIn, Claimed
      <3>3. \A s \in Session :
              srv'[s].size = srv[s].size /\ srv'[s].answered = srv[s].answered
        <4> TAKE s \in Session
        <4>1. srv[s] \in Row
          BY <1>1
        <4>2. QED
          BY <3>2, <4>1 DEF Row
      <3>4. Bounded(srv')
        BY <1>1, <3>3 DEF Bounded
      <3>5. QED
        BY <1>2, <3>1, <3>3, <3>4, LimitKept
    <2>4. QED
      BY <1>6, <2>1, <2>2, <2>3
  <1>7. QED
    BY <1>3, <1>4, <1>5, <1>6

LEMMA SocketLimit ==
  ASSUME ClientInv, ServerOK, RoomInv, AdvanceInv, LimitInv, Socket
  PROVE  LimitInv'
  <1>1. IsApp(app) /\ Bounded(srv) /\ calls' = calls
    BY DEF ClientInv, AppOK, LimitInv, Socket, Connected, Reopen, Dropped, Expired, Handled,
           JoinFails, HandlerFails, Delivered, rest
  <1>2. \A i \in DOMAIN msgs :
          /\ msgs[i] \in Message
          /\ Bounded(Effect(msgs[i]))
          /\ \A s \in Session : Effect(msgs[i])[s].size = srv[s].size
    BY <1>1, AnswersCount, EffectBounded
  <1>3. CASE Connected \/ Reopen \/ Dropped \/ Expired
    <2>1. app' = app
      BY <1>3 DEF Connected, Reopen, Dropped, Expired, rest
    <2>2. srv' = srv \/ \E i \in DOMAIN msgs : srv' = Effect(msgs[i])
      BY <1>3 DEF Connected, Reopen, Dropped, Expired, rest
    <2>3. Bounded(srv') /\ \A s \in Session : srv'[s].size = srv[s].size
      BY <1>1, <1>2, <2>2
    <2>4. QED
      BY <1>1, <2>1, <2>3, LimitKept
  <1>4. ASSUME NEW i \in DOMAIN msgs, Handled(i) \/ JoinFails(i) \/ HandlerFails(i)
        PROVE  LimitInv'
    <2>1. app' = app /\ (srv' = srv \/ srv' = Effect(msgs[i]))
      BY <1>4 DEF Handled, JoinFails, HandlerFails
    <2>2. Bounded(srv') /\ \A s \in Session : srv'[s].size = srv[s].size
      BY <1>1, <1>2, <2>1
    <2>3. QED
      BY <1>1, <2>1, <2>2, LimitKept
  <1>5. ASSUME NEW i \in DOMAIN msgs, Delivered(i)
        PROVE  LimitInv'
    <2>1. srv' = srv
      BY <1>5 DEF Delivered, rest
    <2>2. CASE ~(msgs[i].ok /\ msgs[i].ev # "end")
      <3>1. app'.total = app.total /\ app'.session = app.session /\ app'.idx = app.idx
        BY <1>1, <1>5, <2>2 DEF Delivered, Complete, Show, IsApp
      <3>2. QED
        BY <1>1, <2>1, <3>1, LimitKept
    <2>3. CASE msgs[i].ok /\ msgs[i].ev # "end"
      <3> DEFINE a == [app EXCEPT !.idx = @ + 1]
      <3>1. IsApp(a) /\ a.total = app.total /\ a.session = app.session
        BY <1>1 DEF IsApp
      <3>2. Ask(a, RemoveAt(msgs, i))
        BY <1>5, <2>3 DEF Delivered
      <3> HIDE DEF a
      <3>3. app'.total = app.total /\ app'.session = app.session
        BY <3>1, <3>2, AskLimit
      <3>4. app.session # NoSession
        <4>1. msgs[i].ev = "answer" /\ msgs[i].at = "done"
          BY <1>2, <1>5, <2>3 DEF Delivered, RoomInv, JoinsOpen, Message
        <4>2. msgs[i].s \in Session /\ msgs[i].s = app.session
          BY <2>3, <4>1 DEF AdvanceInv, AllFit, Fits
        <4>3. QED
          BY <4>2, ClientAssumption
      <3>5. QED
        BY <1>1, <2>1, <3>3, <3>4 DEF LimitInv
    <2>4. QED
      BY <2>2, <2>3
  <1>6. QED
    BY <1>3, <1>4, <1>5 DEF Socket

LEMMA LimitStep ==
  ASSUME Hasty = FALSE, ClientInv, ServerOK, RoomInv, WaitInv, AdvanceInv, LimitInv,
         [Next]_vars
  PROVE  LimitInv'
  <1>1. CASE Boot \/ VoiceEnds \/ MicEnds \/ UNCHANGED vars
    <2>1. IsApp(app) /\ calls' = calls /\ srv' = srv /\ Bounded(srv)
      BY <1>1 DEF ClientInv, AppOK, LimitInv, Boot, VoiceEnds, MicEnds, vars, rest
    <2>2. app'.total = app.total /\ app'.session = app.session /\ app'.idx = app.idx
      BY <1>1, <2>1 DEF Boot, VoiceEnds, MicEnds, vars, Listen, Show, IsApp
    <2>3. QED
      BY <2>1, <2>2, LimitKept
  <1>2. QED
    BY <1>1, UserLimit, ReplyLimit, SocketLimit DEF Next, Reply

LEMMA LimitInit == Init => LimitInv
  <1>1. SUFFICES ASSUME Init PROVE LimitInv
    OBVIOUS
  <1>2. app.total = 0 /\ app.idx = 0 /\ calls = {} /\ srv = [s \in Session |-> NoRow]
    BY <1>1 DEF Init
  <1>3. NoRow.size = 0 /\ NoRow.answered = {}
    BY DEF NoRow
  <1>4. Bounded(srv)
    BY <1>2, <1>3, ClientAssumption DEF Bounded
  <1>5. QED
    BY <1>2, <1>4, ClientAssumption DEF LimitInv

(* The questions that were left are answered, so that the index of the     *)
(* page stays within the questions of its session.                         *)
LEMMA IndexBounded ==
  ASSUME ClientInv, AdvanceInv, LimitInv
  PROVE  app.idx \in 0..MaxQuestions
  <1>1. app.idx \in Nat /\ app.session \in Id /\ MaxQuestions \in Nat
    BY ClientAssumption DEF ClientInv, AppOK
  <1>2. CASE app.session = NoSession \/ app.idx = 0
    BY <1>1, <1>2 DEF LimitInv
  <1>3. CASE app.session # NoSession /\ app.idx # 0
    <2>1. app.session \in Session /\ app.idx \in 1..app.idx
      BY <1>1, <1>3 DEF Id
    <2>2. app.idx \in 1..MaxQuestions
      BY <1>3, <2>1 DEF AdvanceInv, Reached, LimitInv, Bounded
    <2>3. QED
      BY <1>1, <2>2
  <1>4. QED
    BY <1>2, <1>3

LEMMA TypesHold ==
  ASSUME ClientInv, ServerOK, AdvanceInv, KeptOK, FormInv, LimitInv
  PROVE  TypeOK
  <1>1. /\ app.st \in State /\ app.panel \in Panel
        /\ {app.session, app.source, app.detail} \subseteq Session \cup {NoSession}
        /\ app.idx \in 0..MaxQuestions /\ app.total \in 0..MaxQuestions
        /\ {app.startOn, app.box, voice, mic} \subseteq BOOLEAN
    BY IndexBounded DEF ClientInv, AppOK, FormInv, Face, LimitInv, Id
  <1>2. /\ \A c \in calls : c.who \in {Guest, Member} /\ c.s \in Session \cup {NoSession}
        /\ account \in {Guest, Member}
        /\ pending \in Session \cup {NoSession}
    BY DEF ClientInv, ServerOK, Id
  <1>3. ToSet(kept) \subseteq Session /\ IsInjective(kept) /\ Len(kept) <= MaxKept
    BY DEF KeptOK, ToSet
  <1>4. \A s \in Session : srv[s].size \in 0..MaxQuestions
    BY ClientAssumption DEF ServerOK, Row, LimitInv, Bounded
  <1>5. /\ net \in {"closed", "connecting", "open", "expired"} /\ rooms \subseteq Session
        /\ refused \subseteq Session \cup {NoSession}
        /\ net # "open" => /\ rooms = {} /\ refused = {}
                           /\ \A i \in DOMAIN msgs : msgs[i].at = "buffered"
        /\ faults \in 0..MaxFaults /\ signIns \in 0..MaxSignIns
    BY DEF FormInv, NetOK, Buffered, Id
  <1>6. QED
    BY <1>1, <1>2, <1>3, <1>4, <1>5 DEF TypeOK

(* The page of a user who waits counts no question that its session does   *)
(* not have, and without a connection nothing is under way.  With Hasty =  *)
(* TRUE the reply to an answer of one interview is counted in the next     *)
(* one, and two extensions asked for at once may pass MaxQuestions.        *)
THEOREM ClientTypes ==
  ASSUME Hasty = FALSE
  PROVE  Spec => []TypeOK
  <1>1. Init => FormInv /\ LimitInv
    BY FormInit, LimitInit
  <1>2. ClientInv /\ ServerOK /\ RoomInv /\ (WaitInv /\ AdvanceInv) /\ (FormInv /\ LimitInv)
          /\ [Next]_vars => (FormInv /\ LimitInv)'
    BY FormStep, LimitStep
  <1>3. ClientInv /\ ServerOK /\ AdvanceInv /\ KeptOK /\ FormInv /\ LimitInv => TypeOK
    BY TypesHold
  <1>4. QED
    BY <1>1, <1>2, <1>3, ClientInvariant, ServerInvariant, RoomInvariant, WaitingInvariant,
       RemembersNoneTwice, PTL DEF Spec

-----------------------------------------------------------------------------
(* What a history view forgets                                             *)

(* The remembered sessions exist, and a call carries the cookie of now.    *)
HistoryInv ==
  /\ \A s \in ToSet(kept) : Exists(s)
  /\ \A c \in calls : c.who = account

LEMMA RememberedAre ==
  ASSUME KeptOK, NEW s \in Session
  PROVE  Head(Remember(s)) = s /\ Remember(s) # <<>>
         /\ ToSet(Remember(s)) \subseteq ToSet(kept) \cup {s}
  <1> DEFINE old == Among(kept, Session \ {s})
             ids == <<s>> \o old
             n == IF Len(ids) < MaxKept THEN Len(ids) ELSE MaxKept
  <1>1. old \in Seq(Session) /\ ToSet(old) \subseteq ToSet(kept)
    BY AmongIs DEF KeptOK
  <1>2. Remember(s) = SubSeq(ids, 1, n)
    BY DEF Remember
  <1> HIDE DEF old
  <1>3. /\ ids \in Seq(Session) /\ Len(ids) = 1 + Len(old) /\ Len(old) \in Nat
        /\ ids[1] = s /\ DOMAIN old = 1..Len(old)
        /\ \A i \in 2..Len(ids) : i - 1 \in DOMAIN old /\ ids[i] = old[i - 1]
    BY <1>1
  <1> HIDE DEF ids
  <1>4. \A i \in 1..Len(ids) : ids[i] \in ToSet(kept) \cup {s}
    <2> TAKE i \in 1..Len(ids)
    <2>1. CASE i = 1
      BY <1>3, <2>1
    <2>2. CASE i # 1
      <3>1. i - 1 \in DOMAIN old /\ ids[i] = old[i - 1]
        BY <1>3, <2>2
      <3>2. QED
        BY <1>1, <3>1 DEF ToSet
    <2>3. QED
      BY <2>1, <2>2
  <1>5. n \in Nat /\ n >= 1 /\ n <= Len(ids)
    BY <1>3, ClientAssumption
  <1> HIDE DEF n
  <1>6. /\ Remember(s) \in Seq(Session) /\ Len(Remember(s)) = n
        /\ DOMAIN Remember(s) = 1..n
        /\ \A i \in 1..n : Remember(s)[i] = ids[i] /\ i \in 1..Len(ids)
    BY <1>2, <1>3, <1>5
  <1>7. 1 \in 1..n /\ Remember(s)[1] = s /\ Remember(s) # <<>>
    BY <1>3, <1>5, <1>6
  <1>8. QED
    BY <1>4, <1>6, <1>7 DEF ToSet

(* A step forgets nothing, or is one of these.                             *)
LEMMA KeptBy ==
  ASSUME KeptOK, [Next]_vars
  PROVE  \/ kept' = kept
         \/ \E c \in calls : Started(c) \/ HistoryLoaded(c) \/ HistoryFails(c)
  <1>1. CASE Boot \/ UserStep \/ Socket \/ VoiceEnds \/ MicEnds \/ UNCHANGED vars
    BY <1>1 DEF Boot, UserStep, Start, Submit, Record, EndEarly, RestartApp, Extend,
           RefreshOverallFeedback, LoadHistory, BackToSetup, ViewHistoryDetail,
           RefreshHistoryDetail, SignIn, LoginOrLogout, Socket, Connected, Reopen, Dropped,
           Expired, Handled, JoinFails, HandlerFails, Delivered, VoiceEnds, MicEnds, vars, rest
  <1>2. ASSUME NEW c \in calls,
               Extended(c) \/ Refreshed(c) \/ DetailShown(c) \/ Failed(c) \/ LoggedIn(c)
                 \/ LoggedOut(c)
        PROVE  kept' = kept
    BY <1>2 DEF Extended, Refreshed, DetailShown, Failed, LoggedIn, LoggedOut
  <1>3. QED
    BY <1>1, <1>2 DEF Next, Reply

LEMMA KeptExistStep ==
  ASSUME ServerOK, ServerOK', Grows, KeptOK, \A s \in ToSet(kept) : Exists(s), [Next]_vars
  PROVE  \A s \in ToSet(kept') : Exists(s)'
  <1>1. \A s \in ToSet(kept) : s \in Session /\ Exists(s)'
    <2> TAKE s \in ToSet(kept)
    <2>1. s \in Id /\ Exists(s)
      BY DEF KeptOK, ToSet, Id
    <2>2. QED
      BY <2>1, ExistsStays
  <1>2. CASE kept' = kept
    BY <1>1, <1>2
  <1>3. ASSUME NEW c \in calls, Started(c)
        PROVE  \A s \in ToSet(kept') : Exists(s)'
    <2>1. PICK s \in Session :
            /\ srv' = [srv EXCEPT ![s] = [NoRow EXCEPT !.owner = c.who, !.size = Count]]
            /\ kept' = Remember(s)
      BY <1>3 DEF Started
    <2>2. srv'[s] = [NoRow EXCEPT !.owner = c.who, !.size = Count]
      BY <2>1 DEF ServerOK
    <2>3. srv'[s].size = Count
      BY <2>2 DEF NoRow
    <2>4. Exists(s)'
      BY <2>3, ClientAssumption DEF Exists
    <2>5. QED
      BY <1>1, <2>1, <2>4, RememberedAre
  <1>4. ASSUME NEW c \in calls, HistoryLoaded(c) \/ HistoryFails(c)
        PROVE  \A s \in ToSet(kept') : Exists(s)'
    <2>1. kept' = kept \/ \E S : kept' = Among(kept, S)
      BY <1>4 DEF HistoryLoaded, HistoryFails
    <2>2. ToSet(kept') \subseteq ToSet(kept)
      BY <2>1, AmongIs DEF KeptOK
    <2>3. QED
      BY <1>1, <2>2
  <1>5. QED
    BY <1>2, <1>3, <1>4, KeptBy

(* Who acts while nothing is awaited does so under the cookie of the       *)
(* reply that came last.                                                   *)
LEMMA CookieStep ==
  ASSUME Hasty = FALSE, WaitInv, \A c \in calls : c.who = account, [Next]_vars
  PROVE  \A c \in calls' : c.who = account'
  <1>1. CASE UserStep
    <2>1. account' = account
      BY <1>1 DEF UserStep, Start, Submit, Record, EndEarly, RestartApp, Extend,
             RefreshOverallFeedback, LoadHistory, BackToSetup, ViewHistoryDetail,
             RefreshHistoryDetail, SignIn, LoginOrLogout, rest
    <2>2. calls' = calls \/ \E kind, s : Calls(kind, s)
      BY <1>1 DEF UserStep, Start, Submit, Record, EndEarly, RestartApp, Extend,
             RefreshOverallFeedback, LoadHistory, BackToSetup, ViewHistoryDetail,
             RefreshHistoryDetail, SignIn, LoginOrLogout, rest
    <2>3. QED
      BY <2>1, <2>2 DEF Calls
  <1>2. CASE Reply
    <2>1. PICK c \in calls :
            \/ Started(c) \/ Extended(c) \/ Refreshed(c) \/ DetailShown(c) \/ Failed(c)
            \/ HistoryLoaded(c) \/ HistoryFails(c) \/ LoggedIn(c) \/ LoggedOut(c)
      BY <1>2 DEF Reply
    <2>2. calls = {c}
      BY DEF WaitInv
    <2>3. \/ calls' = {}
          \/ /\ calls' \subseteq {[kind |-> "history", s |-> NoSession, who |-> account]}
             /\ account' = account
      BY <2>1, <2>2 DEF Started, Extended, Refreshed, DetailShown, Failed, HistoryLoaded,
                        HistoryFails, LoggedIn, LoggedOut, Taken
    <2>4. QED
      BY <2>3
  <1>3. CASE Boot \/ Socket \/ VoiceEnds \/ MicEnds \/ UNCHANGED vars
    BY <1>3 DEF Boot, Socket, Connected, Reopen, Dropped, Expired, Handled, JoinFails, HandlerFails,
           Delivered, VoiceEnds, MicEnds, vars, rest
  <1>4. QED
    BY <1>1, <1>2, <1>3 DEF Next

LEMMA HistoryStep ==
  ASSUME MaxFaults = 0, KeptOK, FormInv, HistoryInv, [Next]_vars
  PROVE  [OnlyDeadForgotten]_kept
  <1>1. ASSUME NEW c \in calls, Started(c)
        PROVE  OnlyDeadForgotten
    <2>1. PICK s \in Session : ~Exists(s) /\ kept' = Remember(s)
      BY <1>1 DEF Started
    <2>2. Head(kept') = s /\ kept' # <<>>
      BY <2>1, RememberedAre
    <2>3. ~Contains(kept, s)
      BY <2>1 DEF HistoryInv, Contains, ToSet
    <2>4. QED
      BY <2>2, <2>3 DEF OnlyDeadForgotten
  <1>2. ASSUME NEW c \in calls, HistoryLoaded(c)
        PROVE  [OnlyDeadForgotten]_kept
    <2> DEFINE S == {s \in Session : Accessible(s, c.who)}
    <2>1. kept' = kept \/ kept' = Among(kept, S)
      BY <1>2 DEF HistoryLoaded, Found
    <2>2. CASE kept' = Among(kept, S)
      <3>1. kept \in Seq(Session) /\ IsInjective(kept) /\ ToSet(kept) \subseteq Session
        BY DEF KeptOK, ToSet
      <3>2. ToSet(Among(kept, S)) = ToSet(kept) \cap S
        BY <3>1, AmongIs
      <3>3. c.who = account
        BY DEF HistoryInv
      <3>4. QED
        BY <2>2, <3>1, <3>2, <3>3 DEF OnlyDeadForgotten
    <2>3. QED
      BY <2>1, <2>2
  <1>3. ASSUME NEW c \in calls, HistoryFails(c)
        PROVE  FALSE
    <2>1. faults \in 0..0 /\ faults < 0
      BY <1>3 DEF FormInv, HistoryFails
    <2>2. QED
      BY <2>1
  <1>4. QED
    BY <1>1, <1>2, <1>3, KeptBy

(* A history view forgets a session only when it does not resolve for the  *)
(* account, if requests do not fail otherwise and the user does not log in *)
(* while the view loads.  With MaxFaults > 0 TLC refutes it (app.js:1399). *)
THEOREM HistoryDropsOnlyDead ==
  ASSUME Hasty = FALSE, MaxFaults = 0
  PROVE  Spec => DropsOnlyDead
  <1>1. Init => HistoryInv
    BY DEF Init, HistoryInv, ToSet
  <1>2. ServerOK /\ ServerOK' /\ Grows /\ KeptOK /\ (WaitInv /\ AdvanceInv) /\ HistoryInv
          /\ [Next]_vars => HistoryInv'
    BY KeptExistStep, CookieStep DEF HistoryInv
  <1>3. KeptOK /\ FormInv /\ HistoryInv /\ [Next]_vars => [OnlyDeadForgotten]_kept
    BY HistoryStep
  <1>4. ClientInv /\ ServerOK /\ [Next]_vars => ServerOK' /\ Grows
    BY ServerStep
  <1>5. Init => FormInv
    BY FormInit
  <1>6. ClientInv /\ FormInv /\ [Next]_vars => FormInv'
    BY FormStep
  <1>7. QED
    BY <1>1, <1>2, <1>3, <1>4, <1>5, <1>6, ClientInvariant, ServerInvariant,
       WaitingInvariant, RemembersNoneTwice, PTL DEF Spec, DropsOnlyDead

-----------------------------------------------------------------------------
(* What is heard when the result is shown                                  *)

(* While a reply is awaited whose handler may show the result, or the next *)
(* question, nothing is heard and nothing will start to be.                *)
HushInv ==
  /\ app.box => ~mic
  /\ app.panel = "completion" => ~mic /\ ~voice
  /\ \A c \in calls : c.kind \in {"extend", "refresh"} => ~mic /\ ~voice
  /\ ~NoneAsked(msgs) => ~mic /\ app.st = "evaluating" /\ app.panel \in {"interview", "loading"}

(* A step after which nothing is awaited that shows the result.            *)
LEMMA Hushed ==
  ASSUME app'.box => ~mic', app'.panel = "completion" => ~mic' /\ ~voice',
         \A c \in calls' : c.kind \notin {"extend", "refresh"}, NoneAsked(msgs')
  PROVE  HushInv'
  BY DEF HushInv

LEMMA AskHushed ==
  ASSUME NEW a, IsApp(a), NEW ms, NoneAsked(ms), Ask(a, ms), mic' = mic,
         a.panel \notin {"completion"}, a.idx >= a.total => ~mic,
         \A c \in calls' : c.kind \notin {"extend", "refresh"}
  PROVE  HushInv'
  <1>1. CASE a.idx >= a.total
    <2>1. app'.panel = "loading" /\ app'.st = "evaluating" /\ ~mic'
      BY <1>1 DEF Ask, Show, IsApp
    <2>2. QED
      BY <2>1 DEF HushInv
  <1>2. CASE ~(a.idx >= a.total)
    <2>1. app'.panel = a.panel /\ app'.box = FALSE /\ msgs' = ms
      BY <1>2 DEF Ask, IsApp
    <2>2. QED
      BY <2>1, Hushed
  <1>3. QED
    BY <1>1, <1>2

LEMMA UserHush ==
  ASSUME Hasty = FALSE, ClientInv, HushInv, UserStep
  PROVE  HushInv'
  <1>1. IsApp(app) /\ calls = {} /\ NoneAsked(msgs)
    BY UserIsIdle DEF ClientInv, AppOK
  <1>2. CASE Submit \/ EndEarly
    <2>1. /\ calls' = {} /\ app'.st = "evaluating"
          /\ app'.panel \in {"interview", "loading"} /\ (app'.box => app.box)
      BY <1>1, <1>2 DEF Submit, EndEarly, Show, IsApp, rest
    <2>2. ~mic'
      BY <1>2 DEF Submit, EndEarly, HushInv
    <2>3. QED
      BY <2>1, <2>2 DEF HushInv
  <1>3. CASE Record
    <2>1. /\ calls' = {} /\ NoneAsked(msgs')
          /\ app'.box = FALSE /\ app'.panel = "interview"
      BY <1>1, <1>3 DEF Record, Listen, IsApp, rest
    <2>2. QED
      BY <2>1, Hushed
  <1>4. CASE Extend \/ RefreshOverallFeedback
    <2>1. ~mic' /\ ~voice' /\ msgs' = msgs
      BY <1>4 DEF Extend, RefreshOverallFeedback, HushInv
    <2>2. QED
      BY <1>1, <2>1 DEF HushInv
  <1>5. CASE Start \/ LoadHistory \/ RefreshHistoryDetail \/ \E s \in Session : ViewHistoryDetail(s)
    <2>1. /\ app'.box = app.box /\ mic' = mic /\ voice' = voice /\ msgs' = msgs
          /\ app'.panel = "completion" => app.panel = "completion"
      BY <1>1, <1>5 DEF Start, LoadHistory, RefreshHistoryDetail, ViewHistoryDetail, Show, IsApp
    <2>2. \E kind \in {"start", "history", "redetail", "detail"} : \E s : Calls(kind, s)
      BY <1>5 DEF Start, LoadHistory, RefreshHistoryDetail, ViewHistoryDetail
    <2>3. \A c \in calls' : c.kind \notin {"extend", "refresh"}
      BY <1>1, <2>2 DEF Calls
    <2>4. QED
      BY <1>1, <2>1, <2>3, Hushed DEF HushInv
  <1>6. CASE RestartApp \/ BackToSetup \/ SignIn
    <2>1. /\ app'.box = app.box /\ mic' = mic /\ voice' = voice /\ msgs' = msgs
          /\ app'.panel # "completion" /\ calls' = {}
      BY <1>1, <1>6 DEF RestartApp, Restarted, BackToSetup, SignIn, Show, IsApp, rest
    <2>2. QED
      BY <1>1, <2>1, Hushed DEF HushInv
  <1>7. CASE LoginOrLogout
    <2>1. app' = app /\ mic' = mic /\ voice' = voice /\ msgs' = msgs
      BY <1>7 DEF LoginOrLogout
    <2>2. \E kind \in {"login", "logout"} : Calls(kind, NoSession)
      BY <1>7 DEF LoginOrLogout
    <2>3. \A c \in calls' : c.kind \notin {"extend", "refresh"}
      BY <1>1, <2>2 DEF Calls
    <2>4. QED
      BY <1>1, <2>1, <2>3, Hushed DEF HushInv
  <1>8. QED
    BY <1>2, <1>3, <1>4, <1>5, <1>6, <1>7 DEF UserStep

LEMMA ReplyHush ==
  ASSUME ClientInv, WaitInv, HushInv, NEW c \in calls,
         \/ Started(c) \/ Extended(c) \/ Refreshed(c) \/ DetailShown(c) \/ Failed(c)
         \/ HistoryLoaded(c) \/ HistoryFails(c) \/ LoggedIn(c) \/ LoggedOut(c)
  PROVE  HushInv'
  <1>1. IsApp(app) /\ Mail(msgs) /\ calls = {c} /\ NoneAsked(msgs)
    BY DEF ClientInv, AppOK, Mail, WaitInv
  <1>2. \A d \in calls' : d.kind \notin {"extend", "refresh"}
    <2>1. calls' \subseteq {[kind |-> "history", s |-> NoSession, who |-> account]}
      BY <1>1 DEF Started, Extended, Refreshed, DetailShown, Failed, HistoryLoaded,
                  HistoryFails, LoggedIn, LoggedOut, Taken
    <2>2. QED
      BY <2>1
  <1>3. CASE Started(c)
    <2>1. PICK s \in Session :
            Ask([app EXCEPT !.session = s, !.source = s, !.idx = 0, !.total = Count,
                   !.panel = "interview"], Emit(msgs, "join", s, 0, s))
      BY <1>3 DEF Started
    <2> DEFINE a == [app EXCEPT !.session = s, !.source = s, !.idx = 0, !.total = Count,
                       !.panel = "interview"]
               ms == Emit(msgs, "join", s, 0, s)
    <2>2. IsApp(a) /\ a.panel = "interview" /\ a.idx = 0 /\ a.total = Count
      BY <1>1 DEF IsApp
    <2>3. NoneAsked(ms)
      BY <1>1, EmitFits DEF Id
    <2>4. Ask(a, ms) /\ mic' = mic
      BY <1>3, <2>1 DEF Started
    <2> HIDE DEF a, ms
    <2>5. ~(a.idx >= a.total)
      BY <2>2, ClientAssumption
    <2>6. QED
      BY <1>2, <2>2, <2>3, <2>4, <2>5, AskHushed
  <1>4. CASE Extended(c)
    <2> DEFINE a == [app EXCEPT !.session = c.s, !.source = c.s, !.panel = "interview",
                       !.total = srv[c.s].size + Extra]
    <2>1. IsApp(a) /\ a.panel = "interview"
      BY <1>1 DEF IsApp
    <2>2. Ask(a, msgs) /\ mic' = mic /\ ~mic
      BY <1>4 DEF Extended, HushInv
    <2> HIDE DEF a
    <2>3. QED
      BY <1>1, <1>2, <2>1, <2>2, AskHushed
  <1>5. CASE Refreshed(c)
    <2>1. ~mic' /\ ~voice' /\ msgs' = msgs
      BY <1>5 DEF Refreshed, Complete, HushInv
    <2>2. QED
      BY <1>1, <1>2, <2>1, Hushed
  <1>6. CASE Failed(c)
    <2>1. mic' = mic /\ voice' = voice /\ msgs' = msgs
      BY <1>6 DEF Failed
    <2>2. CASE c.kind = "extend"
      BY <1>1, <1>2, <2>1, <2>2, Hushed DEF HushInv
    <2>3. CASE c.kind # "extend"
      <3>1. \/ app' = [Show(app, "setup", "setup") EXCEPT !.startOn = TRUE]
            \/ app' = Show(app, "history", "idle")
            \/ app' = app
        BY <1>6, <2>3 DEF Failed
      <3>2. app'.box = app.box /\ (app'.panel = "completion" => app.panel = "completion")
        BY <1>1, <3>1 DEF Show, IsApp
      <3>3. QED
        BY <1>1, <1>2, <2>1, <3>2, Hushed DEF HushInv
    <2>4. QED
      BY <2>2, <2>3
  <1>7. CASE DetailShown(c) \/ HistoryLoaded(c) \/ HistoryFails(c) \/ LoggedIn(c) \/ LoggedOut(c)
    <2>1. /\ app'.box = app.box /\ mic' = mic /\ voice' = voice
          /\ app'.panel = "completion" => app.panel = "completion"
      BY <1>1, <1>7 DEF DetailShown, HistoryLoaded, HistoryFails, LoggedIn, LoggedOut,
                        Restarted, Show, IsApp
    <2>2. msgs' = msgs \/ msgs' = <<>>
      BY <1>7 DEF DetailShown, HistoryLoaded, HistoryFails, LoggedIn, LoggedOut
    <2>3. NoneAsked(msgs')
      BY <1>1, <2>2 DEF NoneAsked
    <2>4. QED
      BY <1>2, <2>1, <2>3, Hushed DEF HushInv
  <1>8. QED
    BY <1>3, <1>4, <1>5, <1>6, <1>7

(* Nothing is asked by a message that is sent, handled or lost.            *)
LEMMA SocketAsksNone ==
  ASSUME ClientInv, NoneAsked(msgs),
         \/ Connected \/ Reopen \/ Dropped \/ Expired
         \/ \E i \in DOMAIN msgs : Handled(i) \/ JoinFails(i) \/ HandlerFails(i)
  PROVE  NoneAsked(msgs')
  <1>1. msgs \in Seq(Message) /\ Mail(msgs)
    BY DEF ClientInv, Mail
  <1>2. CASE Connected
    <2> DEFINE sent == [i \in DOMAIN msgs |-> [msgs[i] EXCEPT !.at = "sent"]]
               join == [ev |-> "join", s |-> pending, q |-> 0, of |-> pending,
                        ok |-> TRUE, at |-> "sent"]
    <2>1. Mail(sent) /\ join.ev = "join" /\ join \in Message
      BY Flushed DEF ClientInv, Mail, Message
    <2>2. \A i \in DOMAIN sent : sent[i].ev = "join"
      <3> TAKE i \in DOMAIN sent
      <3>1. msgs[i] \in Message /\ msgs[i].ev = "join"
        BY <1>1 DEF NoneAsked
      <3>2. QED
        BY <3>1 DEF Message
    <2>3. msgs' = sent \/ msgs' = Append(sent, join)
      BY <1>2 DEF Connected
    <2> HIDE DEF sent, join
    <2>4. sent \in Seq(Message)
      BY <2>1 DEF Mail
    <2>5. \A i \in DOMAIN Append(sent, join) : Append(sent, join)[i] = join
            \/ (i \in DOMAIN sent /\ Append(sent, join)[i] = sent[i])
      BY <2>1, <2>4
    <2>6. QED
      BY <2>1, <2>2, <2>3, <2>5 DEF NoneAsked
  <1>3. CASE Reopen \/ Dropped \/ Expired
    BY <1>3 DEF Reopen, Dropped, Expired, NoneAsked
  <1>4. ASSUME NEW i \in DOMAIN msgs, Handled(i) \/ JoinFails(i) \/ HandlerFails(i)
        PROVE  NoneAsked(msgs')
    <2>1. msgs' = RemoveAt(msgs, i)
      BY <1>4 DEF Handled, JoinFails, HandlerFails, NoneAsked
    <2>2. QED
      BY <1>1, <2>1, RemoveFits
  <1>5. QED
    BY <1>2, <1>3, <1>4

LEMMA SocketHush ==
  ASSUME ClientInv, RoomInv, WaitInv, HushInv, Socket
  PROVE  HushInv'
  <1>1. CASE \/ Connected \/ Reopen \/ Dropped \/ Expired
             \/ \E i \in DOMAIN msgs : Handled(i) \/ JoinFails(i) \/ HandlerFails(i)
    <2>1. app' = app /\ mic' = mic /\ voice' = voice /\ calls' = calls
      BY <1>1 DEF Connected, Reopen, Dropped, Expired, Handled, JoinFails, HandlerFails, rest
    <2>2. NoneAsked(msgs) => NoneAsked(msgs')
      BY <1>1, SocketAsksNone
    <2>3. QED
      BY <2>1, <2>2 DEF HushInv
  <1>2. ASSUME NEW i \in DOMAIN msgs, Delivered(i)
        PROVE  HushInv'
    <2> DEFINE ms == RemoveAt(msgs, i)
    <2>1. IsApp(app) /\ Mail(msgs) /\ msgs[i].ev # "join"
      BY <1>2 DEF ClientInv, AppOK, Mail, Delivered, RoomInv, JoinsOpen
    <2>2. NoneAsked(ms) /\ calls' = {} /\ mic' = mic
      BY <1>2, <2>1, RemoveFits DEF WaitInv, NoneAsked, Delivered, rest
    <2>3. ~mic /\ app.panel # "completion"
      BY <2>1 DEF HushInv, NoneAsked
    <2> HIDE DEF ms
    <2>4. CASE ~msgs[i].ok
      <3>1. app' = app /\ msgs' = ms
        BY <1>2, <2>4 DEF Delivered, ms
      <3>2. QED
        BY <2>2, <2>3, <3>1, Hushed
    <2>5. CASE msgs[i].ok /\ msgs[i].ev = "end"
      <3>1. ~voice' /\ msgs' = ms
        BY <1>2, <2>5 DEF Delivered, Complete, ms
      <3>2. QED
        BY <2>2, <2>3, <3>1, Hushed
    <2>6. CASE msgs[i].ok /\ msgs[i].ev # "end"
      <3> DEFINE a == [app EXCEPT !.idx = @ + 1]
      <3>1. IsApp(a) /\ a.panel = app.panel /\ Ask(a, ms)
        BY <1>2, <2>1, <2>6 DEF IsApp, Delivered, ms
      <3> HIDE DEF a
      <3>2. QED
        BY <2>2, <2>3, <3>1, AskHushed
    <2>7. QED
      BY <2>4, <2>5, <2>6
  <1>3. QED
    BY <1>1, <1>2 DEF Socket

LEMMA HushStep ==
  ASSUME Hasty = FALSE, ClientInv, RoomInv, WaitInv, HushInv, [Next]_vars
  PROVE  HushInv'
  <1>1. IsApp(app)
    BY DEF ClientInv, AppOK
  <1>2. CASE Boot
    <2>1. /\ app'.box = app.box /\ app'.panel = "setup" /\ mic' = mic /\ voice' = voice
          /\ msgs' = msgs /\ calls' = calls /\ app.panel = "boot"
      BY <1>1, <1>2 DEF Boot, Show, IsApp, rest
    <2>2. QED
      BY <2>1 DEF HushInv
  <1>3. CASE VoiceEnds
    <2>1. voice /\ voice' = FALSE /\ msgs' = msgs /\ calls' = calls
      BY <1>3 DEF VoiceEnds, rest
    <2>2. CASE app.st = "speaking"
      <3>1. app'.box = FALSE /\ app'.panel = app.panel
        BY <1>1, <1>3, <2>2 DEF VoiceEnds, Listen, IsApp
      <3>2. QED
        BY <2>1, <2>2, <3>1 DEF HushInv
    <2>3. CASE app.st # "speaking"
      BY <1>3, <2>1, <2>3 DEF VoiceEnds, HushInv
    <2>4. QED
      BY <2>2, <2>3
  <1>4. CASE MicEnds
    <2>1. /\ mic /\ msgs' = msgs /\ calls' = calls /\ app'.panel = app.panel
          /\ app'.box => ~mic'
      BY <1>1, <1>4 DEF MicEnds, Listen, IsApp, rest
    <2>2. QED
      BY <2>1 DEF HushInv
  <1>5. CASE UNCHANGED vars
    BY <1>5 DEF vars, HushInv
  <1>6. QED
    BY <1>2, <1>3, <1>4, <1>5, UserHush, ReplyHush, SocketHush DEF Next, Reply

(* "Stop any active speech or recognition": of a user who waits for the    *)
(* reply, nothing is listened to when the result is shown, however the     *)
(* interview came to its end.  With Hasty = TRUE TLC refutes it.           *)
THEOREM ResultIsNotHeard ==
  ASSUME Hasty = FALSE
  PROVE  Spec => []EndedIsNotHeard
  <1>1. Init => HushInv
    <2>1. SUFFICES ASSUME Init PROVE HushInv
      OBVIOUS
    <2>2. app.box = FALSE /\ app.panel = "boot" /\ calls = {} /\ msgs = <<>>
      BY <2>1 DEF Init
    <2>3. NoneAsked(msgs)
      BY <2>2 DEF NoneAsked
    <2>4. QED
      BY <2>2, <2>3 DEF HushInv
  <1>2. ClientInv /\ RoomInv /\ (WaitInv /\ AdvanceInv) /\ HushInv /\ [Next]_vars => HushInv'
    BY HushStep
  <1>3. HushInv => EndedIsNotHeard
    BY DEF HushInv, EndedIsNotHeard
  <1>4. QED
    BY <1>1, <1>2, <1>3, ClientInvariant, RoomInvariant, WaitingInvariant, PTL DEF Spec

-----------------------------------------------------------------------------
(* Whom the socket names                                                   *)

Has(rows, s) == s # NoSession /\ rows[s].size > 0

Real(ms, rows) == \A i \in DOMAIN ms : ms[i].ev # "join" => Has(rows, ms[i].s)

(* The page speaks of sessions that exist.                                 *)
RealInv ==
  /\ app.total \in Nat /\ (app.total > 0 => app.session # NoSession)
  /\ app.session # NoSession => Has(srv, app.session)
  /\ \A c \in calls : c.kind \in {"extend", "refresh"} => Has(srv, c.s)
  /\ Real(msgs, srv)

(* Nobody logs in or out, and an open connection names the account.        *)
NamesInv ==
  /\ \A c \in calls : c.kind \notin {"login", "logout"}
  /\ net = "open" => ident = account

(* No session of the server is lost.                                       *)
LEMMA RowsStay ==
  ASSUME ServerOK, ServerOK', Grows
  PROVE  \A s \in Id : Has(srv, s) => Has(srv', s)
  <1>1. ASSUME NEW s \in Id, Has(srv, s)
        PROVE  Has(srv', s)
    <2>1. s \in Session /\ srv[s].size > 0 /\ srv'[s].size >= srv[s].size
      BY <1>1 DEF Has, Id, Grows, Grown, Exists
    <2>2. srv[s].size \in Nat /\ srv'[s].size \in Nat
      BY <2>1 DEF ServerOK, Row
    <2>3. QED
      BY <1>1, <2>1, <2>2 DEF Has
  <1>2. QED
    BY <1>1

(* A message asks for what another one asked for, for the room, or for a   *)
(* session that exists.                                                    *)
LEMMA RealMail ==
  ASSUME ServerOK, ServerOK', Grows, NEW ms, Mail(ms), Real(ms, srv), NEW new,
         \A i \in DOMAIN new :
           \/ new[i].ev = "join"
           \/ \E j \in DOMAIN ms : ms[j].ev = new[i].ev /\ ms[j].s = new[i].s
           \/ Has(srv', new[i].s)
  PROVE  Real(new, srv')
  <1>1. SUFFICES ASSUME NEW i \in DOMAIN new, new[i].ev # "join"
                 PROVE  Has(srv', new[i].s)
    BY DEF Real
  <1>2. CASE \E j \in DOMAIN ms : ms[j].ev = new[i].ev /\ ms[j].s = new[i].s
    <2>1. PICK j \in DOMAIN ms : ms[j].ev = new[i].ev /\ ms[j].s = new[i].s
      BY <1>2
    <2>2. ms[j] \in Message /\ Has(srv, ms[j].s)
      BY <1>1, <2>1 DEF Mail, Real
    <2>3. ms[j].s \in Id
      BY <2>2 DEF Message
    <2>4. QED
      BY <2>1, <2>2, <2>3, RowsStay
  <1>3. QED
    BY <1>1, <1>2

LEMMA RealEmit ==
  ASSUME ServerOK, ServerOK', Grows, NEW ms, Mail(ms), Real(ms, srv),
         NEW ev \in {"answer", "end", "join"}, NEW s \in Id, NEW q \in Nat,
         NEW of \in Id, ev = "answer" => s = of, ev # "join" => Has(srv', s)
  PROVE  Real(Emit(ms, ev, s, q, of), srv')
  <1> DEFINE new == Emit(ms, ev, s, q, of)
  <1>1. ms \in Seq(Message) /\ Emit(ms, ev, s, q, of) \in Seq(Message)
    BY Emitted DEF Mail
  <1>2. \A j \in DOMAIN ms : new[j] = ms[j]
    BY <1>1, EmittedAre
  <1>3. PICK k \in DOMAIN new :
          /\ k \notin DOMAIN ms
          /\ DOMAIN new = DOMAIN ms \cup {k}
          /\ new[k].ev = ev
          /\ new[k].s = s
          /\ new[k].q = q
          /\ new[k].at # "done"
    BY <1>1, EmittedAre, Zenon
  <1> HIDE DEF new
  <1>4. ASSUME NEW i \in DOMAIN new
        PROVE  \/ new[i].ev = "join"
               \/ \E j \in DOMAIN ms : ms[j].ev = new[i].ev /\ ms[j].s = new[i].s
               \/ Has(srv', new[i].s)
    <2>1. CASE i = k
      BY <1>3, <2>1
    <2>2. CASE i # k
      BY <1>2, <1>3, <2>2
    <2>3. QED
      BY <2>1, <2>2
  <1>5. Real(new, srv')
    BY <1>4, RealMail
  <1>6. QED
    BY <1>5 DEF new

(* Asking the question of a session that exists, or of none.               *)
LEMMA RealAsk ==
  ASSUME ServerOK, ServerOK', Grows, NEW a, AppOK(a), a.total \in Nat,
         a.total > 0 => a.session # NoSession, a.session # NoSession => Has(srv', a.session),
         NEW ms, Mail(ms), Real(ms, srv), Ask(a, ms),
         \A c \in calls' : c.kind \in {"extend", "refresh"} => Has(srv', c.s)
  PROVE  RealInv'
  <1>1. a.session \in Id /\ a.source \in Id /\ IsApp(a)
    BY DEF AppOK
  <1>2. app'.total = a.total /\ app'.session = a.session
    BY <1>1, AskLimit
  <1>3. Real(ms, srv')
    BY RealMail
  <1>4. a.session # NoSession => Real(Emit(ms, "end", a.session, 0, a.source), srv')
    BY <1>1, RealEmit
  <1>5. Real(msgs', srv')
    BY <1>3, <1>4 DEF Ask
  <1>6. QED
    BY <1>2, <1>5 DEF RealInv

LEMMA UserReal ==
  ASSUME ClientInv, ServerOK, ServerOK', Grows, RealInv, UserStep
  PROVE  RealInv'
  <1>1. Mail(msgs) /\ IsApp(app) /\ app.session \in Id /\ app.source \in Id /\ app.idx \in Nat
    BY DEF ClientInv, AppOK, Mail
  <1>2. /\ app.session # NoSession => Has(srv', app.session)
        /\ \A c \in calls : c.kind \in {"extend", "refresh"} => Has(srv', c.s)
    BY <1>1, RowsStay DEF RealInv, ClientInv
  <1>3. Real(msgs, srv')
    BY <1>1, RealMail DEF RealInv
  <1>4. Real(msgs', srv')
    <2>1. CASE Submit
      <3>1. app.session # NoSession /\ app.session = app.source
        BY <1>1, <2>1 DEF Submit, RealInv, ClientInv, AppOK
      <3>2. Real(Emit(msgs, "answer", app.session, app.idx + 1, app.source), srv')
        BY <1>1, <1>2, <3>1, RealEmit DEF RealInv
      <3>3. QED
        BY <2>1, <3>2 DEF Submit
    <2>2. CASE EndEarly
      <3>1. Real(Emit(msgs, "end", app.session, 0, app.source), srv')
        BY <1>1, <1>2, <2>2, RealEmit DEF RealInv, EndEarly
      <3>2. QED
        BY <2>2, <3>1 DEF EndEarly
    <2>3. CASE ~Submit /\ ~EndEarly
      <3>1. msgs' = msgs
        BY <2>3 DEF UserStep, Start, Record, RestartApp, Extend, RefreshOverallFeedback,
               LoadHistory, BackToSetup, ViewHistoryDetail, RefreshHistoryDetail, SignIn,
               LoginOrLogout
      <3>2. QED
        BY <1>3, <3>1
    <2>4. QED
      BY <2>1, <2>2, <2>3
  <1>5. /\ app'.total \in Nat /\ (app'.total > 0 => app'.session # NoSession)
        /\ app'.session # NoSession => Has(srv', app'.session)
    <2>1. CASE RestartApp
      BY <1>1, <2>1 DEF RestartApp, Restarted, Show, IsApp
    <2>2. CASE ~RestartApp
      <3>1. app'.total = app.total /\ app'.session = app.session
        BY <1>1, <2>2 DEF UserStep, Start, Submit, Record, EndEarly, Extend,
               RefreshOverallFeedback, LoadHistory, BackToSetup, ViewHistoryDetail,
               RefreshHistoryDetail, SignIn, LoginOrLogout, Show, Listen, IsApp
      <3>2. QED
        BY <1>2, <3>1 DEF RealInv
    <2>3. QED
      BY <2>1, <2>2
  <1>6. ASSUME NEW c \in calls', c.kind \in {"extend", "refresh"}
        PROVE  Has(srv', c.s)
    <2>1. CASE Extend \/ RefreshOverallFeedback
      <3>1. c \in calls \/ c.s = app.session
        BY <2>1 DEF Extend, RefreshOverallFeedback, Calls
      <3>2. app.session # NoSession
        BY <2>1 DEF Extend, RefreshOverallFeedback
      <3>3. QED
        BY <1>2, <1>6, <3>1, <3>2
    <2>2. CASE ~Extend /\ ~RefreshOverallFeedback
      <3>1. \/ calls' = calls
            \/ \E kind \in {"start", "history", "detail", "redetail", "login", "logout"} :
                 \E s : Calls(kind, s)
        BY <2>2 DEF UserStep, Start, Submit, Record, EndEarly, RestartApp, LoadHistory,
               BackToSetup, ViewHistoryDetail, RefreshHistoryDetail, SignIn, LoginOrLogout, rest
      <3>2. c \in calls
        BY <1>6, <3>1 DEF Calls
      <3>3. QED
        BY <1>2, <1>6, <3>2
    <2>3. QED
      BY <2>1, <2>2
  <1>7. QED
    BY <1>4, <1>5, <1>6 DEF RealInv

LEMMA ReplyReal ==
  ASSUME ClientInv, ServerOK, ServerOK', Grows, RealInv, NEW c \in calls,
         \/ Started(c) \/ Extended(c) \/ Refreshed(c) \/ DetailShown(c) \/ Failed(c)
         \/ HistoryLoaded(c) \/ HistoryFails(c) \/ LoggedIn(c) \/ LoggedOut(c)
  PROVE  RealInv'
  <1>1. /\ Mail(msgs) /\ IsApp(app) /\ AppOK(app) /\ app.session \in Id /\ c.s \in Id
        /\ srv \in [Session -> Row]
    BY DEF ClientInv, AppOK, Mail, ServerOK
  <1>2. /\ app.session # NoSession => Has(srv', app.session)
        /\ \A d \in calls : d.kind \in {"extend", "refresh"} => Has(srv', d.s)
    BY <1>1, RowsStay DEF RealInv, ClientInv
  <1>3. Real(msgs, srv')
    BY <1>1, RealMail DEF RealInv
  <1>4. \A d \in calls' : d \in calls \/ d.kind = "history"
    <2>1. CASE Failed(c)
      BY <2>1 DEF Failed
    <2>2. CASE ~Failed(c)
      <3>1. Taken(c)
        BY <2>2 DEF Started, Extended, Refreshed, DetailShown, HistoryLoaded, HistoryFails,
               LoggedIn, LoggedOut
      <3>2. QED
        BY <3>1 DEF Taken
    <2>3. QED
      BY <2>1, <2>2
  <1>5. \A d \in calls' : d.kind \in {"extend", "refresh"} => Has(srv', d.s)
    BY <1>2, <1>4
  <1>6. CASE Started(c)
    <2>1. PICK s \in Session :
            /\ srv' = [srv EXCEPT ![s] = [NoRow EXCEPT !.owner = c.who, !.size = Count]]
            /\ Ask([app EXCEPT !.session = s, !.source = s, !.idx = 0, !.total = Count,
                      !.panel = "interview"], Emit(msgs, "join", s, 0, s))
      BY <1>6 DEF Started
    <2> DEFINE a == [app EXCEPT !.session = s, !.source = s, !.idx = 0, !.total = Count,
                       !.panel = "interview"]
               ms == Emit(msgs, "join", s, 0, s)
               new == [NoRow EXCEPT !.owner = c.who, !.size = Count]
    <2>2. s \in Id /\ s # NoSession /\ Count \in Nat /\ Count > 0
      BY ClientAssumption DEF Id
    <2>3. AppOK(a) /\ a.total = Count /\ a.session = s /\ Ask(a, ms)
      BY <1>1, <2>1, <2>2 DEF AppOK, IsApp
    <2>4. new.size = Count
      BY DEF NoRow
    <2> HIDE DEF a, new
    <2>5. Has(srv', s)
      <3>1. srv' = [srv EXCEPT ![s] = new]
        BY <2>1 DEF new
      <3>2. srv'[s] = new
        BY <1>1, <3>1
      <3>3. QED
        BY <2>2, <2>4, <3>2 DEF Has
    <2>6. Mail(ms)
      BY <1>1, <2>2, Emitted
    <2>7. Real(ms, srv)
      <3>1. msgs \in Seq(Message) /\ ms \in Seq(Message)
        BY <1>1, <2>6 DEF Mail
      <3>2. \A j \in DOMAIN msgs : ms[j] = msgs[j]
        BY <3>1, EmittedAre
      <3>3. PICK k \in DOMAIN ms :
              /\ k \notin DOMAIN msgs
              /\ DOMAIN ms = DOMAIN msgs \cup {k}
              /\ ms[k].ev = "join"
              /\ ms[k].s = s
              /\ ms[k].q = 0
              /\ ms[k].at # "done"
        BY <3>1, EmittedAre, Zenon
      <3> HIDE DEF ms
      <3>4. QED
        BY <3>2, <3>3 DEF Real, RealInv
    <2> HIDE DEF ms
    <2>8. QED
      BY <1>5, <2>2, <2>3, <2>5, <2>6, <2>7, RealAsk
  <1>7. CASE Extended(c)
    <2> DEFINE a == [app EXCEPT !.session = c.s, !.source = c.s, !.panel = "interview",
                       !.total = srv[c.s].size + Extra]
    <2>1. /\ c.s \in Session /\ c.s # NoSession /\ c.kind = "extend"
          /\ srv[c.s].size + Extra \in Nat
      BY <1>1, <1>7, ClientAssumption DEF Extended, Accessible, Exists, Id, Row
    <2>2. AppOK(a) /\ a.total = srv[c.s].size + Extra /\ a.session = c.s /\ Ask(a, msgs)
      BY <1>1, <1>7 DEF AppOK, IsApp, Extended
    <2> HIDE DEF a
    <2>3. Has(srv', a.session)
      BY <1>2, <2>1, <2>2
    <2>4. QED
      BY <1>1, <1>5, <2>1, <2>2, <2>3, RealAsk DEF RealInv
  <1>8. CASE \/ Refreshed(c) \/ DetailShown(c) \/ Failed(c) \/ HistoryLoaded(c)
             \/ HistoryFails(c) \/ LoggedIn(c) \/ LoggedOut(c)
    <2>1. msgs' = msgs \/ msgs' = <<>>
      BY <1>8 DEF Refreshed, DetailShown, Failed, HistoryLoaded, HistoryFails, LoggedIn, LoggedOut
    <2>2. Real(<<>>, srv')
      BY DEF Real
    <2>3. Real(msgs', srv')
      BY <1>3, <2>1, <2>2
    <2>4. \/ app'.total = app.total /\ app'.session = app.session
          \/ app'.total = 0 /\ app'.session = NoSession
          \/ app'.total = app.total /\ app'.session = c.s /\ c.kind = "refresh"
      <3>1. CASE Refreshed(c)
        BY <1>1, <3>1 DEF Refreshed, Complete, Show, IsApp
      <3>2. CASE DetailShown(c) \/ HistoryLoaded(c) \/ HistoryFails(c) \/ LoggedIn(c)
        BY <1>1, <3>2 DEF DetailShown, HistoryLoaded, HistoryFails, LoggedIn, Show, IsApp
      <3>3. CASE Failed(c)
        BY <1>1, <3>3 DEF Failed, Show, IsApp
      <3>4. CASE LoggedOut(c)
        BY <1>1, <3>4 DEF LoggedOut, Restarted, Show, IsApp
      <3>5. QED
        BY <1>8, <3>1, <3>2, <3>3, <3>4
    <2>5. c.kind = "refresh" => Has(srv', c.s) /\ c.s # NoSession
      BY <1>2 DEF Has
    <2>6. QED
      BY <1>2, <1>5, <2>3, <2>4, <2>5 DEF RealInv
  <1>9. QED
    BY <1>6, <1>7, <1>8

LEMMA SocketReal ==
  ASSUME ClientInv, ServerOK, ServerOK', Grows, RealInv, Socket
  PROVE  RealInv'
  <1>1. Mail(msgs) /\ msgs \in Seq(Message) /\ IsApp(app) /\ AppOK(app) /\ app.session \in Id
    BY DEF ClientInv, AppOK, Mail
  <1>2. /\ app.session # NoSession => Has(srv', app.session)
        /\ \A d \in calls' : d.kind \in {"extend", "refresh"} => Has(srv', d.s)
    <2>1. calls' = calls
      BY DEF Socket, Connected, Reopen, Dropped, Expired, Handled, JoinFails, HandlerFails, Delivered, rest
    <2>2. QED
      BY <1>1, <2>1, RowsStay DEF RealInv, ClientInv
  <1>3. ASSUME app' = app,
               \A k \in DOMAIN msgs' : msgs'[k].ev = "join"
                 \/ \E j \in DOMAIN msgs : msgs[j].ev = msgs'[k].ev /\ msgs[j].s = msgs'[k].s
        PROVE  RealInv'
    <2>1. Real(msgs', srv')
      BY <1>1, <1>3, RealMail DEF RealInv
    <2>2. QED
      BY <1>2, <1>3, <2>1 DEF RealInv
  <1>4. CASE Connected
    <2> DEFINE sent == [i \in DOMAIN msgs |-> [msgs[i] EXCEPT !.at = "sent"]]
               join == [ev |-> "join", s |-> pending, q |-> 0, of |-> pending,
                        ok |-> TRUE, at |-> "sent"]
    <2>1. /\ app' = app
          /\ msgs' = IF pending = NoSession \/ Contains(sent, join) THEN sent
                       ELSE Append(sent, join)
      BY <1>4 DEF Connected, rest
    <2>2. /\ sent \in Seq(Message) /\ DOMAIN sent = DOMAIN msgs
          /\ \A i \in DOMAIN msgs : sent[i].ev = msgs[i].ev /\ sent[i].s = msgs[i].s
      <3>1. \A i \in DOMAIN msgs : msgs[i] \in Message
        BY <1>1
      <3>2. \A i \in DOMAIN msgs : sent[i] \in Message
        BY <3>1 DEF Message
      <3>3. QED
        BY <1>1, <3>1, <3>2 DEF Message
    <2>3. join \in Message /\ join.ev = "join"
      BY DEF ClientInv, Message
    <2> HIDE DEF sent, join
    <2>4. \A k \in DOMAIN Append(sent, join) : Append(sent, join)[k] = join
            \/ (k \in DOMAIN sent /\ Append(sent, join)[k] = sent[k])
      BY <2>2, <2>3
    <2>5. \A k \in DOMAIN msgs' : msgs'[k].ev = "join"
            \/ \E j \in DOMAIN msgs : msgs[j].ev = msgs'[k].ev /\ msgs[j].s = msgs'[k].s
      <3>1. CASE msgs' = sent
        BY <2>2, <3>1
      <3>2. CASE msgs' = Append(sent, join)
        BY <2>2, <2>3, <2>4, <3>2
      <3>3. QED
        BY <2>1, <3>1, <3>2
    <2>6. QED
      BY <1>3, <2>1, <2>5
  <1>5. CASE Reopen \/ Expired \/ Dropped
    <2>1. app' = app /\ (msgs' = msgs \/ msgs' = <<>>)
      BY <1>5 DEF Reopen, Expired, Dropped, rest
    <2>2. QED
      BY <1>3, <2>1
  <1>6. ASSUME NEW i \in DOMAIN msgs, Handled(i) \/ JoinFails(i) \/ HandlerFails(i)
        PROVE  RealInv'
    <2>1. app' = app
      BY <1>6 DEF Handled, JoinFails, HandlerFails
    <2>2. CASE msgs' = RemoveAt(msgs, i)
      BY <1>1, <1>3, <2>1, <2>2, RemovedAre
    <2>3. CASE msgs' # RemoveAt(msgs, i)
      <3>1. \E ok : msgs' = [msgs EXCEPT ![i].at = "done", ![i].ok = ok]
        BY <1>6, <2>3 DEF Handled, JoinFails, HandlerFails
      <3>2. \A j \in DOMAIN msgs : msgs[j] \in Message
        BY <1>1
      <3>3. /\ DOMAIN msgs' = DOMAIN msgs
            /\ \A j \in DOMAIN msgs : msgs'[j].ev = msgs[j].ev /\ msgs'[j].s = msgs[j].s
        BY <3>1, <3>2 DEF Message
      <3>4. QED
        BY <1>3, <2>1, <3>3
    <2>4. QED
      BY <2>2, <2>3
  <1>7. ASSUME NEW i \in DOMAIN msgs, Delivered(i)
        PROVE  RealInv'
    <2> DEFINE ms == RemoveAt(msgs, i)
    <2>1. Mail(ms)
      BY <1>1, Removed
    <2>2. \A k \in DOMAIN ms : \E j \in DOMAIN msgs : ms[k] = msgs[j]
      BY <1>1, RemovedAre
    <2> HIDE DEF ms
    <2>3. Real(ms, srv) /\ Real(ms, srv')
      <3>1. Real(ms, srv)
        BY <2>2 DEF Real, RealInv
      <3>2. QED
        BY <2>1, <3>1, RealMail
    <2>4. CASE ~(msgs[i].ok /\ msgs[i].ev # "end")
      <3>1. app'.total = app.total /\ app'.session = app.session
        BY <1>1, <1>7, <2>4 DEF Delivered, Complete, Show, IsApp
      <3>2. msgs' = ms
        BY <1>7, <2>4 DEF Delivered, ms
      <3>3. QED
        BY <1>2, <2>3, <3>1, <3>2 DEF RealInv
    <2>5. CASE msgs[i].ok /\ msgs[i].ev # "end"
      <3> DEFINE a == [app EXCEPT !.idx = @ + 1]
      <3>1. AppOK(a) /\ a.total = app.total /\ a.session = app.session
        BY <1>1 DEF AppOK, IsApp
      <3>2. Ask(a, ms)
        BY <1>7, <2>5 DEF Delivered, ms
      <3> HIDE DEF a
      <3>3. QED
        BY <1>2, <2>1, <2>3, <3>1, <3>2, RealAsk DEF RealInv
    <2>6. QED
      BY <2>4, <2>5
  <1>8. QED
    BY <1>4, <1>5, <1>6, <1>7 DEF Socket

LEMMA RealStep ==
  ASSUME ClientInv, ServerOK, ServerOK', RealInv, [Next]_vars
  PROVE  RealInv'
  <1>1. Grows
    BY ServerStep
  <1>2. CASE Boot \/ VoiceEnds \/ MicEnds \/ UNCHANGED vars
    <2>1. /\ IsApp(app) /\ calls' = calls /\ srv' = srv /\ msgs' = msgs
      BY <1>2 DEF ClientInv, AppOK, Boot, VoiceEnds, MicEnds, vars, rest
    <2>2. app'.total = app.total /\ app'.session = app.session
      BY <1>2, <2>1 DEF Boot, VoiceEnds, MicEnds, vars, Listen, Show, IsApp
    <2>3. QED
      BY <2>1, <2>2 DEF RealInv
  <1>3. QED
    BY <1>1, <1>2, UserReal, ReplyReal, SocketReal DEF Next, Reply

LEMMA NamesStep ==
  ASSUME MaxSignIns = 0, FormInv, NamesInv, [Next]_vars
  PROVE  NamesInv'
  <1>1. ~LoginOrLogout
    BY DEF LoginOrLogout, FormInv
  <1>2. \A c \in calls : ~LoggedIn(c) /\ ~LoggedOut(c)
    BY DEF NamesInv, LoggedIn, LoggedOut
  <1>3. \/ net' = net /\ ident' = ident /\ account' = account
        \/ net' # "open"
        \/ Connected
    BY <1>1, <1>2 DEF Next, Boot, UserStep, Start, Submit, Record, EndEarly, RestartApp, Extend,
           RefreshOverallFeedback, LoadHistory, BackToSetup, ViewHistoryDetail,
           RefreshHistoryDetail, SignIn, Socket, Reopen, Dropped,
           Expired, Handled, JoinFails, HandlerFails, Delivered, VoiceEnds, MicEnds, Reply,
           Started,
           Extended, Refreshed, DetailShown, Failed, HistoryLoaded, HistoryFails,
           vars, rest, wire, Connect
  <1>4. Connected => ident' = account'
    BY DEF Connected, Handshake, rest
  <1>5. net' = "open" => ident' = account'
    BY <1>3, <1>4 DEF NamesInv
  <1>6. \A c \in calls' : c.kind \notin {"login", "logout"}
    <2>1. \/ calls' \subseteq calls
          \/ \E kind \in {"start", "extend", "refresh", "history", "detail", "redetail"} :
               \E s : Calls(kind, s)
          \/ \E c \in calls : Failed(c)
      BY <1>1, <1>2 DEF Next, Boot, UserStep, Start, Submit, Record, EndEarly, RestartApp,
           Extend, RefreshOverallFeedback, LoadHistory, BackToSetup, ViewHistoryDetail,
           RefreshHistoryDetail, SignIn, Socket, Connected, Reopen, Dropped,
           Expired, Handled, JoinFails, HandlerFails, Delivered, VoiceEnds, MicEnds, Reply,
           Started,
           Extended, Refreshed, DetailShown, HistoryLoaded, HistoryFails,
           vars, rest, Taken
    <2>2. CASE calls' \subseteq calls
      BY <2>2 DEF NamesInv
    <2>3. CASE \E kind \in {"start", "extend", "refresh", "history", "detail", "redetail"} :
                 \E s : Calls(kind, s)
      BY <2>3 DEF NamesInv, Calls
    <2>4. CASE \E c \in calls : Failed(c)
      BY <2>4 DEF NamesInv, Failed
    <2>5. QED
      BY <2>1, <2>2, <2>3, <2>4
  <1>7. QED
    BY <1>5, <1>6 DEF NamesInv

(* As long as nobody logs in or out, whatever else the user and the        *)
(* network do: the connection names the account, and what is sent of a     *)
(* session of the account is allowed.  A login on a connection that is     *)
(* open is what breaks it.                                                 *)
THEOREM SocketNamesTheAccount ==
  ASSUME MaxSignIns = 0
  PROVE  Spec => []OwnAnswersAllowed
  <1>1. Init => FormInv /\ RealInv /\ NamesInv
    <2>1. Init => RealInv /\ NamesInv
      BY DEF Init, RealInv, NamesInv, Real
    <2>2. QED
      BY <2>1, FormInit
  <1>2. ClientInv /\ ServerOK /\ ServerOK' /\ (FormInv /\ RealInv /\ NamesInv) /\ [Next]_vars
          => (FormInv /\ RealInv /\ NamesInv)'
    BY FormStep, RealStep, NamesStep
  <1>3. ClientInv /\ FormInv /\ RealInv /\ NamesInv => OwnAnswersAllowed
    <2>1. SUFFICES ASSUME ClientInv, FormInv, RealInv, NamesInv, NEW i \in DOMAIN msgs,
                          msgs[i].at = "sent", msgs[i].ev # "join",
                          srv[msgs[i].s].owner = account
                   PROVE  Accessible(msgs[i].s, ident)
      BY DEF OwnAnswersAllowed
    <2>2. net = "open"
      BY <2>1 DEF FormInv, NetOK, Buffered
    <2>3. ident = account /\ Has(srv, msgs[i].s)
      BY <2>1, <2>2 DEF NamesInv, RealInv, Real
    <2>4. QED
      BY <2>1, <2>3 DEF Accessible, Exists, Has
  <1>4. QED
    BY <1>1, <1>2, <1>3, ClientInvariant, ServerInvariant, PTL DEF Spec

=============================================================================
