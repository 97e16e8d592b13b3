--------------------------- MODULE InterviewClient ---------------------------
(***************************************************************************)
(* The page of one browser (app.js, socketManager.js) and what it sees of  *)
(* the server: HTTP calls whose replies come when they come, a socket that *)
(* may be down when something is emitted and may lose what is under way,   *)
(* and a user who presses what the shown panel offers.                     *)
(*                                                                         *)
(* Speech and recognition are here only as far as they call back; their    *)
(* own state is AnswerCapture's.  The sessions of the server are those of  *)
(* InterviewSession, reduced to what a reply depends on.                   *)
(***************************************************************************)
EXTENDS Integers, FiniteSets, Sequences, SequencesExt

CONSTANTS
  Session,       \* session ids
  Count,         \* questions of a new session
  Extra,         \* questions an extension adds
  MaxQuestions,  \* sessions are extended up to this many questions (bound)
  MaxKept,       \* MAX_REMEMBERED_SESSIONS
  MaxFaults,     \* failed calls, error events and lost connections (bound)
  MaxSignIns,    \* logins and logouts (bound)
  Hasty,         \* does the user act while a reply is awaited?
  Guest, Member, \* who the cookie names: nobody, or the account
  NoSession

ASSUME ClientAssumption ==
  /\ {Count, Extra, MaxKept} \subseteq Nat \ {0}
  /\ MaxQuestions \in Nat /\ MaxFaults \in Nat /\ MaxSignIns \in Nat
  /\ Count <= MaxQuestions
  /\ Hasty \in BOOLEAN /\ Guest # Member /\ NoSession \notin Session

VARIABLES
  app,      \* the fields of App, the panel that is shown and what it enables
  voice,    \* the end of an utterance will call back
  mic,      \* recognition is running
  calls,    \* HTTP calls without a reply
  account,  \* who the cookie names
  kept,     \* the remembered session ids, newest first
  net,      \* the connection of the socket
  ident,    \* whom the handshake of the connection named
  pending,  \* _pendingSessionId
  msgs,     \* messages emitted whose reply has not come
  rooms,    \* the sessions whose rooms this connection is in
  refused,  \* the sessions of which a join failed on this connection (history)
  srv,      \* the sessions of the server
  faults, signIns

vars == <<app, voice, mic, calls, account, kept, net, ident, pending, msgs,
          rooms, refused, srv, faults, signIns>>
wire == <<net, ident, pending, rooms, refused>>
rest == <<calls, account, kept, srv, faults, signIns>>

State == {"idle", "setup", "loading", "speaking", "listening", "editing",
          "evaluating", "complete"}
Panel == {"boot", "auth", "setup", "interview", "loading", "completion",
          "history", "detail"}

TypeOK ==
  /\ app.st \in State /\ app.panel \in Panel
  /\ {app.session, app.source, app.detail} \subseteq Session \cup {NoSession}
  /\ app.idx \in 0..MaxQuestions /\ app.total \in 0..MaxQuestions
  /\ {app.startOn, app.box, voice, mic} \subseteq BOOLEAN
  /\ \A c \in calls : c.who \in {Guest, Member} /\ c.s \in Session \cup {NoSession}
  /\ account \in {Guest, Member}
  /\ ToSet(kept) \subseteq Session /\ IsInjective(kept) /\ Len(kept) <= MaxKept
  /\ net \in {"closed", "connecting", "open", "expired"}
  /\ rooms \subseteq Session /\ {pending} \cup refused \subseteq Session \cup {NoSession}
  /\ net # "open" => /\ rooms = {} /\ refused = {}
                     /\ \A i \in DOMAIN msgs : msgs[i].at = "buffered"
  /\ \A s \in Session : srv[s].size \in 0..MaxQuestions
  /\ faults \in 0..MaxFaults /\ signIns \in 0..MaxSignIns

NoRow == [owner |-> Guest, size |-> 0, answered |-> {}, ended |-> FALSE]
Exists(s) == s # NoSession /\ srv[s].size > 0

Init ==
  /\ app = [st |-> "idle", panel |-> "boot", session |-> NoSession, source |-> NoSession,
            idx |-> 0, total |-> 0, startOn |-> TRUE, box |-> FALSE, detail |-> NoSession]
  /\ voice = FALSE /\ mic = FALSE /\ calls = {} /\ account \in {Guest, Member}
  /\ kept = <<>> /\ net = "closed" /\ ident = Guest /\ pending = NoSession
  /\ msgs = <<>> /\ rooms = {} /\ refused = {} /\ srv = [s \in Session |-> NoRow]
  /\ faults = 0 /\ signIns = 0

-----------------------------------------------------------------------------
(* What handlers are made of                                               *)

Show(a, panel, st) == [a EXCEPT !.panel = panel, !.st = st]

(* getOwnedSession: a session without an owner is open to all.             *)
Accessible(s, who) == Exists(s) /\ srv[s].owner \in {Guest, who}

(* SocketManager.emit: what is emitted while disconnected waits.           *)
Emit(ms, ev, s, q, of) ==
  Append(ms, [ev |-> ev, s |-> s, q |-> q, of |-> of, ok |-> TRUE,
              at |-> IF net = "open" THEN "sent" ELSE "buffered"])

(* askCurrentQuestion; it does not choose the panel of a question.         *)
Ask(a, ms) ==
  IF a.idx >= a.total
    THEN /\ app' = Show(a, "loading", "evaluating") /\ UNCHANGED voice
         /\ msgs' = IF a.session = NoSession THEN ms
                      ELSE Emit(ms, "end", a.session, 0, a.source)
    ELSE /\ app' = [a EXCEPT !.st = "speaking", !.box = FALSE]
         /\ voice' = TRUE /\ msgs' = ms

(* startListening.                                                         *)
Listen == app' = [app EXCEPT !.st = "listening", !.box = FALSE] /\ mic' = TRUE

(* showCompletion: speech stops, recognition is not told.                  *)
Complete(a) == app' = Show(a, "completion", "complete") /\ voice' = FALSE

(* connect(): does nothing on a socket that is connected.                  *)
Connect == IF net \in {"closed", "expired"} THEN "connecting" ELSE net

(* The ids that are in S, in their order.                                  *)
Among(ids, S) ==
  LET at    == {i \in DOMAIN ids : ids[i] \in S}
      order == CHOOSE f \in [1..Cardinality(at) -> at] :
                 \A i, j \in DOMAIN f : i < j => f[i] < f[j]
  IN  [i \in 1..Cardinality(at) |-> ids[order[i]]]

(* _rememberSessionId.                                                     *)
Remember(s) ==
  LET ids == <<s>> \o Among(kept, Session \ {s}) IN
  SubSeq(ids, 1, IF Len(ids) < MaxKept THEN Len(ids) ELSE MaxKept)

(* Answers and requests to end that the user sees the page wait for.       *)
Awaited == {i \in DOMAIN msgs : msgs[i].ev # "join"}
User == app.panel # "boot" /\ (Hasty \/ (calls = {} /\ Awaited = {}))

Calls(kind, s) == calls' = calls \cup {[kind |-> kind, s |-> s, who |-> account]}

-----------------------------------------------------------------------------
(* The user                                                                *)

(* Defect: the socket of a guest is not opened.                            *)
BootsSignedInOnly ==
  /\ app.panel = "boot" /\ app' = Show(app, "setup", "setup")
  /\ net' = IF account = Member THEN Connect ELSE net
  /\ UNCHANGED <<voice, mic, msgs, ident, pending, rooms, refused>> /\ UNCHANGED rest

(* init, with or without an account.                                       *)
Boot ==
  /\ app.panel = "boot" /\ app' = Show(app, "setup", "setup") /\ net' = Connect
  /\ UNCHANGED <<voice, mic, msgs, ident, pending, rooms, refused>> /\ UNCHANGED rest

Start ==
  /\ User /\ app.panel = "setup" /\ app.startOn /\ \E s \in Session : ~Exists(s)
  /\ app' = [Show(app, "loading", "loading") EXCEPT !.startOn = FALSE]
  /\ Calls("start", NoSession)
  /\ UNCHANGED <<voice, mic, msgs, account, kept, srv, faults, signIns>>
  /\ UNCHANGED wire

(* submitAnswer, of a text that is not empty.                              *)
Submit ==
  /\ User /\ app.panel = "interview" /\ app.box /\ app.idx < app.total
  /\ app' = [app EXCEPT !.st = "evaluating", !.box = FALSE]
  /\ msgs' = Emit(msgs, "answer", app.session, app.idx + 1, app.source)
  /\ UNCHANGED <<voice, mic>> /\ UNCHANGED wire /\ UNCHANGED rest

(* retryRecording and continueRecording.                                   *)
Record ==
  /\ User /\ app.panel = "interview" /\ app.box /\ Listen
  /\ UNCHANGED <<voice, msgs>> /\ UNCHANGED wire /\ UNCHANGED rest

(* endInterviewEarly.                                                      *)
EndEarly ==
  /\ User /\ app.panel = "interview" /\ app.session # NoSession
  /\ voice' = FALSE /\ mic' = FALSE
  /\ app' = Show(app, "loading", "evaluating")
  /\ msgs' = Emit(msgs, "end", app.session, 0, app.source)
  /\ UNCHANGED wire /\ UNCHANGED rest

Restarted(a) ==
  [Show(a, "setup", "setup") EXCEPT !.session = NoSession, !.source = NoSession,
     !.idx = 0, !.total = 0, !.startOn = TRUE]

RestartApp ==
  /\ User /\ app.panel = "completion"
  /\ app' = Restarted(app) /\ pending' = NoSession
  /\ UNCHANGED <<voice, mic, msgs, net, ident, rooms, refused>> /\ UNCHANGED rest

Extend ==
  /\ User /\ app.panel = "completion" /\ app.session # NoSession
  /\ srv[app.session].size + Extra <= MaxQuestions
  /\ app' = Show(app, "loading", "loading") /\ Calls("extend", app.session)
  /\ UNCHANGED <<voice, mic, msgs, account, kept, srv, faults, signIns>>
  /\ UNCHANGED wire

RefreshOverallFeedback ==
  /\ User /\ app.panel = "completion" /\ app.session # NoSession
  /\ Calls("refresh", app.session)
  /\ UNCHANGED <<app, voice, mic, msgs, account, kept, srv, faults, signIns>>
  /\ UNCHANGED wire

(* loadHistory: from the header, the setup panel, or back from a detail.   *)
LoadHistory ==
  /\ User /\ app' = Show(app, "history", "idle") /\ Calls("history", NoSession)
  /\ UNCHANGED <<voice, mic, msgs, account, kept, srv, faults, signIns>>
  /\ UNCHANGED wire

(* The panels that lead back to setup.                                     *)
BackToSetup ==
  /\ User /\ app.panel \in {"history", "auth"}
  /\ app' = Show(app, "setup", "setup")
  /\ UNCHANGED <<voice, mic, msgs>> /\ UNCHANGED wire /\ UNCHANGED rest

ViewHistoryDetail(s) ==
  /\ User /\ app.panel = "history" /\ Exists(s) /\ srv[s].ended
  /\ app' = [app EXCEPT !.panel = "detail", !.detail = s]
  /\ Calls("detail", s)
  /\ UNCHANGED <<voice, mic, msgs, account, kept, srv, faults, signIns>>
  /\ UNCHANGED wire

RefreshHistoryDetail ==
  /\ User /\ app.panel = "detail" /\ app.detail # NoSession
  /\ Calls("redetail", app.detail)
  /\ UNCHANGED <<app, voice, mic, msgs, account, kept, srv, faults, signIns>>
  /\ UNCHANGED wire

SignIn ==
  /\ User /\ account = Guest /\ signIns < MaxSignIns /\ app.panel # "auth"
  /\ app' = [app EXCEPT !.panel = "auth"]
  /\ UNCHANGED <<voice, mic, msgs>> /\ UNCHANGED wire /\ UNCHANGED rest

(* The auth form, or the log out button.                                   *)
LoginOrLogout ==
  /\ User /\ signIns < MaxSignIns /\ signIns' = signIns + 1
  /\ \/ app.panel = "auth" /\ account = Guest /\ Calls("login", NoSession)
     \/ account = Member /\ Calls("logout", NoSession)
  /\ UNCHANGED <<app, voice, mic, msgs, account, kept, srv, faults>>
  /\ UNCHANGED wire

UserStep ==
  \/ Start \/ Submit \/ Record \/ EndEarly \/ RestartApp \/ Extend
  \/ RefreshOverallFeedback \/ LoadHistory \/ BackToSetup \/ RefreshHistoryDetail
  \/ SignIn \/ LoginOrLogout \/ \E s \in Session : ViewHistoryDetail(s)

-----------------------------------------------------------------------------
(* Replies to HTTP calls                                                   *)

Taken(c) == calls' = calls \ {c}

(* Defect: the questions come from what the last interview left in a cache.*)
StartedFromCache(c) ==
  \E s \in Session :
    /\ c \in calls /\ c.kind = "start" /\ ~Exists(s) /\ Taken(c)
    /\ srv' = [srv EXCEPT ![s] = [NoRow EXCEPT !.owner = c.who, !.size = Count]]
    /\ kept' = Remember(s) /\ pending' = s
    /\ Ask([app EXCEPT !.session = s, !.idx = 0, !.total = Count, !.panel = "interview",
              !.source = IF kept = <<>> THEN s ELSE Head(kept)],
           Emit(msgs, "join", s, 0, s))
    /\ UNCHANGED <<mic, account, net, ident, rooms, refused, faults, signIns>>

(* startInterview after its request; the session is the caller's.          *)
Started(c) ==
  \E s \in Session :
    /\ c \in calls /\ c.kind = "start" /\ ~Exists(s) /\ Taken(c)
    /\ srv' = [srv EXCEPT ![s] = [NoRow EXCEPT !.owner = c.who, !.size = Count]]
    /\ kept' = Remember(s) /\ pending' = s
    /\ Ask([app EXCEPT !.session = s, !.source = s, !.idx = 0, !.total = Count,
              !.panel = "interview"],
           Emit(msgs, "join", s, 0, s))
    /\ UNCHANGED <<mic, account, net, ident, rooms, refused, faults, signIns>>

Extended(c) ==
  /\ c \in calls /\ c.kind = "extend" /\ Accessible(c.s, c.who) /\ Taken(c)
  /\ srv' = [srv EXCEPT ![c.s].size = @ + Extra, ![c.s].ended = FALSE]
  /\ Ask([app EXCEPT !.session = c.s, !.source = c.s, !.panel = "interview",
            !.total = srv[c.s].size + Extra], msgs)
  /\ UNCHANGED <<mic, account, kept, net, ident, pending, rooms, refused, faults, signIns>>

(* The reply of a refresh sets the session, and shows it as completed.     *)
Refreshed(c) ==
  /\ c \in calls /\ c.kind = "refresh" /\ Accessible(c.s, c.who) /\ Taken(c)
  /\ Complete([app EXCEPT !.session = c.s])
  /\ UNCHANGED <<mic, msgs, account, kept, srv, faults, signIns>> /\ UNCHANGED wire

(* renderHistoryDetail shows its panel whenever the reply comes.           *)
DetailShown(c) ==
  /\ c \in calls /\ c.kind \in {"detail", "redetail"} /\ Accessible(c.s, c.who) /\ Taken(c)
  /\ app' = [app EXCEPT !.panel = "detail"]
  /\ UNCHANGED <<voice, mic, msgs, account, kept, srv, faults, signIns>>
  /\ UNCHANGED wire

(* The remembered sessions that a history view finds.                      *)
Found(c) == {s \in Session : Accessible(s, c.who)}

(* The lists came.  For a caller without an account each remembered        *)
(* session was asked for, and those that did not resolve are forgotten, in *)
(* one step: a user who waits starts no session in between.                *)
HistoryLoaded(c) ==
  /\ c \in calls /\ c.kind = "history" /\ Taken(c)
  /\ kept' = IF c.who = Member THEN kept ELSE Among(kept, Found(c))
  /\ UNCHANGED <<app, voice, mic, msgs, account, srv, faults, signIns>>
  /\ UNCHANGED wire

(* The list of the account fails, and the remembered sessions are asked    *)
(* for in its place; or one of these requests, which is then not told from *)
(* one whose session is gone; or both.                                     *)
HistoryFails(c) ==
  /\ c \in calls /\ c.kind = "history" /\ Taken(c)
  /\ faults < MaxFaults /\ faults' = faults + 1
  /\ \E lost \in ToSet(kept) \cup {NoSession} : kept' = Among(kept, Found(c) \ {lost})
  /\ UNCHANGED <<app, voice, mic, msgs, account, srv, signIns>> /\ UNCHANGED wire

(* AuthManager: login and register set the account, logout takes it away.  *)
SignedAs(who) == account' = who

(* _claimLocalHistory asks for the remembered sessions ...                 *)
Claims == ToSet(kept)

(* ... and the account gets those that nobody owns.                        *)
Claimed ==
  [s \in Session |-> IF s \in Claims /\ srv[s].owner = Guest
                       THEN [srv[s] EXCEPT !.owner = Member] ELSE srv[s]]

(* login or register, then _claimLocalHistory, then _onAuthenticated.      *)
LoggedIn(c) ==
  /\ c \in calls /\ c.kind = "login" /\ Taken(c) /\ SignedAs(Member)
  /\ srv' = Claimed
  /\ net' = Connect /\ app' = Show(app, "setup", "setup")
  /\ UNCHANGED <<voice, mic, msgs, kept, ident, pending, rooms, refused, faults, signIns>>

(* _logout: the socket is closed, with what was sent on it, and opened     *)
(* again as a guest's.                                                     *)
LoggedOut(c) ==
  /\ c \in calls /\ c.kind = "logout" /\ Taken(c) /\ SignedAs(Guest)
  /\ net' = "connecting" /\ pending' = NoSession /\ rooms' = {} /\ refused' = {}
  /\ msgs' = IF net = "open" THEN <<>> ELSE msgs
  /\ app' = Restarted(app)
  /\ UNCHANGED <<voice, mic, kept, ident, srv, faults, signIns>>

(* A call fails: its own failure, or the session is not the caller's.      *)
Failed(c) ==
  /\ c \in calls /\ c.kind # "history"
  /\ \/ faults < MaxFaults /\ faults' = faults + 1
     \/ c.s # NoSession /\ ~Accessible(c.s, c.who) /\ UNCHANGED faults
  /\ CASE c.kind = "start"  -> app' = [Show(app, "setup", "setup") EXCEPT !.startOn = TRUE]
       [] c.kind = "extend" -> app' = Show(app, "completion", "complete")
       [] c.kind = "detail" -> app' = Show(app, "history", "idle")
       [] OTHER             -> UNCHANGED app
  /\ calls' = (calls \ {c}) \cup
       (IF c.kind = "detail" THEN {[kind |-> "history", s |-> NoSession, who |-> account]}
                             ELSE {})
  /\ UNCHANGED <<voice, mic, msgs, account, kept, srv, signIns>> /\ UNCHANGED wire

-----------------------------------------------------------------------------
(* The socket                                                              *)

(* socketAuthMiddleware: the handshake names whom the cookie names.        *)
Handshake == account

(* Defect: the room is not joined again.                                   *)
ConnectedAfresh ==
  /\ net = "connecting" /\ net' = "open" /\ ident' = Handshake
  /\ msgs' = [i \in DOMAIN msgs |-> [msgs[i] EXCEPT !.at = "sent"]]
  /\ UNCHANGED <<app, voice, mic, pending, rooms, refused>> /\ UNCHANGED rest

(* The connection is up: what waited is sent, and the room joined again.   *)
Connected ==
  /\ net = "connecting" /\ net' = "open" /\ ident' = Handshake
  /\ LET sent == [i \in DOMAIN msgs |-> [msgs[i] EXCEPT !.at = "sent"]]
         join == [ev |-> "join", s |-> pending, q |-> 0, of |-> pending,
                  ok |-> TRUE, at |-> "sent"] IN
     msgs' = IF pending = NoSession \/ Contains(sent, join) THEN sent
               ELSE Append(sent, join)
  /\ UNCHANGED <<app, voice, mic, pending, rooms, refused>> /\ UNCHANGED rest

(* The server handles a message; the handlers run concurrently.            *)
Allowed(m) ==
  /\ Accessible(m.s, ident)
  /\ m.ev = "answer" => /\ ~srv[m.s].ended /\ m.q <= srv[m.s].size
                        /\ m.q \notin srv[m.s].answered

Effect(m) ==
  IF ~Allowed(m) THEN srv
  ELSE CASE m.ev = "answer" -> [srv EXCEPT ![m.s].answered = @ \cup {m.q}]
         [] m.ev = "end"    -> [srv EXCEPT ![m.s].ended = TRUE]
         [] OTHER           -> srv

Handled(i) ==
  /\ msgs[i].at = "sent" /\ srv' = Effect(msgs[i])
  /\ rooms' = IF msgs[i].ev = "join" /\ Allowed(msgs[i]) THEN rooms \cup {msgs[i].s} ELSE rooms
  /\ msgs' = IF msgs[i].ev = "join" THEN RemoveAt(msgs, i)
               ELSE [msgs EXCEPT ![i].at = "done", ![i].ok = Allowed(msgs[i])]
  /\ UNCHANGED <<app, voice, mic, calls, account, kept, net, ident, pending, refused,
                 faults, signIns>>

(* The handler of a join fails, e.g. in its query: the page shows the      *)
(* error and does not ask again.                                           *)
JoinFails(i) ==
  /\ msgs[i].at = "sent" /\ msgs[i].ev = "join"
  /\ faults < MaxFaults /\ faults' = faults + 1
  /\ msgs' = RemoveAt(msgs, i) /\ refused' = refused \cup {msgs[i].s}
  /\ UNCHANGED <<app, voice, mic, calls, account, kept, net, ident, pending, rooms,
                 srv, signIns>>

(* A handler fails, by its rate limit or its own error.                    *)
HandlerFails(i) ==
  /\ msgs[i].at = "sent" /\ msgs[i].ev # "join"
  /\ faults < MaxFaults /\ faults' = faults + 1
  /\ msgs' = [msgs EXCEPT ![i].at = "done", ![i].ok = FALSE]
  /\ UNCHANGED <<app, voice, mic, calls, account, kept, srv, signIns>>
  /\ UNCHANGED wire

(* Defect: an error event advances the interview as well.                  *)
ErrorAdvances(i) ==
  LET m == msgs[i] ms == RemoveAt(msgs, i) IN
  /\ m.at = "done"
  /\ IF m.ev = "end" /\ m.ok THEN Complete(app) /\ msgs' = ms
                     ELSE Ask([app EXCEPT !.idx = @ + 1], ms)
  /\ UNCHANGED mic /\ UNCHANGED wire /\ UNCHANGED rest

(* answer:received, interview:complete or error reaches the page.          *)
Delivered(i) ==
  LET m == msgs[i] ms == RemoveAt(msgs, i) IN
  /\ m.at = "done"
  /\ CASE ~m.ok                 -> UNCHANGED <<app, voice>> /\ msgs' = ms
       [] m.ok /\ m.ev = "end"  -> Complete(app) /\ msgs' = ms
       [] OTHER                 -> Ask([app EXCEPT !.idx = @ + 1], ms)
  /\ UNCHANGED mic /\ UNCHANGED wire /\ UNCHANGED rest

(* The connection is lost, with every reply on its way.  Of the messages   *)
(* sent, all were lost or one was still handled; the client connects again *)
(* by itself.                                                              *)
Dropped ==
  /\ net = "open" /\ faults < MaxFaults /\ faults' = faults + 1
  /\ net' = "connecting" /\ rooms' = {} /\ refused' = {} /\ msgs' = <<>>
  /\ srv' \in {srv} \cup {Effect(msgs[i]) : i \in {j \in DOMAIN msgs : msgs[j].at = "sent"}}
  /\ UNCHANGED <<app, voice, mic, calls, account, kept, ident, pending, signIns>>

(* connect_error "Session ID unknown": the server was restarted.           *)
Expired ==
  /\ net = "connecting" /\ faults < MaxFaults /\ faults' = faults + 1
  /\ net' = "expired" /\ pending' = NoSession
  /\ UNCHANGED <<app, voice, mic, calls, account, kept, ident, msgs, rooms, refused, srv,
                 signIns>>

(* socket:session-expired: connect again two seconds later.                *)
Reopen ==
  /\ net = "expired" /\ net' = Connect
  /\ UNCHANGED <<app, voice, mic, msgs, ident, pending, rooms, refused>> /\ UNCHANGED rest

-----------------------------------------------------------------------------
(* Speech and recognition call back                                        *)

VoiceEnds ==
  /\ voice /\ voice' = FALSE
  /\ IF app.st = "speaking" THEN Listen ELSE UNCHANGED <<app, mic>>
  /\ UNCHANGED msgs /\ UNCHANGED wire /\ UNCHANGED rest

(* Silence, or the button that stops the recording; silence without a word *)
(* starts over, whatever the page shows by then.                           *)
MicEnds ==
  /\ mic
  /\ \/ app' = [app EXCEPT !.st = "editing", !.box = TRUE] /\ mic' = FALSE
     \/ Listen
  /\ UNCHANGED <<voice, msgs>> /\ UNCHANGED wire /\ UNCHANGED rest

Reply ==
  \E c \in calls :
    \/ Started(c) \/ Extended(c) \/ Refreshed(c) \/ DetailShown(c) \/ Failed(c)
    \/ HistoryLoaded(c) \/ HistoryFails(c) \/ LoggedIn(c) \/ LoggedOut(c)

Socket ==
  \/ Connected \/ Reopen \/ Dropped \/ Expired
  \/ \E i \in DOMAIN msgs : Handled(i) \/ JoinFails(i) \/ HandlerFails(i) \/ Delivered(i)

Next == Boot \/ UserStep \/ Reply \/ Socket \/ VoiceEnds \/ MicEnds

(* The network and the server get on; the user need not do anything.       *)
Served == \E i \in DOMAIN msgs : Handled(i) \/ Delivered(i)

Spec == Init /\ [][Next]_vars
FairSpec == Spec /\ WF_vars(Boot) /\ WF_vars(Connected) /\ WF_vars(Reopen)
                 /\ WF_vars(Served) /\ WF_vars(Reply)

-----------------------------------------------------------------------------
(* Properties                                                              *)

(* An answer goes to the session whose question it answers: session and    *)
(* questions are set by different replies.                                 *)
AnswersMatchQuestions ==
  \A i \in DOMAIN msgs : msgs[i].ev = "answer" => msgs[i].s = msgs[i].of

(* The page leaves a question behind only when the server has its answer,  *)
(* through errors, lost connections and extensions.                        *)
AdvanceOnlyRecorded ==
  Exists(app.session) /\ app.source = app.session =>
    1..app.idx \subseteq srv[app.session].answered

(* A connection is in the room of the session that is interviewed, again   *)
(* after it was lost, unless the server's restart was noticed, the session *)
(* is not the connection's, or a join failed on this very connection; the  *)
(* next connection makes up for that one.                                  *)
RoomRejoined ==
  net = "open" /\ pending # NoSession /\ Accessible(pending, ident)
    /\ ~(\E i \in DOMAIN msgs : msgs[i].ev = "join") => pending \in rooms \cup refused

(* "Submitting..." ends: the page that waits gets a reply, unless the      *)
(* connection was lost, a handler failed, or the socket is another's.      *)
WaitEnds ==
  app.st = "evaluating" ~> (app.st # "evaluating" \/ faults > 0 \/ ident # account)

(* Of the remembered sessions those that resolve are kept, whether they    *)
(* are completed or go on; only the oldest makes room for a new one.       *)
OnlyDeadForgotten ==
  \A s \in ToSet(kept) \ ToSet(kept') :
    ~Accessible(s, account) \/ (kept' # <<>> /\ ~Contains(kept, Head(kept')))

(* "Drop ids that no longer resolve (deleted, or claimed under a different *)
(* login ...)": that is all that a history view drops.                     *)
DropsOnlyDead == [][OnlyDeadForgotten]_kept

(* sockets/auth.ts: the socket carries the account of the cookie, so that  *)
(* a user does not lose access to sessions of their own.                   *)
OwnAnswersAllowed ==
  \A i \in DOMAIN msgs :
    msgs[i].at = "sent" /\ msgs[i].ev # "join" /\ srv[msgs[i].s].owner = account =>
      Accessible(msgs[i].s, ident)

(* "Stop any active speech or recognition": when the result is shown       *)
(* nothing is listened to any more.                                        *)
EndedIsNotHeard == app.panel = "completion" => ~mic

=============================================================================
