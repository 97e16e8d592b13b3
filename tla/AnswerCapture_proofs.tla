------------------------ MODULE AnswerCapture_proofs ------------------------
(***************************************************************************)
(* Of the page that turns speech into an answer, for any number of         *)
(* questions, takes and words: the types and the text that is continued,   *)
(* however slow the permission to use the microphone; and, if it is given  *)
(* before the next click (SlowPrompt = FALSE), that words and audio are    *)
(* those of the question and that the microphone is released.              *)
(***************************************************************************)
EXTENDS AnswerCapture, FiniteSetTheorems, NaturalsInduction, WellFoundedInduction, TLAPS

State == {"speaking", "listening", "editing", "evaluating", "ended"}
Media == {"none", "recording", "flushing", "inactive"}
Question == 1..MaxQuestions
Text == Seq(Word)

(* The calls that wait for the flush of a take, and requests under way.    *)
Opening == [op : {"start", "continue"}, take : Take]
Stop == [op : {"stop"}, token : Nat, q : Question, shown : Text]
Discard == [op : {"discard"}]
Call == Opening \cup Stop \cup Discard
Wait == [on : Take, call : Call]
Request == [token : Nat, q : Question, shown : Text, audio : SUBSET Take]

SoundSet ==
  [au : [rec : 0..MaxTakes, stream : 0..MaxTakes, chunks : SUBSET Take],
   media : [Take -> Media], live : SUBSET Take, opening : SUBSET Take,
   waits : SUBSET Wait, asr : SUBSET Request]

-----------------------------------------------------------------------------
(* A finite set of numbers can be put in order.                            *)

Increasing(f, S) ==
  /\ f \in [1..Cardinality(S) -> S]
  /\ \A i, j \in DOMAIN f : i < j => f[i] < f[j]

LEMMA HasOrder ==
  \A n \in Nat : \A S \in SUBSET (1..n) : \E f : Increasing(f, S)
  <1> DEFINE T == {n \in Nat : \E S \in SUBSET (1..n) : ~ \E f : Increasing(f, S)}
             R == OpToRel(<, Nat)
  <1>1. SUFFICES ASSUME T # {} PROVE FALSE
    OBVIOUS
  <1>2. PICK n \in T : \A m \in T : <<m, n>> \notin R
    <2>1. IsWellFoundedOn(R, Nat) /\ T \subseteq Nat
      BY NatLessThanWellFounded
    <2> HIDE DEF T, R
    <2>2. QED
      BY <1>1, <2>1, WFMin
  <1>3. n \in Nat /\ \A m \in Nat : m < n => m \notin T
    BY <1>2 DEF OpToRel
  <1>4. PICK S \in SUBSET (1..n) : ~ \E f : Increasing(f, S)
    BY <1>2
  <1>5. CASE n \notin S
    <2>1. n # 0
      <3>1. ASSUME S = {}
            PROVE  FALSE
        <4>1. Cardinality(S) = 0
          BY <3>1, FS_EmptySet
        <4>2. Increasing([i \in 1..0 |-> i], S)
          BY <4>1 DEF Increasing
        <4>3. QED
          BY <1>4, <4>2
      <3>2. QED
        BY <1>3, <1>4, <3>1
    <2>2. S \in SUBSET (1..(n - 1)) /\ n - 1 \in Nat /\ n - 1 < n
      BY <1>3, <1>5, <2>1
    <2>3. n - 1 \in T
      BY <1>4, <2>2
    <2>4. QED
      BY <1>3, <2>2, <2>3
  <1>6. CASE n \in S
    <2>1. n - 1 \in Nat /\ n - 1 < n /\ S \ {n} \in SUBSET (1..(n - 1))
      BY <1>3, <1>6
    <2>2. PICK f : Increasing(f, S \ {n})
      BY <1>3, <2>1
    <2>3. IsFiniteSet(S)
      <3>1. IsFiniteSet(1..n)
        BY <1>3, FS_Interval
      <3>2. QED
        BY <3>1, FS_Subset
    <2>4. /\ Cardinality(S) \in Nat /\ Cardinality(S \ {n}) = Cardinality(S) - 1
          /\ Cardinality(S \ {n}) \in Nat
      BY <1>6, <2>3, FS_RemoveElement, FS_CardinalityType
    <2> DEFINE k == Cardinality(S)
               g == [i \in 1..k |-> IF i = k THEN n ELSE f[i]]
    <2>5. f \in [1..(k - 1) -> S \ {n}]
      BY <2>2, <2>4 DEF Increasing
    <2>6. \A i \in 1..(k - 1) : f[i] \in S /\ f[i] < n
      <3> TAKE i \in 1..(k - 1)
      <3>1. f[i] \in S \ {n}
        BY <2>5
      <3>2. f[i] \in 1..n
        BY <3>1
      <3>3. QED
        BY <1>3, <3>1, <3>2
    <2>7. \A i, j \in 1..(k - 1) : i < j => f[i] < f[j]
      BY <2>2, <2>5 DEF Increasing
    <2>8. k \in Nat
      BY <2>4
    <2> HIDE DEF k
    <2>9. g \in [1..k -> S]
      <3>1. \A i \in 1..k : i # k => i \in 1..(k - 1)
        BY <2>8
      <3>2. \A i \in 1..k : (IF i = k THEN n ELSE f[i]) \in S
        BY <1>6, <2>6, <3>1
      <3>3. QED
        BY <3>2
    <2>10. \A i, j \in 1..k : i < j => g[i] < g[j]
      BY <2>6, <2>7, <2>8
    <2> HIDE DEF g
    <2>11. Increasing(g, S)
      BY <2>9, <2>10 DEF Increasing, k
    <2>12. QED
      BY <1>4, <2>11
  <1>7. QED
    BY <1>5, <1>6

-----------------------------------------------------------------------------
(* The recorder                                                            *)

(* The media recorders after the microphone is released.                   *)
Quiet(s, t) ==
  IF t = s.au.stream /\ s.media[t] = "recording" THEN "flushing" ELSE s.media[t]

(* s became r, and in between the microphone was released.                 *)
Released(s, r) ==
  /\ r \in SoundSet
  /\ r.au.rec = 0 /\ r.au.stream = 0
  /\ r.live = s.live \ {s.au.stream}
  /\ \A t \in Take : r.media[t] = Quiet(s, t)
  /\ r.waits = s.waits

LEMMA ReleaseGives ==
  ASSUME NEW s \in SoundSet
  PROVE  /\ Release(s) \in SoundSet
         /\ Release(s).au.stream = 0 /\ Release(s).au.rec = s.au.rec
         /\ Release(s).au.chunks = s.au.chunks
         /\ Release(s).live = s.live \ {s.au.stream}
         /\ \A t \in Take : Release(s).media[t] = Quiet(s, t)
         /\ Release(s).opening = s.opening /\ Release(s).waits = s.waits
         /\ Release(s).asr = s.asr
  <1> DEFINE u == s.au.stream
  <1>0. /\ s.au \in [rec : 0..MaxTakes, stream : 0..MaxTakes, chunks : SUBSET Take]
        /\ s.media \in [Take -> Media] /\ s.live \in SUBSET Take
        /\ MaxTakes \in Nat \ {0}
    BY CaptureAssumption DEF SoundSet
  <1>1. CASE u = 0
    <2>1. Release(s) = s
      BY <1>1 DEF Release
    <2>2. 0 \notin Take /\ u \notin s.live
      BY <1>0, <1>1 DEF Take
    <2>3. QED
      BY <1>1, <2>1, <2>2 DEF Quiet
  <1>2. CASE u # 0
    <2> DEFINE au2 == [s.au EXCEPT !.stream = 0]
               media2 == [s.media EXCEPT ![u] = IF @ = "recording" THEN "flushing" ELSE @]
    <2>1. Release(s) = [s EXCEPT !.live = @ \ {u}, !.au.stream = 0,
                          !.media[u] = IF @ = "recording" THEN "flushing" ELSE @]
      BY <1>2 DEF Release
    <2>2. Release(s) = [s EXCEPT !.live = @ \ {u}, !.au = au2, !.media = media2]
      BY <2>1 DEF SoundSet
    <2>3. u \in Take
      BY <1>0, <1>2 DEF Take
    <2>4. /\ au2 \in [rec : 0..MaxTakes, stream : 0..MaxTakes, chunks : SUBSET Take]
          /\ au2.stream = 0 /\ au2.rec = s.au.rec /\ au2.chunks = s.au.chunks
      BY <1>0
    <2>5. media2 \in [Take -> Media] /\ \A t \in Take : media2[t] = Quiet(s, t)
      BY <1>0, <2>3 DEF Media, Quiet
    <2> HIDE DEF au2, media2
    <2>6. /\ Release(s).au = au2 /\ Release(s).media = media2
          /\ Release(s).live = s.live \ {u} /\ Release(s).opening = s.opening
          /\ Release(s).waits = s.waits /\ Release(s).asr = s.asr
      BY <2>2 DEF SoundSet
    <2>7. Release(s) \in SoundSet
      BY <1>0, <2>2, <2>4, <2>5 DEF SoundSet
    <2>8. QED
      BY <2>4, <2>5, <2>6, <2>7
  <1>3. QED
    BY <1>1, <1>2

LEMMA NothingAdded == \A S : S \cup {} = S
  OBVIOUS

LEMMA CallKinds ==
  ASSUME NEW call \in Call
  PROVE  /\ call.op \in {"start", "continue", "stop", "discard"}
         /\ call.op \in {"start", "continue"} <=> call \in Opening
         /\ call.op = "stop" <=> call \in Stop
         /\ call \in Opening => call.take \in Take
         /\ call \in Stop => call.token \in Nat /\ call.q \in Question /\ call.shown \in Text
  BY DEF Call, Opening, Stop, Discard

(* The request that a stop makes of the chunks it finds.                   *)
Asked(s, call) ==
  [token |-> call.token, q |-> call.q, shown |-> call.shown, audio |-> s.au.chunks]

(* A call that waited, or need not wait, went on.                          *)
Resumed(s, call, wanted, r) ==
  /\ Released(s, r)
  /\ r.opening = s.opening \cup (IF call \in Opening THEN {call.take} ELSE {})
  /\ r.au.chunks = IF call.op = "continue" THEN s.au.chunks ELSE {}
  /\ r.asr = s.asr \cup (IF call \in Stop /\ wanted /\ s.au.chunks # {}
                           THEN {Asked(s, call)} ELSE {})

AuSet == [rec : 0..MaxTakes, stream : 0..MaxTakes, chunks : SUBSET Take]

With(r, au2, opens, asr2) ==
  [r EXCEPT !.au = au2, !.opening = opens, !.asr = asr2]

Rest(r, chunks, opens, asr2) ==
  [r EXCEPT !.au.rec = 0, !.au.chunks = chunks, !.opening = opens, !.asr = asr2]

(* The microphone being released, the call goes on with some chunks.       *)
LEMMA WithGives ==
  ASSUME NEW s \in SoundSet, NEW au2 \in AuSet, au2.rec = 0, au2.stream = 0,
         NEW opens \in SUBSET Take, NEW asr2 \in SUBSET Request
  PROVE  /\ Released(s, With(Release(s), au2, opens, asr2))
         /\ With(Release(s), au2, opens, asr2).opening = opens
         /\ With(Release(s), au2, opens, asr2).au = au2
         /\ With(Release(s), au2, opens, asr2).asr = asr2
  <1> DEFINE r == Release(s)
             new == With(r, au2, opens, asr2)
  <1>1. /\ r \in SoundSet
        /\ r.live = s.live \ {s.au.stream} /\ \A t \in Take : r.media[t] = Quiet(s, t)
        /\ r.waits = s.waits
    BY ReleaseGives
  <1> HIDE DEF r
  <1>2. /\ new \in SoundSet /\ new.au = au2 /\ new.opening = opens
        /\ new.asr = asr2 /\ new.live = r.live /\ new.media = r.media
        /\ new.waits = r.waits
    BY <1>1 DEF SoundSet, AuSet, With
  <1> HIDE DEF new
  <1>3. Released(s, new)
    BY <1>1, <1>2 DEF Released
  <1>4. QED
    BY <1>2, <1>3 DEF new, r

LEMMA ResumeGives ==
  ASSUME NEW s \in SoundSet, NEW call \in Call, NEW wanted \in BOOLEAN
  PROVE  Resumed(s, call, wanted, Resume(s, call, wanted))
  <1> DEFINE r == Release(s)
             Au(chunks) == [r.au EXCEPT !.rec = 0, !.chunks = chunks]
             Set(chunks, opens, asr2) == With(r, Au(chunks), opens, asr2)
  <1>1. /\ r \in SoundSet /\ r.au.stream = 0 /\ r.au.chunks = s.au.chunks
        /\ r.opening = s.opening /\ r.asr = s.asr
    BY ReleaseGives
  <1>2. /\ r.au \in AuSet
        /\ s.au.chunks \in SUBSET Take /\ s.asr \in SUBSET Request
        /\ s.opening \in SUBSET Take /\ 0 \in 0..MaxTakes
    BY <1>1, CaptureAssumption DEF SoundSet, AuSet
  <1>3. ASSUME NEW chunks \in SUBSET Take
        PROVE  /\ Au(chunks) \in AuSet
               /\ Au(chunks).rec = 0 /\ Au(chunks).stream = 0 /\ Au(chunks).chunks = chunks
    BY <1>1, <1>2 DEF AuSet
  <1> HIDE DEF Au
  <1>4. ASSUME NEW chunks \in SUBSET Take, NEW opens \in SUBSET Take,
               NEW asr2 \in SUBSET Request
        PROVE  /\ Released(s, Set(chunks, opens, asr2))
               /\ Set(chunks, opens, asr2).opening = opens
               /\ Set(chunks, opens, asr2).au.chunks = chunks
               /\ Set(chunks, opens, asr2).asr = asr2
    BY <1>3, WithGives
  <1>5. ASSUME NEW chunks \in SUBSET Take, NEW opens \in SUBSET Take,
               NEW asr2 \in SUBSET Request
        PROVE  Set(chunks, opens, asr2) = Rest(r, chunks, opens, asr2)
    BY <1>1 DEF With, Rest, Au, SoundSet
  <1> HIDE DEF r, Set
  <1>6. CASE call \in Opening
    <2>1. call.take \in Take /\ call.op \in {"start", "continue"} /\ call \notin Stop
      BY <1>6, CallKinds DEF Opening, Stop
    <2> DEFINE chunks == IF call.op = "continue" THEN s.au.chunks ELSE {}
               opens == r.opening \cup {call.take}
    <2>2. Resume(s, call, wanted) = Opens(s, call.take, chunks)
      BY <2>1 DEF Resume
    <2>3. Opens(s, call.take, chunks) =
            [r EXCEPT !.au.rec = 0, !.au.chunks = chunks, !.opening = opens]
      BY DEF Opens, r
    <2>4. r.asr \in SUBSET Request /\ chunks \in SUBSET Take /\ opens \in SUBSET Take
      BY <1>1, <1>2, <2>1
    <2>5. opens = s.opening \cup {call.take}
      BY <1>1
    <2> HIDE DEF chunks, opens
    <2>6. Opens(s, call.take, chunks) = Rest(r, chunks, opens, r.asr)
      BY <1>1, <2>3 DEF SoundSet, Rest
    <2>7. Resume(s, call, wanted) = Set(chunks, opens, r.asr)
      BY <1>5, <2>2, <2>4, <2>6
    <2> DEFINE new == Resume(s, call, wanted)
    <2> HIDE DEF new
    <2>8. /\ Released(s, new) /\ new.opening = opens
          /\ new.au.chunks = chunks /\ new.asr = r.asr
      BY <1>4, <2>4, <2>7 DEF new
    <2>9. r.asr = s.asr \cup {}
      BY <1>1, NothingAdded
    <2>10. Resumed(s, call, wanted, new)
      BY <1>6, <2>1, <2>5, <2>8, <2>9 DEF chunks, Resumed
    <2>11. QED
      BY <2>10 DEF new
  <1>7. CASE call \in Stop
    <2>1. call \notin Opening /\ call.op = "stop"
      BY <1>7 DEF Opening, Stop
    <2> DEFINE more == IF wanted /\ s.au.chunks # {} THEN {Asked(s, call)} ELSE {}
               asked == r.asr \cup more
    <2>2. Resume(s, call, wanted) = Stopped(s, call, wanted)
      BY <2>1 DEF Resume
    <2>3. more \in SUBSET Request
      BY <1>2, <1>7, CallKinds DEF Asked, Request
    <2>4. Stopped(s, call, wanted) =
            [r EXCEPT !.au.rec = 0, !.au.chunks = {}, !.asr = asked]
      BY <1>1 DEF Stopped, r, Asked, SoundSet
    <2>5. {} \in SUBSET Take /\ r.opening \in SUBSET Take /\ asked \in SUBSET Request
      BY <1>1, <1>2, <2>3
    <2>6. asked = s.asr \cup more
      BY <1>1
    <2> HIDE DEF more, asked
    <2>7. Stopped(s, call, wanted) = Rest(r, {}, r.opening, asked)
      BY <1>1, <2>4 DEF SoundSet, Rest
    <2>8. Resume(s, call, wanted) = Set({}, r.opening, asked)
      BY <1>5, <2>2, <2>5, <2>7
    <2> DEFINE new == Resume(s, call, wanted)
    <2> HIDE DEF new
    <2>9. /\ Released(s, new) /\ new.opening = r.opening
          /\ new.au.chunks = {} /\ new.asr = asked
      BY <1>4, <2>5, <2>8 DEF new
    <2>10. r.opening = s.opening \cup {}
      BY <1>1, NothingAdded
    <2>11. more = IF call \in Stop /\ wanted /\ s.au.chunks # {} THEN {Asked(s, call)} ELSE {}
      BY <1>7 DEF more
    <2>12. Resumed(s, call, wanted, new)
      BY <2>1, <2>6, <2>9, <2>10, <2>11 DEF Resumed
    <2>13. QED
      BY <2>12 DEF new
  <1>8. CASE call \in Discard
    <2>1. call \notin Opening /\ call \notin Stop /\ call.op = "discard"
      BY <1>8 DEF Opening, Stop, Discard
    <2>2. Resume(s, call, wanted) = [r EXCEPT !.au.rec = 0, !.au.chunks = {}]
      BY <2>1 DEF Resume, r
    <2>3. Resume(s, call, wanted) = Rest(r, {}, r.opening, r.asr)
      BY <1>1, <2>2 DEF SoundSet, Rest
    <2>4. {} \in SUBSET Take /\ r.opening \in SUBSET Take /\ r.asr \in SUBSET Request
      BY <1>1, <1>2
    <2>5. Resume(s, call, wanted) = Set({}, r.opening, r.asr)
      BY <1>5, <2>3, <2>4
    <2> DEFINE new == Resume(s, call, wanted)
    <2> HIDE DEF new
    <2>6. /\ Released(s, new) /\ new.opening = r.opening
          /\ new.au.chunks = {} /\ new.asr = r.asr
      BY <1>4, <2>4, <2>5 DEF new
    <2>7. r.asr = s.asr \cup {} /\ r.opening = s.opening \cup {}
      BY <1>1, NothingAdded
    <2>8. Resumed(s, call, wanted, new)
      BY <2>1, <2>6, <2>7 DEF Resumed
    <2>9. QED
      BY <2>8 DEF new
  <1>9. QED
    BY <1>6, <1>7, <1>8 DEF Call

-----------------------------------------------------------------------------
(* The invariants                                                          *)

PageSet == [st : State, q : Question, token : Nat, box : Text, pre : Text,
            undo : BOOLEAN]
RecSet == [on : BOOLEAN, again : BOOLEAN, resume : BOOLEAN, tick : BOOLEAN,
           engine : {"off", "on", "ending"}, of : 0..MaxTakes, prev : Text,
           heard : Text]
TakeSet == [q : Question, more : BOOLEAN]

(* A take has one recorder, and the calls wait for recorders that flush:   *)
(* of n takes, those that have yet to be opened have none.                 *)
SoundOK(s, n) ==
  /\ s \in SoundSet
  /\ \A t \in Take : s.media[t] # "none" => t <= n
  /\ \A t \in s.opening : s.media[t] = "none" /\ t <= n
  /\ \A w \in s.waits : s.media[w.on] = "flushing"
  /\ \A w \in s.waits : w.call \in Opening =>
       s.media[w.call.take] = "none" /\ w.call.take \notin s.opening /\ w.call.take <= n
  /\ \A v, w \in s.waits :
       v.call \in Opening /\ w.call \in Opening /\ v.call.take = w.call.take => v = w

(* What is continued is in the box, and the recognition knows it.          *)
PageInv ==
  /\ page \in PageSet /\ rec \in RecSet /\ voice \in {"none", "due", "reading"}
  /\ takes \in Seq(TakeSet) /\ Now <= MaxTakes
  /\ rec.on => rec.engine = "on"
  /\ page.st = "listening" => /\ takes[Now].more => rec.resume
                              /\ rec.resume => rec.prev = page.box

CaptureInv == PageInv /\ SoundOK(Sound, Now)

(* The take t is one of ts, and for the question q; and so are the words.  *)
Of(ts, q, t) == t \in 1..Len(ts) /\ ts[t].q = q
WordsOf(ts, q, text) == \A i \in DOMAIN text : Of(ts, q, text[i].take)

Active(p) == p.st \in {"listening", "editing"}

(* A stop that still counts waits while the answer is edited.              *)
StopsOK(s, p) ==
  \A w \in s.waits : w.call \in Stop =>
    /\ w.call.token <= p.token
    /\ w.call.token = p.token => p.st = "editing" /\ w.call.q = p.q

(* Nothing is opened but the current take, and while it is there is no     *)
(* recorder: so the one microphone is the recorder's.                      *)
MicOK(s, p, n) ==
  /\ \A t \in Take : s.media[t] = "recording" =>
       p.st = "listening" /\ t = s.au.stream /\ t = s.au.rec
  /\ s.live \subseteq {s.au.stream}
  /\ s.opening # {} =>
       p.st = "listening" /\ s.au.stream = 0 /\ s.au.rec = 0 /\ s.opening = {n}
  /\ \A w \in s.waits : w.call \notin Opening
  /\ p.st = "ended" => s.live = {} \/ s.waits # {}

(* The audio that is kept, or will be, is that of the question.            *)
AudioOK(s, p, ts) ==
  /\ s.au.chunks \subseteq 1..Len(ts)
  /\ Active(p) => /\ Of(ts, p.q, Len(ts))
                  /\ \A t \in s.au.chunks : Of(ts, p.q, t)
                  /\ \A t \in Take : s.media[t] \in {"recording", "flushing"}
                                       => Of(ts, p.q, t)
  /\ \A r \in s.asr : \A t \in r.audio : Of(ts, r.q, t)

(* So is what was heard, as recognition listens only while the page does.  *)
WordsOK ==
  /\ rec.on => rec.again
  /\ rec.again => page.st = "listening"
  /\ IF Active(page)
     THEN /\ WordsOf(takes, page.q, page.box) /\ WordsOf(takes, page.q, page.pre)
          /\ rec.engine # "off" => Of(takes, page.q, rec.of)
     ELSE page.box = <<>> /\ page.pre = <<>>
  /\ page.st = "listening" => WordsOf(takes, page.q, rec.heard)

QuestionInv ==
  /\ StopsOK(Sound, page) /\ MicOK(Sound, page, Now)
  /\ AudioOK(Sound, page, takes) /\ WordsOK

-----------------------------------------------------------------------------
(* What the calls of the recorder keep                                     *)

Runs(s) == s.au.rec # 0 /\ s.media[s.au.rec] = "recording"

(* The recorder was told to stop, and a call waits for it.                 *)
Waiting(s, call, r) ==
  /\ r \in SoundSet
  /\ r.au = s.au /\ r.live = s.live /\ r.opening = s.opening /\ r.asr = s.asr
  /\ \A t \in Take : r.media[t] = IF t = s.au.rec THEN "flushing" ELSE s.media[t]
  /\ r.waits = s.waits \cup {[on |-> s.au.rec, call |-> call]}

LEMMA BeginGives ==
  ASSUME NEW s \in SoundSet, NEW call \in Call
  PROVE  IF Runs(s) THEN Waiting(s, call, Begin(s, call))
         ELSE Resumed(s, call, TRUE, Begin(s, call))
  <1>1. CASE Runs(s)
    <2> DEFINE t == s.au.rec
               media2 == [s.media EXCEPT ![t] = "flushing"]
               waits2 == s.waits \cup {[on |-> t, call |-> call]}
    <2>1. t \in Take
      BY <1>1, CaptureAssumption DEF Runs, SoundSet, Take
    <2>2. Begin(s, call) = [s EXCEPT !.media = media2, !.waits = waits2]
      BY <1>1 DEF Begin, Runs, SoundSet
    <2>3. /\ media2 \in [Take -> Media]
          /\ \A u \in Take : media2[u] = IF u = t THEN "flushing" ELSE s.media[u]
      BY <2>1 DEF SoundSet, Media
    <2>4. [on |-> t, call |-> call] \in Wait /\ s.waits \in SUBSET Wait
      BY <2>1 DEF Wait, SoundSet
    <2>5. waits2 \in SUBSET Wait
      BY <2>4
    <2> DEFINE r == Begin(s, call)
    <2> HIDE DEF media2, waits2
    <2>6. /\ r \in SoundSet /\ r.media = media2 /\ r.waits = waits2
          /\ r.au = s.au /\ r.live = s.live /\ r.opening = s.opening /\ r.asr = s.asr
      BY <2>2, <2>3, <2>5 DEF SoundSet
    <2> HIDE DEF r
    <2>7. Waiting(s, call, r)
      BY <2>3, <2>6 DEF Waiting, waits2
    <2>8. QED
      BY <1>1, <2>7 DEF r
  <1>2. CASE ~Runs(s)
    <2>1. Begin(s, call) = Resume(s, call, TRUE)
      BY <1>2 DEF Begin, Runs
    <2>2. Resumed(s, call, TRUE, Resume(s, call, TRUE))
      BY ResumeGives
    <2>3. QED
      BY <1>2, <2>1, <2>2
  <1>3. QED
    BY <1>1, <1>2

(* The take of a call is that of no recorder and of no other call.         *)
Fresh(s, call, m) ==
  call \in Opening =>
    /\ s.media[call.take] = "none" /\ call.take <= m
    /\ \A w \in s.waits : w.call \in Opening => w.call.take # call.take

LEMMA ResumedKeeps ==
  ASSUME NEW s, NEW r, NEW call \in Call, NEW wanted, NEW n \in Nat, NEW m \in Nat,
         n <= m, SoundOK(s, n), Resumed(s, call, wanted, r), Fresh(s, call, m)
  PROVE  SoundOK(r, m)
  <1> DEFINE opens == IF call \in Opening THEN {call.take} ELSE {}
  <1>1. /\ r \in SoundSet /\ r.opening = s.opening \cup opens /\ r.waits = s.waits
        /\ \A t \in Take : r.media[t] = Quiet(s, t)
    BY DEF Resumed, Released
  <1>2. /\ s \in SoundSet /\ s.opening \in SUBSET Take /\ s.waits \in SUBSET Wait
        /\ s.media \in [Take -> Media] /\ \A t \in Take : t <= n => t <= m
    BY DEF SoundOK, SoundSet, Take
  <1>3. \A t \in Take : /\ r.media[t] = "none" <=> s.media[t] = "none"
                        /\ s.media[t] = "flushing" => r.media[t] = "flushing"
    BY <1>1 DEF Quiet
  <1>4. /\ \A t \in Take : r.media[t] # "none" => t <= m
        /\ \A w \in r.waits : r.media[w.on] = "flushing"
    <2>1. \A w \in s.waits : w.on \in Take /\ s.media[w.on] = "flushing"
      BY <1>2 DEF Wait, SoundOK
    <2>2. \A t \in Take : s.media[t] # "none" => t <= n
      BY DEF SoundOK
    <2>3. QED
      BY <1>1, <1>2, <1>3, <2>1, <2>2
  <1>5. \A t \in opens : r.media[t] = "none" /\ t <= m
    BY <1>3, CallKinds DEF Fresh
  <1>6. \A t \in r.opening : r.media[t] = "none" /\ t <= m
    <2>1. \A t \in s.opening : r.media[t] = "none" /\ t <= m
      BY <1>2, <1>3 DEF SoundOK
    <2>2. QED
      BY <1>1, <1>5, <2>1
  <1>7. ASSUME NEW w \in r.waits, w.call \in Opening
        PROVE  r.media[w.call.take] = "none" /\ w.call.take \notin r.opening /\ w.call.take <= m
    <2>1. w \in s.waits /\ w.call.take \in Take
      BY <1>1, <1>7 DEF Opening
    <2>2. s.media[w.call.take] = "none" /\ w.call.take \notin s.opening /\ w.call.take <= n
      BY <1>7, <2>1 DEF SoundOK
    <2>3. w.call.take \notin opens
      BY <1>7, <2>1 DEF Fresh
    <2>4. w.call.take <= m
      BY <1>2, <2>1, <2>2
    <2>5. w.call.take \notin r.opening
      BY <1>1, <2>2, <2>3
    <2>6. QED
      BY <1>3, <2>1, <2>2, <2>4, <2>5
  <1>8. \A v, w \in r.waits :
          v.call \in Opening /\ w.call \in Opening /\ v.call.take = w.call.take => v = w
    BY <1>1 DEF SoundOK
  <1>9. QED
    BY <1>1, <1>4, <1>6, <1>7, <1>8 DEF SoundOK

LEMMA WaitingKeeps ==
  ASSUME NEW s, NEW r, NEW call \in Call, NEW n \in Nat, NEW m \in Nat,
         n <= m, SoundOK(s, n), Runs(s), Waiting(s, call, r),
         call \in Opening => n < call.take /\ call.take <= m
  PROVE  SoundOK(r, m)
  <1> DEFINE w0 == [on |-> s.au.rec, call |-> call]
  <1>1. /\ r \in SoundSet /\ r.opening = s.opening /\ r.waits = s.waits \cup {w0}
        /\ \A t \in Take : r.media[t] = IF t = s.au.rec THEN "flushing" ELSE s.media[t]
    BY DEF Waiting
  <1>2. /\ s \in SoundSet /\ s.opening \in SUBSET Take /\ s.waits \in SUBSET Wait
        /\ s.media \in [Take -> Media]
        /\ \A t \in Take : /\ t <= n => t <= m
                           /\ n < t => ~ t <= n
    BY DEF SoundOK, SoundSet, Take
  <1>3. s.au.rec \in Take /\ s.media[s.au.rec] = "recording"
    BY <1>2, CaptureAssumption DEF Runs, SoundSet, Take
  <1>4. \A t \in Take : /\ r.media[t] = "none" <=> s.media[t] = "none"
                        /\ s.media[t] = "flushing" => r.media[t] = "flushing"
    BY <1>1, <1>3
  <1>5. \A w \in s.waits : w.on \in Take /\ w.call \in Call
    BY <1>2 DEF Wait
  <1>6. \A t \in Take : r.media[t] # "none" => t <= m
    BY <1>2, <1>4 DEF SoundOK
  <1>7. \A w \in r.waits : r.media[w.on] = "flushing"
    <2>1. r.media[w0.on] = "flushing"
      BY <1>1, <1>3
    <2>2. QED
      BY <1>1, <1>4, <1>5, <2>1 DEF SoundOK
  <1>8. \A t \in r.opening : r.media[t] = "none" /\ t <= m
    <2>1. \A t \in s.opening : t \in Take /\ s.media[t] = "none" /\ t <= n
      BY <1>2 DEF SoundOK
    <2>2. QED
      BY <1>1, <1>2, <1>4, <2>1
  <1>9. \A w \in s.waits : w.call \in Opening => w.call.take \in Take /\ w.call.take <= n
    BY DEF SoundOK, Opening
  <1>10. call \in Opening => call.take \in Take /\ s.media[call.take] = "none"
                             /\ call.take \notin s.opening
    <2>1. call \in Opening => call.take \in Take /\ ~ call.take <= n
      BY <1>2 DEF Opening
    <2>2. /\ \A t \in Take : s.media[t] # "none" => t <= n
          /\ \A t \in s.opening : t <= n
      BY DEF SoundOK
    <2>3. QED
      BY <2>1, <2>2
  <1>11. w0.call = call
    OBVIOUS
  <1> HIDE DEF w0
  <1>12. \A w \in r.waits : w.call \in Opening =>
           r.media[w.call.take] = "none" /\ w.call.take \notin r.opening /\ w.call.take <= m
    <2>1. \A w \in s.waits : w.call \in Opening =>
            r.media[w.call.take] = "none" /\ w.call.take \notin r.opening /\ w.call.take <= m
      <3> TAKE w \in s.waits
      <3> HAVE w.call \in Opening
      <3>1. s.media[w.call.take] = "none" /\ w.call.take \notin s.opening
        BY DEF SoundOK
      <3>2. QED
        BY <1>1, <1>2, <1>4, <1>9, <3>1
    <2>2. w0.call \in Opening =>
            r.media[w0.call.take] = "none" /\ w0.call.take \notin r.opening /\ w0.call.take <= m
      BY <1>1, <1>4, <1>10, <1>11
    <2>3. QED
      BY <1>1, <2>1, <2>2
  <1>13. \A v, w \in r.waits :
           v.call \in Opening /\ w.call \in Opening /\ v.call.take = w.call.take => v = w
    <2>1. \A w \in s.waits : w.call \in Opening /\ w0.call \in Opening
            => w.call.take # w0.call.take
      <3>1. call \in Opening => ~ call.take <= n
        BY <1>2, <1>10
      <3>2. QED
        BY <1>9, <1>11, <3>1
    <2>2. \A v, w \in s.waits :
            v.call \in Opening /\ w.call \in Opening /\ v.call.take = w.call.take => v = w
      BY DEF SoundOK
    <2>3. QED
      BY <1>1, <2>1, <2>2
  <1>14. QED
    BY <1>1, <1>6, <1>7, <1>8, <1>12, <1>13 DEF SoundOK

LEMMA BeginKeeps ==
  ASSUME NEW s, NEW call \in Call, NEW n \in Nat, NEW m \in Nat, n <= m, SoundOK(s, n),
         call \in Opening => n < call.take /\ call.take <= m
  PROVE  SoundOK(Begin(s, call), m)
  <1>1. s \in SoundSet
    BY DEF SoundOK
  <1>2. CASE Runs(s)
    BY <1>1, <1>2, BeginGives, WaitingKeeps
  <1>3. CASE ~Runs(s)
    <2>1. Resumed(s, call, TRUE, Begin(s, call))
      BY <1>1, <1>3, BeginGives
    <2>2. \A t \in Take : n < t => ~ t <= n
      BY DEF Take
    <2>3. /\ \A w \in s.waits : w.call \in Opening => w.call.take <= n
          /\ \A t \in Take : s.media[t] # "none" => t <= n
      BY DEF SoundOK
    <2>4. call \in Opening => call.take \in Take /\ ~ call.take <= n /\ call.take <= m
      BY <2>2 DEF Opening
    <2>5. Fresh(s, call, m)
      BY <2>3, <2>4 DEF Fresh
    <2>6. QED
      BY <2>1, <2>5, ResumedKeeps
  <1>4. QED
    BY <1>2, <1>3

-----------------------------------------------------------------------------
(* The recorder's own steps                                                *)

LEMMA Settled ==
  ASSUME NEW s \in SoundSet, SetSound(s)
  PROVE  Sound' = s
  BY DEF SetSound, Sound, SoundSet

Flushed(s, t) ==
  [s EXCEPT !.media[t] = "inactive", !.au.chunks = @ \cup {t},
            !.waits = {w \in @ : w.on # t}]

LEMMA FlushedGives ==
  ASSUME NEW s \in SoundSet, NEW t \in Take
  PROVE  LET r == Flushed(s, t) IN
         /\ r \in SoundSet
         /\ r.au.rec = s.au.rec /\ r.au.stream = s.au.stream
         /\ r.au.chunks = s.au.chunks \cup {t}
         /\ r.live = s.live /\ r.opening = s.opening /\ r.asr = s.asr
         /\ \A u \in Take : r.media[u] = IF u = t THEN "inactive" ELSE s.media[u]
         /\ r.waits = {w \in s.waits : w.on # t}
  <1> DEFINE r == Flushed(s, t)
             au2 == [s.au EXCEPT !.chunks = s.au.chunks \cup {t}]
             media2 == [s.media EXCEPT ![t] = "inactive"]
             waits2 == {w \in s.waits : w.on # t}
  <1>1. r = [s EXCEPT !.media = media2, !.au = au2, !.waits = waits2]
    BY DEF Flushed, SoundSet
  <1>2. /\ au2 \in [rec : 0..MaxTakes, stream : 0..MaxTakes, chunks : SUBSET Take]
        /\ au2.rec = s.au.rec /\ au2.stream = s.au.stream
        /\ au2.chunks = s.au.chunks \cup {t}
    BY DEF SoundSet
  <1>3. /\ media2 \in [Take -> Media]
        /\ \A u \in Take : media2[u] = IF u = t THEN "inactive" ELSE s.media[u]
    BY DEF SoundSet, Media
  <1>4. waits2 \in SUBSET Wait
    BY DEF SoundSet
  <1> HIDE DEF au2, media2, waits2
  <1>5. /\ r \in SoundSet /\ r.au = au2 /\ r.media = media2 /\ r.waits = waits2
        /\ r.live = s.live /\ r.opening = s.opening /\ r.asr = s.asr
    BY <1>1, <1>2, <1>3, <1>4 DEF SoundSet
  <1> HIDE DEF r
  <1>6. /\ r \in SoundSet
        /\ r.au.rec = s.au.rec /\ r.au.stream = s.au.stream
        /\ r.au.chunks = s.au.chunks \cup {t}
        /\ r.live = s.live /\ r.opening = s.opening /\ r.asr = s.asr
        /\ \A u \in Take : r.media[u] = IF u = t THEN "inactive" ELSE s.media[u]
        /\ r.waits = {w \in s.waits : w.on # t}
    BY <1>2, <1>3, <1>5 DEF waits2
  <1>7. QED
    BY <1>6 DEF r

LEMMA FlushedKeeps ==
  ASSUME NEW s, NEW n \in Nat, NEW t \in Take, SoundOK(s, n), s.media[t] = "flushing"
  PROVE  SoundOK(Flushed(s, t), n)
  <1> DEFINE r == Flushed(s, t)
  <1>1. s \in SoundSet
    BY DEF SoundOK
  <1>2. /\ r \in SoundSet /\ r.opening = s.opening
        /\ \A u \in Take : r.media[u] = IF u = t THEN "inactive" ELSE s.media[u]
        /\ r.waits = {w \in s.waits : w.on # t}
    BY <1>1, FlushedGives
  <1> HIDE DEF r
  <1>3. \A u \in Take : r.media[u] = "none" <=> s.media[u] = "none"
    BY <1>2
  <1>4. s.opening \in SUBSET Take /\ \A w \in s.waits : w.on \in Take
    BY <1>1 DEF SoundSet, Wait
  <1>5. \A u \in Take : r.media[u] # "none" => u <= n
    BY <1>3 DEF SoundOK
  <1>6. \A u \in r.opening : r.media[u] = "none" /\ u <= n
    BY <1>2, <1>3, <1>4 DEF SoundOK
  <1>7. \A w \in r.waits : r.media[w.on] = "flushing"
    BY <1>2, <1>4 DEF SoundOK
  <1>8. ASSUME NEW w \in r.waits, w.call \in Opening
        PROVE  r.media[w.call.take] = "none" /\ w.call.take \notin r.opening /\ w.call.take <= n
    BY <1>2, <1>3, <1>8 DEF SoundOK, Opening
  <1>9. \A v, w \in r.waits :
          v.call \in Opening /\ w.call \in Opening /\ v.call.take = w.call.take => v = w
    BY <1>2 DEF SoundOK
  <1>10. SoundOK(r, n)
    BY <1>2, <1>5, <1>6, <1>7, <1>8, <1>9 DEF SoundOK
  <1>11. QED
    BY <1>10 DEF r

LEMMA SoundIsTyped ==
  Sound \in SoundSet => /\ Sound.au = au /\ Sound.media = media /\ Sound.live = live
                        /\ Sound.opening = opening /\ Sound.waits = waits
                        /\ Sound.asr = asr
  BY DEF Sound

(* A take is flushed: nothing waited for it, or one call goes on, a stop   *)
(* that is wanted knowing the page.                                        *)
LEMMA FlushGives ==
  ASSUME Sound \in SoundSet, NEW t \in Take, Flush(t)
  PROVE  \/ /\ \A w \in waits : w.on # t
            /\ Sound' = Flushed(Sound, t)
         \/ \E w \in waits : \E wanted \in BOOLEAN :
              /\ w.on = t /\ Sound' = Resume(Flushed(Sound, t), w.call, wanted)
              /\ w.call.op = "stop" /\ wanted => w.call.token = page.token
  <1> DEFINE woken == {w \in waits : w.on = t}
             w0 == CHOOSE w \in woken : TRUE
             wanted == w0.call.op = "stop" => /\ w0.call.token = page.token
                                              /\ w0.call.shown = page.box
  <1>1. Flushed(Sound, t) \in SoundSet
    BY FlushedGives
  <1>2. CASE woken = {}
    <2>1. SetSound(Flushed(Sound, t))
      BY <1>2 DEF Flush, Flushed
    <2>2. QED
      BY <1>1, <1>2, <2>1, Settled
  <1>3. CASE woken # {}
    <2>1. w0 \in woken
      BY <1>3
    <2>2. SetSound(Resume(Flushed(Sound, t), w0.call, wanted))
      BY <1>3 DEF Flush, Flushed
    <2> HIDE DEF w0
    <2>3. w0 \in waits /\ w0.on = t /\ w0.call \in Call /\ wanted \in BOOLEAN
      BY <2>1, SoundIsTyped DEF SoundSet, Wait
    <2>4. w0.call.op = "stop" /\ wanted => w0.call.token = page.token
      OBVIOUS
    <2> HIDE DEF wanted
    <2>5. Resume(Flushed(Sound, t), w0.call, wanted) \in SoundSet
      BY <1>1, <2>3, ResumeGives DEF Resumed, Released
    <2>6. Sound' = Resume(Flushed(Sound, t), w0.call, wanted)
      BY <2>2, <2>5, Settled
    <2>7. QED
      BY <2>3, <2>4, <2>6
  <1>4. QED
    BY <1>2, <1>3

LEMMA FlushKeeps ==
  ASSUME NEW n \in Nat, SoundOK(Sound, n), NEW t \in Take, Flush(t)
  PROVE  SoundOK(Sound', n)
  <1>1. Sound \in SoundSet
    BY DEF SoundOK
  <1>2. Sound.media[t] = "flushing"
    BY <1>1, SoundIsTyped DEF Flush
  <1>3. SoundOK(Flushed(Sound, t), n)
    BY <1>2, FlushedKeeps
  <1>4. Flushed(Sound, t).waits = {w \in waits : w.on # t}
    BY <1>1, FlushedGives, SoundIsTyped
  <1>5. ASSUME NEW w \in waits, NEW wanted \in BOOLEAN, w.on = t,
               Sound' = Resume(Flushed(Sound, t), w.call, wanted)
        PROVE  SoundOK(Sound', n)
    <2> DEFINE s == Flushed(Sound, t)
    <2>1. w.call \in Call /\ s \in SoundSet
      BY <1>1, <1>3, SoundIsTyped DEF SoundSet, Wait, SoundOK
    <2>2. Resumed(s, w.call, wanted, Sound')
      BY <1>5, <2>1, ResumeGives
    <2>3. \A v \in s.waits : v \in waits /\ v # w
      BY <1>4, <1>5
    <2>4. \A u \in Take : s.media[u] = "none" <=> Sound.media[u] = "none"
      BY <1>1, <1>2, FlushedGives
    <2>5. w.call \in Opening =>
            /\ Sound.media[w.call.take] = "none" /\ w.call.take <= n
            /\ \A v \in waits : v.call \in Opening /\ v.call.take = w.call.take => v = w
      BY <1>1, SoundIsTyped DEF SoundOK
    <2>6. w.call \in Opening => w.call.take \in Take
      BY DEF Opening
    <2> HIDE DEF s
    <2>7. Fresh(s, w.call, n)
      BY <2>3, <2>4, <2>5, <2>6 DEF Fresh
    <2>8. SoundOK(s, n)
      BY <1>3 DEF s
    <2>9. QED
      BY <2>1, <2>2, <2>7, <2>8, ResumedKeeps
  <1>6. QED
    BY <1>1, <1>3, <1>5, FlushGives

(* getUserMedia answered for take t.                                       *)
Recording(s, t, r) ==
  /\ r \in SoundSet
  /\ r.au.rec = t /\ r.au.stream = t /\ r.au.chunks = s.au.chunks
  /\ \A u \in Take : r.media[u] = IF u = t THEN "recording" ELSE s.media[u]
  /\ r.live = s.live \cup {t} /\ r.opening = s.opening \ {t}
  /\ r.waits = s.waits /\ r.asr = s.asr

Refused(s, t, r) ==
  /\ Released(s, r) /\ r.au.chunks = s.au.chunks
  /\ r.opening = s.opening \ {t} /\ r.asr = s.asr

LEMMA OpenedGives ==
  ASSUME Sound \in SoundSet, NEW t \in Take, Opened(t)
  PROVE  /\ t \in Sound.opening
         /\ Recording(Sound, t, Sound') \/ Refused(Sound, t, Sound')
  <1>1. t \in Sound.opening
    BY SoundIsTyped DEF Opened
  <1>2. CASE /\ au' = [au EXCEPT !.stream = t, !.rec = t]
             /\ media' = [media EXCEPT ![t] = "recording"]
             /\ live' = live \cup {t} /\ opening' = opening \ {t}
             /\ UNCHANGED <<waits, asr>>
    <2>1. /\ au \in [rec : 0..MaxTakes, stream : 0..MaxTakes, chunks : SUBSET Take]
          /\ media \in [Take -> Media] /\ live \in SUBSET Take
          /\ opening \in SUBSET Take /\ waits \in SUBSET Wait /\ asr \in SUBSET Request
      BY SoundIsTyped DEF SoundSet
    <2>2. t \in 0..MaxTakes /\ "recording" \in Media
      BY DEF Take, Media
    <2>3. /\ au' \in [rec : 0..MaxTakes, stream : 0..MaxTakes, chunks : SUBSET Take]
          /\ au'.rec = t /\ au'.stream = t /\ au'.chunks = au.chunks
      BY <1>2, <2>1, <2>2
    <2>4. /\ media' \in [Take -> Media]
          /\ \A u \in Take : media'[u] = IF u = t THEN "recording" ELSE media[u]
      BY <1>2, <2>1, <2>2
    <2>5. /\ live' \in SUBSET Take /\ opening' \in SUBSET Take
          /\ waits' \in SUBSET Wait /\ asr' \in SUBSET Request
      BY <1>2, <2>1
    <2>6. Recording(Sound, t, Sound')
      BY <1>2, <2>3, <2>4, <2>5 DEF Recording, Sound, SoundSet
    <2>7. QED
      BY <1>1, <2>6
  <1>3. CASE LET r == Release([Sound EXCEPT !.opening = @ \ {t}])
             IN  SetSound([r EXCEPT !.au.rec = 0])
    <2> DEFINE s == [Sound EXCEPT !.opening = @ \ {t}]
               r == Release(s)
               au2 == [r.au EXCEPT !.rec = 0]
               new == [r EXCEPT !.au = au2]
    <2>1. /\ s \in SoundSet /\ s.au = Sound.au /\ s.live = Sound.live /\ s.asr = Sound.asr
          /\ s.media = Sound.media /\ s.waits = Sound.waits
          /\ s.opening = Sound.opening \ {t}
      BY DEF SoundSet
    <2>2. SetSound([r EXCEPT !.au.rec = 0])
      BY <1>3
    <2> HIDE DEF s
    <2>3. /\ r \in SoundSet /\ r.au.stream = 0 /\ r.au.chunks = s.au.chunks
          /\ r.live = s.live \ {s.au.stream}
          /\ \A u \in Take : r.media[u] = Quiet(s, u)
          /\ r.opening = s.opening /\ r.waits = s.waits /\ r.asr = s.asr
      BY <2>1, ReleaseGives
    <2> HIDE DEF r
    <2>4. [r EXCEPT !.au.rec = 0] = new
      BY <2>3 DEF SoundSet
    <2>5. /\ au2 \in [rec : 0..MaxTakes, stream : 0..MaxTakes, chunks : SUBSET Take]
          /\ au2.rec = 0 /\ au2.stream = 0 /\ au2.chunks = s.au.chunks
      BY <2>3, CaptureAssumption DEF SoundSet
    <2> HIDE DEF au2
    <2>6. /\ new \in SoundSet /\ new.au = au2 /\ new.live = r.live
          /\ new.media = r.media /\ new.opening = r.opening /\ new.waits = r.waits
          /\ new.asr = r.asr
      BY <2>3, <2>5 DEF SoundSet
    <2> HIDE DEF new
    <2>7. Sound' = new
      BY <2>2, <2>4, <2>6, Settled
    <2>8. \A u \in Take : Quiet(s, u) = Quiet(Sound, u)
      BY <2>1 DEF Quiet
    <2>9. Released(Sound, new)
      BY <2>1, <2>3, <2>5, <2>6, <2>8 DEF Released
    <2>10. Refused(Sound, t, new)
      BY <2>1, <2>3, <2>5, <2>6, <2>9 DEF Refused
    <2>11. QED
      BY <1>1, <2>7, <2>10
  <1>4. QED
    BY <1>2, <1>3 DEF Opened

LEMMA OpenedKeeps ==
  ASSUME NEW n \in Nat, SoundOK(Sound, n), NEW t \in Take, Opened(t)
  PROVE  SoundOK(Sound', n)
  <1> DEFINE s == Sound
             r == Sound'
  <1>1. /\ s \in SoundSet /\ s.opening \in SUBSET Take
        /\ \A w \in s.waits : w.on \in Take
    BY DEF SoundOK, SoundSet, Wait
  <1>2. /\ t \in s.opening
        /\ Recording(s, t, r) \/ Refused(s, t, r)
    BY <1>1, OpenedGives
  <1>3. SoundOK(s, n)
    OBVIOUS
  <1> HIDE DEF s, r
  <1>4. s.media[t] = "none" /\ t <= n
    BY <1>2, <1>3 DEF SoundOK
  <1>5. /\ r \in SoundSet /\ r.opening = s.opening \ {t} /\ r.waits = s.waits
    BY <1>2 DEF Recording, Refused, Released
  <1>6. \A u \in Take : u # t => /\ r.media[u] = "none" <=> s.media[u] = "none"
                                 /\ s.media[u] = "flushing" => r.media[u] = "flushing"
    BY <1>2 DEF Recording, Refused, Released, Quiet
  <1>7. \A u \in Take : r.media[u] # "none" => u <= n
    BY <1>3, <1>4, <1>6 DEF SoundOK
  <1>8. \A u \in r.opening : r.media[u] = "none" /\ u <= n
    BY <1>1, <1>3, <1>5, <1>6 DEF SoundOK
  <1>9. \A w \in r.waits : r.media[w.on] = "flushing"
    BY <1>1, <1>3, <1>4, <1>5, <1>6 DEF SoundOK
  <1>10. ASSUME NEW w \in r.waits, w.call \in Opening
         PROVE  r.media[w.call.take] = "none" /\ w.call.take \notin r.opening /\ w.call.take <= n
    <2>1. /\ s.media[w.call.take] = "none" /\ w.call.take \notin s.opening
          /\ w.call.take <= n
      BY <1>3, <1>5, <1>10 DEF SoundOK
    <2>2. QED
      BY <1>2, <1>5, <1>6, <1>10, <2>1 DEF Opening
  <1>11. \A v, w \in r.waits :
           v.call \in Opening /\ w.call \in Opening /\ v.call.take = w.call.take => v = w
    BY <1>3, <1>5 DEF SoundOK
  <1>12. SoundOK(r, n)
    BY <1>5, <1>7, <1>8, <1>9, <1>10, <1>11 DEF SoundOK
  <1>13. QED
    BY <1>12 DEF r

-----------------------------------------------------------------------------
(* The page and recognition                                                *)

LEMMA Texts ==
  /\ <<>> \in Text
  /\ \A a \in Text, b \in Text : a \o b \in Text
  /\ \A a \in Text, w \in Word : Append(a, w) \in Text
  /\ \A a \in Text : DOMAIN a = 1..Len(a) /\ \A i \in DOMAIN a : a[i] \in Word
  BY DEF Text

LEMMA EndingGives ==
  ASSUME NEW r \in RecSet
  PROVE  /\ Ending(r) \in RecSet /\ Ending(r).engine # "on"
         /\ Ending(r).engine = "off" <=> r.engine = "off"
         /\ Ending(r).on = r.on /\ Ending(r).again = r.again
         /\ Ending(r).resume = r.resume /\ Ending(r).tick = r.tick
         /\ Ending(r).of = r.of /\ Ending(r).prev = r.prev /\ Ending(r).heard = r.heard
  <1> DEFINE new == [r EXCEPT !.engine = "ending"]
  <1>1. CASE r.engine = "on"
    <2>1. Ending(r) = new
      BY <1>1 DEF Ending
    <2>2. /\ new \in RecSet /\ new.engine = "ending"
          /\ new.on = r.on /\ new.again = r.again /\ new.resume = r.resume
          /\ new.tick = r.tick /\ new.of = r.of /\ new.prev = r.prev /\ new.heard = r.heard
      BY DEF RecSet
    <2>3. QED
      BY <1>1, <2>1, <2>2
  <1>2. CASE r.engine # "on"
    BY <1>2 DEF Ending
  <1>3. QED
    BY <1>1, <1>2

(* Recognition was stopped, by hand or by the silence.                     *)
Stilled(r, new) ==
  /\ new \in RecSet /\ ~new.on /\ ~new.again
  /\ new.engine # "on" /\ (new.engine = "off" <=> r.engine = "off")
  /\ new.of = r.of /\ new.heard = r.heard

LEMMA SilencedGives ==
  ASSUME NEW r \in RecSet
  PROVE  /\ Stilled(r, Silenced(r))
         /\ Stilled(r, Ending([r EXCEPT !.again = FALSE, !.on = FALSE, !.prev = <<>>]))
  <1> DEFINE a == [r EXCEPT !.again = FALSE, !.on = FALSE, !.prev = <<>>]
             b == [r EXCEPT !.again = FALSE, !.on = FALSE, !.resume = FALSE, !.prev = <<>>]
  <1>1. /\ a \in RecSet /\ ~a.on /\ ~a.again /\ a.of = r.of /\ a.heard = r.heard
        /\ a.engine = r.engine
    BY Texts DEF RecSet
  <1>2. /\ b \in RecSet /\ ~b.on /\ ~b.again /\ b.of = r.of /\ b.heard = r.heard
        /\ b.engine = r.engine
    BY Texts DEF RecSet
  <1>3. Silenced(r) = Ending(b)
    BY DEF Silenced
  <1> HIDE DEF a, b
  <1>4. Stilled(r, Ending(a)) /\ Stilled(r, Ending(b))
    BY <1>1, <1>2, EndingGives DEF Stilled
  <1>5. QED
    BY <1>3, <1>4 DEF a

(* Recognition was asked to start, and did unless it had yet to end.       *)
StartedAs(r, prev, resume, take, new) ==
  /\ new \in RecSet /\ new.heard = <<>> /\ new.prev = prev /\ new.resume = resume
  /\ new.again
  /\ new.on => new.engine = "on"
  /\ new.engine # "off"
  /\ IF r.engine = "off" /\ ~r.on THEN new.of = take
     ELSE new.of = r.of /\ new.engine = r.engine

LEMMA StartedGives ==
  ASSUME NEW r \in RecSet, r.on => r.engine = "on", NEW prev \in Text,
         NEW resume \in BOOLEAN, NEW take \in 0..MaxTakes
  PROVE  StartedAs(r, prev, resume, take, Started(r, prev, resume, take))
  <1> DEFINE same == [r EXCEPT !.heard = <<>>, !.prev = prev, !.resume = resume,
                               !.again = TRUE]
             new == [same EXCEPT !.on = TRUE, !.engine = "on", !.of = take]
  <1>1. /\ same \in RecSet /\ same.heard = <<>> /\ same.prev = prev
        /\ same.resume = resume /\ same.again /\ same.on = r.on
        /\ same.engine = r.engine /\ same.of = r.of
    BY Texts DEF RecSet
  <1>2. CASE ~r.on /\ r.engine = "off"
    <2>1. Started(r, prev, resume, take) = new
      BY <1>2 DEF Started, RecSet
    <2>2. /\ new \in RecSet /\ new.heard = <<>> /\ new.prev = prev
          /\ new.resume = resume /\ new.again /\ new.on
          /\ new.engine = "on" /\ new.of = take
      BY <1>1 DEF RecSet
    <2> HIDE DEF new
    <2>3. QED
      BY <1>2, <2>1, <2>2 DEF StartedAs
  <1>3. CASE r.on \/ r.engine # "off"
    <2>1. Started(r, prev, resume, take) = same
      BY <1>3 DEF Started, RecSet
    <2>2. same.on => same.engine = "on"
      BY <1>1
    <2>3. r.engine # "off"
      BY <1>3
    <2> HIDE DEF same
    <2>4. QED
      BY <1>1, <1>3, <2>1, <2>2, <2>3 DEF StartedAs
  <1>4. QED
    BY <1>2, <1>3

LEMMA FullTextIsText ==
  rec \in RecSet => FullText \in Text
  <1>1. ASSUME rec \in RecSet
        PROVE  rec.prev \in Text /\ rec.heard \in Text
    BY <1>1 DEF RecSet
  <1> HIDE DEF Text
  <1>2. QED
    BY <1>1, Texts DEF FullText

LEMMA TranscriptIsText ==
  ASSUME NEW audio \in SUBSET Take, NEW outcome
  PROVE  /\ Transcript(audio, outcome) \in Text
         /\ \A i \in DOMAIN Transcript(audio, outcome) :
              Transcript(audio, outcome)[i].take \in audio
  <1> DEFINE order == CHOOSE f \in [1..Cardinality(audio) -> audio] :
                        \A i, j \in DOMAIN f : i < j => f[i] < f[j]
             k == Cardinality(audio)
             words == [i \in 1..k |-> [take |-> order[i], by |-> "asr"]]
  <1>1. MaxTakes \in Nat /\ audio \in SUBSET (1..MaxTakes)
    BY CaptureAssumption DEF Take
  <1>2. PICK f : Increasing(f, audio)
    BY <1>1, HasOrder
  <1>3. order \in [1..k -> audio]
    BY <1>2 DEF Increasing
  <1>4. k \in Nat
    <2>1. IsFiniteSet(1..MaxTakes)
      BY <1>1, FS_Interval
    <2>2. IsFiniteSet(audio)
      BY <1>1, <2>1, FS_Subset
    <2>3. QED
      BY <2>2, FS_CardinalityType
  <1> HIDE DEF order, k
  <1>5. ASSUME NEW i \in 1..k
        PROVE  words[i] \in Word /\ words[i].take \in audio
    <2>1. order[i] \in audio
      BY <1>3
    <2>2. \A x \in audio : x \in 0..MaxTakes
      BY <1>1
    <2>3. QED
      BY <2>1, <2>2 DEF Word, Take
  <1>6. words \in Text /\ DOMAIN words = 1..k
    BY <1>4, <1>5 DEF Text
  <1>7. Transcript(audio, outcome) = <<>> \/ Transcript(audio, outcome) = words
    BY DEF Transcript, order, k
  <1> HIDE DEF words, Text
  <1>8. CASE Transcript(audio, outcome) = <<>>
    BY <1>8, Texts
  <1>9. CASE Transcript(audio, outcome) = words
    BY <1>5, <1>6, <1>9
  <1>10. QED
    BY <1>7, <1>8, <1>9

(* What a reply does to the page.                                          *)
LEMMA ReplyGives ==
  ASSUME PageInv, Sound \in SoundSet, NEW r, Reply(r)
  PROVE  /\ r \in asr /\ asr' = asr \ {r}
         /\ \/ UNCHANGED page
            \/ \E text \in Text :
                 /\ page' = [page EXCEPT !.box = text, !.pre = r.shown, !.undo = TRUE]
                 /\ \A i \in DOMAIN text : text[i].take \in r.audio
                 /\ page.st = "editing" /\ r.shown = page.box /\ r.q = page.q
         /\ UNCHANGED <<voice, rec, au, media, live, opening, waits, takes>>
  <1>1. PICK text \in {<<>>} \cup {Transcript(r.audio, outcome) :
                 outcome \in [ToSet(Chain) -> {"text", "empty", "down"}]} :
          /\ r \in asr /\ asr' = asr \ {r}
          /\ text # <<>> => Accepted(r)
          /\ IF /\ r.token = page.token /\ page.st = "editing"
                /\ page.box = r.shown /\ text # <<>>
             THEN page' = [page EXCEPT !.box = text, !.pre = r.shown, !.undo = TRUE]
             ELSE UNCHANGED page
          /\ UNCHANGED <<voice, rec, sound, takes>>
    BY DEF Reply
  <1>2. r \in Request /\ r.audio \in SUBSET Take
    BY <1>1, SoundIsTyped DEF SoundSet, Request
  <1>3. CASE text = <<>>
    BY <1>1, <1>3 DEF sound, Sound
  <1>4. CASE text # <<>>
    <2>1. PICK outcome : text = Transcript(r.audio, outcome)
      BY <1>1, <1>4
    <2>2. text \in Text /\ \A i \in DOMAIN text : text[i].take \in r.audio
      BY <1>2, <2>1, TranscriptIsText
    <2>3. QED
      BY <1>1, <1>4, <2>2 DEF Accepted, sound
  <1>5. QED
    BY <1>3, <1>4

-----------------------------------------------------------------------------
(* The first invariant, whatever the user does and however slow the prompt *)

LEMMA Appended ==
  ASSUME NEW ts \in Seq(TakeSet), NEW k \in TakeSet
  PROVE  /\ Append(ts, k) \in Seq(TakeSet) /\ Len(ts) \in Nat
         /\ Len(Append(ts, k)) = Len(ts) + 1
         /\ Append(ts, k)[Len(ts) + 1] = k
         /\ \A t \in 1..Len(ts) : t \in 1..(Len(ts) + 1) /\ Append(ts, k)[t] = ts[t]
  OBVIOUS

LEMMA Constants ==
  /\ MaxTakes \in Nat \ {0} /\ MaxQuestions \in Nat \ {0}
  /\ SlowPrompt \in BOOLEAN
  BY CaptureAssumption

(* The page goes to another state, and the token and the box are new.      *)
Cleared(p, st) ==
  [p EXCEPT !.st = st, !.token = @ + 1, !.box = <<>>, !.pre = <<>>, !.undo = FALSE]

LEMMA ClearedGives ==
  ASSUME NEW p \in PageSet, NEW st \in State
  PROVE  /\ Cleared(p, st) \in PageSet
         /\ Cleared(p, st).st = st /\ Cleared(p, st).q = p.q
         /\ Cleared(p, st).token = p.token + 1
         /\ Cleared(p, st).box = <<>> /\ Cleared(p, st).pre = <<>>
  <1>1. p.token \in Nat /\ p.token + 1 \in Nat
    BY DEF PageSet
  <1>2. <<>> \in Text
    BY Texts
  <1> HIDE DEF Text
  <1>3. QED
    BY <1>1, <1>2 DEF Cleared, PageSet

LEMMA StartListeningKeeps ==
  ASSUME CaptureInv, NEW s, SoundOK(s, Now), StartListening(s),
         NEW r \in RecSet, r.on => r.engine = "on",
         rec' = Started(r, <<>>, FALSE, Now + 1), voice' \in {"none", "due", "reading"}
  PROVE  /\ CaptureInv'
         /\ Sound' = Begin(s, [op |-> "start", take |-> Now + 1])
         /\ StartedAs(r, <<>>, FALSE, Now + 1, rec')
  <1> DEFINE call == [op |-> "start", take |-> Now + 1]
             k == [q |-> page.q, more |-> FALSE]
  <1>0. /\ page \in PageSet /\ takes \in Seq(TakeSet) /\ Now < MaxTakes
    BY DEF CaptureInv, PageInv, StartListening
  <1>1. /\ page \in PageSet /\ takes \in Seq(TakeSet) /\ k \in TakeSet
        /\ Now \in Nat /\ Now + 1 \in Take /\ Now + 1 \in 0..MaxTakes
    BY <1>0, Constants DEF PageSet, TakeSet, Take, Now
  <1>2. takes' = Append(takes, k)
    BY DEF StartListening
  <1>3. /\ takes' \in Seq(TakeSet) /\ Now' = Now + 1 /\ takes'[Now'] = k
    BY <1>1, <1>2, Appended DEF Now
  <1>4. call \in Call /\ call.take = Now + 1
    BY <1>1 DEF Call, Opening
  <1> HIDE DEF call
  <1>5. SoundOK(Begin(s, call), Now + 1)
    BY <1>1, <1>4, BeginKeeps
  <1>6. Sound' = Begin(s, call)
    <2>1. SetSound(Begin(s, call))
      BY DEF StartListening, Recorded, call
    <2>2. QED
      BY <1>5, <2>1, Settled DEF SoundOK
  <1> HIDE DEF Text
  <1>7. page' \in PageSet /\ page'.st = "listening" /\ page'.box = <<>>
    <2>1. page' = Cleared(page, "listening")
      BY DEF StartListening, Cleared
    <2>2. QED
      BY <1>0, <2>1, ClearedGives DEF State
  <1>8. StartedAs(r, <<>>, FALSE, Now + 1, rec')
    BY <1>1, Texts, StartedGives
  <1>9. PageInv'
    <2>1. Now' <= MaxTakes
      BY <1>1, <1>3, Constants DEF Take
    <2>2. takes'[Now'].more = FALSE
      BY <1>3
    <2>3. /\ rec' \in RecSet /\ rec'.resume = FALSE
          /\ rec'.on => rec'.engine = "on"
      BY <1>8 DEF StartedAs
    <2>4. QED
      BY <1>3, <1>7, <2>1, <2>2, <2>3 DEF PageInv
  <1>10. SoundOK(Sound, Now)'
    BY <1>3, <1>5, <1>6
  <1>11. QED
    BY <1>6, <1>8, <1>9, <1>10 DEF CaptureInv, call

(* The stop that takes the text of the page along.                         *)
StopOf(p, text) == [op |-> "stop", token |-> p.token, q |-> p.q, shown |-> text]

LEMMA ShowKeeps ==
  ASSUME CaptureInv, NEW text \in Text, Show(text), Stilled(rec, rec'), voice' = voice
  PROVE  /\ CaptureInv' /\ takes' = takes /\ StopOf(page, text) \in Stop
         /\ Sound' = IF au.rec = 0 THEN Sound ELSE Begin(Sound, StopOf(page, text))
  <1>1. page \in PageSet /\ Now \in Nat /\ SoundOK(Sound, Now)
    BY DEF CaptureInv, PageInv, Now
  <1>2. takes' = takes /\ Now' = Now
    BY DEF Show, Now
  <1>3. StopOf(page, text) \in Stop
    BY <1>1 DEF StopOf, Stop, PageSet
  <1>4. StopOf(page, text) \in Call /\ StopOf(page, text) \notin Opening
    BY <1>3 DEF Call, Stop, Opening
  <1>5. Enhanced(Sound, text) = IF au.rec = 0 THEN Sound ELSE Begin(Sound, StopOf(page, text))
    BY DEF Enhanced, StopOf, Sound
  <1>6. SoundOK(Enhanced(Sound, text), Now)
    BY <1>1, <1>4, <1>5, BeginKeeps
  <1>7. Sound' = Enhanced(Sound, text)
    BY <1>6, Settled DEF Show, SoundOK
  <1> HIDE DEF Text
  <1>8. page' \in PageSet /\ page'.st = "editing"
    BY <1>1 DEF Show, PageSet, State
  <1>9. PageInv'
    BY <1>2, <1>8 DEF PageInv, CaptureInv, Stilled
  <1>10. SoundOK(Sound, Now)'
    BY <1>2, <1>6, <1>7
  <1>11. QED
    BY <1>2, <1>3, <1>5, <1>7, <1>9, <1>10 DEF CaptureInv

LEMMA DiscardedKeeps ==
  ASSUME CaptureInv
  PROVE  /\ Discarded(Sound) = Begin(Sound, [op |-> "discard"])
         /\ SoundOK(Discarded(Sound), Now)
         /\ [op |-> "discard"] \in Call
  <1>1. Now \in Nat /\ SoundOK(Sound, Now)
    BY DEF CaptureInv, PageInv, Now
  <1>2. [op |-> "discard"] \in Call /\ [op |-> "discard"] \notin Opening
    BY DEF Call, Discard, Opening
  <1>3. QED
    BY <1>1, <1>2, BeginKeeps DEF Discarded

(* A step that leaves the recorder and the takes alone.                    *)
LEMMA SoundUnchanged ==
  UNCHANGED <<sound, asr>> => Sound' = Sound
  BY DEF sound, Sound

LEMMA CaptureInit == Init => CaptureInv
  <1> HAVE Init
  <1> HIDE DEF Text
  <1>1. page \in PageSet /\ rec \in RecSet
    BY Constants, Texts DEF Init, PageSet, RecSet, State, Question
  <1>2. takes \in Seq(TakeSet) /\ Now = 0 /\ page.st = "speaking" /\ ~rec.on
    BY DEF Init, Now
  <1>3. PageInv
    BY <1>1, <1>2, Constants DEF PageInv, Init
  <1>4. /\ Sound.au = [rec |-> 0, stream |-> 0, chunks |-> {}]
        /\ Sound.media = [t \in Take |-> "none"]
        /\ Sound.live = {} /\ Sound.opening = {} /\ Sound.waits = {} /\ Sound.asr = {}
        /\ Sound = [au |-> Sound.au, media |-> Sound.media, live |-> Sound.live,
                    opening |-> Sound.opening, waits |-> Sound.waits, asr |-> Sound.asr]
    BY DEF Init, Sound
  <1> HIDE DEF Sound
  <1>5. Sound \in SoundSet
    BY <1>4, Constants DEF SoundSet, Media
  <1>6. SoundOK(Sound, 0)
    BY <1>4, <1>5 DEF SoundOK
  <1>7. QED
    BY <1>2, <1>3, <1>6 DEF CaptureInv

(* What every step uses of the first invariant.                            *)
LEMMA CaptureFacts ==
  CaptureInv => /\ page \in PageSet /\ rec \in RecSet /\ Sound \in SoundSet
                /\ voice \in {"none", "due", "reading"}
                /\ takes \in Seq(TakeSet) /\ Now \in Nat /\ Now <= MaxTakes
                /\ rec.on => rec.engine = "on"
                /\ SoundOK(Sound, Now)
  BY DEF CaptureInv, PageInv, SoundOK, Now

LEMMA RecognitionKeeps ==
  CaptureInv /\ (Hear \/ RecognitionEnds \/ Restart) => CaptureInv'
  <1> SUFFICES ASSUME CaptureInv, Hear \/ RecognitionEnds \/ Restart
               PROVE  CaptureInv'
    OBVIOUS
  <1>1. /\ rec \in RecSet /\ Now \in 0..MaxTakes
        /\ rec.on => rec.engine = "on"
    BY CaptureFacts, Constants
  <1>2. UNCHANGED <<page, voice, sound, asr, takes>>
    BY DEF Hear, RecognitionEnds, Restart
  <1>3. Sound' = Sound /\ Now' = Now
    BY <1>2, SoundUnchanged DEF Now
  <1>4. /\ rec' \in RecSet /\ rec'.resume = rec.resume /\ rec'.prev = rec.prev
        /\ rec'.on => rec'.engine = "on"
    <2>1. CASE Hear
      <3>1. [take |-> rec.of, by |-> "heard"] \in Word
        BY <1>1 DEF RecSet, Word
      <3>2. rec.heard \in Text
        BY <1>1 DEF RecSet
      <3> HIDE DEF Text
      <3>3. Append(rec.heard, [take |-> rec.of, by |-> "heard"]) \in Text
        BY <3>1, <3>2, Texts
      <3>4. rec' = [rec EXCEPT !.heard = Append(@, [take |-> rec.of, by |-> "heard"])]
        BY <2>1 DEF Hear
      <3>5. QED
        BY <1>1, <3>3, <3>4 DEF RecSet
    <2> HIDE DEF Text
    <2>2. CASE RecognitionEnds
      <3>1. rec' = [rec EXCEPT !.engine = "off", !.on = FALSE, !.tick = rec.again]
        BY <2>2 DEF RecognitionEnds
      <3>2. rec.again \in BOOLEAN
        BY <1>1 DEF RecSet
      <3>3. QED
        BY <1>1, <3>1, <3>2 DEF RecSet
    <2>3. CASE Restart
      <3> DEFINE still == [rec EXCEPT !.tick = FALSE]
                 again == [still EXCEPT !.on = TRUE, !.engine = "on", !.of = Now]
      <3>1. rec' = IF rec.again /\ rec.engine = "off" THEN again ELSE still
        BY <1>1, <2>3 DEF Restart, RecSet
      <3>2. /\ still \in RecSet /\ still.resume = rec.resume /\ still.prev = rec.prev
            /\ still.on = rec.on /\ still.engine = rec.engine
        BY <1>1 DEF RecSet
      <3>3. /\ again \in RecSet /\ again.resume = rec.resume /\ again.prev = rec.prev
            /\ again.engine = "on"
        BY <1>1, <3>2 DEF RecSet
      <3> HIDE DEF again, still
      <3>4. QED
        BY <1>1, <3>1, <3>2, <3>3
    <2>4. QED
      BY <2>1, <2>2, <2>3
  <1>5. PageInv'
    BY <1>2, <1>3, <1>4 DEF CaptureInv, PageInv
  <1>6. SoundOK(Sound, Now)'
    BY <1>3 DEF CaptureInv
  <1>7. QED
    BY <1>5, <1>6 DEF CaptureInv

LEMMA RecorderKeeps ==
  ASSUME CaptureInv, NEW t \in Take, Opened(t) \/ Flush(t)
  PROVE  CaptureInv'
  <1>1. Now \in Nat /\ SoundOK(Sound, Now)
    BY CaptureFacts
  <1>2. SoundOK(Sound', Now)
    BY <1>1, OpenedKeeps, FlushKeeps
  <1>3. UNCHANGED <<page, voice, rec, takes>>
    BY DEF Opened, Flush
  <1>4. Now' = Now
    BY <1>3 DEF Now
  <1>5. PageInv'
    BY <1>3, <1>4 DEF CaptureInv, PageInv
  <1>6. SoundOK(Sound, Now)'
    BY <1>2, <1>4
  <1>7. QED
    BY <1>5, <1>6 DEF CaptureInv

(* Nothing of the recorder is left but that a request was answered.        *)
LEMMA ForgottenKeeps ==
  ASSUME NEW s, NEW n \in Nat, SoundOK(s, n), NEW asr2 \in SUBSET Request
  PROVE  /\ SoundOK([s EXCEPT !.asr = asr2], n)
         /\ [s EXCEPT !.asr = asr2].asr = asr2
         /\ [s EXCEPT !.asr = asr2].au = s.au /\ [s EXCEPT !.asr = asr2].media = s.media
         /\ [s EXCEPT !.asr = asr2].live = s.live
         /\ [s EXCEPT !.asr = asr2].opening = s.opening
         /\ [s EXCEPT !.asr = asr2].waits = s.waits
  <1> DEFINE r == [s EXCEPT !.asr = asr2]
  <1>1. s \in SoundSet
    BY DEF SoundOK
  <1>2. /\ r \in SoundSet /\ r.asr = asr2 /\ r.au = s.au /\ r.media = s.media
        /\ r.live = s.live /\ r.opening = s.opening /\ r.waits = s.waits
    BY <1>1 DEF SoundSet
  <1> HIDE DEF r
  <1>3. SoundOK(r, n)
    BY <1>2 DEF SoundOK
  <1>4. QED
    BY <1>2, <1>3 DEF r

LEMMA ReplyKeeps ==
  ASSUME CaptureInv, NEW r, Reply(r)
  PROVE  CaptureInv' /\ Sound' = [Sound EXCEPT !.asr = asr']
  <1>1. /\ page \in PageSet /\ Sound \in SoundSet /\ SoundOK(Sound, Now) /\ Now \in Nat
        /\ PageInv
    BY CaptureFacts DEF CaptureInv
  <1>2. /\ r \in asr /\ asr' = asr \ {r}
        /\ UNCHANGED <<voice, rec, au, media, live, opening, waits, takes>>
    BY <1>1, ReplyGives
  <1>3. asr \in SUBSET Request
    BY <1>1, SoundIsTyped DEF SoundSet
  <1>4. asr' \in SUBSET Request
    BY <1>2, <1>3
  <1>5. Sound' = [Sound EXCEPT !.asr = asr']
    <2> DEFINE s == Sound
               x == asr'
               y == [s EXCEPT !.asr = x]
    <2>1. s \in SoundSet /\ SoundOK(s, Now) /\ x \in SUBSET Request
      BY <1>1, <1>4
    <2> HIDE DEF s, x
    <2>2. /\ SoundOK(y, Now) /\ y.asr = x /\ y.au = s.au /\ y.media = s.media
          /\ y.live = s.live /\ y.opening = s.opening /\ y.waits = s.waits
      BY <1>1, <2>1, ForgottenKeeps
    <2>3. y \in SoundSet
      BY <2>2 DEF SoundOK
    <2> HIDE DEF y
    <2>4. y = [au |-> s.au, media |-> s.media, live |-> s.live, opening |-> s.opening,
               waits |-> s.waits, asr |-> x]
      BY <2>2, <2>3 DEF SoundSet
    <2>5. Sound' = [au |-> au, media |-> media, live |-> live, opening |-> opening,
                    waits |-> waits, asr |-> x]
      BY <1>2 DEF Sound, x
    <2>6. /\ s.au = au /\ s.media = media /\ s.live = live /\ s.opening = opening
          /\ s.waits = waits
      BY <1>1, SoundIsTyped DEF s
    <2>7. Sound' = y
      BY <2>4, <2>5, <2>6
    <2>8. QED
      BY <2>7 DEF y, s, x
  <1>6. SoundOK(Sound, Now)'
    <2>1. SoundOK(Sound', Now)
      BY <1>1, <1>4, <1>5, ForgottenKeeps
    <2>2. Now' = Now
      BY <1>2 DEF Now
    <2>3. QED
      BY <2>1, <2>2
  <1> HIDE DEF Text
  <1>7. r.shown \in Text
    BY <1>2, <1>3 DEF Request
  <1>8. /\ page' \in PageSet /\ page'.st = page.st
        /\ page'.st = "listening" => page' = page
    <2>1. CASE UNCHANGED page
      BY <1>1, <2>1
    <2>2. ASSUME NEW text \in Text,
                 page' = [page EXCEPT !.box = text, !.pre = r.shown, !.undo = TRUE],
                 page.st = "editing"
          PROVE  page' \in PageSet /\ page'.st = "editing"
      BY <1>1, <1>7, <2>2 DEF PageSet
    <2>3. QED
      BY <1>1, <2>1, <2>2, ReplyGives
  <1>9. PageInv'
    <2>1. Now' = Now /\ takes' = takes /\ rec' = rec /\ voice' = voice
      BY <1>2 DEF Now
    <2>2. page'.st = "listening" => page' = page /\ page.st = "listening"
      BY <1>8
    <2>3. PageInv
      BY <1>1
    <2>4. QED
      BY <1>8, <2>1, <2>2, <2>3 DEF PageInv
  <1>10. QED
    BY <1>5, <1>6, <1>9 DEF CaptureInv

(* Each way of beginning to listen is StartListening in some sound state.  *)
Listens(s, r) ==
  /\ StartListening(s) /\ SoundOK(s, Now)
  /\ r.on => r.engine = "on"
  /\ rec' = Started(r, <<>>, FALSE, Now + 1)
  /\ voice' \in {"none", "due", "reading"}
  /\ r.engine = "off" <=> rec.engine = "off"
  /\ (r = rec \/ ~r.on) /\ r.of = rec.of
  /\ IF Read THEN s = Sound /\ page.st = "speaking" /\ r = rec
     ELSE s = Discarded(Sound)

LEMMA ListensGives ==
  ASSUME CaptureInv, Silence \/ Retry \/ Read, page'.st = "listening",
         ~UNCHANGED takes
  PROVE  \E s : \E r \in RecSet : Listens(s, r)
  <1>1. /\ rec \in RecSet /\ voice \in {"none", "due", "reading"}
        /\ SoundOK(Sound, Now) /\ SoundOK(Discarded(Sound), Now)
        /\ rec.on => rec.engine = "on"
    BY CaptureFacts, DiscardedKeeps
  <1>2. CASE Read
    BY <1>1, <1>2 DEF Read, Listens
  <1>3. CASE Retry /\ ~Read
    BY <1>1, <1>3 DEF Retry, Listens
  <1>4. CASE Silence /\ ~Read
    <2> DEFINE r == Ending([rec EXCEPT !.again = FALSE, !.on = FALSE, !.prev = <<>>])
    <2>1. Stilled(rec, r)
      BY <1>1, SilencedGives
    <2>2. ~(Show(FullText) /\ rec' = r)
      BY DEF Show
    <2>3. StartListening(Discarded(Sound)) /\ rec' = Started(r, <<>>, FALSE, Now + 1)
      BY <1>4, <2>2 DEF Silence
    <2>4. voice' = voice
      BY <1>4 DEF Silence
    <2> HIDE DEF r
    <2>5. QED
      BY <1>1, <1>4, <2>1, <2>3, <2>4 DEF Stilled, Listens
  <1>5. QED
    BY <1>2, <1>3, <1>4

(* A take is over: the text is shown.                                      *)
LEMMA ShowsGives ==
  ASSUME CaptureInv, Silence \/ ManualStop, page'.st = "editing"
  PROVE  /\ Show(FullText) /\ FullText \in Text
         /\ Stilled(rec, rec') /\ voice' = voice
         /\ Prompt
         /\ rec.on \/ page.st = "listening"
  <1>1. rec \in RecSet /\ FullText \in Text
    BY CaptureFacts, FullTextIsText
  <1>2. page \in PageSet
    BY CaptureFacts
  <1>3. CASE ManualStop
    BY <1>1, <1>3, SilencedGives DEF ManualStop
  <1>4. CASE Silence
    <2> DEFINE r == Ending([rec EXCEPT !.again = FALSE, !.on = FALSE, !.prev = <<>>])
    <2>1. Stilled(rec, r)
      BY <1>1, SilencedGives
    <2>2. ASSUME StartListening(Discarded(Sound))
          PROVE  FALSE
      <3>1. page' = Cleared(page, "listening")
        BY <2>2 DEF StartListening, Cleared
      <3>2. page'.st = "listening"
        BY <1>2, <3>1, ClearedGives DEF State
      <3>3. QED
        BY <3>2
    <2>3. Show(FullText) /\ rec' = r
      BY <1>4, <2>2 DEF Silence
    <2>4. rec.on /\ Prompt /\ voice' = voice
      BY <1>4 DEF Silence
    <2> HIDE DEF r
    <2>5. QED
      BY <1>1, <2>1, <2>3, <2>4
  <1>5. QED
    BY <1>3, <1>4

LEMMA HowListeningGoes ==
  ASSUME CaptureInv, Silence \/ Retry \/ Read \/ ManualStop
  PROVE  \/ (Silence \/ Retry \/ Read) /\ page'.st = "listening" /\ ~UNCHANGED takes
         \/ (Silence \/ ManualStop) /\ page'.st = "editing"
         \/ Read /\ UNCHANGED <<page, rec, sound, asr, takes>>
  <1>1. page \in PageSet
    BY CaptureFacts
  <1>2. ASSUME NEW s, StartListening(s)
        PROVE  page'.st = "listening" /\ ~UNCHANGED takes
    <2>1. page' = Cleared(page, "listening")
      BY <1>2 DEF StartListening, Cleared
    <2>2. page'.st = "listening"
      BY <1>1, <2>1, ClearedGives DEF State
    <2>3. takes \in Seq(TakeSet) /\ page.q \in Question
      BY <1>1, CaptureFacts DEF PageSet
    <2>4. [q |-> page.q, more |-> FALSE] \in TakeSet
      BY <2>3 DEF TakeSet
    <2>5. Len(takes') = Len(takes) + 1 /\ Len(takes) \in Nat
      BY <1>2, <2>3, <2>4, Appended DEF StartListening
    <2>6. QED
      BY <2>2, <2>5
  <1>3. ASSUME NEW text, Show(text)
        PROVE  page'.st = "editing"
    BY <1>1, <1>3 DEF Show, PageSet
  <1>4. QED
    BY <1>2, <1>3 DEF Silence, Retry, Read, ManualStop

LEMMA ListenStepKeeps ==
  CaptureInv /\ (Silence \/ Retry \/ Read \/ ManualStop) => CaptureInv'
  <1> SUFFICES ASSUME CaptureInv, Silence \/ Retry \/ Read \/ ManualStop
               PROVE  CaptureInv'
    OBVIOUS
  <1>1. CASE (Silence \/ Retry \/ Read) /\ page'.st = "listening" /\ ~UNCHANGED takes
    BY <1>1, ListensGives, StartListeningKeeps DEF Listens
  <1>2. CASE (Silence \/ ManualStop) /\ page'.st = "editing"
    BY <1>2, ShowsGives, ShowKeeps
  <1>3. CASE Read /\ UNCHANGED <<page, rec, sound, asr, takes>>
    <2>1. voice' = "none" /\ Sound' = Sound /\ Now' = Now
      BY <1>3, SoundUnchanged DEF Read, Now
    <2>2. PageInv'
      BY <1>3, <2>1 DEF CaptureInv, PageInv
    <2>3. SoundOK(Sound, Now)'
      BY <2>1 DEF CaptureInv
    <2>4. QED
      BY <2>2, <2>3 DEF CaptureInv
  <1>4. QED
    BY <1>1, <1>2, <1>3, HowListeningGoes

LEMMA ContinueGives ==
  ASSUME CaptureInv, Continue
  PROVE  LET call == [op |-> "continue", take |-> Now + 1]
         IN  /\ CaptureInv' /\ Now' = Now + 1
             /\ Sound' = Begin(Sound, call) /\ call \in Opening
             /\ takes' = Append(takes, [q |-> page.q, more |-> TRUE])
             /\ [q |-> page.q, more |-> TRUE] \in TakeSet
             /\ StartedAs(rec, page.box, TRUE, Now + 1, rec')
             /\ page' \in PageSet /\ page'.st = "listening" /\ page'.q = page.q
             /\ page'.box = page.box /\ page'.token = page.token + 1
             /\ page'.pre = <<>>
  <1> DEFINE call == [op |-> "continue", take |-> Now + 1]
             k == [q |-> page.q, more |-> TRUE]
  <1>0. /\ page \in PageSet /\ takes \in Seq(TakeSet) /\ Now < MaxTakes
        /\ SoundOK(Sound, Now) /\ Now \in Nat /\ rec \in RecSet
        /\ rec.on => rec.engine = "on"
    BY CaptureFacts DEF Continue
  <1>1. /\ k \in TakeSet /\ Now + 1 \in Take /\ Now + 1 \in 0..MaxTakes
    BY <1>0, Constants DEF PageSet, TakeSet, Take, Now
  <1>2. takes' = Append(takes, k)
    BY DEF Continue
  <1>3. /\ takes' \in Seq(TakeSet) /\ Now' = Now + 1 /\ takes'[Now'] = k
    BY <1>0, <1>1, <1>2, Appended DEF Now
  <1>4. call \in Call /\ call \in Opening /\ call.take = Now + 1
    BY <1>1 DEF Call, Opening
  <1>5. voice' = voice /\ SetSound(Begin(Sound, call))
    BY DEF Continue, Continued
  <1> HIDE DEF call
  <1>6. SoundOK(Begin(Sound, call), Now + 1)
    BY <1>0, <1>4, BeginKeeps
  <1>7. Sound' = Begin(Sound, call)
    BY <1>5, <1>6, Settled DEF SoundOK
  <1>8. page.box \in Text /\ page.token + 1 \in Nat
    BY <1>0 DEF PageSet
  <1>9. <<>> \in Text
    BY Texts
  <1> HIDE DEF Text
  <1>10. StartedAs(rec, page.box, TRUE, Now + 1, rec')
    BY <1>0, <1>1, <1>8, StartedGives DEF Continue
  <1>11. page' = [page EXCEPT !.st = "listening", !.token = @ + 1,
                              !.pre = <<>>, !.undo = FALSE]
    BY DEF Continue
  <1>12. /\ page' \in PageSet /\ page'.st = "listening" /\ page'.q = page.q
         /\ page'.box = page.box /\ page'.token = page.token + 1 /\ page'.pre = <<>>
    BY <1>0, <1>8, <1>9, <1>11 DEF PageSet, State
  <1>13. PageInv'
    <2>1. Now' <= MaxTakes
      BY <1>1, <1>3, Constants DEF Take
    <2>2. /\ rec' \in RecSet /\ rec'.resume = TRUE /\ rec'.prev = page'.box
          /\ rec'.on => rec'.engine = "on"
      BY <1>10, <1>12 DEF StartedAs
    <2>3. voice' \in {"none", "due", "reading"}
      BY <1>5, CaptureFacts
    <2>4. QED
      BY <1>3, <1>12, <2>1, <2>2, <2>3 DEF PageInv
  <1>14. SoundOK(Sound, Now)'
    BY <1>3, <1>6, <1>7
  <1>15. CaptureInv'
    BY <1>13, <1>14 DEF CaptureInv
  <1>16. QED
    BY <1>1, <1>2, <1>3, <1>4, <1>7, <1>10, <1>12, <1>15 DEF call

(* The steps of the page that leave the recorder alone.                    *)
LEMMA EditsKeep ==
  CaptureInv /\ (Edit \/ Undo \/ Submit \/ NextQuestion \/ Due) => CaptureInv'
  <1> SUFFICES ASSUME CaptureInv, Edit \/ Undo \/ Submit \/ NextQuestion \/ Due
               PROVE  CaptureInv'
    OBVIOUS
  <1>1. /\ page \in PageSet /\ Now \in Nat /\ Now <= MaxTakes
        /\ voice \in {"none", "due", "reading"}
    BY CaptureFacts
  <1>2. UNCHANGED <<rec, sound, asr, takes>>
    BY DEF Edit, Undo, Submit, NextQuestion, Due
  <1>3. Sound' = Sound /\ Now' = Now
    BY <1>2, SoundUnchanged DEF Now
  <1>4. <<>> \in Text /\ page.box \in Text /\ page.pre \in Text /\ page.q \in Nat
    BY <1>1, Texts DEF PageSet, Question
  <1>5. [take |-> Now, by |-> "typed"] \in Word
    BY <1>1, Constants DEF Word
  <1>6. Append(page.box, [take |-> Now, by |-> "typed"]) \in Text
    BY <1>4, <1>5, Texts
  <1> HIDE DEF Text
  <1>7. /\ page' \in PageSet
        /\ page'.st = "listening" => page' = page
        /\ voice' \in {"none", "due", "reading"}
    <2>1. CASE Edit
      BY <1>1, <1>6, <2>1 DEF Edit, PageSet
    <2>2. CASE Undo
      BY <1>1, <1>4, <2>2 DEF Undo, PageSet
    <2>3. CASE Submit
      <3>1. page' = Cleared(page, "evaluating")
        BY <2>3 DEF Submit, Cleared
      <3>2. QED
        BY <1>1, <2>3, <3>1, ClearedGives DEF State, Submit
    <2>4. CASE NextQuestion
      <3>1. page.q + 1 \in Question
        BY <1>1, <2>4, Constants DEF NextQuestion, Question, PageSet
      <3>2. page' = [page EXCEPT !.st = "speaking", !.q = page.q + 1]
        BY <2>4 DEF NextQuestion
      <3>3. voice' = "due"
        BY <2>4 DEF NextQuestion
      <3>4. QED
        BY <1>1, <3>1, <3>2, <3>3 DEF PageSet, State
    <2>5. CASE Due
      BY <1>1, <2>5 DEF Due
    <2>6. QED
      BY <2>1, <2>2, <2>3, <2>4, <2>5
  <1>8. PageInv'
    <2>1. rec' = rec /\ takes' = takes /\ Now' = Now /\ PageInv
      BY <1>2, <1>3 DEF CaptureInv
    <2>2. QED
      BY <1>7, <2>1 DEF PageInv
  <1>9. SoundOK(Sound, Now)'
    BY <1>3 DEF CaptureInv
  <1>10. QED
    BY <1>8, <1>9 DEF CaptureInv

LEMMA EndGives ==
  ASSUME CaptureInv, EndEarly
  PROVE  /\ CaptureInv' /\ takes' = takes
         /\ Sound' = [Discarded(Sound) EXCEPT !.asr = {}]
         /\ page' = Cleared(page, "ended")
         /\ ~rec'.on /\ ~rec'.again
  <1>1. /\ page \in PageSet /\ Now \in Nat /\ Now <= MaxTakes /\ rec \in RecSet
        /\ voice \in {"none", "due", "reading"}
        /\ SoundOK(Discarded(Sound), Now)
    BY CaptureFacts, DiscardedKeeps
  <1>2. /\ takes' = takes /\ Now' = Now /\ page' = Cleared(page, "ended")
        /\ voice' \in {"none", "due", "reading"}
        /\ SetSound([Discarded(Sound) EXCEPT !.asr = {}])
        /\ rec' = [Silenced(rec) EXCEPT !.heard = <<>>]
    BY <1>1 DEF EndEarly, Cleared, Now
  <1>3. SoundOK([Discarded(Sound) EXCEPT !.asr = {}], Now)
    BY <1>1, ForgottenKeeps
  <1>4. Sound' = [Discarded(Sound) EXCEPT !.asr = {}]
    BY <1>2, <1>3, Settled DEF SoundOK
  <1> HIDE DEF Text
  <1>5. rec' \in RecSet /\ ~rec'.on /\ ~rec'.again
    <2> DEFINE r == Silenced(rec)
    <2>1. Stilled(rec, r)
      BY <1>1, SilencedGives
    <2> HIDE DEF r
    <2>2. r \in RecSet /\ ~r.on /\ ~r.again /\ <<>> \in Text
      BY <2>1, Texts DEF Stilled
    <2>3. rec' = [r EXCEPT !.heard = <<>>]
      BY <1>2 DEF r
    <2>4. QED
      BY <2>2, <2>3 DEF RecSet
  <1>6. page' \in PageSet /\ page'.st = "ended"
    BY <1>1, <1>2, ClearedGives DEF State
  <1>7. PageInv'
    BY <1>1, <1>2, <1>5, <1>6 DEF CaptureInv, PageInv
  <1>8. SoundOK(Sound, Now)'
    BY <1>2, <1>3, <1>4
  <1>9. QED
    BY <1>2, <1>4, <1>5, <1>7, <1>8 DEF CaptureInv

LEMMA CaptureNext ==
  CaptureInv /\ [Next]_vars => CaptureInv'
  <1> SUFFICES ASSUME CaptureInv, [Next]_vars
               PROVE  CaptureInv'
    OBVIOUS
  <1>1. CASE Browser
    BY <1>1, EditsKeep, ListenStepKeeps, RecognitionKeeps, RecorderKeeps DEF Browser
  <1>2. CASE Server
    BY <1>2, ReplyKeeps DEF Server
  <1>3. CASE User
    BY <1>3, EditsKeep, ListenStepKeeps, ContinueGives, EndGives DEF User
  <1>4. CASE UNCHANGED vars
    <2>1. Sound' = Sound /\ Now' = Now
      BY <1>4 DEF vars, Sound, Now
    <2>2. PageInv'
      BY <1>4, <2>1 DEF CaptureInv, PageInv, vars
    <2>3. SoundOK(Sound, Now)'
      BY <2>1 DEF CaptureInv
    <2>4. QED
      BY <2>2, <2>3 DEF CaptureInv
  <1>5. QED
    BY <1>1, <1>2, <1>3, <1>4 DEF Next

LEMMA CaptureInvariant == Spec => []CaptureInv
  BY CaptureInit, CaptureNext, PTL DEF Spec

(* The variables have their types: in particular a call waits only for a   *)
(* recorder that flushes, and recognition that is on has an engine that is.*)
THEOREM CaptureTypes == Spec => []TypeOK
  <1>1. ASSUME CaptureInv
        PROVE  TypeOK
    <2>1. /\ page \in PageSet /\ rec \in RecSet /\ Sound \in SoundSet
          /\ voice \in {"none", "due", "reading"}
          /\ takes \in Seq(TakeSet) /\ Now <= MaxTakes
          /\ rec.on => rec.engine = "on"
      BY <1>1, CaptureFacts
    <2>2. /\ page.st \in {"speaking", "listening", "editing", "evaluating", "ended"}
          /\ page.q \in 1..MaxQuestions /\ page.token \in Nat
          /\ page.box \in Seq(Word) /\ page.pre \in Seq(Word) /\ page.undo \in BOOLEAN
      BY <2>1 DEF PageSet, State, Question, Text
    <2>3. /\ {rec.on, rec.again, rec.resume, rec.tick} \subseteq BOOLEAN
          /\ rec.engine \in {"off", "on", "ending"} /\ rec.of \in 0..MaxTakes
          /\ rec.prev \in Seq(Word) /\ rec.heard \in Seq(Word)
      BY <2>1 DEF RecSet, Text
    <2>4. /\ Sound.au \in [rec : 0..MaxTakes, stream : 0..MaxTakes, chunks : SUBSET Take]
          /\ Sound.media \in [Take -> Media] /\ Sound.live \in SUBSET Take
          /\ Sound.opening \in SUBSET Take /\ \A w \in Sound.waits : w.on \in Take
      BY <2>1 DEF SoundSet, Wait
    <2>5. /\ {au.rec, au.stream} \subseteq 0..MaxTakes /\ au.chunks \subseteq Take
          /\ media \in [Take -> {"none", "recording", "flushing", "inactive"}]
          /\ live \cup opening \subseteq Take
      BY <2>1, <2>4, SoundIsTyped DEF Media
    <2>6. \A w \in waits : w.on \in Take /\ media[w.on] = "flushing"
      BY <1>1, <2>1, <2>4, SoundIsTyped DEF CaptureInv, SoundOK
    <2>7. takes \in Seq([q : 1..MaxQuestions, more : BOOLEAN])
      BY <2>1 DEF TakeSet, Question
    <2>8. QED
      BY <2>1, <2>2, <2>3, <2>5, <2>6, <2>7 DEF TypeOK
  <1>2. QED
    BY <1>1, CaptureInvariant, PTL

LEMMA PrefixOfConcat ==
  ASSUME NEW a \in Text, NEW b \in Text
  PROVE  IsPrefix(a, a \o b)
  <1>1. Len(a) \in Nat /\ Len(b) \in Nat /\ Len(a \o b) = Len(a) + Len(b) /\ a \o b \in Text
    BY DEF Text
  <1>2. \A i \in 1..Len(a) : (a \o b)[i] = a[i]
    BY DEF Text
  <1>3. /\ SubSeq(a, 1, Len(a)) = [i \in 1..Len(a) |-> a[i]]
        /\ SubSeq(a \o b, 1, Len(a)) = [i \in 1..Len(a) |-> (a \o b)[i]]
    BY <1>1 DEF Text
  <1>4. QED
    BY <1>1, <1>2, <1>3 DEF IsPrefix

LEMMA OnlyStopsEdit ==
  ASSUME CaptureInv, [Next]_vars, page.st = "listening", page'.st = "editing"
  PROVE  Silence \/ ManualStop
  <1>1. page \in PageSet /\ PageInv /\ Sound \in SoundSet
    BY CaptureFacts DEF CaptureInv
  <1>2. page' # page
    OBVIOUS
  <1>3. ~(\E t \in Take : Opened(t) \/ Flush(t)) /\ ~Hear /\ ~RecognitionEnds /\ ~Restart /\ ~Due
    BY <1>2 DEF Opened, Flush, Hear, RecognitionEnds, Restart, Due
  <1>4. ~Read
    BY <1>2 DEF Read
  <1>5. ~Server
    <2>1. ASSUME NEW r \in asr, Reply(r)
          PROVE  FALSE
      BY <1>1, <1>2, <2>1, ReplyGives
    <2>2. QED
      BY <2>1 DEF Server
  <1>6. ~Retry /\ ~Continue /\ ~Edit /\ ~Undo /\ ~Submit /\ ~NextQuestion
    BY DEF Retry, Continue, Edit, Undo, Submit, NextQuestion
  <1>7. ~EndEarly
    BY <1>1, EndGives, ClearedGives DEF State
  <1>8. page' # page => ~UNCHANGED vars
    BY DEF vars
  <1>9. QED
    BY <1>2, <1>3, <1>4, <1>5, <1>6, <1>7, <1>8 DEF Next, Browser, User

(* "Continue From Here" keeps the text that it continues at the head of    *)
(* the next, however the take ends.                                        *)
THEOREM ContinuedTextStays == Spec => ContinueKeepsText
  <1>1. ASSUME CaptureInv, [Next]_vars, page.st = "listening", page'.st = "editing",
               takes[Now].more
        PROVE  IsPrefix(page.box, page'.box)
    <2>1. Silence \/ ManualStop
      BY <1>1, OnlyStopsEdit
    <2>2. /\ page \in PageSet /\ rec \in RecSet /\ rec.resume /\ rec.prev = page.box
      BY <1>1, CaptureFacts DEF CaptureInv, PageInv
    <2>3. Show(FullText)
      BY <1>1, <2>1, ShowsGives
    <2>4. page'.box = FullText
      BY <2>2, <2>3 DEF Show, PageSet
    <2>5. FullText = page.box \o rec.heard
      BY <2>2 DEF FullText
    <2>6. page.box \in Text /\ rec.heard \in Text
      BY <2>2 DEF PageSet, RecSet
    <2>7. QED
      BY <2>4, <2>5, <2>6, PrefixOfConcat
  <1>2. CaptureInv /\ [Next]_vars
          => [page.st = "listening" /\ page'.st = "editing" /\ takes[Now].more
                => IsPrefix(page.box, page'.box)]_vars
    BY <1>1
  <1>3. QED
    BY <1>2, CaptureInvariant, PTL DEF Spec, ContinueKeepsText

-----------------------------------------------------------------------------
(* The second invariant, if getUserMedia answers before the next click     *)

OneMic(s) ==
  /\ \A t \in Take : s.media[t] = "recording" => t = s.au.stream /\ t = s.au.rec
  /\ s.live \subseteq {s.au.stream}

Silent(s) ==
  /\ \A t \in Take : s.media[t] # "recording"
  /\ s.live \subseteq {s.au.stream}

(* A stop or a discard silences the recorder.                              *)
Calmed(s, call, r) ==
  /\ r \in SoundSet /\ Silent(r) /\ (r.live = {} \/ r.waits # {})
  /\ r.opening = s.opening /\ r.au.chunks \subseteq s.au.chunks
  /\ \A t \in Take : r.media[t] = "flushing" => s.media[t] \in {"recording", "flushing"}
  /\ \A w \in r.waits : w \in s.waits \/ w.call = call
  /\ \A x \in r.asr : x \in s.asr \/ (call \in Stop /\ x = Asked(s, call))

LEMMA ResumeCalms ==
  ASSUME NEW s \in SoundSet, NEW call \in Call, call \notin Opening, OneMic(s),
         NEW wanted, NEW r, Resumed(s, call, wanted, r)
  PROVE  /\ Calmed(s, call, r) /\ r.live = {} /\ r.waits = s.waits
         /\ r.au.stream = 0 /\ r.au.rec = 0
         /\ \A x \in r.asr : x \in s.asr \/ (call \in Stop /\ wanted /\ x = Asked(s, call))
  <1>1. /\ r \in SoundSet /\ r.au.stream = 0 /\ r.au.rec = 0 /\ r.waits = s.waits
        /\ r.live = s.live \ {s.au.stream} /\ \A t \in Take : r.media[t] = Quiet(s, t)
    BY DEF Resumed, Released
  <1>2. r.live = {} /\ Silent(r)
    BY <1>1 DEF OneMic, Silent, Quiet
  <1>3. r.opening = s.opening
    BY NothingAdded DEF Resumed
  <1>4. r.au.chunks \subseteq s.au.chunks
    BY DEF Resumed
  <1>5. \A x \in r.asr : x \in s.asr \/ (call \in Stop /\ wanted /\ x = Asked(s, call))
    BY DEF Resumed
  <1>6. \A t \in Take : r.media[t] = "flushing" => s.media[t] \in {"recording", "flushing"}
    BY <1>1 DEF Quiet
  <1>7. QED
    BY <1>1, <1>2, <1>3, <1>4, <1>5, <1>6 DEF Calmed

LEMMA BeginCalms ==
  ASSUME NEW s \in SoundSet, NEW call \in Call, call \notin Opening, OneMic(s)
  PROVE  Calmed(s, call, Begin(s, call))
  <1>1. CASE ~Runs(s)
    BY <1>1, BeginGives, ResumeCalms
  <1>2. CASE Runs(s)
    <2> DEFINE r == Begin(s, call)
    <2>1. Waiting(s, call, r)
      BY <1>2, BeginGives
    <2> HIDE DEF r
    <2>2. /\ r \in SoundSet /\ r.au = s.au /\ r.live = s.live /\ r.opening = s.opening
          /\ r.asr = s.asr
          /\ \A t \in Take : r.media[t] = IF t = s.au.rec THEN "flushing" ELSE s.media[t]
          /\ r.waits = s.waits \cup {[on |-> s.au.rec, call |-> call]}
      BY <2>1 DEF Waiting
    <2>3. Silent(r)
      BY <2>2 DEF OneMic, Silent
    <2>4. r.waits # {} /\ \A w \in r.waits : w \in s.waits \/ w.call = call
      <3>1. [on |-> s.au.rec, call |-> call].call = call
        OBVIOUS
      <3>2. QED
        BY <2>2, <3>1
    <2>5. \A t \in Take : r.media[t] = "flushing" => s.media[t] \in {"recording", "flushing"}
      BY <1>2, <2>2 DEF Runs
    <2>6. Calmed(s, call, r)
      BY <2>2, <2>3, <2>4, <2>5 DEF Calmed
    <2>7. QED
      BY <2>6 DEF r
  <1>3. QED
    BY <1>1, <1>2

(* A recorder that is silent is opened at once.                            *)
Awaited(s, call, r) ==
  /\ r \in SoundSet /\ Silent(r) /\ r.live = {}
  /\ r.au.stream = 0 /\ r.au.rec = 0
  /\ r.au.chunks = (IF call.op = "continue" THEN s.au.chunks ELSE {})
  /\ r.opening = s.opening \cup {call.take}
  /\ \A t \in Take : r.media[t] = s.media[t]
  /\ r.waits = s.waits /\ r.asr = s.asr

LEMMA BeginOpens ==
  ASSUME NEW s \in SoundSet, NEW call \in Call, call \in Opening, Silent(s)
  PROVE  Awaited(s, call, Begin(s, call))
  <1> DEFINE r == Begin(s, call)
  <1>1. ~Runs(s)
    BY CaptureAssumption DEF Runs, Silent, SoundSet, Take
  <1>2. Resumed(s, call, TRUE, r)
    BY <1>1, BeginGives
  <1> HIDE DEF r
  <1>3. call \notin Stop
    BY DEF Opening, Stop
  <1>4. r.asr = s.asr /\ r.opening = s.opening \cup {call.take}
    BY <1>2, <1>3, NothingAdded DEF Resumed
  <1>5. /\ r \in SoundSet /\ r.au.stream = 0 /\ r.au.rec = 0 /\ r.waits = s.waits
        /\ r.live = s.live \ {s.au.stream} /\ \A t \in Take : r.media[t] = Quiet(s, t)
    BY <1>2 DEF Resumed, Released
  <1>6. r.live = {} /\ \A t \in Take : r.media[t] = s.media[t]
    BY <1>5 DEF Silent, Quiet
  <1>7. Silent(r)
    BY <1>6 DEF Silent
  <1>8. r.au.chunks = IF call.op = "continue" THEN s.au.chunks ELSE {}
    BY <1>2 DEF Resumed
  <1>9. Awaited(s, call, r)
    BY <1>4, <1>5, <1>6, <1>7, <1>8 DEF Awaited
  <1>10. QED
    BY <1>9 DEF r

LEMMA OfAppended ==
  ASSUME NEW ts \in Seq(TakeSet), NEW k \in TakeSet
  PROVE  /\ \A q, t : Of(ts, q, t) => Of(Append(ts, k), q, t)
         /\ Of(Append(ts, k), k.q, Len(Append(ts, k)))
         /\ \A q, text : WordsOf(ts, q, text) => WordsOf(Append(ts, k), q, text)
  <1>1. \A q, t : Of(ts, q, t) => Of(Append(ts, k), q, t)
    BY Appended DEF Of
  <1>2. Of(Append(ts, k), k.q, Len(Append(ts, k)))
    <2>1. /\ Len(ts) \in Nat /\ Len(Append(ts, k)) = Len(ts) + 1
          /\ Append(ts, k)[Len(ts) + 1] = k
      BY Appended
    <2>2. QED
      BY <2>1 DEF Of
  <1>3. QED
    BY <1>1, <1>2 DEF WordsOf

LEMMA WordsTogether ==
  ASSUME NEW ts, NEW q, NEW a \in Text, NEW b \in Text,
         WordsOf(ts, q, a), WordsOf(ts, q, b)
  PROVE  WordsOf(ts, q, a \o b)
  <1>1. \A i \in DOMAIN (a \o b) : \/ i \in DOMAIN a /\ (a \o b)[i] = a[i]
                                   \/ i - Len(a) \in DOMAIN b /\ (a \o b)[i] = b[i - Len(a)]
    BY DEF Text
  <1>2. QED
    BY <1>1 DEF WordsOf

LEMMA WordAdded ==
  ASSUME NEW ts, NEW q, NEW a \in Text, NEW w \in Word,
         WordsOf(ts, q, a), Of(ts, q, w.take)
  PROVE  WordsOf(ts, q, Append(a, w))
  <1>1. \A i \in DOMAIN Append(a, w) : \/ i \in DOMAIN a /\ Append(a, w)[i] = a[i]
                                       \/ Append(a, w)[i] = w
    BY DEF Text
  <1>2. QED
    BY <1>1 DEF WordsOf

LEMMA NoWords == \A ts, q : WordsOf(ts, q, <<>>)
  BY DEF WordsOf

LEMMA QuestionFacts ==
  CaptureInv /\ QuestionInv
    => /\ OneMic(Sound) /\ (page.st # "listening" => Silent(Sound))
       /\ rec.on => page.st = "listening"
       /\ (SlowPrompt = FALSE /\ Prompt) => Sound.opening = {}
       /\ Sound.opening # {} => page.st = "listening"
  BY CaptureFacts, SoundIsTyped
  DEF QuestionInv, MicOK, WordsOK, OneMic, Silent, Prompt

(* What is left when a step of the page does not touch the recorder.       *)
LEMMA QuietPage ==
  ASSUME CaptureInv, QuestionInv, Sound' = Sound, takes' = takes, rec' = rec,
         page' \in PageSet, WordsOK',
         page'.q = page.q \/ ~Active(page'),
         Active(page') => Active(page), page'.st = "ended" => page.st = "ended",
         Sound.opening # {} => page' = page, page.st = "listening" => page' = page,
         \/ page'.token = page.token /\ page'.st = page.st
         \/ page'.token = page.token /\ page.st # "editing"
         \/ page'.token = page.token + 1
  PROVE  QuestionInv'
  <1>1. /\ page \in PageSet /\ Sound \in SoundSet /\ page.token \in Nat
        /\ OneMic(Sound) /\ (page.st # "listening" => Silent(Sound))
    BY CaptureFacts, QuestionFacts DEF PageSet
  <1>2. Now' = Now
    BY DEF Now
  <1>3. ASSUME NEW w \in Sound.waits, w.call \in Stop
        PROVE  /\ w.call.token <= page'.token
               /\ w.call.token = page'.token => page'.st = "editing" /\ w.call.q = page'.q
    <2>1. w.call.token \in Nat
      BY <1>3 DEF Stop
    <2>2. /\ w.call.token <= page.token
          /\ w.call.token = page.token => page.st = "editing" /\ w.call.q = page.q
      BY <1>3 DEF QuestionInv, StopsOK
    <2>3. page'.token \in Nat
      BY DEF PageSet
    <2>4. CASE page'.token = page.token + 1
      BY <1>1, <2>1, <2>2, <2>4
    <2>5. CASE page'.token = page.token /\ page'.st = page.st
      BY <2>2, <2>5 DEF Active
    <2>6. CASE page'.token = page.token /\ page.st # "editing"
      BY <2>2, <2>6
    <2>7. QED
      BY <2>4, <2>5, <2>6
  <1>4. StopsOK(Sound, page)'
    BY <1>3 DEF StopsOK
  <1>5. MicOK(Sound, page, Now)'
    <2>1. MicOK(Sound, page', Now)
      BY <1>1 DEF QuestionInv, MicOK, Silent
    <2>2. QED
      BY <1>2, <2>1
  <1>6. AudioOK(Sound, page, takes)'
    <2>1. AudioOK(Sound, page', takes)
      BY DEF QuestionInv, AudioOK
    <2>2. QED
      BY <2>1
  <1>7. QED
    BY <1>4, <1>5, <1>6 DEF QuestionInv

LEMMA EditsOfQuestion ==
  ASSUME SlowPrompt = FALSE, CaptureInv, QuestionInv,
         Edit \/ Undo \/ Submit \/ NextQuestion \/ Due
  PROVE  QuestionInv'
  <1>1. /\ page \in PageSet /\ Sound \in SoundSet /\ CaptureInv'
        /\ page.box \in Text
        /\ Sound.opening # {} => page.st = "listening"
    BY CaptureFacts, QuestionFacts, EditsKeep DEF PageSet
  <1>2. Sound' = Sound /\ takes' = takes /\ rec' = rec /\ page' \in PageSet
    <2>1. page' \in PageSet
      BY <1>1 DEF CaptureInv, PageInv
    <2>2. UNCHANGED <<rec, sound, asr, takes>>
      BY DEF Edit, Undo, Submit, NextQuestion, Due
    <2>3. QED
      BY <2>1, <2>2, SoundUnchanged
  <1>3. WordsOK
    BY DEF QuestionInv
  <1>4. CASE Edit
    <2>1. /\ page.st = "editing" /\ page'.st = page.st /\ page'.q = page.q
          /\ page'.token = page.token /\ page'.pre = page.pre
          /\ page'.box = Append(page.box, [take |-> Now, by |-> "typed"])
      BY <1>1, <1>4 DEF Edit, PageSet
    <2>2. Of(takes, page.q, Now) /\ WordsOf(takes, page.q, page.box)
      BY <1>3, <2>1 DEF QuestionInv, AudioOK, Active, WordsOK, Now
    <2>3. [take |-> Now, by |-> "typed"] \in Word
      BY CaptureFacts, Constants DEF Word
    <2>4. WordsOf(takes, page.q, page'.box)
      BY <1>1, <2>1, <2>2, <2>3, WordAdded
    <2>5. WordsOK'
      BY <1>2, <1>3, <2>1, <2>4 DEF WordsOK, Active
    <2>6. QED
      BY <1>1, <1>2, <2>1, <2>5, QuietPage DEF Active
  <1>5. CASE Undo
    <2>1. /\ page.st = "editing" /\ page'.st = page.st /\ page'.q = page.q
          /\ page'.token = page.token /\ page'.pre = <<>> /\ page'.box = page.pre
      BY <1>1, <1>5 DEF Undo, PageSet
    <2>2. WordsOK'
      BY <1>2, <1>3, <2>1, NoWords DEF WordsOK, Active
    <2>3. QED
      BY <1>1, <1>2, <2>1, <2>2, QuietPage DEF Active
  <1>6. CASE Submit
    <2>1. page' = Cleared(page, "evaluating") /\ page.st = "editing"
      BY <1>6 DEF Submit, Cleared
    <2>2. /\ page'.st = "evaluating" /\ page'.token = page.token + 1
          /\ page'.box = <<>> /\ page'.pre = <<>>
      BY <1>1, <2>1, ClearedGives DEF State
    <2>3. WordsOK'
      BY <1>2, <1>3, <2>1, <2>2 DEF WordsOK, Active
    <2>4. ~Active(page')
      BY <2>2 DEF Active
    <2>5. QED
      BY <1>1, <1>2, <2>1, <2>2, <2>3, <2>4, QuietPage
  <1>7. CASE NextQuestion
    <2>1. /\ page.st = "evaluating" /\ page'.st = "speaking" /\ page'.token = page.token
          /\ page'.box = page.box /\ page'.pre = page.pre
      BY <1>1, <1>7 DEF NextQuestion, PageSet
    <2>2. WordsOK'
      BY <1>2, <1>3, <2>1 DEF WordsOK, Active
    <2>3. ~Active(page')
      BY <2>1 DEF Active
    <2>4. QED
      BY <1>1, <1>2, <2>1, <2>2, <2>3, QuietPage
  <1>8. CASE Due
    <2>1. page' = page
      BY <1>8 DEF Due
    <2>2. WordsOK'
      BY <1>2, <1>3, <2>1 DEF WordsOK, Active
    <2>3. QED
      BY <1>1, <1>2, <2>1, <2>2, QuietPage
  <1>9. QED
    BY <1>4, <1>5, <1>6, <1>7, <1>8

LEMMA HeardOfQuestion ==
  ASSUME CaptureInv, QuestionInv, Hear \/ RecognitionEnds \/ Restart
  PROVE  QuestionInv'
  <1>1. /\ rec \in RecSet /\ rec.heard \in Text /\ Now \in 0..MaxTakes
        /\ WordsOK
    BY CaptureFacts, Constants DEF RecSet, QuestionInv
  <1>2. Sound' = Sound /\ takes' = takes /\ page' = page /\ Now' = Now
    <2>1. UNCHANGED <<page, voice, sound, asr, takes>>
      BY DEF Hear, RecognitionEnds, Restart
    <2>2. QED
      BY <2>1, SoundUnchanged DEF Now
  <1>3. CASE Hear
    <2> DEFINE w == [take |-> rec.of, by |-> "heard"]
    <2>1. /\ rec.engine # "off" /\ rec.again
          /\ rec' = [rec EXCEPT !.heard = Append(rec.heard, w)]
      BY <1>3 DEF Hear
    <2>2. page.st = "listening" /\ Of(takes, page.q, rec.of)
          /\ WordsOf(takes, page.q, rec.heard)
      BY <1>1, <2>1 DEF WordsOK, Active
    <2>3. w \in Word /\ w.take = rec.of
      BY <1>1 DEF Word, RecSet
    <2>4. WordsOf(takes, page.q, Append(rec.heard, w))
      BY <1>1, <2>2, <2>3, WordAdded
    <2> HIDE DEF w
    <2>5. /\ rec'.on = rec.on /\ rec'.again = rec.again /\ rec'.engine = rec.engine
          /\ rec'.of = rec.of /\ rec'.heard = Append(rec.heard, w)
      BY <1>1, <2>1 DEF RecSet
    <2>6. WordsOK'
      BY <1>1, <1>2, <2>4, <2>5 DEF WordsOK, Active
    <2>7. QED
      BY <1>2, <2>6 DEF QuestionInv
  <1>4. CASE RecognitionEnds
    <2>1. rec' = [rec EXCEPT !.engine = "off", !.on = FALSE, !.tick = rec.again]
      BY <1>4 DEF RecognitionEnds
    <2>2. /\ ~rec'.on /\ rec'.again = rec.again /\ rec'.engine = "off"
          /\ rec'.heard = rec.heard
      BY <1>1, <2>1 DEF RecSet
    <2>3. WordsOK'
      BY <1>1, <1>2, <2>2 DEF WordsOK, Active
    <2>4. QED
      BY <1>2, <2>3 DEF QuestionInv
  <1>5. CASE Restart
    <2> DEFINE still == [rec EXCEPT !.tick = FALSE]
               again == [still EXCEPT !.on = TRUE, !.engine = "on", !.of = Now]
    <2>1. rec' = IF rec.again /\ rec.engine = "off" THEN again ELSE still
      <3>1. rec.on => rec.engine = "on"
        BY CaptureFacts
      <3>2. QED
        BY <1>1, <1>5, <3>1 DEF Restart, RecSet
    <2>2. /\ still \in RecSet /\ still.on = rec.on /\ still.again = rec.again
          /\ still.engine = rec.engine /\ still.of = rec.of /\ still.heard = rec.heard
      BY <1>1 DEF RecSet
    <2>3. /\ again.again = rec.again /\ again.of = Now /\ again.heard = rec.heard
      BY <1>1, <2>2 DEF RecSet
    <2>4. page.st = "listening" => Of(takes, page.q, Now)
      BY DEF QuestionInv, AudioOK, Active, Now
    <2> HIDE DEF again, still
    <2>5. CASE rec.again /\ rec.engine = "off"
      <3>1. rec'.again /\ rec'.of = Now /\ rec'.heard = rec.heard
        BY <2>1, <2>3, <2>5
      <3>2. page.st = "listening"
        BY <1>1, <2>5 DEF WordsOK
      <3>3. WordsOK'
        BY <1>1, <1>2, <2>4, <3>1, <3>2 DEF WordsOK, Active
      <3>4. QED
        BY <1>2, <3>3 DEF QuestionInv
    <2>6. CASE ~(rec.again /\ rec.engine = "off")
      <3>1. WordsOK'
        BY <1>1, <1>2, <2>1, <2>2, <2>6 DEF WordsOK, Active
      <3>2. QED
        BY <1>2, <3>1 DEF QuestionInv
    <2>7. QED
      BY <2>5, <2>6
  <1>6. QED
    BY <1>3, <1>4, <1>5

(* The page begins to listen, with a silent recorder.                      *)
LEMMA ListenOfQuestion ==
  ASSUME SlowPrompt = FALSE, CaptureInv, QuestionInv, Silence \/ Retry \/ Read,
         page'.st = "listening", ~UNCHANGED takes
  PROVE  QuestionInv'
  <1>0. PICK s : \E r \in RecSet : Listens(s, r)
    BY ListensGives
  <1>1. PICK r \in RecSet :
           /\ StartListening(s) /\ SoundOK(s, Now)
           /\ r.on => r.engine = "on"
           /\ rec' = Started(r, <<>>, FALSE, Now + 1)
           /\ voice' \in {"none", "due", "reading"}
           /\ r.engine = "off" <=> rec.engine = "off"
           /\ (r = rec \/ ~r.on) /\ r.of = rec.of
           /\ IF Read THEN s = Sound /\ page.st = "speaking" /\ r = rec
              ELSE s = Discarded(Sound)
    BY <1>0 DEF Listens
  <1> DEFINE call == [op |-> "start", take |-> Now + 1]
             k == [q |-> page.q, more |-> FALSE]
  <1>2. /\ CaptureInv' /\ Sound' = Begin(s, call)
        /\ StartedAs(r, <<>>, FALSE, Now + 1, rec')
    BY <1>1, StartListeningKeeps
  <1>3. /\ page \in PageSet /\ Sound \in SoundSet /\ s \in SoundSet /\ Now \in Nat
        /\ takes \in Seq(TakeSet) /\ OneMic(Sound) /\ page.token \in Nat
        /\ Now < MaxTakes /\ k \in TakeSet
    BY <1>1, CaptureFacts, QuestionFacts DEF SoundOK, StartListening, PageSet, TakeSet
  <1>4. /\ page' = Cleared(page, "listening") /\ takes' = Append(takes, k)
    BY <1>1 DEF StartListening, Cleared
  <1>5. /\ page'.st = "listening" /\ page'.q = page.q /\ page'.token = page.token + 1
        /\ page'.box = <<>> /\ page'.pre = <<>> /\ page' \in PageSet
    BY <1>3, <1>4, ClearedGives DEF State
  <1>6. Read => page.st = "speaking"
    BY <1>1
  <1>7. ~Read => page.st \in {"listening", "editing"} /\ Prompt
    BY QuestionFacts DEF Silence, Retry
  <1>8. Sound.opening = {}
    BY <1>6, <1>7, QuestionFacts
  (* The sound state in which the recorder is started.                     *)
  <1>9. /\ Silent(s) /\ s.opening = {}
        /\ \A t \in Take : s.media[t] = "flushing"
                             => Sound.media[t] \in {"recording", "flushing"}
        /\ \A w \in s.waits : w \in Sound.waits \/ w.call = [op |-> "discard"]
        /\ \A x \in s.asr : x \in Sound.asr
    <2>1. CASE Read
      BY <1>1, <1>6, <1>8, <2>1, QuestionFacts
    <2>2. CASE ~Read
      <3> DEFINE d == [op |-> "discard"]
      <3>1. d \in Call /\ d \notin Opening /\ d \notin Stop
        BY DEF Call, Discard, Opening, Stop
      <3>2. s = Begin(Sound, d)
        BY <1>1, <2>2, DiscardedKeeps
      <3> HIDE DEF d
      <3>3. Calmed(Sound, d, s)
        BY <1>3, <3>1, <3>2, BeginCalms
      <3>4. /\ Silent(s) /\ s.opening = {}
            /\ \A t \in Take : s.media[t] = "flushing"
                                 => Sound.media[t] \in {"recording", "flushing"}
            /\ \A w \in s.waits : w \in Sound.waits \/ w.call = d
            /\ \A x \in s.asr : x \in Sound.asr
        BY <1>8, <3>1, <3>3 DEF Calmed
      <3>5. QED
        BY <3>4 DEF d
    <2>3. QED
      BY <2>1, <2>2
  <1>10. call \in Opening /\ call \in Call /\ call.take = Now + 1 /\ call.op = "start"
    BY <1>3, Constants DEF Opening, Call, Take
  <1> HIDE DEF call
  <1>11. /\ Silent(Sound') /\ Sound'.live = {} /\ Sound'.au.stream = 0
         /\ Sound'.au.rec = 0 /\ Sound'.au.chunks = {} /\ Sound'.opening = {Now + 1}
         /\ \A t \in Take : Sound'.media[t] = s.media[t]
         /\ Sound'.waits = s.waits /\ Sound'.asr = s.asr
    <2>1. Awaited(s, call, Sound')
      BY <1>2, <1>3, <1>9, <1>10, BeginOpens
    <2>2. QED
      BY <1>9, <1>10, <2>1 DEF Awaited
  <1>12. /\ Now' = Now + 1 /\ Of(takes', page.q, Now')
         /\ \A q, t : Of(takes, q, t) => Of(takes', q, t)
    <2>1. Now' = Now + 1 /\ k.q = page.q
      BY <1>3, <1>4, Appended DEF Now
    <2>2. QED
      BY <1>3, <1>4, <2>1, OfAppended DEF Now
  <1>13. Read => rec.engine = "off"
    BY DEF Read
  <1>14. /\ \A w \in Sound.waits : w.call \notin Opening
         /\ \A w \in Sound.waits : w.call \in Stop => w.call.token <= page.token
    BY DEF QuestionInv, MicOK, StopsOK
  <1>15. StopsOK(Sound, page)'
    <2>1. ASSUME NEW w \in Sound'.waits, w.call \in Stop
          PROVE  w.call.token < page'.token
      <3>1. w.call # [op |-> "discard"]
        BY <2>1 DEF Stop
      <3>2. w \in Sound.waits /\ w.call.token \in Nat
        BY <1>9, <1>11, <2>1, <3>1 DEF Stop
      <3>3. QED
        BY <1>3, <1>5, <1>14, <2>1, <3>2
    <2>2. ASSUME NEW w \in Sound'.waits, w.call \in Stop
          PROVE  w.call.token \in Nat /\ page'.token \in Nat
      BY <1>5, <2>2 DEF Stop, PageSet
    <2>3. ASSUME NEW w \in Sound'.waits, w.call \in Stop
          PROVE  w.call.token <= page'.token /\ w.call.token # page'.token
      BY <2>1, <2>2, <2>3
    <2>4. QED
      BY <2>3 DEF StopsOK
  <1>16. MicOK(Sound, page, Now)'
    <2>1. [op |-> "discard"] \notin Opening
      BY DEF Opening
    <2>2. \A w \in Sound'.waits : w.call \notin Opening
      BY <1>9, <1>11, <1>14, <2>1
    <2>3. QED
      BY <1>5, <1>11, <1>12, <2>2 DEF MicOK, Silent
  <1>17. AudioOK(Sound, page, takes)'
    <2>1. ASSUME NEW t \in Take, Sound'.media[t] \in {"recording", "flushing"}
          PROVE  Of(takes', page.q, t)
      <3>1. Sound.media[t] \in {"recording", "flushing"}
        BY <1>9, <1>11, <2>1 DEF Silent
      <3>2. ~Read
        BY <1>6, <3>1, SoundIsTyped, <1>3, QuestionFacts DEF Read, Silent
      <3>3. Of(takes, page.q, t)
        BY <1>7, <3>1, <3>2 DEF QuestionInv, AudioOK, Active
      <3>4. QED
        BY <1>12, <3>3
    <2>2. \A x \in Sound'.asr : \A t \in x.audio : Of(takes', x.q, t)
      BY <1>9, <1>11, <1>12 DEF QuestionInv, AudioOK
    <2>3. QED
      BY <1>5, <1>11, <1>12, <2>1, <2>2 DEF AudioOK, Now
  <1>18. WordsOK'
    <2>1. /\ rec'.heard = <<>> /\ rec'.again
          /\ IF rec.engine = "off" THEN rec'.of = Now + 1 ELSE rec'.of = r.of
      BY <1>1, <1>2 DEF StartedAs
    <2>2. Of(takes', page'.q, rec'.of)
      <3>1. CASE rec.engine = "off"
        BY <1>5, <1>12, <2>1, <3>1
      <3>2. CASE rec.engine # "off"
        <4>1. ~Read
          BY <1>13, <3>2
        <4>2. Of(takes, page.q, rec.of)
          BY <1>7, <3>2, <4>1 DEF QuestionInv, WordsOK, Active
        <4>3. r.of = rec.of
          BY <1>1
        <4>4. QED
          BY <1>5, <1>12, <2>1, <3>2, <4>2, <4>3
      <3>3. QED
        BY <3>1, <3>2
    <2>3. QED
      BY <1>5, <2>1, <2>2, NoWords DEF WordsOK, Active
  <1>19. QED
    BY <1>15, <1>16, <1>17, <1>18 DEF QuestionInv

(* A take is over: the text is shown, and the audio is kept for a stop.    *)
LEMMA ShownOfQuestion ==
  ASSUME SlowPrompt = FALSE, CaptureInv, QuestionInv, Silence \/ ManualStop,
         page'.st = "editing"
  PROVE  QuestionInv'
  <1> DEFINE call == StopOf(page, FullText)
  <1>1. /\ Show(FullText) /\ FullText \in Text /\ Stilled(rec, rec') /\ voice' = voice
        /\ Prompt /\ page.st = "listening"
    BY ShowsGives, QuestionFacts
  <1>2. /\ CaptureInv' /\ takes' = takes /\ call \in Stop
        /\ Sound' = IF au.rec = 0 THEN Sound ELSE Begin(Sound, call)
    BY <1>1, ShowKeeps
  <1>3. /\ page \in PageSet /\ Sound \in SoundSet /\ Now \in Nat /\ rec \in RecSet
        /\ OneMic(Sound) /\ Sound.opening = {}
    BY <1>1, CaptureFacts, QuestionFacts
  <1>4. /\ page'.st = "editing" /\ page'.q = page.q /\ page'.token = page.token
        /\ page'.box = FullText /\ page'.pre = page.pre
    BY <1>1, <1>3 DEF Show, PageSet
  <1>5. /\ call \in Call /\ call \notin Opening
        /\ call.token = page.token /\ call.q = page.q
    BY <1>2 DEF Call, Opening, Stop, StopOf
  <1> HIDE DEF call
  <1>6. /\ Silent(Sound') /\ Sound'.opening = {}
        /\ Sound'.au.chunks \subseteq Sound.au.chunks
        /\ \A t \in Take : Sound'.media[t] = "flushing"
                             => Sound.media[t] \in {"recording", "flushing"}
        /\ \A w \in Sound'.waits : w \in Sound.waits \/ w.call = call
        /\ \A x \in Sound'.asr : x \in Sound.asr \/ x = Asked(Sound, call)
    <2>1. CASE au.rec = 0
      <3>1. Sound' = Sound /\ Sound.au.rec = 0 /\ 0 \notin Take
        BY <1>2, <1>3, <2>1, SoundIsTyped DEF Take
      <3>2. QED
        BY <1>3, <3>1 DEF OneMic, Silent
    <2>2. CASE au.rec # 0
      BY <1>2, <1>3, <1>5, <2>2, BeginCalms DEF Calmed
    <2>3. QED
      BY <2>1, <2>2
  <1>7. StopsOK(Sound, page)'
    <2>1. ASSUME NEW w \in Sound'.waits, w.call \in Stop
          PROVE  /\ w.call.token <= page'.token
                 /\ w.call.token = page'.token
                      => page'.st = "editing" /\ w.call.q = page'.q
      <3>1. CASE w \in Sound.waits
        <4>1. /\ w.call.token <= page.token
              /\ w.call.token = page.token => page.st = "editing"
          BY <2>1, <3>1 DEF QuestionInv, StopsOK
        <4>2. QED
          BY <1>1, <1>4, <4>1
      <3>2. CASE w.call = call
        <4>1. page.token <= page.token
          BY <1>3 DEF PageSet
        <4>2. QED
          BY <1>4, <1>5, <3>2, <4>1
      <3>3. QED
        BY <1>6, <2>1, <3>1, <3>2
    <2>2. QED
      BY <2>1 DEF StopsOK
  <1>8. MicOK(Sound, page, Now)'
    <2>1. \A w \in Sound'.waits : w.call \notin Opening
      BY <1>5, <1>6 DEF QuestionInv, MicOK
    <2>2. QED
      BY <1>4, <1>6, <2>1 DEF MicOK, Silent
  <1>9. AudioOK(Sound, page, takes)'
    <2>1. /\ Of(takes, page.q, Len(takes)) /\ Sound.au.chunks \subseteq 1..Len(takes)
          /\ \A t \in Sound.au.chunks : Of(takes, page.q, t)
          /\ \A t \in Take : Sound.media[t] \in {"recording", "flushing"}
                               => Of(takes, page.q, t)
          /\ \A x \in Sound.asr : \A t \in x.audio : Of(takes, x.q, t)
      BY <1>1 DEF QuestionInv, AudioOK, Active
    <2>2. Asked(Sound, call).q = page.q /\ Asked(Sound, call).audio = Sound.au.chunks
      BY <1>5 DEF Asked
    <2>3. \A x \in Sound'.asr : \A t \in x.audio : Of(takes, x.q, t)
      BY <1>6, <2>1, <2>2
    <2>4. \A t \in Take : Sound'.media[t] \in {"recording", "flushing"}
                            => Of(takes, page.q, t)
      BY <1>6, <2>1 DEF Silent
    <2>5. \A t \in Sound'.au.chunks : Of(takes, page.q, t)
      BY <1>6, <2>1
    <2>6. QED
      BY <1>2, <1>4, <1>6, <2>1, <2>3, <2>4, <2>5 DEF AudioOK
  <1>10. WordsOK'
    <2>1. /\ WordsOf(takes, page.q, page.box) /\ WordsOf(takes, page.q, page.pre)
          /\ WordsOf(takes, page.q, rec.heard)
          /\ rec.engine # "off" => Of(takes, page.q, rec.of)
      BY <1>1 DEF QuestionInv, WordsOK, Active
    <2>2. WordsOf(takes, page.q, FullText)
      <3>1. rec.resume => rec.prev = page.box
        BY <1>1 DEF CaptureInv, PageInv
      <3>2. page.box \in Text /\ rec.heard \in Text
        BY <1>3 DEF PageSet, RecSet
      <3>3. WordsOf(takes, page.q, page.box \o rec.heard)
        BY <2>1, <3>2, WordsTogether
      <3>4. QED
        BY <2>1, <3>1, <3>3 DEF FullText
    <2>3. QED
      BY <1>1, <1>2, <1>4, <2>1, <2>2 DEF WordsOK, Active, Stilled
  <1>11. QED
    BY <1>7, <1>8, <1>9, <1>10 DEF QuestionInv

(* The take is continued by another of the same question.                  *)
LEMMA ContinueOfQuestion ==
  ASSUME SlowPrompt = FALSE, CaptureInv, QuestionInv, Continue
  PROVE  QuestionInv'
  <1> DEFINE call == [op |-> "continue", take |-> Now + 1]
             k == [q |-> page.q, more |-> TRUE]
  <1>1. /\ CaptureInv' /\ Now' = Now + 1
        /\ Sound' = Begin(Sound, call) /\ call \in Opening
        /\ takes' = Append(takes, k) /\ k \in TakeSet
        /\ StartedAs(rec, page.box, TRUE, Now + 1, rec')
        /\ page' \in PageSet /\ page'.st = "listening" /\ page'.q = page.q
        /\ page'.box = page.box /\ page'.token = page.token + 1
        /\ page'.pre = <<>>
    BY ContinueGives
  <1>2. /\ page \in PageSet /\ Sound \in SoundSet /\ takes \in Seq(TakeSet) /\ Now \in Nat
        /\ rec.on => rec.engine = "on"
    BY CaptureFacts
  <1>3. page.st = "editing" /\ Prompt
    BY DEF Continue
  <1>4. Silent(Sound) /\ Sound.opening = {}
    BY <1>3, QuestionFacts
  <1>5. call.take = Now + 1 /\ call \in Call /\ k.q = page.q
    BY <1>1 DEF Call
  <1>6. /\ Of(takes', page.q, Now')
        /\ \A q, t : Of(takes, q, t) => Of(takes', q, t)
        /\ \A q, text : WordsOf(takes, q, text) => WordsOf(takes', q, text)
    BY <1>1, <1>2, <1>5, OfAppended DEF Now
  <1> HIDE DEF call, k
  <1>7. /\ Silent(Sound') /\ Sound'.live = {} /\ Sound'.au.stream = 0 /\ Sound'.au.rec = 0
        /\ Sound'.opening = {Now + 1} /\ Sound'.waits = Sound.waits
        /\ Sound'.asr = Sound.asr /\ Sound'.au.chunks \subseteq Sound.au.chunks
        /\ \A t \in Take : Sound'.media[t] = Sound.media[t]
    <2>1. Awaited(Sound, call, Sound')
      BY <1>1, <1>2, <1>4, <1>5, BeginOpens
    <2>2. QED
      BY <1>4, <1>5, <2>1 DEF Awaited
  <1>8. StopsOK(Sound, page)'
    <2>1. ASSUME NEW w \in Sound'.waits, w.call \in Stop
          PROVE  w.call.token <= page'.token /\ w.call.token # page'.token
      <3>1. w.call.token \in Nat /\ page.token \in Nat
        BY <1>2, <2>1 DEF Stop, PageSet
      <3>2. w.call.token <= page.token
        BY <1>7, <2>1 DEF QuestionInv, StopsOK
      <3>3. QED
        BY <1>1, <3>1, <3>2
    <2>2. QED
      BY <2>1 DEF StopsOK
  <1>9. MicOK(Sound, page, Now)'
    BY <1>1, <1>7 DEF QuestionInv, MicOK, Silent
  <1>10. AudioOK(Sound, page, takes)'
    <2>1. /\ Sound.au.chunks \subseteq 1..Len(takes)
          /\ \A t \in Sound.au.chunks : Of(takes, page.q, t)
          /\ \A t \in Take : Sound.media[t] \in {"recording", "flushing"}
                               => Of(takes, page.q, t)
          /\ \A x \in Sound.asr : \A t \in x.audio : Of(takes, x.q, t)
      BY <1>3 DEF QuestionInv, AudioOK, Active
    <2>2. \A t \in Sound'.au.chunks : Of(takes', page'.q, t)
      BY <1>1, <1>6, <1>7, <2>1
    <2>3. Sound'.au.chunks \subseteq 1..Len(takes')
      BY <2>2 DEF Of
    <2>4. \A t \in Take : Sound'.media[t] \in {"recording", "flushing"}
                            => Of(takes', page'.q, t)
      BY <1>1, <1>6, <1>7, <2>1
    <2>5. \A x \in Sound'.asr : \A t \in x.audio : Of(takes', x.q, t)
      BY <1>6, <1>7, <2>1
    <2>6. Of(takes', page'.q, Len(takes'))
      BY <1>1, <1>6 DEF Now
    <2>7. QED
      BY <2>2, <2>3, <2>4, <2>5, <2>6 DEF AudioOK
  <1>11. WordsOK'
    <2>1. /\ WordsOf(takes, page.q, page.box)
          /\ rec.engine # "off" => Of(takes, page.q, rec.of)
      BY <1>3 DEF QuestionInv, WordsOK, Active
    <2>2. /\ rec'.heard = <<>> /\ rec'.again
          /\ IF rec.engine = "off" THEN rec'.of = Now + 1 ELSE rec'.of = rec.of
      BY <1>1, <1>2 DEF StartedAs
    <2>3. Of(takes', page.q, rec'.of)
      BY <1>1, <1>6, <2>1, <2>2
    <2>4. WordsOf(takes', page.q, page.box)
      BY <1>6, <2>1
    <2>5. QED
      BY <1>1, <2>2, <2>3, <2>4, NoWords DEF WordsOK, Active
  <1>12. QED
    BY <1>8, <1>9, <1>10, <1>11 DEF QuestionInv

(* The interview is ended early.                                           *)
LEMMA EndOfQuestions ==
  ASSUME SlowPrompt = FALSE, CaptureInv, QuestionInv, EndEarly
  PROVE  QuestionInv'
  <1> DEFINE d == [op |-> "discard"]
             s == Begin(Sound, d)
  <1>1. /\ CaptureInv' /\ takes' = takes
        /\ Sound' = [Discarded(Sound) EXCEPT !.asr = {}]
        /\ page' = Cleared(page, "ended")
        /\ ~rec'.on /\ ~rec'.again
    BY EndGives
  <1>2. /\ page \in PageSet /\ Sound \in SoundSet /\ Now \in Nat /\ OneMic(Sound)
        /\ page.token \in Nat
    BY CaptureFacts, QuestionFacts DEF PageSet
  <1>3. Sound.opening = {}
    BY QuestionFacts DEF EndEarly
  <1>4. /\ page'.st = "ended" /\ page'.token = page.token + 1
        /\ page'.box = <<>> /\ page'.pre = <<>>
    BY <1>1, <1>2, ClearedGives DEF State
  <1>5. d \in Call /\ d \notin Opening /\ d \notin Stop
    BY DEF Call, Discard, Opening, Stop
  <1>6. Discarded(Sound) = s /\ SoundOK(s, Now)
    BY DiscardedKeeps
  <1> HIDE DEF d
  <1>7. Calmed(Sound, d, s)
    BY <1>2, <1>5, BeginCalms
  <1> HIDE DEF s
  <1>8. /\ Sound'.asr = {} /\ Sound'.au = s.au /\ Sound'.media = s.media
        /\ Sound'.live = s.live /\ Sound'.opening = s.opening /\ Sound'.waits = s.waits
    BY <1>1, <1>2, <1>6, ForgottenKeeps
  <1>9. /\ Silent(Sound') /\ Sound'.opening = {} /\ (Sound'.live = {} \/ Sound'.waits # {})
        /\ Sound'.au.chunks \subseteq Sound.au.chunks
        /\ \A w \in Sound'.waits : w \in Sound.waits \/ w.call = d
    BY <1>3, <1>7, <1>8 DEF Calmed, Silent
  <1>10. StopsOK(Sound, page)'
    <2>1. ASSUME NEW w \in Sound'.waits, w.call \in Stop
          PROVE  w.call.token <= page'.token /\ w.call.token # page'.token
      <3>1. w \in Sound.waits /\ w.call.token \in Nat
        BY <1>5, <1>9, <2>1 DEF Stop
      <3>2. w.call.token <= page.token
        BY <2>1, <3>1 DEF QuestionInv, StopsOK
      <3>3. QED
        BY <1>2, <1>4, <3>1, <3>2
    <2>2. QED
      BY <2>1 DEF StopsOK
  <1>11. MicOK(Sound, page, Now)'
    <2>1. \A w \in Sound'.waits : w.call \notin Opening
      BY <1>5, <1>9 DEF QuestionInv, MicOK
    <2>2. QED
      BY <1>4, <1>9, <2>1 DEF MicOK, Silent
  <1>12. AudioOK(Sound, page, takes)'
    <2>1. Sound'.au.chunks \subseteq 1..Len(takes')
      BY <1>1, <1>9 DEF QuestionInv, AudioOK
    <2>2. QED
      BY <1>4, <1>8, <2>1 DEF AudioOK, Active
  <1>13. WordsOK'
    BY <1>1, <1>4 DEF WordsOK, Active
  <1>14. QED
    BY <1>10, <1>11, <1>12, <1>13 DEF QuestionInv

(* The chunks of a take come in, and a call may go on.                     *)
LEMMA FlushOfQuestion ==
  ASSUME CaptureInv, QuestionInv, NEW t \in Take, Flush(t)
  PROVE  QuestionInv'
  <1> DEFINE s == Flushed(Sound, t)
  <1>1. /\ page \in PageSet /\ Sound \in SoundSet /\ Now \in Nat /\ SoundOK(Sound, Now)
        /\ OneMic(Sound) /\ takes \in Seq(TakeSet)
    BY CaptureFacts, QuestionFacts
  <1>2. UNCHANGED <<page, voice, rec, takes>> /\ Sound.media[t] = "flushing"
    BY <1>1, SoundIsTyped DEF Flush
  <1>3. Now' = Now
    BY <1>2 DEF Now
  <1>4. /\ s \in SoundSet
        /\ s.au.rec = Sound.au.rec /\ s.au.stream = Sound.au.stream
        /\ s.au.chunks = Sound.au.chunks \cup {t}
        /\ s.live = Sound.live /\ s.opening = Sound.opening /\ s.asr = Sound.asr
        /\ \A u \in Take : s.media[u] = IF u = t THEN "inactive" ELSE Sound.media[u]
        /\ s.waits = {w \in Sound.waits : w.on # t}
    BY <1>1, FlushedGives
  <1> HIDE DEF s
  <1>5. OneMic(s) /\ StopsOK(s, page) /\ AudioOK(s, page, takes)
    <2>1. OneMic(s)
      BY <1>1, <1>4 DEF OneMic
    <2>2. StopsOK(s, page)
      BY <1>4 DEF QuestionInv, StopsOK
    <2>3. t \in 1..Len(takes)
      BY <1>1, <1>2 DEF SoundOK, Take, Now
    <2>4. Active(page) => Of(takes, page.q, t)
      BY <1>2 DEF QuestionInv, AudioOK
    <2>5. AudioOK(s, page, takes)
      BY <1>4, <2>3, <2>4 DEF QuestionInv, AudioOK
    <2>6. QED
      BY <2>1, <2>2, <2>5
  <1>6. WordsOK'
    BY <1>2 DEF QuestionInv, WordsOK, Active
  <1>7. CASE /\ \A w \in waits : w.on # t
             /\ Sound' = Flushed(Sound, t)
    <2>1. Sound' = s /\ s.waits = Sound.waits
      BY <1>1, <1>4, <1>7, SoundIsTyped DEF s
    <2>2. MicOK(s, page, Now)
      BY <1>4, <2>1 DEF QuestionInv, MicOK
    <2>3. QED
      BY <1>2, <1>3, <1>5, <1>6, <2>1, <2>2 DEF QuestionInv
  <1>8. ASSUME NEW w \in waits, NEW wanted \in BOOLEAN, w.on = t,
               Sound' = Resume(Flushed(Sound, t), w.call, wanted),
               w.call.op = "stop" /\ wanted => w.call.token = page.token
        PROVE  QuestionInv'
    <2> DEFINE call == w.call
    <2>1. w \in Sound.waits /\ call \in Call
      BY <1>1, SoundIsTyped DEF SoundSet, Wait
    <2>2. call \notin Opening
      BY <2>1 DEF QuestionInv, MicOK
    <2>3. Resumed(s, call, wanted, Sound')
      BY <1>4, <1>8, <2>1, ResumeGives DEF s
    <2>4. call \in Stop /\ wanted => page.st = "editing" /\ call.q = page.q
      BY <1>8, <2>1 DEF QuestionInv, StopsOK, Stop
    <2> HIDE DEF call
    <2>5. /\ Calmed(s, call, Sound') /\ Sound'.live = {} /\ Sound'.waits = s.waits
          /\ Sound'.au.stream = 0 /\ Sound'.au.rec = 0
          /\ \A x \in Sound'.asr : x \in s.asr
                                     \/ (call \in Stop /\ wanted /\ x = Asked(s, call))
      BY <1>4, <1>5, <2>1, <2>2, <2>3, ResumeCalms
    <2>6. /\ Silent(Sound') /\ Sound'.opening = s.opening
          /\ Sound'.au.chunks \subseteq s.au.chunks
          /\ \A u \in Take : Sound'.media[u] = "flushing"
                               => s.media[u] \in {"recording", "flushing"}
      BY <2>5 DEF Calmed
    <2>7. StopsOK(Sound, page)'
      <3>1. StopsOK(Sound', page)
        BY <1>5, <2>5 DEF StopsOK
      <3>2. QED
        BY <1>2, <3>1
    <2>8. MicOK(Sound, page, Now)'
      <3>1. MicOK(Sound', page, Now)
        BY <1>4, <2>5, <2>6 DEF QuestionInv, MicOK, Silent
      <3>2. QED
        BY <1>2, <1>3, <3>1
    <2>9. AudioOK(Sound, page, takes)'
      <3>1. ASSUME NEW x \in Sound'.asr, NEW u \in x.audio
            PROVE  Of(takes, x.q, u)
        <4>1. CASE x \in s.asr
          BY <1>5, <3>1, <4>1 DEF AudioOK
        <4>2. CASE call \in Stop /\ wanted /\ x = Asked(s, call)
          <5>1. x.q = page.q /\ x.audio = s.au.chunks /\ Active(page)
            BY <2>4, <4>2 DEF Asked, Active
          <5>2. QED
            BY <1>5, <3>1, <5>1 DEF AudioOK
        <4>3. QED
          BY <2>5, <4>1, <4>2
      <3>2. ASSUME Active(page), NEW u \in Take, Sound'.media[u] \in {"recording", "flushing"}
            PROVE  Of(takes, page.q, u)
        BY <1>5, <2>6, <3>2 DEF AudioOK, Silent
      <3>3. AudioOK(Sound', page, takes)
        BY <1>5, <2>6, <3>1, <3>2 DEF AudioOK
      <3>4. QED
        BY <1>2, <3>3
    <2>10. QED
      BY <1>6, <2>7, <2>8, <2>9 DEF QuestionInv
  <1>9. QED
    BY <1>1, <1>7, <1>8, FlushGives

LEMMA OpenedOfQuestion ==
  ASSUME CaptureInv, QuestionInv, NEW t \in Take, Opened(t)
  PROVE  QuestionInv'
  <1> DEFINE s == Sound
             r == Sound'
  <1>1. /\ s \in SoundSet /\ OneMic(s) /\ 0 \notin Take /\ s.live \in SUBSET Take
    BY CaptureFacts, QuestionFacts DEF SoundSet, Take
  <1>2. /\ t \in s.opening
        /\ Recording(s, t, r) \/ Refused(s, t, r)
    BY <1>1, OpenedGives
  <1>3. UNCHANGED <<page, voice, rec, takes>>
    BY DEF Opened
  <1>4. Now' = Now
    BY <1>3 DEF Now
  <1>5. StopsOK(s, page) /\ MicOK(s, page, Now) /\ AudioOK(s, page, takes) /\ WordsOK
    BY DEF QuestionInv
  <1> HIDE DEF s, r
  <1>6. /\ page.st = "listening" /\ s.au.stream = 0 /\ s.au.rec = 0 /\ t = Now
        /\ s.opening = {t}
    BY <1>2, <1>5 DEF MicOK
  <1>7. /\ \A u \in Take : s.media[u] # "recording"
        /\ s.live = {}
    BY <1>1, <1>6 DEF OneMic
  <1>8. /\ r.opening = {} /\ r.waits = s.waits /\ r.asr = s.asr
        /\ r.au.chunks = s.au.chunks
    BY <1>2, <1>6 DEF Recording, Refused, Released
  <1>9. StopsOK(r, page)
    BY <1>5, <1>8 DEF StopsOK
  <1>10. MicOK(r, page, Now)
    <2>1. CASE Recording(s, t, r)
      <3>1. /\ \A u \in Take : r.media[u] = "recording" => u = t
            /\ r.au.stream = t /\ r.au.rec = t /\ r.live \subseteq {t}
        BY <1>7, <2>1 DEF Recording
      <3>2. QED
        BY <1>5, <1>6, <1>8, <3>1 DEF MicOK
    <2>2. CASE Refused(s, t, r)
      <3>1. /\ \A u \in Take : r.media[u] # "recording"
            /\ r.live = {}
        BY <1>7, <2>2 DEF Refused, Released, Quiet
      <3>2. QED
        BY <1>5, <1>6, <1>8, <3>1 DEF MicOK
    <2>3. QED
      BY <1>2, <2>1, <2>2
  <1>11. AudioOK(r, page, takes)
    <2>1. Of(takes, page.q, t)
      BY <1>5, <1>6 DEF AudioOK, Active, Now
    <2>2. \A u \in Take : u # t /\ r.media[u] \in {"recording", "flushing"}
                            => s.media[u] \in {"recording", "flushing"}
      BY <1>2 DEF Recording, Refused, Released, Quiet
    <2>3. \A u \in Take : r.media[u] \in {"recording", "flushing"} => Of(takes, page.q, u)
      BY <1>5, <1>6, <2>1, <2>2 DEF AudioOK, Active
    <2>4. QED
      BY <1>5, <1>8, <2>3 DEF AudioOK
  <1>12. /\ StopsOK(Sound, page)' /\ MicOK(Sound, page, Now)'
         /\ AudioOK(Sound, page, takes)'
    BY <1>3, <1>4, <1>9, <1>10, <1>11 DEF r
  <1>13. WordsOK'
    BY <1>3, <1>5 DEF WordsOK, Active
  <1>14. QED
    BY <1>12, <1>13 DEF QuestionInv

LEMMA ReplyOfQuestion ==
  ASSUME CaptureInv, QuestionInv, NEW x, Reply(x)
  PROVE  QuestionInv'
  <1>1. /\ page \in PageSet /\ Sound \in SoundSet /\ SoundOK(Sound, Now) /\ Now \in Nat
        /\ PageInv /\ Sound.asr = asr
    BY CaptureFacts, SoundIsTyped DEF CaptureInv
  <1>2. /\ x \in asr /\ asr' = asr \ {x}
        /\ \/ UNCHANGED page
           \/ \E text \in Text :
                /\ page' = [page EXCEPT !.box = text, !.pre = x.shown, !.undo = TRUE]
                /\ \A i \in DOMAIN text : text[i].take \in x.audio
                /\ page.st = "editing" /\ x.shown = page.box /\ x.q = page.q
        /\ UNCHANGED <<voice, rec, au, media, live, opening, waits, takes>>
    BY <1>1, ReplyGives
  <1>3. CaptureInv' /\ Sound' = [Sound EXCEPT !.asr = asr']
    BY ReplyKeeps
  <1>4. asr' \in SUBSET Request
    BY <1>1, <1>2 DEF SoundSet
  <1>5. /\ Sound'.asr = asr' /\ Sound'.au = Sound.au /\ Sound'.media = Sound.media
        /\ Sound'.live = Sound.live /\ Sound'.opening = Sound.opening
        /\ Sound'.waits = Sound.waits
    BY <1>1, <1>3, <1>4, ForgottenKeeps
  <1>6. Now' = Now /\ takes' = takes /\ rec' = rec
    BY <1>2 DEF Now
  <1>7. /\ page'.st = page.st /\ page'.q = page.q /\ page'.token = page.token
    BY <1>1, <1>2 DEF PageSet
  <1>8. StopsOK(Sound, page)'
    BY <1>5, <1>7 DEF QuestionInv, StopsOK
  <1>9. MicOK(Sound, page, Now)'
    BY <1>5, <1>6, <1>7 DEF QuestionInv, MicOK
  <1>10. AudioOK(Sound, page, takes)'
    <2> DEFINE s == Sound
               r == Sound'
    <2>1. /\ AudioOK(s, page, takes) /\ r.au = s.au /\ r.media = s.media
          /\ \A y \in r.asr : y \in s.asr
      BY <1>1, <1>2, <1>5 DEF QuestionInv
    <2>2. (Active(page') <=> Active(page)) /\ page'.q = page.q
      BY <1>7 DEF Active
    <2> HIDE DEF s, r
    <2>3. AudioOK(r, page', takes)
      BY <2>1, <2>2 DEF AudioOK
    <2>4. QED
      BY <1>6, <2>3 DEF r
  <1>11. WordsOK'
    <2>1. CASE UNCHANGED page
      BY <1>6, <2>1 DEF QuestionInv, WordsOK, Active
    <2>2. ASSUME NEW text \in Text,
                 page' = [page EXCEPT !.box = text, !.pre = x.shown, !.undo = TRUE],
                 \A i \in DOMAIN text : text[i].take \in x.audio,
                 page.st = "editing", x.shown = page.box, x.q = page.q
          PROVE  WordsOK'
      <3>1. page'.box = text /\ page'.pre = page.box
        BY <1>1, <2>2 DEF PageSet
      <3>2. \A u \in x.audio : Of(takes, page.q, u)
        BY <1>1, <1>2, <2>2 DEF QuestionInv, AudioOK
      <3>3. WordsOf(takes, page.q, text)
        BY <2>2, <3>2 DEF WordsOf
      <3>4. QED
        BY <1>6, <1>7, <2>2, <3>1, <3>3 DEF QuestionInv, WordsOK, Active
    <2>3. QED
      BY <1>2, <2>1, <2>2
  <1>12. QED
    BY <1>8, <1>9, <1>10, <1>11 DEF QuestionInv

LEMMA QuestionInit == Init => QuestionInv
  <1> HAVE Init
  <1>1. page.st = "speaking" /\ page.box = <<>> /\ page.pre = <<>> /\ ~rec.on /\ ~rec.again
    BY DEF Init
  <1>2. /\ Sound.au.chunks = {} /\ Sound.media = [t \in Take |-> "none"]
        /\ Sound.live = {} /\ Sound.opening = {} /\ Sound.waits = {} /\ Sound.asr = {}
    BY DEF Init, Sound
  <1>3. StopsOK(Sound, page) /\ MicOK(Sound, page, Now) /\ AudioOK(Sound, page, takes)
    BY <1>1, <1>2 DEF StopsOK, MicOK, AudioOK, Active
  <1>4. WordsOK
    BY <1>1 DEF WordsOK, Active
  <1>5. QED
    BY <1>3, <1>4 DEF QuestionInv

LEMMA QuestionNext ==
  ASSUME SlowPrompt = FALSE
  PROVE  CaptureInv /\ QuestionInv /\ [Next]_vars => QuestionInv'
  <1> SUFFICES ASSUME CaptureInv, QuestionInv, [Next]_vars
               PROVE  QuestionInv'
    OBVIOUS
  <1>1. page \in PageSet /\ takes \in Seq(TakeSet)
    BY CaptureFacts
  <1>2. CASE Silence \/ Retry \/ Read \/ ManualStop
    <2>1. CASE (Silence \/ Retry \/ Read) /\ page'.st = "listening" /\ ~UNCHANGED takes
      BY <2>1, ListenOfQuestion
    <2>2. CASE (Silence \/ ManualStop) /\ page'.st = "editing"
      BY <2>2, ShownOfQuestion
    <2>3. CASE UNCHANGED <<page, rec, sound, asr, takes>>
      <3>1. Sound' = Sound /\ Now' = Now
        BY <2>3, SoundUnchanged DEF Now
      <3>2. WordsOK'
        BY <2>3 DEF QuestionInv, WordsOK, Active
      <3>3. QED
        BY <2>3, <3>1, <3>2 DEF QuestionInv
    <2>4. QED
      BY <1>2, <2>1, <2>2, <2>3, HowListeningGoes
  <1>3. CASE Browser
    BY <1>2, <1>3, EditsOfQuestion, HeardOfQuestion, OpenedOfQuestion, FlushOfQuestion
    DEF Browser
  <1>4. CASE Server
    BY <1>4, ReplyOfQuestion DEF Server
  <1>5. CASE User
    BY <1>2, <1>5, EditsOfQuestion, ContinueOfQuestion, EndOfQuestions DEF User
  <1>6. CASE UNCHANGED vars
    <2>1. Sound' = Sound /\ Now' = Now /\ page' = page /\ takes' = takes
      BY <1>6 DEF vars, Sound, Now
    <2>2. WordsOK'
      BY <1>6 DEF QuestionInv, WordsOK, Active, vars
    <2>3. QED
      BY <2>1, <2>2 DEF QuestionInv
  <1>7. QED
    BY <1>3, <1>4, <1>5, <1>6 DEF Next

LEMMA QuestionInvariant ==
  ASSUME SlowPrompt = FALSE
  PROVE  Spec => [](CaptureInv /\ QuestionInv)
  <1>1. Init => CaptureInv /\ QuestionInv
    BY CaptureInit, QuestionInit
  <1>2. CaptureInv /\ QuestionInv /\ [Next]_vars => (CaptureInv /\ QuestionInv)'
    BY CaptureNext, QuestionNext
  <1>3. QED
    BY <1>1, <1>2, PTL DEF Spec

(* What is offered as the answer to a question was said or typed for it.   *)
(* Needs that the permission to use the microphone is given before the     *)
(* next click: otherwise a take may be opened behind the page, and what    *)
(* was recorded for one question is sent for the next.                     *)
THEOREM WordsAreOfTheQuestion ==
  ASSUME SlowPrompt = FALSE
  PROVE  Spec => []WordsOfThisQuestion
  <1>1. ASSUME QuestionInv
        PROVE  WordsOfThisQuestion
    BY <1>1 DEF QuestionInv, WordsOK, Active, WordsOf, Of, WordsOfThisQuestion
  <1>2. QED
    BY <1>1, QuestionInvariant, PTL

(* The audio sent for a question was recorded while answering it.          *)
THEOREM AudioIsOfTheQuestion ==
  ASSUME SlowPrompt = FALSE
  PROVE  Spec => []AudioOfThisQuestion
  <1>1. ASSUME CaptureInv, QuestionInv
        PROVE  AudioOfThisQuestion
    <2>1. Sound.asr = asr
      BY <1>1, CaptureFacts, SoundIsTyped
    <2>2. \A r \in asr : \A t \in r.audio : Of(takes, r.q, t)
      BY <1>1, <2>1 DEF QuestionInv, AudioOK
    <2>3. QED
      BY <2>2 DEF Of, AudioOfThisQuestion
  <1>2. QED
    BY <1>1, QuestionInvariant, PTL

(* The one open microphone is the recorder's, and it is released when the  *)
(* interview has ended.                                                    *)
THEOREM MicrophoneIsReleased ==
  ASSUME SlowPrompt = FALSE
  PROVE  Spec => []MicReleased
  <1>1. ASSUME CaptureInv, QuestionInv
        PROVE  MicReleased
    <2>1. /\ Sound.live = live /\ Sound.waits = waits /\ Sound.au = au
      BY <1>1, CaptureFacts, SoundIsTyped
    <2>2. MicOK(Sound, page, Now)
      BY <1>1 DEF QuestionInv
    <2>3. QED
      BY <2>1, <2>2 DEF MicOK, MicReleased
  <1>2. QED
    BY <1>1, QuestionInvariant, PTL

=============================================================================
