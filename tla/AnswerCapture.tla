---------------------------- MODULE AnswerCapture ----------------------------
(***************************************************************************)
(* How the page turns speech into an answer (app.js with speechEngine.js,  *)
(* recognitionEngine.js and audioRecorder.js, and the server's             *)
(* transcription of the recorded audio).                                   *)
(*                                                                         *)
(* Two engines of the browser run side by side: recognition, which is      *)
(* asked to start and stop and ends when it likes, and a media recorder,   *)
(* whose methods are asynchronous: they wait for the flush of the running  *)
(* recorder and for the permission to use the microphone.  A take is one   *)
(* start of both; a word carries the take in which it was said.            *)
(*                                                                         *)
(* Reading a question aloud takes longer than ending a recognition and     *)
(* flushing a recorder: Read says so.                                      *)
(***************************************************************************)
EXTENDS Integers, Sequences, FiniteSets, SequencesExt

CONSTANTS
  MaxQuestions,  \* questions of the interview
  MaxTakes,      \* takes (bound)
  MaxHeard,      \* final results heard in a take (bound)
  SlowPrompt,    \* may a click or a silence come before getUserMedia answers?
  Chain,         \* config.stt.providerChain
  Groq           \* the provider that may answer with an empty transcript

ASSUME CaptureAssumption ==
  /\ {MaxQuestions, MaxTakes, MaxHeard} \subseteq Nat \ {0}
  /\ SlowPrompt \in BOOLEAN

VARIABLES
  page,    \* state, question, _enhanceToken, edit box, _preEnhanceText, Undo
  voice,   \* the utterance: none, due (within its 50 ms) or being read
  rec,     \* RecognitionEngine and the recognizer of the browser
  au,      \* AudioRecorder: mediaRecorder, stream and chunks, by take
  media,   \* the media recorder of each take
  live,    \* the takes whose microphone stream is open
  opening, \* the takes whose getUserMedia has not answered
  waits,   \* calls of AudioRecorder waiting for the flush of a take
  asr,     \* transcription requests under way
  \* history
  takes     \* the takes: their question, and whether they continue another

vars == <<page, voice, rec, au, media, live, opening, waits, asr, takes>>
sound == <<au, media, live, opening, waits>>

Take == 1..MaxTakes
Now == Len(takes)
Word == [take : 0..MaxTakes, by : {"heard", "typed", "asr"}]

TypeOK ==
  /\ page.st \in {"speaking", "listening", "editing", "evaluating", "ended"}
  /\ page.q \in 1..MaxQuestions /\ page.token \in Nat
  /\ page.box \in Seq(Word) /\ page.pre \in Seq(Word) /\ page.undo \in BOOLEAN
  /\ voice \in {"none", "due", "reading"}
  /\ {rec.on, rec.again, rec.resume, rec.tick} \subseteq BOOLEAN
  /\ rec.engine \in {"off", "on", "ending"} /\ rec.of \in 0..MaxTakes
  /\ rec.prev \in Seq(Word) /\ rec.heard \in Seq(Word)
  /\ rec.on => rec.engine = "on"
  /\ {au.rec, au.stream} \subseteq 0..MaxTakes /\ au.chunks \subseteq Take
  /\ media \in [Take -> {"none", "recording", "flushing", "inactive"}]
  /\ live \cup opening \subseteq Take
  /\ \A w \in waits : w.on \in Take /\ media[w.on] = "flushing"
  /\ takes \in Seq([q : 1..MaxQuestions, more : BOOLEAN]) /\ Now <= MaxTakes

Init ==
  /\ page = [st |-> "speaking", q |-> 1, token |-> 0, box |-> <<>>,
             pre |-> <<>>, undo |-> FALSE]
  /\ voice = "due"
  /\ rec = [on |-> FALSE, again |-> FALSE, resume |-> FALSE, tick |-> FALSE,
            engine |-> "off", of |-> 0, prev |-> <<>>, heard |-> <<>>]
  /\ au = [rec |-> 0, stream |-> 0, chunks |-> {}]
  /\ media = [t \in Take |-> "none"]
  /\ live = {} /\ opening = {} /\ waits = {} /\ asr = {}
  /\ takes = <<>>

-----------------------------------------------------------------------------
(* AudioRecorder.  A sound state is a record of the variables of `sound`;  *)
(* the operators below take one and give the next.                         *)

Sound == [au |-> au, media |-> media, live |-> live, opening |-> opening,
          waits |-> waits, asr |-> asr]

(* _releaseStream: a recorder whose track ends stops by itself.            *)
Release(s) ==
  LET t == s.au.stream IN
  IF t = 0 THEN s
  ELSE [s EXCEPT !.live = @ \ {t}, !.au.stream = 0,
                 !.media[t] = IF @ = "recording" THEN "flushing" ELSE @]

(* Defect: a fresh take keeps the chunks that are there.                   *)
OpensOnChunks(s, take, chunks) ==
  LET r == Release(s) IN
  [r EXCEPT !.au.rec = 0, !.opening = @ \cup {take}]

(* What follows the flush in start, startContinue, stop and discard.       *)
(* stop() hands its chunks to _enhanceTranscriptWithAudio, which sends     *)
(* them if the take is still wanted and the box not edited.                *)
Opens(s, take, chunks) ==
  LET r == Release(s) IN
  [r EXCEPT !.au.rec = 0, !.au.chunks = chunks, !.opening = @ \cup {take}]

Stopped(s, w, wanted) ==
  LET r == Release(s) IN
  [r EXCEPT !.au.rec = 0, !.au.chunks = {},
            !.asr = IF wanted /\ s.au.chunks # {}
                    THEN @ \cup {[token |-> w.token, q |-> w.q,
                                  shown |-> w.shown, audio |-> s.au.chunks]}
                    ELSE @]

Resume(s, w, wanted) ==
  CASE w.op = "start"    -> Opens(s, w.take, {})
    [] w.op = "continue" -> Opens(s, w.take, s.au.chunks)
    [] w.op = "discard"  -> LET r == Release(s)
                            IN  [r EXCEPT !.au.rec = 0, !.au.chunks = {}]
    [] OTHER             -> Stopped(s, w, wanted)

(* Defect: the recorder is awaited but not told to stop.                   *)
BeginUntold(s, w) ==
  IF s.au.rec # 0 /\ s.media[s.au.rec] = "recording"
  THEN [s EXCEPT !.waits = @ \cup {[on |-> s.au.rec, call |-> w]}]
  ELSE Resume(s, w, TRUE)

(* _stopCurrentRecorderOnly: a recorder that is recording is told to stop  *)
(* and the call waits for it; one that is stopping already is not awaited. *)
Begin(s, w) ==
  IF s.au.rec # 0 /\ s.media[s.au.rec] = "recording"
  THEN [s EXCEPT !.media[s.au.rec] = "flushing",
                 !.waits = @ \cup {[on |-> s.au.rec, call |-> w]}]
  ELSE Resume(s, w, TRUE)

Discarded(s) == Begin(s, [op |-> "discard"])
Recorded(s, take) == Begin(s, [op |-> "start", take |-> take])
Continued(s, take) == Begin(s, [op |-> "continue", take |-> take])
Enhanced(s, text) ==
  IF s.au.rec = 0 THEN s
  ELSE Begin(s, [op |-> "stop", token |-> page.token, q |-> page.q,
                 shown |-> text])

SetSound(s) ==
  /\ au' = s.au /\ media' = s.media /\ live' = s.live
  /\ opening' = s.opening /\ waits' = s.waits /\ asr' = s.asr

(* getUserMedia answers: the recorder runs, or there is no audio.          *)
Opened(t) ==
  /\ t \in opening
  /\ \/ /\ au' = [au EXCEPT !.stream = t, !.rec = t]
        /\ media' = [media EXCEPT ![t] = "recording"]
        /\ live' = live \cup {t} /\ opening' = opening \ {t}
        /\ UNCHANGED <<waits, asr>>
     \/ LET r == Release([Sound EXCEPT !.opening = @ \ {t}])
        IN  SetSound([r EXCEPT !.au.rec = 0])
  /\ UNCHANGED <<page, voice, rec, takes>>

(* dataavailable and stop: the chunks of a take, which come once a second  *)
(* but are looked at only after the last, and the call that waits goes on. *)
Flush(t) ==
  LET s == [Sound EXCEPT !.media[t] = "inactive", !.au.chunks = @ \cup {t},
                         !.waits = {w \in @ : w.on # t}]
      woken == {w \in waits : w.on = t}
  IN
  /\ media[t] = "flushing"
  /\ IF woken = {} THEN SetSound(s)
     ELSE LET call == (CHOOSE w \in woken : TRUE).call IN
          SetSound(Resume(s, call, call.op = "stop" => /\ call.token = page.token
                                                       /\ call.shown = page.box))
  /\ UNCHANGED <<page, voice, rec, takes>>

-----------------------------------------------------------------------------
(* RecognitionEngine.                                                      *)

(* Defect: read once stop() has left resume mode.                          *)
FullTextAfterStop == rec.heard

(* fullText: the transcript, after the text it continues.                  *)
FullText == IF rec.resume THEN rec.prev \o rec.heard ELSE rec.heard

(* Defect: start() keeps what was heard.                                   *)
StartedOnHeard(r, prev, resume, take) ==
  LET starts == ~r.on /\ r.engine = "off" IN
  [r EXCEPT !.prev = prev, !.resume = resume,
            !.again = TRUE, !.on = @ \/ starts,
            !.engine = IF starts THEN "on" ELSE @,
            !.of = IF starts THEN take ELSE @]

(* start() and startContinue(): the recognizer throws unless it is off;    *)
(* then only a restart after its end makes it listen.                      *)
Started(r, prev, resume, take) ==
  LET starts == ~r.on /\ r.engine = "off" IN
  [r EXCEPT !.heard = <<>>, !.prev = prev, !.resume = resume,
            !.again = TRUE, !.on = @ \/ starts,
            !.engine = IF starts THEN "on" ELSE @,
            !.of = IF starts THEN take ELSE @]

Ending(r) == IF r.engine = "on" THEN [r EXCEPT !.engine = "ending"] ELSE r

(* stop().  The text that was continued is not read again: it is forgotten.*)
Silenced(r) == Ending([r EXCEPT !.again = FALSE, !.on = FALSE,
                                !.resume = FALSE, !.prev = <<>>])

(* onresult: also while it ends, for what was said before.  What comes     *)
(* when no take runs is dropped by the next start.                         *)
Hear ==
  /\ rec.engine \in {"on", "ending"} /\ rec.again
  /\ Cardinality({i \in DOMAIN rec.heard : rec.heard[i].take = rec.of}) < MaxHeard
  /\ rec' = [rec EXCEPT !.heard = Append(@, [take |-> rec.of, by |-> "heard"])]
  /\ UNCHANGED <<page, voice, sound, asr, takes>>

(* Defect: start() is called within onend, where it throws.                *)
RecognitionEndsAtOnce ==
  /\ rec.engine \in {"on", "ending"}
  /\ rec' = [rec EXCEPT !.engine = "off", !.on = FALSE]
  /\ UNCHANGED <<page, voice, sound, asr, takes>>

(* onend: asked for, or the browser's own cap.                             *)
RecognitionEnds ==
  /\ rec.engine \in {"on", "ending"}
  /\ rec' = [rec EXCEPT !.engine = "off", !.on = FALSE, !.tick = rec.again]
  /\ UNCHANGED <<page, voice, sound, asr, takes>>

(* The restart, a tick later.                                              *)
Restart ==
  /\ rec.tick
  /\ LET starts == rec.again /\ rec.engine = "off"
     IN  rec' = [rec EXCEPT !.tick = FALSE, !.on = @ \/ starts,
                            !.engine = IF starts THEN "on" ELSE @,
                            !.of = IF starts THEN Now ELSE @]
  /\ UNCHANGED <<page, voice, sound, asr, takes>>

-----------------------------------------------------------------------------
(* The page.  The edit box keeps its text while it is hidden, and the text *)
(* to undo to outlives its button; as nothing reads them then but Continue,*)
(* the model forgets them.                                                 *)

Prompt == SlowPrompt \/ opening = {}

(* startListening, after the token and with the recorder in state s.       *)
StartListening(s) ==
  /\ Now < MaxTakes
  /\ page' = [page EXCEPT !.st = "listening", !.token = @ + 1, !.box = <<>>,
                          !.pre = <<>>, !.undo = FALSE]
  /\ takes' = Append(takes, [q |-> page.q, more |-> FALSE])
  /\ SetSound(Recorded(s, Now + 1))

(* speak(): 50 ms later the question is read ...                           *)
Due ==
  /\ voice = "due" /\ voice' = "reading"
  /\ UNCHANGED <<page, rec, sound, asr, takes>>

(* ... and when it has been, the page listens.                             *)
Read ==
  /\ voice = "reading" /\ voice' = "none"
  /\ rec.engine = "off" /\ ~rec.tick /\ \A t \in Take : media[t] # "flushing"
  /\ IF page.st = "speaking"
     THEN StartListening(Sound) /\ rec' = Started(rec, <<>>, FALSE, Now + 1)
     ELSE UNCHANGED <<page, rec, sound, asr, takes>>

(* The text of an ended take goes to the edit box, its audio to the server.*)
Show(text) ==
  /\ page' = [page EXCEPT !.st = "editing", !.box = text]
  /\ SetSound(Enhanced(Sound, text))
  /\ UNCHANGED takes

(* The silence timer: a fresh take without a word is taken again.          *)
Silence ==
  /\ rec.on /\ Prompt
  /\ LET stopped == Ending([rec EXCEPT !.again = FALSE, !.on = FALSE, !.prev = <<>>]) IN
     IF FullText = <<>> /\ ~rec.resume
     THEN /\ StartListening(Discarded(Sound))
          /\ rec' = Started(stopped, <<>>, FALSE, Now + 1)
     ELSE Show(FullText) /\ rec' = stopped
  /\ UNCHANGED voice

ManualStop ==
  /\ page.st = "listening" /\ Prompt
  /\ Show(FullText) /\ rec' = Silenced(rec)
  /\ UNCHANGED voice

Retry ==
  /\ page.st = "editing" /\ Prompt
  /\ StartListening(Discarded(Sound)) /\ rec' = Started(rec, <<>>, FALSE, Now + 1)
  /\ UNCHANGED voice

Continue ==
  /\ page.st = "editing" /\ Prompt /\ Now < MaxTakes
  /\ page' = [page EXCEPT !.st = "listening", !.token = @ + 1,
                          !.pre = <<>>, !.undo = FALSE]
  /\ takes' = Append(takes, [q |-> page.q, more |-> TRUE])
  /\ rec' = Started(rec, page.box, TRUE, Now + 1)
  /\ SetSound(Continued(Sound, Now + 1))
  /\ UNCHANGED voice

(* An edit by hand: a word typed at the end, once in a take (bound).       *)
EditedNow == [take |-> Now, by |-> "typed"] \in ToSet(page.box)

Edit ==
  /\ page.st = "editing" /\ ~EditedNow
  /\ page' = [page EXCEPT !.box = Append(@, [take |-> Now, by |-> "typed"])]
  /\ UNCHANGED <<voice, rec, sound, asr, takes>>

Submit ==
  /\ page.st = "editing" /\ page.box # <<>> /\ Prompt
  /\ page' = [page EXCEPT !.st = "evaluating", !.token = @ + 1, !.box = <<>>,
                          !.pre = <<>>, !.undo = FALSE]
  /\ UNCHANGED <<voice, rec, sound, asr, takes>>

(* answer:received                                                         *)
NextQuestion ==
  /\ page.st = "evaluating" /\ page.q < MaxQuestions
  /\ page' = [page EXCEPT !.st = "speaking", !.q = @ + 1]
  /\ voice' = "due"
  /\ UNCHANGED <<rec, sound, asr, takes>>

(* Defect: the recorder is left alone.                                     *)
EndsRecording ==
  /\ page.st # "ended" /\ Prompt
  /\ page' = [page EXCEPT !.st = "ended", !.token = @ + 1, !.box = <<>>,
                          !.pre = <<>>, !.undo = FALSE]
  /\ voice' = IF voice = "reading" THEN "none" ELSE voice
  /\ rec' = Silenced(rec)
  /\ UNCHANGED <<sound, asr, takes>>

(* endInterviewEarly().  What was heard, and what is still replied, has no *)
(* effect any more: the model forgets it.                                  *)
EndEarly ==
  /\ page.st # "ended" /\ Prompt
  /\ page' = [page EXCEPT !.st = "ended", !.token = @ + 1, !.box = <<>>,
                          !.pre = <<>>, !.undo = FALSE]
  /\ voice' = IF voice = "reading" THEN "none" ELSE voice
  /\ rec' = [Silenced(rec) EXCEPT !.heard = <<>>]
  /\ SetSound([Discarded(Sound) EXCEPT !.asr = {}])
  /\ UNCHANGED takes

-----------------------------------------------------------------------------
(* transcribeAnswer: what each provider makes of the audio.  Groq's empty  *)
(* transcript is an answer, Gemini's is not, and the next is asked.        *)
Usable(p, outcome) == outcome[p] = "text" \/ (outcome[p] = "empty" /\ p = Groq)

Transcript(audio, outcome) ==
  LET usable == SelectSeq(Chain, LAMBDA p : Usable(p, outcome))
      order  == CHOOSE f \in [1..Cardinality(audio) -> audio] :
                  \A i, j \in DOMAIN f : i < j => f[i] < f[j]
  IN  IF usable = <<>> \/ outcome[Head(usable)] = "empty" THEN <<>>
      ELSE [i \in 1..Cardinality(audio) |-> [take |-> order[i], by |-> "asr"]]

(* The session makes no transcript of an answered question, or once ended. *)
Accepted(r) == r.q = page.q /\ page.st \notin {"evaluating", "ended"}

(* The reply, or an error or an abort after 20 s.                          *)
Reply(r) ==
  \E text \in {<<>>} \cup {Transcript(r.audio, outcome) :
                 outcome \in [ToSet(Chain) -> {"text", "empty", "down"}]} :
    /\ r \in asr /\ asr' = asr \ {r}
    /\ text # <<>> => Accepted(r)
    /\ IF /\ r.token = page.token /\ page.st = "editing"
          /\ page.box = r.shown /\ text # <<>>
       THEN page' = [page EXCEPT !.box = text, !.pre = r.shown, !.undo = TRUE]
       ELSE UNCHANGED page
    /\ UNCHANGED <<voice, rec, sound, takes>>

Undo ==
  /\ page.st = "editing" /\ page.undo
  /\ page' = [page EXCEPT !.box = page.pre, !.pre = <<>>, !.undo = FALSE]
  /\ UNCHANGED <<voice, rec, sound, asr, takes>>

-----------------------------------------------------------------------------
Browser == \/ Due \/ Read \/ Hear \/ RecognitionEnds \/ Restart \/ Silence
           \/ \E t \in Take : Opened(t) \/ Flush(t)
Server == \E r \in asr : Reply(r)
User == \/ ManualStop \/ Retry \/ Continue \/ Edit \/ Undo
        \/ Submit \/ NextQuestion \/ EndEarly

Next == Browser \/ Server \/ User

Spec == Init /\ [][Next]_vars

(* The browser reports the end of a recognition that was stopped, and runs *)
(* a timeout of zero.                                                      *)
FairSpec == Spec /\ WF_vars(rec.engine = "ending" /\ RecognitionEnds)
                 /\ WF_vars(Restart)

-----------------------------------------------------------------------------
(* What the candidate is offered, and submits, as the answer to a question *)
(* was said or typed for that question, whatever recognition or a slow     *)
(* transcription still delivers from an earlier one.                       *)
WordsOfThisQuestion ==
  page.st = "editing" =>
    \A i \in DOMAIN page.box : takes[page.box[i].take].q = page.q

(* The audio sent for a question was recorded while answering it, although *)
(* recorders flush, and are opened, behind the back of the page.           *)
AudioOfThisQuestion ==
  \A r \in asr : \A t \in r.audio : takes[t].q = r.q

(* "Continue From Here" keeps the text it continues at the head of the new *)
(* one, whether the take ends by hand or by silence.                       *)
ContinueKeepsText ==
  [][page.st = "listening" /\ page'.st = "editing" /\ takes[Now].more
       => IsPrefix(page.box, page'.box)]_vars

(* Every open microphone belongs to the recorder, which can release it,    *)
(* and once the interview has ended and the recorder is at rest there is   *)
(* none.  Holds if getUserMedia answers before the next click.             *)
MicReleased ==
  /\ live \subseteq {au.stream}
  /\ page.st = "ended" /\ opening = {} /\ waits = {} => live = {}

(* A take is heard: though the recognizer refuses to start while it ends,  *)
(* and ends by itself, it runs again.                                      *)
TakeHeard == page.st = "listening" ~> (rec.engine = "on" \/ page.st # "listening")

(* "Keeps whatever audio was already captured for `existingText` and       *)
(* appends this segment to it": what is transcribed in place of a text     *)
(* that continues another is all that was recorded of it.                  *)
ContinuedAudioWhole ==
  \A r \in asr : \A last \in r.audio, i \in DOMAIN r.shown :
    LET word == r.shown[i] IN
    takes[last].more /\ word.by = "heard" /\ media[word.take] = "inactive"
      => word.take \in r.audio
=============================================================================
