---------------------------- MODULE TurnTaking ----------------------------
(***************************************************************************)
(* The floor of one conversation: who may be speaking, and how an answer   *)
(* in progress is cut.  One session's serve loop (runtime/turntaking.py,   *)
(* runtime/pipeline.py) decides that an utterance is over, starts a reply  *)
(* as a task of its own, and cuts that task when the user speaks over it,  *)
(* presses the button, or goes away.  Beside the reply run the sentence    *)
(* being spoken (runtime/speech.py) and the filler clip that masks a slow  *)
(* answer (runtime/filler_runner.py); all of them are asyncio tasks on one *)
(* loop, so an action here is what a task does between two awaits.         *)
(*                                                                         *)
(* Audio is abstracted to the set of utterances it carries.  A cancelled   *)
(* task is `thrown`: the CancelledError is waiting at the await it is      *)
(* suspended in and is the next thing that task sees.                      *)
(***************************************************************************)
EXTENDS Integers, FiniteSets

CONSTANTS
  MaxUtterances,  \* how many utterances the user may finish
  MaxHurries,     \* cancellations that may land on the session's own close
  BargeIn,        \* server.barge_in: may the user interrupt a reply at all
  Faults          \* the provider failures this deployment meets

ASSUME MaxUtterancesAssumption == MaxUtterances \in Nat
ASSUME MaxHurriesAssumption == MaxHurries \in Nat
ASSUME BargeInAssumption == BargeIn \in BOOLEAN
ASSUME FaultsAssumption == Faults \subseteq {"asr", "llm", "midspeech", "tts"}

VARIABLES
  pc,        \* where the serve loop is: see ServePcs
  carry,     \* the audio the handler in progress has gathered
  mic,       \* utterances finished so far, which also names the last one
  hurries,   \* cancellations of the close so far
  inFlight,  \* PipelineRuntime._in_flight: the current reply, 0 for None
  pending,   \* TurnTaking._reply_pcm: {} for None
  paused,    \* outgoing frames held for a confirmation
  gone,      \* the device's socket is no longer there to be written to
  phase,     \* per reply, the await its task is suspended in
  audio,     \* per reply, the utterances it answers
  heard,     \* per reply, whether it has a transcription
  outcome,   \* per reply, ReplyInFlight._outcome
  thrown,    \* per reply, a cancellation not yet delivered
  said,      \* per reply, the outcome its reply_finished carried
  speaker,   \* the sentence task of the reply in flight
  filler,    \* the filler clip's task
  cut,       \* observer: how and where each reply was first cancelled
  late,      \* observer: replies cancelled again behind reply_finished
  stopped    \* observer: replies that reached their closing `tts stop`

serveVars == <<pc, carry, mic, hurries>>
replyVars == <<phase, heard, outcome, thrown, said, cut, late, stopped>>
vars == <<serveVars, inFlight, pending, paused, gone, audio, speaker, filler,
          replyVars>>

Utterances == 1..MaxUtterances
\* A reply is named by the utterance whose end started it, as the code names
\* both by one id.
Replies == Utterances

\* The four reasons a handler waits for the reply it cancelled: the merge
\* and the confirmed barge-in of `_gate_barge_in`, the unconditional one of
\* a button release, and the device's abort.
CutPcs == {"merge", "manual", "gate", "abort"}
ServePcs == CutPcs \cup {"idle", "confirm", "drain", "closing", "closed"}

\* Where a reply's task can be.  `none` has not been created and `done` is
\* over; every other phase is an await.
Phases ==
  {"none", "scheduled", "asr", "show", "llm", "join", "unwindCut",
   "unwindFail", "flush", "fsettle", "notice", "fallback", "endsettle", "stop",
   "done"}

Outcomes ==
  {"none", "completed", "barged_in", "aborted", "failed", "device_gone",
   "nothing_heard"}

SpeakerStates ==
  {"none", "begin", "tail", "sending", "ending", "over", "failed", "gone"}
FillerStates == {"none", "armed", "sounding", "ending"}

\* How a reply was first cancelled: by speech it was merged into, before or
\* after its own audio was transcribed, or in any other way.
Cuts == {"none", "merged_unheard", "merged_late", "cut"}

TypeOK ==
  /\ pc \in ServePcs
  /\ carry \subseteq Utterances
  /\ mic \in 0..MaxUtterances
  /\ hurries \in 0..MaxHurries
  /\ inFlight \in 0..MaxUtterances
  /\ pending \subseteq Utterances
  /\ paused \in BOOLEAN
  /\ gone \in BOOLEAN
  /\ phase \in [Replies -> Phases]
  /\ audio \in [Replies -> SUBSET Utterances]
  /\ heard \in [Replies -> BOOLEAN]
  /\ outcome \in [Replies -> Outcomes]
  /\ thrown \in [Replies -> BOOLEAN]
  /\ said \in [Replies -> Outcomes]
  /\ speaker \in SpeakerStates
  /\ filler \in FillerStates
  /\ cut \in [Replies -> Cuts]
  /\ late \subseteq Replies
  /\ stopped \subseteq Replies

Init ==
  /\ pc = "idle" /\ carry = {} /\ mic = 0 /\ hurries = 0
  /\ inFlight = 0 /\ pending = {} /\ paused = FALSE /\ gone = FALSE
  /\ phase = [r \in Replies |-> "none"]
  /\ audio = [r \in Replies |-> {}]
  /\ heard = [r \in Replies |-> FALSE]
  /\ outcome = [r \in Replies |-> "none"]
  /\ thrown = [r \in Replies |-> FALSE]
  /\ said = [r \in Replies |-> "none"]
  /\ speaker = "none" /\ filler = "none"
  /\ cut = [r \in Replies |-> "none"]
  /\ late = {} /\ stopped = {}

-----------------------------------------------------------------------------
(* What the tasks ask of one another.                                      *)

Running(r) == phase[r] \notin {"none", "done"}
Replying == inFlight # 0 /\ Running(inFlight)

\* The awaits that are on the sentence task.
Joins == {"join", "unwindCut", "unwindFail"}

SpeakerAlive == speaker \in {"begin", "tail", "sending", "ending"}
FillerAlive == filler # "none"

\* Mutant of Latched: the last writer wins.
LatchedLast(r, o) == o

\* First writer wins (ReplyInFlight.latch).
Latched(r, o) == IF outcome[r] = "none" THEN o ELSE outcome[r]

\* A task that cancels a clip standing in its way: one already sounding is
\* left to finish its words.
StoodDown(f) == IF f = "armed" THEN "ending" ELSE f
\* A task whose cancellation reaches the clip whatever it is doing.
Abandoned(f) == IF f = "none" THEN "none" ELSE "ending"

\* Task.cancel() on the reply: the outcome is written down first, the error
\* is left at the reply's await, and where that await is on another task
\* the cancellation reaches that task too.
Cancel(r, why, o) ==
  IF r = 0 \/ ~Running(r)
    THEN /\ outcome' = IF r = 0 THEN outcome
                       ELSE [outcome EXCEPT ![r] = Latched(r, o)]
         /\ UNCHANGED <<thrown, speaker, filler, cut, late>>
    ELSE /\ outcome' = [outcome EXCEPT ![r] = Latched(r, o)]
         /\ thrown' = [thrown EXCEPT ![r] = TRUE]
         /\ speaker' = IF phase[r] \in Joins /\ SpeakerAlive
                         THEN "ending" ELSE speaker
         /\ filler' = IF \/ phase[r] \in {"fsettle", "endsettle", "flush"}
                         \/ phase[r] \in Joins /\ speaker = "tail"
                        THEN Abandoned(filler) ELSE filler
         /\ cut' = IF cut[r] # "none" THEN cut
                   ELSE [cut EXCEPT ![r] =
                           IF why # "merge" THEN "cut"
                           ELSE IF phase[r] \in {"scheduled", "asr"}
                                  THEN "merged_unheard" ELSE "merged_late"]
         /\ late' = IF said[r] # "none" THEN late \cup {r} ELSE late

\* Mutant of Start: the id is read after the counter has moved on.
StartRenumbered(r, pcm, transcribed) ==
  /\ phase' = [phase EXCEPT ![r] = "scheduled"]
  /\ audio' = [audio EXCEPT ![r] = pcm]
  /\ heard' = [heard EXCEPT ![r] = transcribed]
  /\ pending' = IF transcribed THEN {} ELSE pcm
  /\ inFlight' = r + 1

\* Mutant of Start: a reply started on words already transcribed leaves its
\* audio to be merged as well.
StartMergeable(r, pcm, transcribed) ==
  /\ phase' = [phase EXCEPT ![r] = "scheduled"]
  /\ audio' = [audio EXCEPT ![r] = pcm]
  /\ heard' = [heard EXCEPT ![r] = transcribed]
  /\ pending' = pcm
  /\ inFlight' = r

\* PipelineRuntime.start_reply, behind the marker finish_utterance sets: a
\* reply that will transcribe leaves its audio where a merge finds it.
Start(r, pcm, transcribed) ==
  /\ phase' = [phase EXCEPT ![r] = "scheduled"]
  /\ audio' = [audio EXCEPT ![r] = pcm]
  /\ heard' = [heard EXCEPT ![r] = transcribed]
  /\ pending' = IF transcribed THEN {} ELSE pcm
  /\ inFlight' = r

-----------------------------------------------------------------------------
(* The serve loop: one message at a time, each handler to its end.          *)

\* Mutant of Utterance: whether somebody is speaking is not asked.
UtteranceRegardless ==
  /\ pc = "idle" /\ ~gone /\ mic < MaxUtterances
  /\ mic' = mic + 1
  /\ Start(mic + 1, {mic + 1}, FALSE)
  /\ UNCHANGED <<pc, carry, hurries, paused, gone, outcome, thrown, said,
                 speaker, filler, cut, late, stopped>>

\* An utterance ends while nobody is speaking: it is answered.
Utterance ==
  /\ pc = "idle" /\ ~gone /\ mic < MaxUtterances /\ ~Replying
  /\ mic' = mic + 1
  /\ Start(mic + 1, {mic + 1}, FALSE)
  /\ UNCHANGED <<pc, carry, hurries, paused, gone, outcome, thrown, said,
                 speaker, filler, cut, late, stopped>>

\* The endpointer hears the user over the reply.  A blip under the speech
\* floor changes nothing and is not a step here.  With the reply's own audio
\* still pending, that reply was transcribing the head of this sentence and
\* is cut to be answered as one; otherwise frames are held while ASR is
\* asked whether anything was said.
SpeechOverReply ==
  /\ pc = "idle" /\ ~gone /\ mic < MaxUtterances /\ Replying /\ BargeIn
  /\ mic' = mic + 1
  /\ \/ /\ pending # {}
        /\ pc' = "merge"
        /\ carry' = pending \cup {mic + 1}
        /\ Cancel(inFlight, "merge", "barged_in")
        /\ UNCHANGED paused
     \/ /\ pending = {}
        /\ pc' = "confirm"
        /\ carry' = {mic + 1}
        /\ paused' = TRUE
        /\ UNCHANGED <<outcome, thrown, speaker, filler, cut, late>>
  /\ UNCHANGED <<hurries, inFlight, pending, gone, phase, audio, heard, said,
                 stopped>>

\* The user lets go of the button mid-reply: no evidence is asked for.
ButtonOverReply ==
  /\ pc = "idle" /\ ~gone /\ mic < MaxUtterances /\ Replying /\ BargeIn
  /\ mic' = mic + 1
  /\ pc' = "manual"
  /\ carry' = {mic + 1}
  /\ Cancel(inFlight, "manual", "barged_in")
  /\ UNCHANGED <<hurries, inFlight, pending, paused, gone, phase, audio, heard,
                 said, stopped>>

\* Mutant of ConfirmNothing: noise returns without resuming the output.
ConfirmNothingHeld ==
  /\ pc = "confirm"
  /\ pc' = "idle" /\ carry' = {}
  /\ UNCHANGED <<mic, hurries, inFlight, pending, paused, gone, audio, speaker,
                 filler, replyVars>>

\* ASR heard nothing, or failed: the held frames flow again.
ConfirmNothing ==
  /\ pc = "confirm"
  /\ pc' = "idle" /\ carry' = {} /\ paused' = FALSE
  /\ UNCHANGED <<mic, hurries, inFlight, pending, gone, audio, speaker, filler,
                 replyVars>>

ConfirmSpeech ==
  /\ pc = "confirm"
  /\ pc' = "gate"
  /\ Cancel(inFlight, "gate", "barged_in")
  /\ UNCHANGED <<carry, mic, hurries, inFlight, pending, paused, gone, phase,
                 audio, heard, said, stopped>>

Abort ==
  /\ pc = "idle" /\ ~gone /\ inFlight # 0
  /\ pc' = "abort"
  /\ Cancel(inFlight, "abort", "aborted")
  /\ UNCHANGED <<carry, mic, hurries, inFlight, pending, paused, gone, phase,
                 audio, heard, said, stopped>>

\* Mutant of CutOver: the handler cancels and does not wait.
CutUnwaited == TRUE

\* The reply a handler cancelled has finished its last steps.
CutOver == ~Replying

\* The handler that waited for the reply answers what it gathered.
AnswerAfterCut ==
  /\ pc \in CutPcs \ {"abort"} /\ CutOver
  /\ Start(mic, carry, pc = "gate")
  /\ pc' = "idle" /\ carry' = {}
  /\ paused' = IF pc = "gate" THEN FALSE ELSE paused
  /\ UNCHANGED <<mic, hurries, gone, outcome, thrown, said, speaker, filler,
                 cut, late, stopped>>

AbortOver ==
  /\ pc = "abort" /\ CutOver
  /\ pc' = "idle" /\ inFlight' = 0
  /\ UNCHANGED <<carry, mic, hurries, pending, paused, gone, audio, speaker,
                 filler, replyVars>>

\* The device stops being there.  The serve loop learns of it when it next
\* asks for a message.
Vanish ==
  /\ ~gone /\ pc # "closed"
  /\ gone' = TRUE
  /\ UNCHANGED <<serveVars, inFlight, pending, paused, audio, speaker, filler,
                 replyVars>>

\* The session limit cancels whatever the serve loop is awaiting, and gives
\* the reply a grace to finish.
Limit ==
  /\ pc \in {"idle", "confirm"} \cup CutPcs
  /\ pc' = "drain"
  /\ UNCHANGED <<carry, mic, hurries, inFlight, pending, paused, gone, audio,
                 speaker, filler, replyVars>>

\* PipelineRuntime.close: behind a disconnect, or when the limit's grace has
\* been spent and the socket closed.
Close ==
  /\ \/ pc = "idle" /\ gone
     \/ pc = "drain"
  /\ pc' = "closing"
  /\ gone' = TRUE
  /\ Cancel(inFlight, "close", "aborted")
  /\ UNCHANGED <<carry, mic, hurries, inFlight, pending, paused, phase, audio,
                 heard, said, stopped>>

\* Mutant of Hurry: the cancellation is passed on and then raised at once.
HurryGivesUp ==
  /\ pc = "closing" /\ hurries < MaxHurries /\ Replying
  /\ hurries' = hurries + 1
  /\ pc' = "closed"
  /\ Cancel(inFlight, "close", "aborted")
  /\ UNCHANGED <<carry, mic, inFlight, pending, paused, gone, phase, audio,
                 heard, said, stopped>>

\* A cancellation of the close itself: passed on, and held.
Hurry ==
  /\ pc = "closing" /\ hurries < MaxHurries /\ Replying
  /\ hurries' = hurries + 1
  /\ Cancel(inFlight, "close", "aborted")
  /\ UNCHANGED <<pc, carry, mic, inFlight, pending, paused, gone, phase, audio,
                 heard, said, stopped>>

CloseOver ==
  /\ pc = "closing" /\ CutOver
  /\ pc' = "closed" /\ inFlight' = 0
  /\ UNCHANGED <<carry, mic, hurries, pending, paused, gone, audio, speaker,
                 filler, replyVars>>

-----------------------------------------------------------------------------
(* The reply's task.                                                       *)

Aside == <<serveVars, inFlight, paused, gone, audio, cut, late>>

\* Mutant of Conclude: the `finally` does not settle the clip.
ConcludeUnsettled(r, o, clip) ==
  /\ outcome' = [outcome EXCEPT ![r] = o]
  /\ said' = [said EXCEPT ![r] = IF o = "none" THEN "completed" ELSE o]
  /\ thrown' = [thrown EXCEPT ![r] = FALSE]
  /\ filler' = clip
  /\ phase' = [phase EXCEPT ![r] = "stop"]
  /\ pending' = {}

\* The reply's `finally`: reply_finished is said before any await, and then
\* the clip is waited for.  With no clip the settle does not suspend, and
\* what is behind it happens in the same step.
Conclude(r, o, clip) ==
  /\ outcome' = [outcome EXCEPT ![r] = o]
  /\ said' = [said EXCEPT ![r] = IF o = "none" THEN "completed" ELSE o]
  /\ thrown' = [thrown EXCEPT ![r] = FALSE]
  /\ filler' = StoodDown(clip)
  /\ IF clip = "none"
       THEN phase' = [phase EXCEPT ![r] = "stop"] /\ pending' = {}
       ELSE phase' = [phase EXCEPT ![r] = "endsettle"] /\ UNCHANGED pending

\* Settle the clip, then say the fallback phrase.
Excuse(r, o) ==
  /\ outcome' = [outcome EXCEPT ![r] = o]
  /\ thrown' = [thrown EXCEPT ![r] = FALSE]
  /\ filler' = StoodDown(filler)
  /\ phase' = [phase EXCEPT ![r] = IF FillerAlive THEN "fsettle" ELSE "notice"]
  /\ UNCHANGED <<said, pending>>

\* Cancelled before its first step, a task never runs its body.
NeverRan(r) ==
  /\ phase[r] = "scheduled" /\ thrown[r]
  /\ phase' = [phase EXCEPT ![r] = "done"]
  /\ thrown' = [thrown EXCEPT ![r] = FALSE]
  /\ UNCHANGED <<pending, heard, outcome, said, speaker, filler, stopped, Aside>>

Begin(r) ==
  /\ phase[r] = "scheduled" /\ ~thrown[r]
  /\ phase' = [phase EXCEPT ![r] = IF heard[r] THEN "show" ELSE "asr"]
  /\ UNCHANGED <<pending, heard, outcome, thrown, said, speaker, filler, stopped,
                 Aside>>

\* The transcription is in hand and the merge window closes with it.
Transcribed(r) ==
  /\ phase[r] = "asr" /\ ~thrown[r]
  /\ heard' = [heard EXCEPT ![r] = TRUE]
  /\ \/ /\ phase' = [phase EXCEPT ![r] = "show"]
        /\ pending' = {}
        /\ UNCHANGED <<outcome, thrown, said, filler>>
     \/ Conclude(r, Latched(r, "nothing_heard"), filler)
  /\ UNCHANGED <<speaker, stopped, Aside>>

TranscriptionFails(r) ==
  /\ phase[r] = "asr" /\ ~thrown[r] /\ "asr" \in Faults
  /\ Excuse(r, Latched(r, "failed"))
  /\ UNCHANGED <<heard, speaker, stopped, Aside>>

\* The user's words are on the screen; a clip is armed where the agent has
\* any.
Shown(r) ==
  /\ phase[r] = "show" /\ ~thrown[r]
  /\ \/ /\ gone
        /\ Conclude(r, Latched(r, "device_gone"), filler)
     \/ /\ ~gone
        /\ phase' = [phase EXCEPT ![r] = "llm"]
        /\ filler' \in {"none", "armed"}
        /\ UNCHANGED <<pending, outcome, thrown, said>>
  /\ UNCHANGED <<heard, speaker, stopped, Aside>>

\* A sentence is complete: its task is made and the model read on.
Sentence(r) ==
  /\ phase[r] = "llm" /\ ~thrown[r] /\ speaker = "none"
  /\ speaker' = "begin"
  /\ UNCHANGED <<pending, filler, phase, heard, outcome, thrown, said, stopped,
                 Aside>>

\* The next sentence, or the end of the round, waits for the one before it.
AwaitSentence(r) ==
  /\ phase[r] = "llm" /\ ~thrown[r] /\ speaker # "none"
  /\ phase' = [phase EXCEPT ![r] = "join"]
  /\ UNCHANGED <<pending, filler, speaker, heard, outcome, thrown, said, stopped,
                 Aside>>

SentenceOver(r) ==
  /\ phase[r] = "join" /\ ~thrown[r] /\ ~SpeakerAlive
  /\ speaker' = "none"
  /\ \/ /\ speaker = "over"
        /\ phase' = [phase EXCEPT ![r] = "llm"]
        /\ UNCHANGED <<pending, filler, outcome, thrown, said>>
     \/ speaker = "failed" /\ Excuse(r, Latched(r, "failed"))
     \/ speaker = "gone" /\ Conclude(r, Latched(r, "device_gone"), filler)
  /\ UNCHANGED <<heard, stopped, Aside>>

\* A search is about to run: a clip holds the floor while it does.
Hold(r) ==
  /\ phase[r] = "llm" /\ ~thrown[r] /\ speaker = "none"
  /\ filler \in {"none", "ending"}
  /\ filler' = "armed"
  /\ UNCHANGED <<pending, speaker, replyVars, Aside>>

\* The model's stream fails.  A sentence being spoken is taken down first.
StreamFails(r) ==
  /\ phase[r] = "llm" /\ ~thrown[r]
  /\ \/ /\ "midspeech" \in Faults /\ SpeakerAlive
        /\ phase' = [phase EXCEPT ![r] = "unwindFail"]
        /\ speaker' = "ending"
        /\ filler' = IF speaker = "tail" THEN Abandoned(filler) ELSE filler
        /\ UNCHANGED <<pending, outcome, thrown, said>>
     \/ /\ "llm" \in Faults /\ speaker \in {"none", "over", "failed"}
        /\ speaker' = "none"
        /\ Excuse(r, Latched(r, "failed"))
  /\ UNCHANGED <<heard, stopped, Aside>>

\* The last round is spoken: what the encoder still holds goes out, or there
\* was nothing to say, with or without something withheld to apologise for.
StreamOver(r) ==
  /\ phase[r] = "llm" /\ ~thrown[r] /\ speaker = "none"
  /\ \/ /\ phase' = [phase EXCEPT ![r] = "flush"]
        /\ filler' = StoodDown(filler)
        /\ UNCHANGED <<pending, outcome, thrown, said>>
     \/ Conclude(r, outcome[r], filler)
     \/ Excuse(r, outcome[r])
  /\ UNCHANGED <<heard, speaker, stopped, Aside>>

Flushed(r) ==
  /\ phase[r] = "flush" /\ ~thrown[r] /\ ~FillerAlive /\ ~paused
  /\ Conclude(r, IF gone THEN Latched(r, "device_gone") ELSE outcome[r], filler)
  /\ UNCHANGED <<heard, speaker, stopped, Aside>>

\* A cancellation that meets a sentence already over. One that failed, or lost
\* the device, raises its own error in the cancellation's place; only the
\* cancellation's own arm takes the clip with it.
CutFinds(r) ==
  /\ speaker' = "none"
  /\ \/ speaker = "failed" /\ Excuse(r, Latched(r, "failed"))
     \/ speaker = "gone" /\ Conclude(r, Latched(r, "device_gone"), filler)
     \/ speaker \notin {"failed", "gone"} /\ Conclude(r, outcome[r], Abandoned(filler))

\* Mutant of StreamCut: the sentence being spoken is waited for without being
\* told to stop.
StreamCutUnstopped(r) ==
  /\ phase[r] = "llm" /\ thrown[r]
  /\ IF SpeakerAlive
       THEN /\ phase' = [phase EXCEPT ![r] = "unwindCut"]
            /\ thrown' = [thrown EXCEPT ![r] = FALSE]
            /\ UNCHANGED <<pending, outcome, said, speaker, filler>>
       ELSE CutFinds(r)
  /\ UNCHANGED <<heard, stopped, Aside>>

\* The cancellation reaches a stream being read. A sentence still being spoken
\* is cancelled and waited for.
StreamCut(r) ==
  /\ phase[r] = "llm" /\ thrown[r]
  /\ IF SpeakerAlive
       THEN /\ phase' = [phase EXCEPT ![r] = "unwindCut"]
            /\ thrown' = [thrown EXCEPT ![r] = FALSE]
            /\ speaker' = "ending"
            /\ filler' = IF speaker = "tail" THEN Abandoned(filler) ELSE filler
            /\ UNCHANGED <<pending, outcome, said>>
       ELSE CutFinds(r)
  /\ UNCHANGED <<heard, stopped, Aside>>

SentenceCut(r) ==
  /\ phase[r] = "join" /\ thrown[r] /\ ~SpeakerAlive
  /\ CutFinds(r)
  /\ UNCHANGED <<heard, stopped, Aside>>

\* The round's `finally` has seen its sentence down.  A cancellation that
\* arrived meanwhile looked like the sentence's own and is spent.
Unwound(r) ==
  /\ phase[r] \in {"unwindCut", "unwindFail"} /\ ~SpeakerAlive
  /\ speaker' = "none"
  /\ IF phase[r] = "unwindCut"
       THEN Conclude(r, outcome[r], Abandoned(filler))
       ELSE Excuse(r, Latched(r, "failed"))
  /\ UNCHANGED <<heard, stopped, Aside>>

\* Every other await above the `finally` lets the cancellation through.
CutShort(r) ==
  /\ thrown[r]
  /\ \/ phase[r] \in {"asr", "show", "notice", "fallback"}
     \/ phase[r] \in {"flush", "fsettle"} /\ ~FillerAlive
  /\ Conclude(r, outcome[r], Abandoned(filler))
  /\ UNCHANGED <<heard, speaker, stopped, Aside>>

\* The clip is out of the way of the phrase.
ExcuseSettled(r) ==
  /\ phase[r] = "fsettle" /\ ~thrown[r] /\ ~FillerAlive
  /\ phase' = [phase EXCEPT ![r] = "notice"]
  /\ UNCHANGED <<pending, speaker, filler, heard, outcome, thrown, said, stopped,
                 Aside>>

\* The phrase is shown, and then played at the pace every frame is sent at.
Noticed(r) ==
  /\ phase[r] = "notice" /\ ~thrown[r]
  /\ \/ gone /\ Conclude(r, outcome[r], filler)
     \/ /\ ~gone
        /\ phase' = [phase EXCEPT ![r] = "fallback"]
        /\ UNCHANGED <<pending, filler, outcome, thrown, said>>
  /\ UNCHANGED <<heard, speaker, stopped, Aside>>

NoticePlayed(r) ==
  /\ phase[r] = "fallback" /\ ~thrown[r] /\ ~paused
  /\ Conclude(r, outcome[r], filler)
  /\ UNCHANGED <<heard, speaker, stopped, Aside>>

\* A cancellation in the settle of the `finally` leaves with the turn
\* recorded and nothing else done.
Settled(r) ==
  /\ phase[r] = "endsettle" /\ ~FillerAlive
  /\ thrown' = [thrown EXCEPT ![r] = FALSE]
  /\ IF thrown[r]
       THEN phase' = [phase EXCEPT ![r] = "done"] /\ UNCHANGED pending
       ELSE phase' = [phase EXCEPT ![r] = "stop"] /\ pending' = {}
  /\ UNCHANGED <<heard, outcome, said, speaker, filler, stopped, Aside>>

StopSpeaking(r) ==
  /\ phase[r] = "stop"
  /\ phase' = [phase EXCEPT ![r] = "done"]
  /\ thrown' = [thrown EXCEPT ![r] = FALSE]
  /\ stopped' = IF thrown[r] THEN stopped ELSE stopped \cup {r}
  /\ UNCHANGED <<pending, heard, outcome, said, speaker, filler, Aside>>

-----------------------------------------------------------------------------
(* The sentence being spoken and the clip that masks its absence.          *)

Others == <<serveVars, inFlight, pending, paused, gone, audio, replyVars>>

\* Mutant of SpeakerBegins: an unfired clip is stood down and a sounding one
\* talked over.
SpeakerOvertakes ==
  /\ speaker = "begin"
  /\ \/ gone /\ speaker' = "gone" /\ UNCHANGED filler
     \/ ~gone /\ speaker' = "sending" /\ filler' = StoodDown(filler)
  /\ UNCHANGED Others

\* The reply's own audio waits out a clip already sounding and stands an
\* unfired one down.
SpeakerBegins ==
  /\ speaker = "begin"
  /\ \/ gone /\ speaker' = "gone" /\ UNCHANGED filler
     \/ /\ ~gone
        /\ speaker' = IF FillerAlive THEN "tail" ELSE "sending"
        /\ filler' = StoodDown(filler)
  /\ UNCHANGED Others

SpeakerTailed ==
  /\ speaker = "tail" /\ ~FillerAlive
  /\ speaker' = "sending"
  /\ UNCHANGED <<filler, Others>>

SpeakerSends ==
  /\ speaker = "sending" /\ ~paused
  /\ speaker' = IF gone THEN "gone" ELSE "over"
  /\ UNCHANGED <<filler, Others>>

\* Synthesis fails, whose first bytes are awaited before any clip is.
SpeakerFails ==
  /\ speaker \in {"begin", "sending"} /\ "tts" \in Faults
  /\ speaker' = "failed"
  /\ UNCHANGED <<filler, Others>>

SpeakerEnds ==
  /\ speaker = "ending"
  /\ speaker' = "over"
  /\ UNCHANGED <<filler, Others>>

FillerFires ==
  /\ filler = "armed" /\ ~paused /\ ~gone
  /\ filler' = "sounding"
  /\ UNCHANGED <<speaker, Others>>

\* The timer elapses on a user speaking, on frames held, or on nothing to
\* play; or a clip has played out.
FillerOver ==
  /\ \/ filler = "armed"
     \/ filler = "sounding" /\ ~paused
     \/ filler = "ending"
  /\ filler' = "none"
  /\ UNCHANGED <<speaker, Others>>

-----------------------------------------------------------------------------

ServeStep ==
  \/ Utterance \/ SpeechOverReply \/ ButtonOverReply
  \/ ConfirmNothing \/ ConfirmSpeech \/ Abort
  \/ AnswerAfterCut \/ AbortOver
  \/ Vanish \/ Limit \/ Close \/ Hurry \/ CloseOver

ProviderStep(r) ==
  \/ Transcribed(r) \/ TranscriptionFails(r) \/ Sentence(r) \/ AwaitSentence(r)
  \/ Hold(r) \/ StreamFails(r) \/ StreamOver(r)

\* What a reply does without waiting for a provider to answer.
OwnStep(r) ==
  \/ NeverRan(r) \/ Begin(r) \/ Shown(r) \/ SentenceOver(r) \/ Flushed(r)
  \/ StreamCut(r) \/ SentenceCut(r) \/ Unwound(r) \/ CutShort(r)
  \/ ExcuseSettled(r) \/ Noticed(r) \/ NoticePlayed(r) \/ Settled(r)
  \/ StopSpeaking(r)

SpeakerStep ==
  SpeakerBegins \/ SpeakerTailed \/ SpeakerSends \/ SpeakerFails \/ SpeakerEnds
FillerStep == FillerFires \/ FillerOver

Next ==
  \/ ServeStep
  \/ \E r \in Replies : ProviderStep(r) \/ OwnStep(r)
  \/ SpeakerStep
  \/ FillerStep

\* The loop runs every task that can run.  Nothing is assumed of providers,
\* of the user or of the device.
Fairness ==
  /\ WF_vars(AnswerAfterCut) /\ WF_vars(AbortOver)
  /\ WF_vars(Close /\ pc = "drain") /\ WF_vars(CloseOver)
  /\ \A r \in Replies : WF_vars(OwnStep(r))
  /\ WF_vars(SpeakerBegins \/ SpeakerTailed \/ SpeakerEnds)
  /\ WF_vars(FillerStep)

Spec == Init /\ [][Next]_vars
FairSpec == Spec /\ Fairness

-----------------------------------------------------------------------------
(* What the floor promises.                                                *)

\* The conversation as its user sees it: turns answered in order, one at a
\* time, none twice, and nothing after the end (the contract of
\* runtime/turntaking.py's `finish_utterance` and runtime/pipeline.py's
\* `close`).
F == INSTANCE Floor
       WITH Turns <- Replies,
            speaking <- {r \in Replies : Running(r)},
            asked <- {r \in Replies : phase[r] # "none"},
            open <- pc # "closed"
ImplementsFloor == F!Spec

\* The user's sentence is neither lost nor answered twice.  Speech that cuts
\* a reply still transcribing the sentence's head is answered with that head
\* in front of it (turntaking.py `_gate_barge_in`), and audio that has been
\* transcribed for one reply is never handed to another.
NextReply(r, q) ==
  /\ r < q /\ phase[q] # "none"
  /\ \A s \in Replies : r < s /\ s < q => phase[s] = "none"
SentenceKept ==
  /\ \A r, q \in Replies :
       cut[r] = "merged_unheard" /\ NextReply(r, q) => audio[r] \subseteq audio[q]
  /\ \A r, q \in Replies :
       r # q /\ heard[r] /\ heard[q] => audio[r] \cap audio[q] = {}

\* Two voices never share the wire: a clip is not sounding while a sentence
\* or the fallback phrase is being sent (filler_runner.py `tail`, `settle`).
OneVoice ==
  filler = "sounding" =>
    /\ speaker # "sending"
    /\ \A r \in Replies : phase[r] \notin {"notice", "fallback"}

\* A closed session is quiet: whatever the close was cut short by, nothing
\* of a reply is left to write behind it (ReplyInFlight.close).
QuietOnceClosed ==
  pc = "closed" =>
    /\ \A r \in Replies : ~Running(r)
    /\ ~SpeakerAlive /\ ~FillerAlive

\* Nothing a reply started outlives it: neither the sentence nor the clip of
\* a turn is alive once that turn's task is over, nor any of them the session.
NothingOutlivesItsReply ==
  /\ SpeakerAlive \/ FillerAlive => Replying
  /\ QuietOnceClosed

\* Every reply whose body ran says once how it ended, tells the truth about
\* having been cut, and sends the `tts stop` that re-arms a device, unless
\* it was cancelled again behind its own reply_finished.
RepliesClose ==
  \A r \in Replies :
    /\ phase[r] = "done" /\ said[r] # "none" => r \in stopped \cup late
    /\ said[r] = "completed" => cut[r] = "none" \/ r \in late
    /\ said[r] \in {"none", outcome[r]} \/ said[r] = "completed"

\* Frames are held for a confirmation and for nothing else: outside the gate
\* they flow, unless the session's end took the serve loop out of the gate.
HeldOnlyWhileConfirming ==
  paused => pc \in {"confirm", "gate", "drain", "closing", "closed"}

\* A handler that cancelled the reply goes on: the reply it waits for always
\* comes to its end (filler_runner.py `_waited_out`).
CutsComplete == pc \in CutPcs ~> pc \notin CutPcs

\* A reply whose cancellation was spent on a sentence that had failed: it excuses
\* itself at a pace that whoever cancelled it is holding.
ExcuseHeld ==
  paused /\ inFlight # 0 /\ phase[inFlight] \in {"fsettle", "fallback"} /\ ~thrown[inFlight]

\* A reply whose cancellation was spent on a sentence that had lost its device: it
\* waits out a clip still sounding, at the pace that is held.
ClipHeld ==
  /\ paused /\ inFlight # 0 /\ phase[inFlight] = "endsettle" /\ ~thrown[inFlight]
  /\ gone /\ filler = "sounding"

\* Those are the two ways a handler that cancelled a reply, or the session's
\* close, can wait for ever (filler_runner.py `_waited_out`,
\* reply_in_flight.py `close`).
WaitsEnd ==
  /\ pc \in CutPcs ~> (pc \notin CutPcs \/ ExcuseHeld \/ ClipHeld)
  /\ pc = "closing" ~> (pc = "closed" \/ ExcuseHeld \/ ClipHeld)

=============================================================================
