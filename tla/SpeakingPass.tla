--------------------------- MODULE SpeakingPass ---------------------------
(***************************************************************************)
(* The body of one reply (runtime/pipeline.py `_speak_reply`): rounds of a   *)
(* model whose words are spoken while it is still writing, the tools it     *)
(* asks for, at most one move to another agent or thread, and what of all   *)
(* that the thread's history and the turn's record keep.                    *)
(*                                                                         *)
(* Four kinds of task run on the one event loop: the reply, a synthesis per *)
(* sentence (runtime/speech.py `_Synthesis`), a voice per sentence that     *)
(* sends what was synthesized (`_speak`), and the clip that masks a wait    *)
(* (runtime/filler_runner.py). An action is what one of them does between   *)
(* two awaits. A cancellation reaches the reply through whatever it awaits, *)
(* so one that finds it waiting for a voice is delivered to the voice.      *)
(***************************************************************************)
EXTENDS Integers, Sequences, FiniteSets

CONSTANTS
  Calls,         \* the tool calls a model may issue, each once
  Writes,        \* those names.ORDERED_TOOL_NAMES names
  Moves,         \* those `_moves` keeps from the dispatch
  Lookups,       \* those that search the documentation
  MaxRounds,     \* MAX_TOOL_ROUNDS
  MaxSentences,  \* bound: sentences written in one reply
  MaxChunks,     \* bound: chunks one sentence is synthesized to
  MaxAsked,      \* bound: calls issued in one round
  MaxCuts        \* bound: cancellations of one reply

ASSUME CallsAssumption ==
  /\ IsFiniteSet(Calls) /\ Writes \cup Moves \cup Lookups \subseteq Calls
  /\ Moves \cap (Writes \cup Lookups) = {}
ASSUME RoundsAssumption == MaxRounds \in Nat \ {0}
ASSUME BoundsAssumption ==
  /\ MaxSentences \in Nat /\ MaxChunks \in Nat
  /\ MaxAsked \in Nat /\ MaxCuts \in Nat

Sentences == 1..MaxSentences
Legs == 1..2  \* `switches_left = 1`

VARIABLES
  pc,        \* where the reply is
  thrown,    \* the exception it is unwinding with
  leg,       \* 2 once it has moved
  round,     \* round_index + 1
  attempt,   \* the request's, of the watchdog's two
  last,      \* the sentences begun
  speaking,  \* `_tool_loop`'s local, 0 for None
  voice,     \* per sentence, its `_speak` task
  synth,     \* per sentence, its `_drain` task
  ready,     \* per sentence, the chunks in its buffer
  given,     \* per sentence, the chunks its provider has given
  spoken,    \* the current leg's `spoken`
  pass,      \* the SpeakingPass value: spoke, withheld, kept
  slots,     \* this round's calls, in the order they were issued
  call,      \* per call, what its slot on the record says
  tools,     \* per leg, TurnUnderway._tools
  history,   \* per leg, what its thread gained: sentences, and calls by round
  stored,    \* per leg, the record handed to the recorder
  clip,      \* the clip that masks a wait
  phrase,    \* the fallback phrase said, by its reason
  cuts,      \* observer: cancellations so far
  aired,     \* observer: per leg, the sentences heard whole
  issued     \* observer: per leg, the calls the model issued

place == <<pc, thrown, leg, round, attempt>>
speech == <<last, speaking, voice, synth, ready, given>>
kept == <<spoken, pass, history, stored, aired>>
asked == <<slots, call, tools, issued>>
vars == <<place, speech, kept, asked, clip, phrase, cuts>>

Places == {"asking", "streaming", "queueing", "flushing", "dropping", "roundend",
           "cleanup", "tools", "draining", "recapping", "storing", "excusing", "settling",
           "over"}
\* `speak_after` for a sentence of the stream, and for the splitter's last.
Queueing == {"queueing", "flushing"}
Errors == {"failed", "gone", "cancel"}
VoiceOver == {"said", "failed", "gone", "cancel"}
Voices == {"none", "new", "announcing", "listening", "sending", "quitting",
           "losing"} \cup VoiceOver
Pulling == {"pulling", "holding"}
Unsaid == [filed |-> FALSE, said |-> <<>>, calls |-> <<>>]
Unheard == [said |-> <<>>, rounds |-> <<>>]

TypeOK ==
  /\ pc \in Places /\ thrown \in {"none"} \cup Errors
  /\ leg \in Legs /\ round \in 1..MaxRounds /\ attempt \in 1..2
  /\ last \in 0..MaxSentences /\ speaking \in 0..last
  /\ voice \in [Sentences -> Voices]
  /\ synth \in [Sentences -> {"none", "ended", "failed", "cancel"} \cup Pulling]
  /\ ready \in [Sentences -> 0..1] /\ given \in [Sentences -> 0..MaxChunks]
  /\ spoken \in Seq(Sentences)
  /\ pass \in [spoke : BOOLEAN, withheld : BOOLEAN, kept : 0..Len(spoken)]
  /\ slots \in Seq(Calls)
  /\ call \in [Calls -> {"none", "reserved", "answered", "moved"}]
  /\ tools \in [Legs -> Seq(Calls)] /\ issued \in [Legs -> Seq(Calls)]
  /\ history \in [Legs -> [said : Seq(Sentences), rounds : Seq(SUBSET Calls)]]
  /\ stored \in [Legs -> [filed : BOOLEAN, said : Seq(Sentences), calls : Seq(Calls)]]
  /\ aired \in [Legs -> Seq(Sentences)]
  /\ clip \in {"none", "armed", "sounding", "leaving"}
  /\ phrase \in {"none", "nothing", "failed"}
  /\ cuts \in 0..MaxCuts

Init ==
  /\ pc = "asking" /\ thrown = "none" /\ leg = 1 /\ round = 1 /\ attempt = 1
  /\ last = 0 /\ speaking = 0
  /\ voice = [s \in Sentences |-> "none"] /\ synth = [s \in Sentences |-> "none"]
  /\ ready = [s \in Sentences |-> 0] /\ given = [s \in Sentences |-> 0]
  /\ spoken = <<>> /\ pass = [spoke |-> FALSE, withheld |-> FALSE, kept |-> 0]
  /\ slots = <<>> /\ call = [c \in Calls |-> "none"]
  /\ tools = [l \in Legs |-> <<>>] /\ issued = [l \in Legs |-> <<>>]
  /\ history = [l \in Legs |-> Unheard]
  /\ stored = [l \in Legs |-> Unsaid] /\ aired = [l \in Legs |-> <<>>]
  /\ clip \in {"none", "armed"} /\ phrase = "none" /\ cuts = 0

-----------------------------------------------------------------------------
(* What the thread and the record keep.                                    *)

\* What was heard after the leg's last kept round.
Unkept == SubSeq(spoken, pass.kept + 1, Len(spoken))

InRound(kind) == {slots[i] : i \in DOMAIN slots} \cap kind
Answered == {c \in InRound(Calls) : call[c] = "answered"}

\* `_keep_round`: the answered calls, with the speech before them; a round
\* that keeps no call leaves its speech to what follows.
KeepRound ==
  IF Answered = {} THEN UNCHANGED <<history, pass>>
  ELSE /\ history' = [history EXCEPT ![leg].said = @ \o Unkept,
                                     ![leg].rounds = Append(@, Answered)]
       /\ pass' = [pass EXCEPT !.kept = Len(spoken)]

\* `_keep_speech`.
KeepSpeech == history' = [history EXCEPT ![leg].said = @ \o Unkept]

\* `_record_turn`: no row for a seeded turn that heard, said and asked nothing.
RecordTurn ==
  IF leg = 2 /\ spoken = <<>> /\ tools[leg] = <<>> THEN UNCHANGED stored
  ELSE stored' = [stored EXCEPT
         ![leg] = [filed |-> TRUE, said |-> spoken, calls |-> tools[leg]]]

-----------------------------------------------------------------------------
(* How a reply ends.                                                       *)

\* `settle` stands an unfired timer down and waits for what is sounding.
Settling(c) == IF c = "armed" THEN "leaving" ELSE c
\* `abandon` takes a sounding one down too.
Abandoned(c) == IF c = "none" THEN "none" ELSE "leaving"

\* The arms of `_reply`: a device that left has nobody to tell, a cancellation
\* means the user is talking, and anything else is owed a notice.
Caught(e) ==
  /\ thrown' = e
  /\ pc' = IF e = "failed" THEN "excusing" ELSE "settling"
  /\ clip' = IF e = "cancel" THEN Abandoned(clip) ELSE Settling(clip)

\* The notice: the phrase goes out once the clip is over.
Excuse ==
  /\ pc = "excusing" /\ clip = "none"
  /\ phrase' = IF thrown = "failed" THEN "failed" ELSE "nothing"
  /\ pc' = "settling"
  /\ UNCHANGED <<thrown, leg, round, attempt, speech, kept, asked, clip, cuts>>

\* The end of `_reply`'s finally.
Settled ==
  /\ pc = "settling" /\ clip = "none"
  /\ KeepSpeech /\ RecordTurn
  /\ pc' = "over"
  /\ UNCHANGED <<thrown, leg, round, attempt, speech, spoken, pass, aired, asked,
                 clip, phrase, cuts>>

ClipStep ==
  /\ \/ clip = "armed" /\ clip' = "sounding"
     \/ clip \in {"sounding", "leaving"} /\ clip' = "none"
  /\ UNCHANGED <<place, speech, kept, asked, phrase, cuts>>

-----------------------------------------------------------------------------
(* A synthesis, and the voice that sends it.                               *)

\* What a cancelled synthesis becomes.
Dropped(s) == [synth EXCEPT ![s] = IF @ \in Pulling THEN "cancel" ELSE @]

\* `_drain`: the semaphore has room while nothing is waiting to be spoken.
ChunkGiven(s) ==
  /\ synth[s] = "pulling" /\ given[s] < MaxChunks
  /\ given' = [given EXCEPT ![s] = @ + 1]
  /\ IF ready[s] = 0
       THEN ready' = [ready EXCEPT ![s] = 1] /\ UNCHANGED synth
       ELSE synth' = [synth EXCEPT ![s] = "holding"] /\ UNCHANGED ready
  /\ UNCHANGED <<place, last, speaking, voice, kept, asked, clip, phrase,
                 cuts>>

RoomMade(s) ==
  /\ synth[s] = "holding" /\ ready[s] = 0
  /\ ready' = [ready EXCEPT ![s] = 1]
  /\ synth' = [synth EXCEPT ![s] = "pulling"]
  /\ UNCHANGED <<place, last, speaking, voice, given, kept, asked, clip,
                 phrase, cuts>>

\* The provider is done, or fails, which is held until the sentence is spoken.
StreamOver(s) ==
  /\ synth[s] = "pulling"
  /\ \E how \in {"ended", "failed"} : synth' = [synth EXCEPT ![s] = how]
  /\ UNCHANGED <<place, last, speaking, voice, ready, given, kept, asked,
                 clip, phrase, cuts>>

\* The end-of-audio sentinel is behind whatever chunk is in the buffer.
SentinelIn(s) == synth[s] \notin Pulling

\* `begin_speaking` and `sentence_started`, which meet the socket first.
VoiceStarts(s) ==
  /\ voice[s] = "new"
  /\ voice' = [voice EXCEPT ![s] = "announcing"]
  /\ UNCHANGED <<place, last, speaking, synth, ready, given, kept, asked,
                 clip, phrase, cuts>>

\* Ahead of the `try`: a device that is gone here leaves the synthesis alone.
Announced(s) ==
  /\ voice[s] = "announcing"
  /\ \E next \in {"listening", "gone"} : voice' = [voice EXCEPT ![s] = next]
  /\ UNCHANGED <<place, last, speaking, synth, ready, given, kept, asked,
                 clip, phrase, cuts>>

\* `chunks` hands one over, and `_send_reply_audio` stands an unfired clip
\* down and lets a sounding one finish (`tail`).
ChunkTaken(s) ==
  /\ voice[s] = "listening" /\ ready[s] = 1
  /\ ready' = [ready EXCEPT ![s] = 0]
  /\ voice' = [voice EXCEPT ![s] = "sending"]
  /\ clip' = Settling(clip)
  /\ UNCHANGED <<place, last, speaking, synth, given, kept, asked, phrase,
                 cuts>>

ChunkSent(s) ==
  /\ voice[s] = "sending" /\ clip = "none"
  /\ \/ /\ voice' = [voice EXCEPT ![s] = "listening"]
        /\ UNCHANGED synth
     \/ /\ voice' = [voice EXCEPT ![s] = "losing"]
        /\ synth' = Dropped(s)
  /\ UNCHANGED <<place, last, speaking, ready, given, kept, asked, clip,
                 phrase, cuts>>

\* The sentinel: the sentence is counted as said, or its failure is raised here.
Spoken(s) ==
  /\ voice[s] = "listening" /\ ready[s] = 0 /\ SentinelIn(s)
  /\ IF synth[s] = "failed"
       THEN /\ voice' = [voice EXCEPT ![s] = "failed"]
            /\ UNCHANGED <<spoken, aired>>
       ELSE /\ voice' = [voice EXCEPT ![s] = "said"]
            /\ spoken' = Append(spoken, s)
            /\ aired' = [aired EXCEPT ![leg] = Append(@, s)]
  /\ UNCHANGED <<place, last, speaking, synth, ready, given, pass, history,
                 stored, asked, clip, phrase, cuts>>

\* The voice's `finally` has seen its synthesis down.
VoiceEnds(s) ==
  /\ voice[s] \in {"quitting", "losing"}
  /\ voice' = [voice EXCEPT ![s] = IF @ = "losing" THEN "gone" ELSE "cancel"]
  /\ UNCHANGED <<place, last, speaking, synth, ready, given, kept, asked,
                 clip, phrase, cuts>>

\* A voice is cancelled: one that has not reached its `try` ends with its
\* synthesis as it was, any other takes it down. Waiting for a clip's tail, it
\* passes the cancellation on to the clip.
Silence(s) ==
  /\ voice' = [voice EXCEPT ![s] =
       IF @ \in {"new", "announcing"} THEN "cancel"
       ELSE IF @ \in {"listening", "sending"} THEN "quitting" ELSE @]
  /\ synth' = IF voice[s] \in {"listening", "sending"} THEN Dropped(s) ELSE synth

SynthesisStep(s) == ChunkGiven(s) \/ RoomMade(s) \/ StreamOver(s)
VoiceStep(s) ==
  VoiceStarts(s) \/ Announced(s) \/ ChunkTaken(s) \/ ChunkSent(s) \/ Spoken(s)
    \/ VoiceEnds(s)

-----------------------------------------------------------------------------
(* One sentence behind another.                                            *)

\* A sentence's synthesis is started ahead of any wait.
Ahead == [synth EXCEPT ![last + 1] = "pulling"]

\* `speak_after`, for a sentence of the model's or the splitter's last. With
\* nobody speaking it speaks at once; behind a voice it waits, and behind one
\* that has failed it is dropped.
SpeakAfter(behind, then) ==
  /\ last < MaxSentences
  /\ last' = last + 1
  /\ IF speaking = 0 \/ voice[speaking] = "said"
       THEN /\ voice' = [voice EXCEPT ![last + 1] = "new"]
            /\ synth' = Ahead /\ speaking' = last + 1
            /\ pc' = then /\ UNCHANGED thrown
       ELSE /\ UNCHANGED <<voice, speaking>>
            /\ IF voice[speaking] \in VoiceOver
                 THEN /\ synth' = [synth EXCEPT ![last + 1] = "cancel"]
                      /\ pc' = "dropping" /\ thrown' = voice[speaking]
                 ELSE /\ synth' = Ahead
                      /\ pc' = behind /\ UNCHANGED thrown

\* The voice waited for is over.
Queued ==
  /\ pc \in Queueing /\ voice[speaking] \in VoiceOver
  /\ IF voice[speaking] = "said"
       THEN /\ voice' = [voice EXCEPT ![last] = "new"]
            /\ speaking' = last
            /\ pc' = IF pc = "flushing" THEN "roundend" ELSE "streaming"
            /\ UNCHANGED <<synth, thrown>>
       ELSE /\ pc' = "dropping" /\ thrown' = voice[speaking]
            /\ synth' = Dropped(last)
            /\ UNCHANGED <<voice, speaking>>
  /\ UNCHANGED <<leg, round, attempt, last, ready, given, kept, asked, clip,
                 phrase, cuts>>

\* `wait_cancelled`, and the round's `finally` behind it.
SeenDown ==
  /\ pc = "dropping"
  /\ pc' = "cleanup"
  /\ UNCHANGED <<thrown, leg, round, attempt, speech, kept, asked, clip, phrase, cuts>>

\* The round's `finally`: a voice that failed raises in place of what the
\* round was unwinding with.
CleanedUp ==
  /\ pc = "cleanup" /\ voice[speaking] \in VoiceOver
  /\ speaking' = 0
  /\ Caught(IF voice[speaking] \in {"failed", "gone"} THEN voice[speaking] ELSE thrown)
  /\ UNCHANGED <<leg, round, attempt, last, voice, synth, ready, given,
                 kept, asked, phrase, cuts>>

\* An exception inside the round, with the voice it leaves to be silenced.
Unwind(e) ==
  IF speaking = 0 THEN Caught(e) /\ UNCHANGED <<voice, synth>>
  ELSE /\ pc' = "cleanup" /\ thrown' = e
       /\ Silence(speaking)
       /\ clip' = IF voice[speaking] = "sending" THEN "none" ELSE clip

-----------------------------------------------------------------------------
(* Rounds.                                                                 *)

\* `reply_stream`: the first event of any kind, within the timeout.
FirstEvent ==
  /\ pc = "asking"
  /\ pc' = "streaming" /\ attempt' = 1
  /\ UNCHANGED <<thrown, leg, round, speech, kept, asked, clip, phrase, cuts>>

\* Mutant of Stalled: the second request is waited for without a bound.
StalledOnce ==
  /\ pc = "asking" /\ attempt = 1
  /\ attempt' = 2
  /\ UNCHANGED <<pc, thrown, leg, round, speech, kept, asked, clip, phrase, cuts>>

\* The watchdog: asked again once, then given up.
Stalled ==
  /\ pc = "asking"
  /\ IF attempt = 1
       THEN attempt' = 2 /\ UNCHANGED <<pc, thrown, clip>>
       ELSE Caught("failed") /\ UNCHANGED attempt
  /\ UNCHANGED <<leg, round, speech, kept, asked, phrase, cuts>>

StreamFails ==
  /\ pc \in {"asking", "streaming"}
  /\ Unwind("failed")
  /\ UNCHANGED <<leg, round, attempt, last, speaking, ready, given, kept,
                 asked, phrase, cuts>>

Sentence ==
  /\ pc = "streaming"
  /\ SpeakAfter("queueing", "streaming")
  /\ UNCHANGED <<leg, round, attempt, ready, given, kept, asked, clip, phrase, cuts>>

\* `_withheld`: a sentence that is really a call.
Withheld ==
  /\ pc = "streaming" /\ ~pass.withheld
  /\ pass' = [pass EXCEPT !.withheld = TRUE]
  /\ UNCHANGED <<place, speech, spoken, history, stored, aired, asked, clip, phrase,
                 cuts>>

\* What one round may ask for.
Rounds ==
  {calls \in UNION {[1..n -> Calls] : n \in 0..MaxAsked} :
     /\ \A i \in DOMAIN calls : call[calls[i]] = "none"
     /\ \A i, j \in DOMAIN calls : calls[i] = calls[j] => i = j}

\* Mutant of Reserve: a call gets its place on the record with its answer.
ReserveNothing(calls) == UNCHANGED tools

\* `reserve`: every call of the round, before anything else can end the reply.
Reserve(calls) == tools' = [tools EXCEPT ![leg] = @ \o calls]

\* The round is over. Tools do not run over the top of speech, and a lookup
\* plays the clip through the slow round behind it (`hold`).
RoundOver(calls) ==
  IF calls = <<>> THEN pc' = "draining" /\ UNCHANGED clip
  ELSE /\ pc' = "tools"
       /\ IF clip # "sounding" /\ \E i \in DOMAIN calls : calls[i] \in Lookups
            THEN clip' \in {clip, "armed"}
            ELSE UNCHANGED clip

\* The stream has ended, with the calls the model issued and perhaps a last
\* sentence in the splitter.
ModelDone ==
  /\ pc \in {"asking", "streaming"}
  /\ \E calls \in Rounds :
       /\ slots' = calls /\ Reserve(calls)
       /\ issued' = [issued EXCEPT ![leg] = @ \o calls]
       /\ call' = [c \in Calls |->
                     IF \E i \in DOMAIN calls : calls[i] = c THEN "reserved" ELSE call[c]]
       /\ \/ /\ pc = "streaming"
             /\ SpeakAfter("flushing", "roundend") /\ UNCHANGED clip
          \/ /\ IF speaking = 0 THEN RoundOver(calls)
                ELSE pc' = "roundend" /\ UNCHANGED clip
             /\ UNCHANGED <<thrown, last, speaking, voice, synth>>
  /\ attempt' = 1
  /\ UNCHANGED <<leg, round, ready, given, kept, phrase, cuts>>

\* The last voice of the round is over.
SpokenOut ==
  /\ pc = "roundend" /\ voice[speaking] \in VoiceOver
  /\ IF voice[speaking] = "said"
       THEN speaking' = 0 /\ RoundOver(slots) /\ UNCHANGED thrown
       ELSE pc' = "cleanup" /\ thrown' = voice[speaking] /\ UNCHANGED <<speaking, clip>>
  /\ UNCHANGED <<leg, round, attempt, last, voice, synth, ready, given,
                 kept, asked, phrase, cuts>>

-----------------------------------------------------------------------------
(* Tools.                                                                  *)

Before(c) == {slots[i] : i \in {i \in DOMAIN slots :
                                  \E j \in DOMAIN slots : slots[j] = c /\ i < j}}
Done(c) == call[c] \in {"answered", "moved"}

\* `run`: the writes one at a time and in order, then the rest together; then
\* the moves, in order (`_run_tools`).
Turn(c) ==
  /\ c \in InRound(Calls) /\ call[c] = "reserved"
  /\ \A w \in InRound(Writes) : Done(w) \/ (c \in Writes /\ w \notin Before(c))
  /\ c \in Moves =>
       /\ \A d \in InRound(Calls \ Moves) : Done(d)
       /\ \A m \in InRound(Moves) \cap Before(c) : Done(m)

Moved == \E m \in InRound(Moves) : call[m] = "moved"

\* `_run_one`: an answer, an error or a timeout, each of them a result. A move
\* that is refused is answered too.
Answer(c) ==
  /\ pc = "tools" /\ Turn(c)
  /\ call' = [call EXCEPT ![c] = "answered"]
  /\ UNCHANGED <<place, speech, kept, slots, tools, issued, clip, phrase, cuts>>

\* `_move`: at most one of a reply, whichever kind it is.
MoveGranted(c) ==
  /\ pc = "tools" /\ Turn(c) /\ c \in Moves
  /\ leg = 1 /\ ~Moved
  /\ call' = [call EXCEPT ![c] = "moved"]
  /\ UNCHANGED <<place, speech, kept, slots, tools, issued, clip, phrase, cuts>>

\* Mutant of ToolsEnd: a round that is cut keeps nothing.
ToolsEndKeepingWholeRounds(e) ==
  \/ /\ e = "none" /\ \A c \in InRound(Calls) : Done(c)
     /\ KeepRound
     /\ IF Moved \/ round = MaxRounds
          THEN pc' = "draining" /\ UNCHANGED <<round, attempt, slots>>
          ELSE pc' = "asking" /\ round' = round + 1 /\ attempt' = 1 /\ slots' = <<>>
     /\ UNCHANGED <<thrown, clip>>
  \/ /\ e # "none"
     /\ Caught(e)
     /\ UNCHANGED <<history, pass, round, attempt, slots>>

\* However the round ends, what was answered is kept (`_tool_loop`'s second
\* `finally`): then the next round, or the end of the leg.
ToolsEnd(e) ==
  /\ KeepRound
  /\ \/ /\ e = "none" /\ \A c \in InRound(Calls) : Done(c)
        /\ IF Moved \/ round = MaxRounds
             THEN pc' = "draining" /\ UNCHANGED <<round, attempt, slots>>
             ELSE pc' = "asking" /\ round' = round + 1 /\ attempt' = 1 /\ slots' = <<>>
        /\ UNCHANGED <<thrown, clip>>
     \/ /\ e # "none"
        /\ Caught(e)
        /\ UNCHANGED <<round, attempt, slots>>

\* All of the calls are resolved, or a move raises.
ToolsOver ==
  /\ pc = "tools"
  /\ \/ ToolsEnd("none")
     \/ (\E m \in Moves : Turn(m)) /\ ToolsEnd("failed")
  /\ UNCHANGED <<leg, speech, spoken, stored, aired, call, tools, issued, phrase, cuts>>

-----------------------------------------------------------------------------
(* The end of a leg.                                                       *)

\* Mutant of Heard: what was heard is asked of the leg the reply ends on.
HeardOnThisLeg == spoken # <<>>

\* Whether anything of the reply was heard.
Heard == pass.spoke \/ spoken # <<>>

\* `_nothing_sayable`: a reply that withheld something and said nothing.
LegEnds ==
  LET silent == pass.withheld /\ ~Heard
  IN  /\ pc' = IF silent THEN "excusing" ELSE "settling"
      /\ clip' = Settling(clip)

\* Mutant of Boundary: the leg's count of kept sentences is not reset.
BoundaryCounting ==
  /\ KeepSpeech /\ RecordTurn
  /\ pass' = [pass EXCEPT !.spoke = Heard]
  /\ spoken' = <<>> /\ slots' = <<>>
  /\ leg' = 2 /\ round' = 1 /\ attempt' = 1
  /\ pc' = "asking"

\* A move at its boundary, with no await in it: the leg's speech and record
\* are closed on the thread they happened on, and a new leg is begun.
Boundary ==
  /\ KeepSpeech /\ RecordTurn
  /\ pass' = [pass EXCEPT !.spoke = Heard, !.kept = 0]
  /\ spoken' = <<>> /\ slots' = <<>>
  /\ leg' = 2 /\ round' = 1 /\ attempt' = 1
  /\ pc' = "asking"

\* The encoder's tail is sent, and the leg is over: by its last word, by a
\* move, or by a recap that is spoken ahead of one (`_speak_text`).
Drained ==
  /\ pc = "draining"
  /\ \/ /\ ~Moved /\ LegEnds
        /\ UNCHANGED <<thrown, leg, round, attempt, speech, kept, slots>>
     \/ /\ Moved /\ Boundary
        /\ UNCHANGED <<thrown, speech, aired, clip>>
     \/ /\ Moved /\ SpeakAfter("queueing", "recapping")
        /\ UNCHANGED <<leg, round, attempt, ready, given, kept, slots, clip>>
     \/ /\ Caught("gone")
        /\ UNCHANGED <<leg, round, attempt, speech, kept, slots>>
  /\ UNCHANGED <<call, tools, issued, phrase, cuts>>

\* The recap was heard, and is stored; or it was not, and nothing moves.
Recapped ==
  /\ pc = "recapping" /\ voice[speaking] \in VoiceOver
  /\ IF voice[speaking] = "said"
       THEN pc' = "storing" /\ speaking' = 0 /\ UNCHANGED thrown
       ELSE pc' = "cleanup" /\ thrown' = voice[speaking] /\ UNCHANGED speaking
  /\ UNCHANGED <<leg, round, attempt, last, voice, synth, ready, given,
                 kept, asked, clip, phrase, cuts>>

\* The recap's own tail is sent and the checkpoint is waited for.
Stored ==
  /\ pc = "storing"
  /\ \/ Boundary /\ UNCHANGED <<thrown, aired, clip>>
     \/ Caught("gone") /\ UNCHANGED <<leg, round, attempt, kept, slots>>
  /\ UNCHANGED <<speech, call, tools, issued, phrase, cuts>>

-----------------------------------------------------------------------------
(* Cancellation, by a barge-in, an abort or a close.                       *)

\* Where the reply awaits something of its own. What a stream raises when it is
\* cancelled reaches the round behind the first step of a voice made before.
CutHere ==
  \/ /\ pc \in {"asking", "streaming"}
     /\ speaking # 0 => voice[speaking] # "new"
     /\ Unwind("cancel")
     /\ UNCHANGED <<round, attempt, history, pass, stored, slots>>
  \/ /\ pc = "tools" /\ ToolsEnd("cancel")
     /\ UNCHANGED <<voice, synth, stored>>
  \/ /\ pc \in {"draining", "storing", "excusing"} /\ Caught("cancel")
     /\ UNCHANGED <<voice, synth, round, attempt, history, pass, stored, slots>>

\* Where it awaits a voice: the voice is cancelled, and what it ends with is
\* what the reply sees; but one that is already over is not waited for.
CutVoice ==
  /\ pc \in Queueing \cup {"roundend", "recapping"}
  /\ IF voice[speaking] \in VoiceOver
       THEN /\ thrown' = "cancel"
            /\ pc' = IF pc \in Queueing THEN "dropping" ELSE "cleanup"
            /\ synth' = IF pc \in Queueing THEN Dropped(last) ELSE synth
            /\ UNCHANGED <<voice, clip>>
       ELSE /\ Silence(speaking)
            /\ clip' = IF voice[speaking] = "sending" THEN "none" ELSE clip
            /\ UNCHANGED <<pc, thrown>>
  /\ UNCHANGED <<round, attempt, history, pass, stored, slots>>

\* A wait for what is already being taken down keeps the cancellation to
\* itself (`suppress`).
CutSwallowed ==
  /\ pc \in {"dropping", "cleanup"}
  /\ UNCHANGED <<pc, thrown, round, attempt, voice, synth, history, pass, stored,
                 slots, clip>>

\* Mutant of CutSettling: the record is made after the wait and nowhere else.
CutSettlingUnrecorded ==
  /\ pc = "settling" /\ clip # "none"
  /\ pc' = "over" /\ thrown' = "cancel" /\ clip' = "none"
  /\ UNCHANGED <<round, attempt, voice, synth, history, pass, stored, slots>>

\* The `finally`'s wait for the clip: the turn is recorded under it.
CutSettling ==
  /\ pc = "settling" /\ clip # "none"
  /\ RecordTurn
  /\ pc' = "over" /\ thrown' = "cancel" /\ clip' = "none"
  /\ UNCHANGED <<round, attempt, voice, synth, history, pass, slots>>

Cut ==
  /\ cuts < MaxCuts
  /\ cuts' = cuts + 1
  /\ CutHere \/ CutVoice \/ CutSwallowed \/ CutSettling
  /\ UNCHANGED <<leg, last, speaking, ready, given, spoken, aired, call,
                 tools, issued, phrase>>

-----------------------------------------------------------------------------

\* What a model does at its own pace, and may never do.
ModelStep == FirstEvent \/ Sentence \/ Withheld \/ StreamFails \/ ModelDone

ReplyStep ==
  \/ Stalled \/ Queued \/ SeenDown \/ CleanedUp \/ SpokenOut
  \/ ToolsOver \/ Drained \/ Recapped \/ Stored \/ Excuse \/ Settled
  \/ \E c \in Calls : Answer(c) \/ MoveGranted(c)

TaskStep ==
  \/ ClipStep
  \/ \E s \in Sentences : SynthesisStep(s) \/ VoiceStep(s)

Next == ModelStep \/ ReplyStep \/ TaskStep \/ Cut

\* The loop runs its tasks and its timers, a synthesis ends, a tool's timeout
\* fires and a paced send finishes; and a stream that has begun ends, by the
\* provider's own timeout if nothing else. A model need not begin to answer.
Fairness ==
  /\ WF_vars(ReplyStep \/ TaskStep)
  /\ WF_vars(pc = "streaming" /\ (StreamFails \/ ModelDone))

Spec == Init /\ [][Next]_vars
FairSpec == Spec /\ Fairness

-----------------------------------------------------------------------------
(* What a user, a thread and an operator are promised.                     *)

Prefix(a, b) == Len(a) <= Len(b) /\ a = SubSeq(b, 1, Len(a))

Sounded == \A s \in Sentences : voice[s] = "said" => given[s] > 0

\* What was heard is what the model wrote, in its order and with nothing left
\* out between; each sentence of it is in the thread's history once, on the leg
\* it was heard on, and in the record, wherever the reply was cut
\* (`_keep_round`, `_keep_speech`, `_record_turn`). The history may lack it where
\* the session's own close cuts the last wait of a reply that was already cut,
\* and where a voice gave no sound at all, so that the clip was never stood down.
HeardKeptOnce ==
  LET all == aired[1] \o aired[2]
  IN  /\ \A i \in DOMAIN all : all[i] = i
      /\ \A l \in Legs : Prefix(history[l].said, aired[l])
      /\ pc = "over" =>
           \A l \in Legs :
             /\ stored[l].said = aired[l]
             /\ cuts < 2 /\ Sounded => history[l].said = aired[l]

\* Every call a model issued is on the record of the leg that issued it, run
\* or not, and those answered are in the thread's history, each with one round
\* (turns.py `reserve`, `_keep_round`).
CallsAccounted ==
  \A l \in Legs : l < leg \/ pc = "over" =>
    LET rounds == history[l].rounds
    IN  /\ stored[l].calls = issued[l]
        /\ UNION {rounds[i] : i \in DOMAIN rounds}
             = {c \in Calls : call[c] = "answered" /\ \E i \in DOMAIN issued[l] : issued[l][i] = c}
        /\ \A i, j \in DOMAIN rounds : i # j => rounds[i] \cap rounds[j] = {}

\* Nobody who heard part of a reply is told that it said nothing, and whoever
\* heard none of one that was withheld is told so (`_nothing_sayable`).
ToldWhenNothingHeard ==
  LET silence == aired = [l \in Legs |-> <<>>]
  IN  /\ phrase = "nothing" => silence
      /\ pc = "over" /\ pass.withheld /\ silence /\ thrown = "none" => phrase = "nothing"

\* A reply ends whatever the model, the voices and the tools do, and however
\* it is cut: no wait of one task for another is for ever.
ReplyEnds == <>(pc = "over")

\* What pipeline.py:2074 says of its `finally`: the sentence being spoken does
\* not outlive the reply it belonged to. Not so for one whose voice is ended
\* ahead of its `try`.
NothingOutlivesTheReply ==
  pc = "over" => \A s \in Sentences : synth[s] \notin Pulling

=============================================================================
