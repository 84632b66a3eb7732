------------------------- MODULE TurnTaking_proofs -------------------------
(***************************************************************************)
(* Proofs about TurnTaking: its types, the invariant behind one answer at   *)
(* a time, what that invariant says of the voices on the wire and of the    *)
(* end of a session, that TurnTaking implements Floor, how a reply closes,  *)
(* and what becomes of the user's sentence.                                 *)
(***************************************************************************)
EXTENDS TurnTaking, TLAPS

USE MaxUtterancesAssumption, MaxHurriesAssumption, BargeInAssumption,
    FaultsAssumption DEF Utterances, Replies

-----------------------------------------------------------------------------
(* Types.                                                                  *)

\* The types of what Task.cancel() writes.
CancelTypes ==
  /\ outcome' \in [Replies -> Outcomes]
  /\ thrown' \in [Replies -> BOOLEAN]
  /\ speaker' \in SpeakerStates
  /\ filler' \in FillerStates
  /\ cut' \in [Replies -> Cuts]
  /\ late' \subseteq Replies

\* The types of what a reply's step writes to record its end.
EndTypes ==
  /\ outcome' \in [Replies -> Outcomes]
  /\ said' \in [Replies -> Outcomes]
  /\ thrown' \in [Replies -> BOOLEAN]
  /\ filler' \in FillerStates
  /\ phase' \in [Replies -> Phases]
  /\ pending' \subseteq Utterances

\* Cancelling writes what it may.
LEMMA CancelTyped ==
  ASSUME TypeOK, NEW r \in 0..MaxUtterances, NEW why, NEW o \in Outcomes,
         Cancel(r, why, o)
  PROVE  CancelTypes
<1>1. CASE r = 0 \/ ~Running(r)
  BY ZenonT(60), <1>1 DEF TypeOK, Cancel, Latched, CancelTypes
<1>2. CASE r # 0 /\ Running(r)
  <2>1. r \in Replies
    BY <1>2
  <2>0. Latched(r, o) \in Outcomes
    BY <2>1 DEF TypeOK, Latched
  <2>2. outcome' \in [Replies -> Outcomes] /\ thrown' \in [Replies -> BOOLEAN]
    <3>1. /\ outcome' = [outcome EXCEPT ![r] = Latched(r, o)]
          /\ thrown' = [thrown EXCEPT ![r] = TRUE]
      BY <1>2 DEF Cancel
    <3> QED BY <2>0, <2>1, <3>1 DEF TypeOK
  <2>3. speaker' \in SpeakerStates /\ filler' \in FillerStates
    BY <1>2, <2>1 DEF TypeOK, Cancel, Abandoned, SpeakerStates, FillerStates
  <2>4. cut' \in [Replies -> Cuts]
    BY <1>2, <2>1 DEF TypeOK, Cancel, Cuts
  <2>5. late' \subseteq Replies
    <3>1. late' = late \/ late' = late \cup {r}
      BY <1>2 DEF Cancel
    <3> QED BY <2>1, <3>1 DEF TypeOK
  <2> QED BY <2>2, <2>3, <2>4, <2>5 DEF CancelTypes
<1> QED BY <1>1, <1>2

\* So does a reply that ends,
LEMMA ConcludeTyped ==
  ASSUME TypeOK, NEW r \in Replies, NEW o \in Outcomes,
         NEW clip \in FillerStates, Conclude(r, o, clip)
  PROVE  EndTypes
BY DEF TypeOK, Conclude, StoodDown, Outcomes, FillerStates, Phases, EndTypes

\* and one that turns to its excuse.
LEMMA ExcuseTyped ==
  ASSUME TypeOK, NEW r \in Replies, NEW o \in Outcomes, Excuse(r, o)
  PROVE  EndTypes
BY DEF TypeOK, Excuse, StoodDown, Outcomes, FillerStates, Phases, EndTypes

\* Every outcome and every clip a reply ends with is one there is.
LEMMA OutcomeTyped ==
  ASSUME TypeOK, NEW r \in Replies
  PROVE  /\ outcome[r] \in Outcomes
         /\ Latched(r, "nothing_heard") \in Outcomes
         /\ Latched(r, "device_gone") \in Outcomes
         /\ Latched(r, "failed") \in Outcomes
         /\ filler \in FillerStates
         /\ Abandoned(filler) \in FillerStates
BY DEF TypeOK, Latched, Abandoned, Outcomes, FillerStates

\* What a reply's step leaves alone keeps its type.
LEMMA ReplyStepTyped ==
  ASSUME TypeOK, EndTypes, speaker' \in SpeakerStates,
         heard' \in [Replies -> BOOLEAN], stopped' \subseteq Replies,
         UNCHANGED Aside
  PROVE  TypeOK'
BY DEF TypeOK, EndTypes, Aside, serveVars

\* The type invariant: every field of a session and of its replies keeps to
\* its range, and a reply is only ever named by the id of an utterance.
THEOREM TypeCorrect == Spec => []TypeOK
<1>1. Init => TypeOK
  <2> SUFFICES ASSUME Init PROVE TypeOK
    OBVIOUS
  <2>1. /\ mic \in 0..MaxUtterances /\ hurries \in 0..MaxHurries
        /\ inFlight \in 0..MaxUtterances
    BY DEF Init
  <2>5. /\ pc \in ServePcs /\ carry \subseteq Utterances
        /\ pending \subseteq Utterances
    BY DEF Init, ServePcs
  <2>6. paused \in BOOLEAN /\ gone \in BOOLEAN
    BY DEF Init
  <2>2. /\ phase \in [Replies -> Phases]
        /\ audio \in [Replies -> SUBSET Utterances]
        /\ heard \in [Replies -> BOOLEAN] /\ thrown \in [Replies -> BOOLEAN]
    BY DEF Init, Phases
  <2>3. /\ outcome \in [Replies -> Outcomes] /\ said \in [Replies -> Outcomes]
        /\ cut \in [Replies -> Cuts]
    BY DEF Init, Outcomes, Cuts
  <2>4. /\ speaker \in SpeakerStates /\ filler \in FillerStates
        /\ late \subseteq Replies /\ stopped \subseteq Replies
    BY DEF Init, SpeakerStates, FillerStates
  <2> QED BY <2>1, <2>2, <2>3, <2>4, <2>5, <2>6 DEF TypeOK
<1>2. TypeOK /\ [Next]_vars => TypeOK'
  <2> SUFFICES ASSUME TypeOK, [Next]_vars PROVE TypeOK'
    OBVIOUS
  <2>1. CASE Utterance
    BY <2>1 DEF TypeOK, Utterance, Start, ServePcs, CutPcs, Phases, replyVars
  <2>2. CASE SpeechOverReply
    <3>1. CancelTypes
      <4>1. CASE Cancel(inFlight, "merge", "barged_in")
        BY <4>1, CancelTyped DEF TypeOK, Outcomes
      <4>2. CASE UNCHANGED <<outcome, thrown, speaker, filler, cut, late>>
        BY <4>2 DEF TypeOK, CancelTypes
      <4> QED BY <2>2, <4>1, <4>2 DEF SpeechOverReply
    <3>2. pc' \in ServePcs /\ paused' \in BOOLEAN
      BY <2>2 DEF TypeOK, SpeechOverReply, ServePcs, CutPcs
    <3>4. mic' \in 0..MaxUtterances /\ mic + 1 \in Utterances
      BY <2>2 DEF TypeOK, SpeechOverReply
    <3>5. carry' = pending \cup {mic + 1} \/ carry' = {mic + 1}
      BY <2>2 DEF SpeechOverReply
    <3>6. carry' \subseteq Utterances
      BY <3>4, <3>5 DEF TypeOK
    <3>3. /\ phase' = phase /\ said' = said /\ heard' = heard /\ stopped' = stopped
          /\ UNCHANGED <<hurries, inFlight, pending, gone, audio>>
      BY <2>2 DEF SpeechOverReply
    <3> QED BY <3>1, <3>2, <3>3, <3>4, <3>6 DEF TypeOK, CancelTypes
  <2>3. CASE ButtonOverReply
    <3>1. CancelTypes
      BY <2>3, CancelTyped DEF ButtonOverReply, TypeOK, Outcomes
    <3> QED BY <2>3, <3>1
       DEF TypeOK, CancelTypes, ButtonOverReply, ServePcs, CutPcs, replyVars
  <2>4. CASE ConfirmNothing
    BY <2>4 DEF TypeOK, ConfirmNothing, ServePcs, CutPcs, Phases, replyVars
  <2>5. CASE ConfirmSpeech
    <3>1. CancelTypes
      BY <2>5, CancelTyped DEF ConfirmSpeech, TypeOK, Outcomes
    <3> QED BY <2>5, <3>1
       DEF TypeOK, CancelTypes, ConfirmSpeech, ServePcs, CutPcs, replyVars
  <2>6. CASE Abort
    <3>1. CancelTypes
      BY <2>6, CancelTyped DEF Abort, TypeOK, Outcomes
    <3> QED BY <2>6, <3>1
       DEF TypeOK, CancelTypes, Abort, ServePcs, CutPcs, replyVars
  <2>7. CASE AnswerAfterCut
    BY <2>7
       DEF TypeOK, AnswerAfterCut, Start, ServePcs, CutPcs, Phases, replyVars
  <2>8. CASE AbortOver
    BY <2>8 DEF TypeOK, AbortOver, ServePcs, CutPcs, Phases, replyVars
  <2>9. CASE Vanish
    BY <2>9 DEF TypeOK, Vanish, ServePcs, CutPcs, Phases, replyVars, serveVars
  <2>10. CASE Limit
    BY <2>10 DEF TypeOK, Limit, ServePcs, CutPcs, Phases, replyVars
  <2>11. CASE Close
    <3>1. CancelTypes
      BY <2>11, CancelTyped DEF Close, TypeOK, Outcomes
    <3> QED BY <2>11, <3>1
       DEF TypeOK, CancelTypes, Close, ServePcs, CutPcs, replyVars
  <2>12. CASE Hurry
    <3>1. CancelTypes
      BY <2>12, CancelTyped DEF Hurry, TypeOK, Outcomes
    <3> QED BY <2>12, <3>1
       DEF TypeOK, CancelTypes, Hurry, ServePcs, CutPcs, replyVars
  <2>13. CASE CloseOver
    BY <2>13 DEF TypeOK, CloseOver, ServePcs, CutPcs, Phases, replyVars
  <2>14. ASSUME NEW r \in Replies, ProviderStep(r) \/ OwnStep(r) PROVE TypeOK'
    <3>1. CASE Transcribed(r)
      <4>1. CASE EndTypes
        BY <3>1, <4>1, ReplyStepTyped DEF TypeOK, Transcribed, SpeakerStates
      <4>2. ASSUME NEW o \in Outcomes, NEW clip \in FillerStates,
                   Conclude(r, o, clip)
            PROVE  EndTypes
        BY <4>2, ConcludeTyped
      <4>4. EndTypes
        BY <3>1, <4>2, OutcomeTyped
           DEF Transcribed, TypeOK, EndTypes, Phases, FillerStates,
              StoodDown, Abandoned
      <4> QED BY <4>1, <4>4
    <3>2. CASE TranscriptionFails(r)
      <4>1. EndTypes
        BY <3>2, OutcomeTyped, ExcuseTyped DEF TranscriptionFails
      <4> QED BY <3>2, <4>1, ReplyStepTyped
         DEF TranscriptionFails, TypeOK, SpeakerStates
    <3>3. CASE Sentence(r)
      BY <3>3 DEF TypeOK, Sentence, Phases, SpeakerStates, FillerStates, Aside,
         serveVars, replyVars
    <3>4. CASE AwaitSentence(r)
      BY <3>4
         DEF TypeOK, AwaitSentence, Phases, SpeakerStates, FillerStates, Aside,
         serveVars, replyVars
    <3>5. CASE Hold(r)
      BY <3>5 DEF TypeOK, Hold, Phases, SpeakerStates, FillerStates, Aside,
         serveVars, replyVars
    <3>6. CASE StreamFails(r)
      <4>1. CASE EndTypes
        BY <3>6, <4>1, ReplyStepTyped DEF TypeOK, StreamFails, SpeakerStates
      <4>3. ASSUME NEW o \in Outcomes, Excuse(r, o)
            PROVE  EndTypes
        BY <4>3, ExcuseTyped
      <4>4. EndTypes
        BY <3>6, <4>3, OutcomeTyped
           DEF StreamFails, TypeOK, EndTypes, Phases, FillerStates,
              StoodDown, Abandoned
      <4> QED BY <4>1, <4>4
    <3>7. CASE StreamOver(r)
      <4>1. CASE EndTypes
        BY <3>7, <4>1, ReplyStepTyped DEF TypeOK, StreamOver, SpeakerStates
      <4>2. ASSUME NEW o \in Outcomes, NEW clip \in FillerStates,
                   Conclude(r, o, clip)
            PROVE  EndTypes
        BY <4>2, ConcludeTyped
      <4>3. ASSUME NEW o \in Outcomes, Excuse(r, o)
            PROVE  EndTypes
        BY <4>3, ExcuseTyped
      <4>4. EndTypes
        BY <3>7, <4>2, <4>3, OutcomeTyped
           DEF StreamOver, TypeOK, EndTypes, Phases, FillerStates, StoodDown,
              Abandoned
      <4> QED BY <4>1, <4>4
    <3>8. CASE NeverRan(r)
      BY <3>8 DEF TypeOK, NeverRan, Phases, SpeakerStates, FillerStates, Aside,
         serveVars, replyVars
    <3>9. CASE Begin(r)
      BY <3>9 DEF TypeOK, Begin, Phases, SpeakerStates, FillerStates, Aside,
         serveVars, replyVars
    <3>10. CASE Shown(r)
      <4>1. CASE EndTypes
        BY <3>10, <4>1, ReplyStepTyped DEF TypeOK, Shown, SpeakerStates
      <4>2. ASSUME NEW o \in Outcomes, NEW clip \in FillerStates,
                   Conclude(r, o, clip)
            PROVE  EndTypes
        BY <4>2, ConcludeTyped
      <4>4. EndTypes
        <5>1. CASE gone
          BY <3>10, <4>2, <5>1, OutcomeTyped DEF Shown
        <5>2. CASE ~gone
          <6>1. /\ phase' = [phase EXCEPT ![r] = "llm"]
                /\ filler' \in {"none", "armed"}
                /\ UNCHANGED <<pending, outcome, thrown, said>>
            BY <3>10, <5>2 DEF Shown
          <6> QED BY <6>1 DEF TypeOK, EndTypes, Phases, FillerStates
        <5> QED BY <5>1, <5>2
      <4> QED BY <4>1, <4>4
    <3>11. CASE SentenceOver(r)
      <4>1. ASSUME speaker = "over" PROVE EndTypes
        BY <3>11, <4>1 DEF SentenceOver, TypeOK, EndTypes, Phases, FillerStates
      <4>2. ASSUME speaker # "over" PROVE EndTypes
        BY <3>11, <4>2, OutcomeTyped, ConcludeTyped, ExcuseTyped DEF SentenceOver
      <4> QED BY <3>11, <4>1, <4>2, ReplyStepTyped DEF SentenceOver, TypeOK, SpeakerStates
    <3>12. CASE Flushed(r)
      <4>1. EndTypes
        BY <3>12, OutcomeTyped, ConcludeTyped DEF Flushed
      <4> QED BY <3>12, <4>1, ReplyStepTyped DEF Flushed, TypeOK, SpeakerStates
    <3>13. CASE StreamCut(r)
      <4>1. ASSUME SpeakerAlive PROVE EndTypes
        BY <3>13, <4>1
           DEF StreamCut, TypeOK, EndTypes, Phases, FillerStates, Abandoned
      <4>2. ASSUME CutFinds(r) PROVE EndTypes
        BY <4>2, OutcomeTyped, ConcludeTyped, ExcuseTyped DEF CutFinds
      <4>3. EndTypes
        BY <3>13, <4>1, <4>2 DEF StreamCut
      <4> QED BY <3>13, <4>3, ReplyStepTyped
         DEF StreamCut, CutFinds, TypeOK, SpeakerStates
    <3>14. CASE SentenceCut(r)
      <4>1. EndTypes
        BY <3>14, OutcomeTyped, ConcludeTyped, ExcuseTyped DEF SentenceCut, CutFinds
      <4> QED BY <3>14, <4>1, ReplyStepTyped
         DEF SentenceCut, CutFinds, TypeOK, SpeakerStates
    <3>15. CASE Unwound(r)
      <4>1. EndTypes
        BY <3>15, OutcomeTyped, ConcludeTyped, ExcuseTyped DEF Unwound
      <4> QED BY <3>15, <4>1, ReplyStepTyped DEF Unwound, TypeOK, SpeakerStates
    <3>16. CASE CutShort(r)
      <4>1. EndTypes
        BY <3>16, OutcomeTyped, ConcludeTyped DEF CutShort
      <4> QED BY <3>16, <4>1, ReplyStepTyped
         DEF CutShort, TypeOK, SpeakerStates
    <3>17. CASE ExcuseSettled(r)
      BY <3>17
         DEF TypeOK, ExcuseSettled, Phases, SpeakerStates, FillerStates, Aside,
         serveVars, replyVars
    <3>18. CASE Noticed(r)
      <4>1. CASE EndTypes
        BY <3>18, <4>1, ReplyStepTyped DEF TypeOK, Noticed, SpeakerStates
      <4>2. ASSUME NEW o \in Outcomes, NEW clip \in FillerStates,
                   Conclude(r, o, clip)
            PROVE  EndTypes
        BY <4>2, ConcludeTyped
      <4>4. EndTypes
        BY ZenonT(60), <3>18, <4>2, OutcomeTyped
           DEF Noticed, TypeOK, EndTypes, Phases, FillerStates, StoodDown,
              Abandoned
      <4> QED BY <4>1, <4>4
    <3>19. CASE NoticePlayed(r)
      <4>1. EndTypes
        BY <3>19, OutcomeTyped, ConcludeTyped DEF NoticePlayed
      <4> QED BY <3>19, <4>1, ReplyStepTyped
         DEF NoticePlayed, TypeOK, SpeakerStates
    <3>20. CASE Settled(r)
      BY <3>20 DEF TypeOK, Settled, Phases, SpeakerStates, FillerStates, Aside,
         serveVars, replyVars
    <3>21. CASE StopSpeaking(r)
      BY <3>21
         DEF TypeOK, StopSpeaking, Phases, SpeakerStates, FillerStates, Aside,
         serveVars, replyVars
    <3> QED BY <2>14, <3>1, <3>2, <3>3, <3>4, <3>5, <3>6, <3>7, <3>8, <3>9,
       <3>10, <3>11, <3>12, <3>13, <3>14, <3>15, <3>16, <3>17, <3>18, <3>19,
          <3>20, <3>21
       DEF ProviderStep, OwnStep
  <2>15. CASE SpeakerBegins
    BY <2>15
       DEF TypeOK, SpeakerBegins, Others, serveVars, replyVars, SpeakerStates,
       FillerStates, StoodDown
  <2>16. CASE SpeakerTailed
    BY <2>16
       DEF TypeOK, SpeakerTailed, Others, serveVars, replyVars, SpeakerStates,
       FillerStates, StoodDown
  <2>17. CASE SpeakerSends
    BY <2>17
       DEF TypeOK, SpeakerSends, Others, serveVars, replyVars, SpeakerStates,
       FillerStates, StoodDown
  <2>18. CASE SpeakerFails
    BY <2>18
       DEF TypeOK, SpeakerFails, Others, serveVars, replyVars, SpeakerStates,
       FillerStates, StoodDown
  <2>19. CASE SpeakerEnds
    BY <2>19
       DEF TypeOK, SpeakerEnds, Others, serveVars, replyVars, SpeakerStates,
       FillerStates, StoodDown
  <2>20. CASE FillerFires
    BY <2>20
       DEF TypeOK, FillerFires, Others, serveVars, replyVars, SpeakerStates,
       FillerStates, StoodDown
  <2>21. CASE FillerOver
    BY <2>21
       DEF TypeOK, FillerOver, Others, serveVars, replyVars, SpeakerStates,
       FillerStates, StoodDown
  <2>22. CASE UNCHANGED vars
    BY <2>22 DEF TypeOK, vars, serveVars, replyVars
  <2> QED BY <2>1, <2>2, <2>3, <2>4, <2>5, <2>6, <2>7, <2>8, <2>9, <2>10,
     <2>11, <2>12, <2>13, <2>14, <2>15, <2>16, <2>17, <2>18, <2>19, <2>20,
        <2>21, <2>22
      DEF Next, ServeStep, SpeakerStep, FillerStep
<1> QED BY <1>1, <1>2, PTL DEF Spec

-----------------------------------------------------------------------------
(* The invariant of the floor.                                             *)

\* The phases in which a sentence, and a clip, can be alive.
SpeakingPhases == {"llm"} \cup Joins
MaskedPhases == SpeakingPhases \cup {"flush", "fsettle", "endsettle"}

\* The reply the floor points at is the only one there can be.
OneOwner == \A r \in Replies : Running(r) => r = inFlight

\* A reply is started by its own utterance,
NotYet == \A r \in Replies : r > mic => phase[r] = "none"

\* and an utterance the serve loop still has in hand has none.
InHand ==
  pc \in {"merge", "manual", "gate", "confirm"} =>
    mic \in Replies /\ phase[mic] = "none"

\* The end comes with no reply left to run.
ClosedQuiet == pc = "closed" => \A r \in Replies : ~Running(r)

\* The sentence and the clip belong to a reply that is where it waits for
\* them, and a clip that may yet sound is never armed beside a sentence being
\* sent.
SpeakerOwned == speaker # "none" => inFlight # 0 /\ phase[inFlight] \in SpeakingPhases
FillerOwned == filler # "none" => inFlight # 0 /\ phase[inFlight] \in MaskedPhases
ClipInert == speaker = "sending" => filler \in {"none", "ending"}
Voices == SpeakerOwned /\ FillerOwned /\ ClipInert

Ownership ==
  OneOwner /\ NotYet /\ InHand /\ ClosedQuiet /\ HeldOnlyWhileConfirming

FloorInv == TypeOK /\ Ownership /\ Voices

-----------------------------------------------------------------------------
(* What an action does to the parts the invariant relates.                 *)

\* A step of a reply moves that reply from one await to another, or to its
\* end, and nothing of the serve loop.
LEMMA ReplyStepMoves ==
  ASSUME TypeOK, NEW r \in Replies, ProviderStep(r) \/ OwnStep(r)
  PROVE  /\ Running(r)
         /\ \E p \in Phases \ {"none"} : phase' = [phase EXCEPT ![r] = p]
         /\ UNCHANGED <<pc, carry, mic, hurries, inFlight, paused, gone,
            audio>>
<1> DEFINE Moves == \E p \in Phases \ {"none"} : phase' = [phase EXCEPT ![r] = p]
<1>1. ASSUME NEW o, NEW clip, Conclude(r, o, clip) PROVE Moves
  BY <1>1 DEF Conclude, Phases
<1>2. ASSUME NEW o, Excuse(r, o) PROVE Moves
  BY <1>2 DEF Excuse, Phases
<1>3. phase = [phase EXCEPT ![r] = phase[r]] /\ phase[r] \in Phases
  BY DEF TypeOK
<1>4. CASE Transcribed(r)
  <2>1. Running(r)
    BY <1>4 DEF Transcribed, Running
  <2>2. Moves
    BY <1>4, <1>1 DEF Transcribed, Phases
  <2> QED BY <1>4, <2>1, <2>2 DEF Transcribed, Aside, serveVars
<1>5. CASE TranscriptionFails(r)
  <2>1. Running(r)
    BY <1>5 DEF TranscriptionFails, Running
  <2>2. Moves
    BY <1>5, <1>2 DEF TranscriptionFails, Phases
  <2> QED BY <1>5, <2>1, <2>2 DEF TranscriptionFails, Aside, serveVars
<1>6. CASE Sentence(r)
  <2>1. Running(r)
    BY <1>6 DEF Sentence, Running
  <2>2. Moves
    BY <1>6, <1>3, <2>1 DEF Sentence, replyVars, Running
  <2> QED BY <1>6, <2>1, <2>2 DEF Sentence, Aside, serveVars
<1>7. CASE AwaitSentence(r)
  <2>1. Running(r)
    BY <1>7 DEF AwaitSentence, Running
  <2>2. Moves
    BY <1>7 DEF AwaitSentence, Phases
  <2> QED BY <1>7, <2>1, <2>2 DEF AwaitSentence, Aside, serveVars
<1>8. CASE Hold(r)
  <2>1. Running(r)
    BY <1>8 DEF Hold, Running
  <2>2. Moves
    BY <1>8, <1>3, <2>1 DEF Hold, replyVars, Running
  <2> QED BY <1>8, <2>1, <2>2 DEF Hold, Aside, serveVars
<1>9. CASE StreamFails(r)
  <2>1. Running(r)
    BY <1>9 DEF StreamFails, Running
  <2>2. Moves
    BY <1>9, <1>2 DEF StreamFails, Phases
  <2> QED BY <1>9, <2>1, <2>2 DEF StreamFails, Aside, serveVars
<1>10. CASE StreamOver(r)
  <2>1. Running(r)
    BY <1>10 DEF StreamOver, Running
  <2>2. Moves
    BY <1>10, <1>1, <1>2 DEF StreamOver, Phases
  <2> QED BY <1>10, <2>1, <2>2 DEF StreamOver, Aside, serveVars
<1>11. CASE NeverRan(r)
  <2>1. Running(r)
    BY <1>11 DEF NeverRan, Running
  <2>2. Moves
    BY <1>11 DEF NeverRan, Phases
  <2> QED BY <1>11, <2>1, <2>2 DEF NeverRan, Aside, serveVars
<1>12. CASE Begin(r)
  <2>1. Running(r)
    BY <1>12 DEF Begin, Running
  <2>2. Moves
    BY <1>12 DEF Begin, Phases
  <2> QED BY <1>12, <2>1, <2>2 DEF Begin, Aside, serveVars
<1>13. CASE Shown(r)
  <2>1. Running(r)
    BY <1>13 DEF Shown, Running
  <2>2. Moves
    BY <1>13, <1>1 DEF Shown, Phases
  <2> QED BY <1>13, <2>1, <2>2 DEF Shown, Aside, serveVars
<1>14. CASE SentenceOver(r)
  <2>1. Running(r)
    BY <1>14 DEF SentenceOver, Running
  <2>2. Moves
    BY <1>14, <1>1, <1>2 DEF SentenceOver, Phases
  <2> QED BY <1>14, <2>1, <2>2 DEF SentenceOver, Aside, serveVars
<1>15. CASE Flushed(r)
  <2>1. Running(r)
    BY <1>15 DEF Flushed, Running
  <2>2. Moves
    BY <1>15, <1>1 DEF Flushed, Phases
  <2> QED BY <1>15, <2>1, <2>2 DEF Flushed, Aside, serveVars
<1>16. CASE StreamCut(r)
  <2>1. Running(r)
    BY <1>16 DEF StreamCut, Running
  <2>2. Moves
    BY <1>16, <1>1, <1>2 DEF StreamCut, CutFinds, Phases
  <2> QED BY <1>16, <2>1, <2>2 DEF StreamCut, Aside, serveVars
<1>17. CASE SentenceCut(r)
  <2>1. Running(r)
    BY <1>17 DEF SentenceCut, Running
  <2>2. Moves
    BY <1>17, <1>1, <1>2 DEF SentenceCut, CutFinds, Phases
  <2> QED BY <1>17, <2>1, <2>2 DEF SentenceCut, Aside, serveVars
<1>18. CASE Unwound(r)
  <2>1. Running(r)
    BY <1>18 DEF Unwound, Running
  <2>2. Moves
    BY <1>18, <1>1, <1>2 DEF Unwound, Phases
  <2> QED BY <1>18, <2>1, <2>2 DEF Unwound, Aside, serveVars
<1>19. CASE CutShort(r)
  <2>1. Running(r)
    BY <1>19 DEF CutShort, Running
  <2>2. Moves
    BY <1>19, <1>1 DEF CutShort, Phases
  <2> QED BY <1>19, <2>1, <2>2 DEF CutShort, Aside, serveVars
<1>20. CASE ExcuseSettled(r)
  <2>1. Running(r)
    BY <1>20 DEF ExcuseSettled, Running
  <2>2. Moves
    BY <1>20 DEF ExcuseSettled, Phases
  <2> QED BY <1>20, <2>1, <2>2 DEF ExcuseSettled, Aside, serveVars
<1>21. CASE Noticed(r)
  <2>1. Running(r)
    BY <1>21 DEF Noticed, Running
  <2>2. Moves
    BY <1>21, <1>1 DEF Noticed, Phases
  <2> QED BY <1>21, <2>1, <2>2 DEF Noticed, Aside, serveVars
<1>22. CASE NoticePlayed(r)
  <2>1. Running(r)
    BY <1>22 DEF NoticePlayed, Running
  <2>2. Moves
    BY <1>22, <1>1 DEF NoticePlayed, Phases
  <2> QED BY <1>22, <2>1, <2>2 DEF NoticePlayed, Aside, serveVars
<1>23. CASE Settled(r)
  <2>1. Running(r)
    BY <1>23 DEF Settled, Running
  <2>2. Moves
    BY <1>23 DEF Settled, Phases
  <2> QED BY <1>23, <2>1, <2>2 DEF Settled, Aside, serveVars
<1>24. CASE StopSpeaking(r)
  <2>1. Running(r)
    BY <1>24 DEF StopSpeaking, Running
  <2>2. Moves
    BY <1>24 DEF StopSpeaking, Phases
  <2> QED BY <1>24, <2>1, <2>2 DEF StopSpeaking, Aside, serveVars
<1> QED BY <1>4, <1>5, <1>6, <1>7, <1>8, <1>9, <1>10, <1>11, <1>12, <1>13,
   <1>14, <1>15, <1>16, <1>17, <1>18, <1>19, <1>20, <1>21, <1>22, <1>23, <1>24
      DEF ProviderStep, OwnStep

\* Cancelling stops voices and starts none.
LEMMA CancelQuietens ==
  ASSUME NEW r, NEW why, NEW o, Cancel(r, why, o)
  PROVE  /\ speaker' = speaker \/ (speaker # "none" /\ speaker' = "ending")
         /\ filler' = filler \/ (filler # "none" /\ filler' = "ending")
BY DEF Cancel, Abandoned, SpeakerAlive

LEMMA QuieterVoices ==
  ASSUME Voices, UNCHANGED <<phase, inFlight>>,
         speaker' = speaker \/ (speaker # "none" /\ speaker' = "ending"),
         filler' = filler \/ (filler # "none" /\ filler' = "ending")
  PROVE  Voices'
BY DEF Voices, SpeakerOwned, FillerOwned, ClipInert, SpeakingPhases,
   MaskedPhases

\* A reply that ends leaves no sentence behind, and a clip only while it is
\* still waiting for it;
LEMMA ConcludeVoices ==
  ASSUME TypeOK, Voices, NEW r \in Replies, r = inFlight, inFlight' = inFlight,
         speaker' = "none", NEW o, Conclude(r, o, filler)
  PROVE  Voices'
BY DEF TypeOK, Voices, SpeakerOwned, FillerOwned, ClipInert, MaskedPhases,
   Conclude, StoodDown, Phases

LEMMA ConcludeAbandonsVoices ==
  ASSUME TypeOK, Voices, NEW r \in Replies, r = inFlight, inFlight' = inFlight,
         speaker' = "none", NEW o, Conclude(r, o, Abandoned(filler))
  PROVE  Voices'
BY DEF TypeOK, Voices, SpeakerOwned, FillerOwned, ClipInert, MaskedPhases,
   Conclude, StoodDown, Abandoned, Phases

\* so does one that turns to its excuse.
LEMMA ExcuseVoices ==
  ASSUME TypeOK, Voices, NEW r \in Replies, r = inFlight, inFlight' = inFlight,
         speaker' = "none", NEW o, Excuse(r, o)
  PROVE  Voices'
BY DEF TypeOK, Voices, SpeakerOwned, FillerOwned, ClipInert, MaskedPhases,
   Excuse, StoodDown, FillerAlive, Phases

-----------------------------------------------------------------------------
(* Every action keeps the invariant.                                       *)

LEMMA ServeKeepsOwnership ==
  ASSUME TypeOK, Ownership, ServeStep
  PROVE  Ownership'
<1> USE DEF Ownership, OneOwner, NotYet, InHand, ClosedQuiet,
        HeldOnlyWhileConfirming, Running
<1>1. CASE Utterance
  BY <1>1 DEF Utterance, TypeOK, Replying, Start, CutPcs, replyVars, serveVars
<1>2. CASE SpeechOverReply
  BY <1>2 DEF SpeechOverReply, TypeOK, Replying, CutPcs, replyVars, serveVars
<1>3. CASE ButtonOverReply
  BY <1>3 DEF ButtonOverReply, TypeOK, Replying, CutPcs, replyVars, serveVars
<1>4. CASE ConfirmNothing
  BY <1>4 DEF ConfirmNothing, TypeOK, Replying, CutPcs, replyVars, serveVars
<1>5. CASE ConfirmSpeech
  BY <1>5 DEF ConfirmSpeech, TypeOK, Replying, CutPcs, replyVars, serveVars
<1>6. CASE Abort
  BY <1>6 DEF Abort, TypeOK, Replying, CutPcs, replyVars, serveVars
<1>7. CASE AnswerAfterCut
  BY <1>7
     DEF AnswerAfterCut, TypeOK, Replying, CutOver, Start, CutPcs, replyVars,
        serveVars
<1>8. CASE AbortOver
  BY <1>8
     DEF AbortOver, TypeOK, Replying, CutOver, CutPcs, replyVars, serveVars
<1>9. CASE Vanish
  BY <1>9 DEF Vanish, TypeOK, Replying, CutPcs, replyVars, serveVars
<1>10. CASE Limit
  BY <1>10 DEF Limit, TypeOK, Replying, CutPcs, replyVars, serveVars
<1>11. CASE Close
  BY <1>11 DEF Close, TypeOK, Replying, CutPcs, replyVars, serveVars
<1>12. CASE Hurry
  BY <1>12 DEF Hurry, TypeOK, Replying, CutPcs, replyVars, serveVars
<1>13. CASE CloseOver
  BY <1>13
     DEF CloseOver, TypeOK, Replying, CutOver, CutPcs, replyVars, serveVars
<1> QED BY <1>1, <1>2, <1>3, <1>4, <1>5, <1>6, <1>7, <1>8, <1>9, <1>10,
   <1>11, <1>12, <1>13 DEF ServeStep

LEMMA ServeKeepsVoices ==
  ASSUME TypeOK, Ownership, Voices, ServeStep
  PROVE  Voices'

<1>1. CASE Utterance
  BY <1>1
     DEF Utterance, Start, CutOver, TypeOK, Voices, SpeakerOwned,
        FillerOwned, ClipInert,
     SpeakingPhases, MaskedPhases, Joins, Replying, Running
<1>2. CASE SpeechOverReply
  BY <1>2, CancelQuietens, QuieterVoices DEF SpeechOverReply
<1>3. CASE ButtonOverReply
  BY <1>3, CancelQuietens, QuieterVoices DEF ButtonOverReply
<1>4. CASE ConfirmNothing
  BY <1>4, QuieterVoices DEF ConfirmNothing, replyVars, serveVars
<1>5. CASE ConfirmSpeech
  BY <1>5, CancelQuietens, QuieterVoices DEF ConfirmSpeech
<1>6. CASE Abort
  BY <1>6, CancelQuietens, QuieterVoices DEF Abort
<1>7. CASE AnswerAfterCut
  BY <1>7
     DEF AnswerAfterCut, Start, CutOver, TypeOK, Voices, SpeakerOwned,
        FillerOwned, ClipInert,
     SpeakingPhases, MaskedPhases, Joins, Replying, Running
<1>8. CASE AbortOver
  BY <1>8 DEF AbortOver, CutOver, Voices, SpeakerOwned, FillerOwned, ClipInert,
     SpeakingPhases, MaskedPhases, Joins, Replying, Running, replyVars
<1>9. CASE Vanish
  BY <1>9, QuieterVoices DEF Vanish, replyVars, serveVars
<1>10. CASE Limit
  BY <1>10, QuieterVoices DEF Limit, replyVars, serveVars
<1>11. CASE Close
  BY <1>11, CancelQuietens, QuieterVoices DEF Close
<1>12. CASE Hurry
  BY <1>12, CancelQuietens, QuieterVoices DEF Hurry
<1>13. CASE CloseOver
  BY <1>13
     DEF CloseOver, CutOver, Voices, SpeakerOwned, FillerOwned, ClipInert,
     SpeakingPhases, MaskedPhases, Joins, Replying, Running, replyVars
<1> QED BY <1>1, <1>2, <1>3, <1>4, <1>5, <1>6, <1>7, <1>8, <1>9, <1>10,
   <1>11, <1>12, <1>13 DEF ServeStep

LEMMA ReplyKeepsOwnership ==
  ASSUME TypeOK, Ownership, NEW r \in Replies, ProviderStep(r) \/ OwnStep(r)
  PROVE  Ownership'
<1>1. /\ Running(r)
      /\ UNCHANGED <<pc, carry, mic, hurries, inFlight, paused, gone, audio>>
  BY ReplyStepMoves
<1>2. PICK p \in Phases \ {"none"} : phase' = [phase EXCEPT ![r] = p]
  BY ReplyStepMoves
<1>3. \A q \in Replies : Running(q)' => Running(q)
  BY <1>1, <1>2 DEF TypeOK, Running
<1>4. \A q \in Replies : phase[q] = "none" => phase'[q] = "none"
  BY <1>1, <1>2 DEF TypeOK, Running
<1>5. OneOwner' /\ NotYet' /\ InHand' /\ ClosedQuiet'
  BY <1>1, <1>3, <1>4 DEF Ownership, OneOwner, NotYet, InHand, ClosedQuiet
<1>6. HeldOnlyWhileConfirming'
  BY <1>1 DEF Ownership, HeldOnlyWhileConfirming
<1> QED BY <1>5, <1>6 DEF Ownership

LEMMA ReplyKeepsVoices ==
  ASSUME TypeOK, Ownership, Voices, NEW r \in Replies,
         ProviderStep(r) \/ OwnStep(r)
  PROVE  Voices'
<1>1. r = inFlight /\ inFlight' = inFlight
  BY ReplyStepMoves DEF Ownership, OneOwner
<1>2. speaker # "none" => phase[r] \in SpeakingPhases
  BY <1>1 DEF Voices, SpeakerOwned
<1>3. filler # "none" => phase[r] \in MaskedPhases
  BY <1>1 DEF Voices, FillerOwned
<1> DEFINE Ends == /\ speaker' = "none"
                   /\ \E o : \/ Conclude(r, o, filler) \/ Excuse(r, o)
                             \/ Conclude(r, o, Abandoned(filler))
<1>4. ASSUME Ends PROVE Voices'
  BY <1>1, <1>4, ConcludeVoices, ConcludeAbandonsVoices, ExcuseVoices
<1>5. CASE Transcribed(r)
  BY <1>1, <1>2, <1>3, <1>4, <1>5
     DEF Transcribed, TypeOK, Voices, SpeakerOwned, FillerOwned, ClipInert,
     SpeakingPhases, MaskedPhases, Joins
<1>6. CASE TranscriptionFails(r)
  BY <1>1, <1>2, <1>3, <1>4, <1>6
     DEF TranscriptionFails, TypeOK, Voices, SpeakerOwned, FillerOwned,
        ClipInert,
     SpeakingPhases, MaskedPhases, Joins
<1>7. CASE Sentence(r)
  BY <1>1, <1>7
     DEF Sentence, TypeOK, Voices, SpeakerOwned, FillerOwned, ClipInert,
     SpeakingPhases, MaskedPhases, Joins, FillerAlive, replyVars
<1>8. CASE AwaitSentence(r)
  BY <1>1, <1>8
     DEF AwaitSentence, TypeOK, Voices, SpeakerOwned, FillerOwned, ClipInert,
     SpeakingPhases, MaskedPhases, Joins, FillerAlive, replyVars
<1>9. CASE Hold(r)
  BY <1>1, <1>9 DEF Hold, TypeOK, Voices, SpeakerOwned, FillerOwned, ClipInert,
     SpeakingPhases, MaskedPhases, Joins, FillerAlive, replyVars
<1>10. CASE StreamFails(r)
  BY <1>1, <1>2, <1>3, <1>4, <1>10
     DEF StreamFails, TypeOK, Voices, SpeakerOwned, FillerOwned, ClipInert,
     SpeakingPhases, MaskedPhases, Joins
<1>11. CASE StreamOver(r)
  BY <1>1, <1>2, <1>3, <1>4, <1>11
     DEF StreamOver, TypeOK, Voices, SpeakerOwned, FillerOwned, ClipInert,
     SpeakingPhases, MaskedPhases, Joins
<1>12. CASE NeverRan(r)
  BY <1>1, <1>12
     DEF NeverRan, TypeOK, Voices, SpeakerOwned, FillerOwned, ClipInert,
     SpeakingPhases, MaskedPhases, Joins, FillerAlive, replyVars
<1>13. CASE Begin(r)
  BY <1>1, <1>13
     DEF Begin, TypeOK, Voices, SpeakerOwned, FillerOwned, ClipInert,
     SpeakingPhases, MaskedPhases, Joins, FillerAlive, replyVars
<1>14. CASE Shown(r)
  BY <1>1, <1>2, <1>3, <1>4, <1>14
     DEF Shown, TypeOK, Voices, SpeakerOwned, FillerOwned, ClipInert,
     SpeakingPhases, MaskedPhases, Joins
<1>15. CASE SentenceOver(r)
  BY <1>1, <1>2, <1>3, <1>4, <1>15
     DEF SentenceOver, TypeOK, Voices, SpeakerOwned, FillerOwned, ClipInert,
     SpeakingPhases, MaskedPhases, Joins
<1>16. CASE Flushed(r)
  BY <1>1, <1>2, <1>3, <1>4, <1>16
     DEF Flushed, TypeOK, Voices, SpeakerOwned, FillerOwned, ClipInert,
     SpeakingPhases, MaskedPhases, Joins
<1>17. CASE StreamCut(r)
  BY <1>1, <1>2, <1>3, <1>4, <1>17
     DEF StreamCut, CutFinds, TypeOK, Voices, SpeakerOwned, FillerOwned, ClipInert,
     SpeakingPhases, MaskedPhases, Joins
<1>18. CASE SentenceCut(r)
  BY <1>1, <1>2, <1>3, <1>4, <1>18
     DEF SentenceCut, CutFinds, TypeOK, Voices, SpeakerOwned, FillerOwned, ClipInert,
     SpeakingPhases, MaskedPhases, Joins
<1>19. CASE Unwound(r)
  BY <1>1, <1>2, <1>3, <1>4, <1>19
     DEF Unwound, TypeOK, Voices, SpeakerOwned, FillerOwned, ClipInert,
     SpeakingPhases, MaskedPhases, Joins
<1>20. CASE CutShort(r)
  BY <1>1, <1>2, <1>3, <1>4, <1>20
     DEF CutShort, TypeOK, Voices, SpeakerOwned, FillerOwned, ClipInert,
     SpeakingPhases, MaskedPhases, Joins
<1>21. CASE ExcuseSettled(r)
  BY <1>1, <1>21
     DEF ExcuseSettled, TypeOK, Voices, SpeakerOwned, FillerOwned, ClipInert,
     SpeakingPhases, MaskedPhases, Joins, FillerAlive, replyVars
<1>22. CASE Noticed(r)
  BY <1>1, <1>2, <1>3, <1>4, <1>22
     DEF Noticed, TypeOK, Voices, SpeakerOwned, FillerOwned, ClipInert,
     SpeakingPhases, MaskedPhases, Joins
<1>23. CASE NoticePlayed(r)
  BY <1>1, <1>2, <1>3, <1>4, <1>23
     DEF NoticePlayed, TypeOK, Voices, SpeakerOwned, FillerOwned, ClipInert,
     SpeakingPhases, MaskedPhases, Joins
<1>24. CASE Settled(r)
  BY <1>1, <1>24
     DEF Settled, TypeOK, Voices, SpeakerOwned, FillerOwned, ClipInert,
     SpeakingPhases, MaskedPhases, Joins, FillerAlive, replyVars
<1>25. CASE StopSpeaking(r)
  BY <1>1, <1>25
     DEF StopSpeaking, TypeOK, Voices, SpeakerOwned, FillerOwned, ClipInert,
     SpeakingPhases, MaskedPhases, Joins, FillerAlive, replyVars
<1> QED BY <1>5, <1>6, <1>7, <1>8, <1>9, <1>10, <1>11, <1>12, <1>13, <1>14,
   <1>15, <1>16, <1>17, <1>18, <1>19, <1>20, <1>21, <1>22, <1>23, <1>24, <1>25
      DEF ProviderStep, OwnStep

\* The sentence and the clip move by themselves, and keep to their reply.
LEMMA VoiceKeepsInv ==
  ASSUME FloorInv, SpeakerStep \/ FillerStep
  PROVE  Ownership' /\ Voices'
<1> USE DEF FloorInv
<1>1. UNCHANGED <<pc, mic, inFlight, paused, phase>>
  BY DEF SpeakerStep, FillerStep, SpeakerBegins, SpeakerTailed, SpeakerSends,
     SpeakerFails, SpeakerEnds, FillerFires, FillerOver, Others, serveVars,
     replyVars
<1>2. Ownership'
  BY <1>1 DEF Ownership, OneOwner, NotYet, InHand, ClosedQuiet,
     HeldOnlyWhileConfirming, Running
<1>3. speaker' # "none" => speaker # "none"
  BY DEF SpeakerStep, FillerStep, SpeakerBegins, SpeakerTailed, SpeakerSends,
     SpeakerFails, SpeakerEnds, FillerFires, FillerOver
<1>4. filler' # "none" => filler # "none"
  BY DEF SpeakerStep, FillerStep, SpeakerBegins, SpeakerTailed, SpeakerSends,
     SpeakerFails, SpeakerEnds, FillerFires, FillerOver, StoodDown, Others
<1>5. ClipInert'
  BY DEF SpeakerStep, FillerStep, SpeakerBegins, SpeakerTailed, SpeakerSends,
     SpeakerFails, SpeakerEnds, FillerFires, FillerOver, FillerAlive,
     StoodDown, Voices, ClipInert, Others
<1> QED BY <1>1, <1>2, <1>3, <1>4, <1>5 DEF Voices, SpeakerOwned, FillerOwned

\* The invariant of the floor holds of every behaviour.
THEOREM FloorInvariant == Spec => []FloorInv
<1>1. Init => Ownership /\ Voices
  BY DEF Init, Ownership, OneOwner, NotYet, InHand, ClosedQuiet,
     HeldOnlyWhileConfirming, Running, Voices, SpeakerOwned, FillerOwned,
     ClipInert
<1>2. TypeOK /\ Ownership /\ Voices /\ [Next]_vars => Ownership' /\ Voices'
  <2> SUFFICES ASSUME TypeOK, Ownership, Voices, [Next]_vars
               PROVE  Ownership' /\ Voices'
    OBVIOUS
  <2>1. CASE ServeStep
    BY <2>1, ServeKeepsOwnership, ServeKeepsVoices
  <2>2. ASSUME NEW r \in Replies, ProviderStep(r) \/ OwnStep(r)
        PROVE  Ownership' /\ Voices'
    BY <2>2, ReplyKeepsOwnership, ReplyKeepsVoices
  <2>3. CASE SpeakerStep \/ FillerStep
    BY <2>3, VoiceKeepsInv DEF FloorInv
  <2>4. CASE UNCHANGED vars
    BY <2>4
       DEF vars, serveVars, replyVars, Ownership, OneOwner, NotYet, InHand,
       ClosedQuiet, HeldOnlyWhileConfirming, Running, Voices, SpeakerOwned,
       FillerOwned, ClipInert
  <2> QED BY <2>1, <2>2, <2>3, <2>4 DEF Next
<1> QED BY <1>1, <1>2, TypeCorrect, PTL DEF Spec, FloorInv

-----------------------------------------------------------------------------
(* What follows from it.                                                   *)

\* One answer at a time: no two reply tasks are ever alive together,
\* whatever cuts the first and however long its last steps take.
OneAnswerAtATime ==
  \A r, q \in Replies : Running(r) /\ Running(q) => r = q

\* One answer at a time: no two replies of a session are ever alive together,
\* however many are cut and by whatever (turntaking.py `_gate_barge_in`).
THEOREM OneAnswer == Spec => []OneAnswerAtATime
<1>1. FloorInv => OneAnswerAtATime
  BY DEF FloorInv, Ownership, OneOwner, OneAnswerAtATime
<1> QED BY <1>1, FloorInvariant, PTL

\* Two voices never share the wire (filler_runner.py `tail`, `settle`).
THEOREM OneVoiceOnTheWire == Spec => []OneVoice
<1>1. FloorInv => OneVoice
  BY DEF FloorInv, Ownership, OneOwner, Voices, FillerOwned, ClipInert,
     OneVoice,
     MaskedPhases, SpeakingPhases, Joins, Running
<1> QED BY <1>1, FloorInvariant, PTL

\* The sentence and the clip of a turn end before the turn does (pipeline.py
\* `_reply`'s `finally`), and a session that has closed is quiet
\* (reply_in_flight.py `close`).
THEOREM NothingOutlives == Spec => []NothingOutlivesItsReply
<1>1. FloorInv => QuietOnceClosed
  <2> SUFFICES ASSUME FloorInv, pc = "closed"
               PROVE  /\ \A r \in Replies : ~Running(r)
                      /\ ~SpeakerAlive /\ ~FillerAlive
    BY DEF QuietOnceClosed
  <2>1. \A r \in Replies : ~Running(r)
    BY DEF FloorInv, Ownership, ClosedQuiet
  <2>2. inFlight # 0 => phase[inFlight] \in {"none", "done"}
    BY <2>1 DEF FloorInv, TypeOK, Running
  <2>3. speaker = "none" /\ filler = "none"
    BY <2>2 DEF FloorInv, Voices, SpeakerOwned, FillerOwned, MaskedPhases,
       SpeakingPhases, Joins
  <2> QED BY <2>1, <2>3 DEF SpeakerAlive, FillerAlive
<1>2. FloorInv => NothingOutlivesItsReply
  BY <1>1 DEF FloorInv, Voices, SpeakerOwned, FillerOwned, NothingOutlivesItsReply,
     SpeakerAlive, FillerAlive, Replying, Running, MaskedPhases,
        SpeakingPhases,
     Joins
<1> QED BY <1>2, FloorInvariant, PTL

\* Outgoing frames are held by a confirmation and by nothing else
\* (turntaking.py `_gate_barge_in`, device/pacing.py `pause`).
THEOREM HeldForConfirmation == Spec => []HeldOnlyWhileConfirming
<1>1. FloorInv => HeldOnlyWhileConfirming
  BY DEF FloorInv, Ownership
<1> QED BY <1>1, FloorInvariant, PTL

-----------------------------------------------------------------------------
(* TurnTaking implements Floor.                                            *)

\* The user's turns are answered in order, one at a time, none twice, and
\* nothing is said after the end.
THEOREM FloorRefined == Spec => ImplementsFloor
<1>1. Init => F!Init
  BY DEF Init, F!Init, Running
<1>2. FloorInv /\ [Next]_vars =>
        [F!Next]_<<{r \in Replies : Running(r)},
                   {r \in Replies : phase[r] # "none"}, pc # "closed">>
  <2> SUFFICES ASSUME FloorInv, [Next]_vars
               PROVE  F!Next \/ UNCHANGED <<{r \in Replies : Running(r)},
                                            {r \in Replies : phase[r] # "none"},
                                            pc # "closed">>
    OBVIOUS
  <2> DEFINE Stutter == UNCHANGED <<{r \in Replies : Running(r)},
                                    {r \in Replies : phase[r] # "none"},
                                    pc # "closed">>
  <2>1. ASSUME NEW t \in Replies, phase[t] = "none", ~Replying,
               phase' = [phase EXCEPT ![t] = "scheduled"],
               \A s \in Replies : phase[s] # "none" => s < t,
               pc # "closed", pc' # "closed"
        PROVE  F!Take(t)
    <3>1. {r \in Replies : Running(r)} = {}
      BY <2>1 DEF FloorInv, TypeOK, Ownership, OneOwner, Replying
    <3>2. {r \in Replies : Running(r)}' = {t}
      BY <2>1, <3>1 DEF FloorInv, TypeOK, Running
    <3>3. {r \in Replies : phase[r] # "none"}'
            = {r \in Replies : phase[r] # "none"} \cup {t}
      BY <2>1 DEF FloorInv, TypeOK
    <3> QED BY <2>1, <3>1, <3>2, <3>3 DEF F!Take
  <2>2. CASE Utterance
    <3>1. mic + 1 \in Replies
      BY <2>2 DEF Utterance, FloorInv, TypeOK
    <3>2. \A s \in Replies : phase[s] # "none" => s < mic + 1
      BY <3>1 DEF FloorInv, TypeOK, Ownership, NotYet
    <3>3. phase[mic + 1] = "none"
      BY <3>1 DEF FloorInv, TypeOK, Ownership, NotYet
    <3> QED BY <2>1, <2>2, <3>1, <3>2, <3>3 DEF Utterance, Start, F!Next
  <2>3. CASE AnswerAfterCut
    <3>1. mic \in Replies /\ phase[mic] = "none"
      BY <2>3 DEF AnswerAfterCut, CutPcs, FloorInv, Ownership, InHand
    <3>2. \A s \in Replies : phase[s] # "none" => s < mic
      BY <3>1 DEF FloorInv, TypeOK, Ownership, NotYet
    <3> QED BY <2>1, <2>3, <3>1, <3>2
       DEF AnswerAfterCut, Start, CutOver, CutPcs, F!Next
  <2>4. CASE CloseOver
    <3>1. {r \in Replies : Running(r)} = {}
      BY <2>4 DEF CloseOver, CutOver, FloorInv, TypeOK, Ownership, OneOwner,
         Replying
    <3> QED BY <2>4, <3>1 DEF CloseOver, replyVars, Running, F!Next, F!Shut
  <2>5. ASSUME NEW r \in Replies, ProviderStep(r) \/ OwnStep(r)
        PROVE  F!Yield \/ Stutter
    <3>1. Running(r) /\ pc' = pc
      BY <2>5, ReplyStepMoves DEF FloorInv
    <3>2. PICK p \in Phases \ {"none"} : phase' = [phase EXCEPT ![r] = p]
      BY <2>5, ReplyStepMoves DEF FloorInv
    <3>3. \A q \in Replies : Running(q) => q = r
      BY <3>1 DEF FloorInv, Ownership, OneOwner
    <3>4. {q \in Replies : phase[q] # "none"}' = {q \in Replies : phase[q] # "none"}
      BY <3>1, <3>2 DEF FloorInv, TypeOK, Running
    <3>5. CASE p = "done"
      <4>1. {q \in Replies : Running(q)}' = {}
        BY <3>2, <3>3, <3>5 DEF FloorInv, TypeOK, Running
      <4> QED BY <3>1, <3>4, <4>1 DEF F!Yield
    <3>6. CASE p # "done"
      <4>1. {q \in Replies : Running(q)}' = {q \in Replies : Running(q)}
        BY <3>1, <3>2, <3>6 DEF FloorInv, TypeOK, Running
      <4> QED BY <3>1, <3>4, <4>1
    <3> QED BY <3>5, <3>6
  <2>6. CASE /\ ServeStep /\ ~Utterance /\ ~AnswerAfterCut /\ ~CloseOver
    BY <2>6 DEF ServeStep, SpeechOverReply, ButtonOverReply, ConfirmNothing,
       ConfirmSpeech, Abort, AbortOver, Vanish, Limit, Close, Hurry, CutPcs,
       replyVars, serveVars, Running
  <2>7. CASE SpeakerStep \/ FillerStep \/ UNCHANGED vars
    BY <2>7 DEF SpeakerStep, FillerStep, SpeakerBegins, SpeakerTailed,
       SpeakerSends, SpeakerFails, SpeakerEnds, FillerFires, FillerOver,
          Others,
       vars, serveVars, replyVars, Running
  <2> QED BY <2>2, <2>3, <2>4, <2>5, <2>6, <2>7 DEF Next, F!Next
<1> QED BY <1>1, <1>2, FloorInvariant, PTL DEF Spec, ImplementsFloor, F!Spec

-----------------------------------------------------------------------------
(* How a reply closes.                                                     *)

\* What is known of a reply by how far it has got: one that has said its end
\* is at its last steps, where only a second cancellation can be waiting for
\* it; one that was cut has an outcome; and none writes down `completed`.
EndsOnce ==
  \A r \in Replies :
    /\ said[r] # "none" => phase[r] \in {"endsettle", "stop", "done"}
    /\ phase[r] \in {"endsettle", "stop"} =>
         said[r] # "none" /\ (thrown[r] => r \in late)
    /\ cut[r] # "none" => outcome[r] # "none"
    /\ outcome[r] # "completed"

ClosingInv == EndsOnce /\ RepliesClose

\* An outcome a reply may take up: it is never `completed`, and never
\* displaces one written down before.
LatchedOutcome(r, o) ==
  /\ o \in Outcomes \ {"completed"}
  /\ outcome[r] # "none" => o = outcome[r]

\* Every outcome the reply's code writes is one of those.
LEMMA OutcomeLatched ==
  ASSUME TypeOK, EndsOnce, NEW r \in Replies
  PROVE  /\ LatchedOutcome(r, outcome[r])
         /\ LatchedOutcome(r, Latched(r, "nothing_heard"))
         /\ LatchedOutcome(r, Latched(r, "device_gone"))
         /\ LatchedOutcome(r, Latched(r, "failed"))
BY DEF TypeOK, EndsOnce, LatchedOutcome, Latched, Outcomes

\* A reply still at work that reaches its `finally`,
LEMMA ConcludeCloses ==
  ASSUME TypeOK, ClosingInv, NEW r \in Replies, NEW o, NEW clip,
         phase[r] \notin {"endsettle", "stop", "done"}, LatchedOutcome(r, o),
         Conclude(r, o, clip), UNCHANGED <<cut, late, stopped>>
  PROVE  ClosingInv'
<1>1. said[r] = "none"
  BY DEF ClosingInv, EndsOnce
<1>2. /\ outcome' = [outcome EXCEPT ![r] = o]
      /\ said' = [said EXCEPT ![r] = IF o = "none" THEN "completed" ELSE o]
      /\ thrown' = [thrown EXCEPT ![r] = FALSE]
  BY DEF Conclude
<1>3. PICK p \in {"endsettle", "stop"} : phase' = [phase EXCEPT ![r] = p]
  BY DEF Conclude
<1>4. EndsOnce'
  <2> SUFFICES ASSUME NEW q \in Replies
               PROVE  (/\ said[q] # "none" => phase[q] \in {"endsettle", "stop", "done"}
                       /\ phase[q] \in {"endsettle", "stop"} =>
                            said[q] # "none" /\ (thrown[q] => q \in late)
                       /\ cut[q] # "none" => outcome[q] # "none"
                       /\ outcome[q] # "completed")'
    BY DEF EndsOnce
  <2>1. CASE q = r
    BY <1>2, <1>3, <2>1 DEF TypeOK, ClosingInv, EndsOnce, LatchedOutcome
  <2>2. CASE q # r
    BY <1>2, <1>3, <2>2 DEF TypeOK, ClosingInv, EndsOnce
  <2> QED BY <2>1, <2>2
<1>5. RepliesClose'
  <2> SUFFICES ASSUME NEW q \in Replies
               PROVE  (/\ phase[q] = "done" /\ said[q] # "none" => q \in stopped \cup late
                       /\ said[q] = "completed" => cut[q] = "none" \/ q \in late
                       /\ said[q] \in {"none", outcome[q]} \/ said[q] = "completed")'
    BY DEF RepliesClose
  <2>1. CASE q = r
    BY <1>2, <1>3, <2>1 DEF TypeOK, ClosingInv, EndsOnce, LatchedOutcome
  <2>2. CASE q # r
    BY <1>2, <1>3, <2>2 DEF TypeOK, ClosingInv, RepliesClose
  <2> QED BY <2>1, <2>2
<1> QED BY <1>4, <1>5 DEF ClosingInv

\* that turns to its excuse,
LEMMA ExcuseCloses ==
  ASSUME TypeOK, ClosingInv, NEW r \in Replies, NEW o,
         phase[r] \notin {"endsettle", "stop", "done"}, LatchedOutcome(r, o),
         Excuse(r, o), UNCHANGED <<cut, late, stopped>>
  PROVE  ClosingInv'
<1>1. said[r] = "none" /\ said' = said
  BY DEF ClosingInv, EndsOnce, Excuse
<1>2. /\ outcome' = [outcome EXCEPT ![r] = o]
      /\ thrown' = [thrown EXCEPT ![r] = FALSE]
  BY DEF Excuse
<1>3. PICK p \in {"fsettle", "notice"} : phase' = [phase EXCEPT ![r] = p]
  BY DEF Excuse
<1>4. EndsOnce'
  BY <1>1, <1>2, <1>3 DEF TypeOK, ClosingInv, EndsOnce, LatchedOutcome
<1>5. RepliesClose'
  BY <1>1, <1>2, <1>3 DEF TypeOK, ClosingInv, RepliesClose
<1> QED BY <1>4, <1>5 DEF ClosingInv

\* or that moves on, keeps the promise;
LEMMA OnwardCloses ==
  ASSUME TypeOK, ClosingInv, NEW r \in Replies,
         NEW p \in Phases \ {"endsettle", "stop"},
         phase[r] \notin {"endsettle", "stop", "done"},
         phase' = [phase EXCEPT ![r] = p],
         thrown' = thrown \/ thrown' = [thrown EXCEPT ![r] = FALSE],
         UNCHANGED <<outcome, said, cut, late, stopped>>
  PROVE  ClosingInv'
<1>1. said[r] = "none"
  BY DEF ClosingInv, EndsOnce
<1>2. EndsOnce'
  BY <1>1 DEF TypeOK, ClosingInv, EndsOnce
<1>3. RepliesClose'
  BY <1>1 DEF TypeOK, ClosingInv, RepliesClose
<1> QED BY <1>2, <1>3 DEF ClosingInv

\* and so does whoever cancels it, however late.
LEMMA CancelCloses ==
  ASSUME TypeOK, ClosingInv, NEW r \in 0..MaxUtterances, NEW why,
         NEW o \in Outcomes \ {"none", "completed"}, Cancel(r, why, o),
         UNCHANGED <<phase, said, stopped>>
  PROVE  ClosingInv'
<1>1. CASE r = 0
  BY <1>1 DEF Cancel, ClosingInv, EndsOnce, RepliesClose
<1>2. CASE r # 0 /\ ~Running(r)
  <2>1. /\ outcome' = [outcome EXCEPT ![r] = Latched(r, o)]
        /\ UNCHANGED <<thrown, cut, late>> /\ r \in Replies
    BY <1>2 DEF Cancel
  <2>2. \A q \in Replies : \/ outcome'[q] = outcome[q]
                           \/ outcome[q] = "none" /\ outcome'[q] = o
    BY <2>1 DEF TypeOK, Latched
  <2> QED BY <2>1, <2>2 DEF ClosingInv, EndsOnce, RepliesClose
<1>3. CASE r # 0 /\ Running(r)
  <2>1. /\ outcome' = [outcome EXCEPT ![r] = Latched(r, o)]
        /\ thrown' = [thrown EXCEPT ![r] = TRUE]
        /\ late' = IF said[r] # "none" THEN late \cup {r} ELSE late
        /\ r \in Replies
    BY <1>3 DEF Cancel
  <2>2. \A q \in Replies : \/ outcome'[q] = outcome[q]
                           \/ outcome[q] = "none" /\ outcome'[q] = o
    BY <2>1 DEF TypeOK, Latched
  <2>3. \A q \in Replies : q # r => cut'[q] = cut[q] /\ thrown'[q] = thrown[q]
    <3>1. \/ cut' = cut
          \/ \E c : cut' = [cut EXCEPT ![r] = c]
      BY <1>3 DEF Cancel
    <3> QED BY <2>1, <3>1 DEF TypeOK
  <2>4. outcome'[r] # "none"
    BY <2>1 DEF TypeOK, Latched
  <2>5. said[r] # "none" => r \in late'
    BY <2>1
  <2>6. late \subseteq late'
    BY <2>1
  <2>7. EndsOnce'
    BY <2>2, <2>3, <2>4, <2>5, <2>6 DEF ClosingInv, EndsOnce
  <2>8. RepliesClose'
    BY <2>2, <2>3, <2>4, <2>5, <2>6 DEF ClosingInv, EndsOnce, RepliesClose
  <2> QED BY <2>7, <2>8 DEF ClosingInv
<1> QED BY <1>1, <1>2, <1>3

\* A reply's creation says nothing of it yet.
LEMMA StartCloses ==
  ASSUME TypeOK, ClosingInv, NEW r \in Replies, NEW pcm, NEW transcribed,
         phase[r] = "none", Start(r, pcm, transcribed),
         UNCHANGED <<outcome, thrown, said, cut, late, stopped>>
  PROVE  ClosingInv'
BY OnwardCloses DEF Start, Phases

\* No handler of the serve loop breaks the promise,
LEMMA ServeCloses ==
  ASSUME FloorInv, ClosingInv, ServeStep
  PROVE  ClosingInv'
<1> USE DEF FloorInv
<1>1. {"barged_in", "aborted"} \subseteq Outcomes \ {"none", "completed"}
  BY DEF Outcomes
<1>2. inFlight \in 0..MaxUtterances
  BY DEF TypeOK
<1>3. ASSUME UNCHANGED replyVars PROVE ClosingInv'
  BY <1>3 DEF replyVars, ClosingInv, EndsOnce, RepliesClose
<1>4. CASE Utterance
  <2>1. mic + 1 \in Replies /\ phase[mic + 1] = "none"
    BY <1>4 DEF Utterance, TypeOK, Ownership, NotYet
  <2> QED BY <1>4, <2>1, StartCloses DEF Utterance
<1>5. CASE SpeechOverReply
  <2>1. CASE Cancel(inFlight, "merge", "barged_in")
    BY <1>1, <1>2, <1>5, <2>1, CancelCloses DEF SpeechOverReply
  <2>2. CASE UNCHANGED <<outcome, thrown, speaker, filler, cut, late>>
    BY <1>3, <1>5, <2>2 DEF SpeechOverReply, replyVars
  <2> QED BY <1>5, <2>1, <2>2 DEF SpeechOverReply
<1>6. CASE ButtonOverReply
  BY <1>1, <1>2, <1>6, CancelCloses DEF ButtonOverReply
<1>7. CASE ConfirmSpeech
  BY <1>1, <1>2, <1>7, CancelCloses DEF ConfirmSpeech
<1>8. CASE Abort
  BY <1>1, <1>2, <1>8, CancelCloses DEF Abort
<1>9. CASE AnswerAfterCut
  <2>1. mic \in Replies /\ phase[mic] = "none"
    BY <1>9 DEF AnswerAfterCut, CutPcs, Ownership, InHand
  <2> QED BY <1>9, <2>1, StartCloses DEF AnswerAfterCut
<1>10. CASE Close
  BY <1>1, <1>2, <1>10, CancelCloses DEF Close
<1>11. CASE Hurry
  BY <1>1, <1>2, <1>11, CancelCloses DEF Hurry
<1>12. CASE ConfirmNothing \/ AbortOver \/ Vanish \/ Limit \/ CloseOver
  BY <1>3, <1>12 DEF ConfirmNothing, AbortOver, Vanish, Limit, CloseOver
<1> QED BY <1>4, <1>5, <1>6, <1>7, <1>8, <1>9, <1>10, <1>11, <1>12
   DEF ServeStep

\* and no step of a reply does.
LEMMA ReplyCloses ==
  ASSUME TypeOK, ClosingInv, NEW r \in Replies, ProviderStep(r) \/ OwnStep(r)
  PROVE  ClosingInv'
<1>1. /\ LatchedOutcome(r, outcome[r])
      /\ LatchedOutcome(r, Latched(r, "nothing_heard"))
      /\ LatchedOutcome(r, Latched(r, "device_gone"))
      /\ LatchedOutcome(r, Latched(r, "failed"))
  BY OutcomeLatched DEF ClosingInv
<1> DEFINE AtWork == phase[r] \notin {"endsettle", "stop", "done"}
           Rest == UNCHANGED <<cut, late, stopped>>
<1>2. ASSUME AtWork, Rest, NEW o, LatchedOutcome(r, o), Excuse(r, o)
      PROVE  ClosingInv'
  BY <1>2, ExcuseCloses
<1>3. ASSUME AtWork, Rest, NEW o, NEW clip, LatchedOutcome(r, o),
             Conclude(r, o, clip)
      PROVE  ClosingInv'
  BY <1>3, ConcludeCloses
<1>4. ASSUME AtWork, Rest, NEW p \in Phases \ {"endsettle", "stop"},
             phase' = [phase EXCEPT ![r] = p],
             thrown' = thrown \/ thrown' = [thrown EXCEPT ![r] = FALSE],
             UNCHANGED <<outcome, said>>
      PROVE  ClosingInv'
  BY <1>4, OnwardCloses
<1>5. ASSUME UNCHANGED replyVars PROVE ClosingInv'
  BY <1>5 DEF replyVars, ClosingInv, EndsOnce, RepliesClose
<1> HIDE DEF AtWork, Rest
<1>6. CASE Transcribed(r)
  <2>1. AtWork /\ Rest
    BY <1>6 DEF Transcribed, AtWork, Rest, Aside
  <2> QED BY <1>1, <1>3, <1>4, <1>6, <2>1 DEF Transcribed, Phases
<1>7. CASE TranscriptionFails(r)
  <2>1. AtWork /\ Rest
    BY <1>7 DEF TranscriptionFails, AtWork, Rest, Aside
  <2> QED BY <1>1, <1>2, <1>7, <2>1 DEF TranscriptionFails, Phases
<1>8. CASE Sentence(r)
  BY <1>5, <1>8 DEF Sentence, Aside, replyVars
<1>9. CASE AwaitSentence(r)
  <2>1. AtWork /\ Rest
    BY <1>9 DEF AwaitSentence, AtWork, Rest, Aside
  <2> QED BY <1>1, <1>4, <1>9, <2>1 DEF AwaitSentence, Phases
<1>10. CASE Hold(r)
  BY <1>5, <1>10 DEF Hold, replyVars
<1>11. CASE StreamFails(r)
  <2>1. AtWork /\ Rest
    BY <1>11 DEF StreamFails, AtWork, Rest, Aside
  <2> QED BY <1>1, <1>2, <1>4, <1>11, <2>1 DEF StreamFails, Phases
<1>12. CASE StreamOver(r)
  <2>1. AtWork /\ Rest
    BY <1>12 DEF StreamOver, AtWork, Rest, Aside
  <2> QED BY <1>1, <1>2, <1>3, <1>4, <1>12, <2>1 DEF StreamOver, Phases
<1>13. CASE NeverRan(r)
  <2>1. AtWork /\ Rest
    BY <1>13 DEF NeverRan, AtWork, Rest, Aside
  <2> QED BY <1>1, <1>4, <1>13, <2>1 DEF NeverRan, Phases
<1>14. CASE Begin(r)
  <2>1. AtWork /\ Rest
    BY <1>14 DEF Begin, AtWork, Rest, Aside
  <2> QED BY <1>1, <1>4, <1>14, <2>1 DEF Begin, Phases
<1>15. CASE Shown(r)
  <2>1. AtWork /\ Rest
    BY <1>15 DEF Shown, AtWork, Rest, Aside
  <2> QED BY <1>1, <1>3, <1>4, <1>15, <2>1 DEF Shown, Phases
<1>16. CASE SentenceOver(r)
  <2>1. AtWork /\ Rest
    BY <1>16 DEF SentenceOver, AtWork, Rest, Aside
  <2> QED BY <1>1, <1>2, <1>3, <1>4, <1>16, <2>1 DEF SentenceOver, Phases
<1>17. CASE Flushed(r)
  <2>1. AtWork /\ Rest
    BY <1>17 DEF Flushed, AtWork, Rest, Aside
  <2> QED BY <1>1, <1>3, <1>17, <2>1 DEF Flushed, Phases
<1>18. CASE StreamCut(r)
  <2>1. AtWork /\ Rest
    BY <1>18 DEF StreamCut, AtWork, Rest, Aside
  <2> QED BY <1>1, <1>2, <1>3, <1>4, <1>18, <2>1 DEF StreamCut, CutFinds, Phases
<1>19. CASE SentenceCut(r)
  <2>1. AtWork /\ Rest
    BY <1>19 DEF SentenceCut, AtWork, Rest, Aside
  <2> QED BY <1>1, <1>2, <1>3, <1>19, <2>1 DEF SentenceCut, CutFinds, Phases
<1>20. CASE Unwound(r)
  <2>1. AtWork /\ Rest
    BY <1>20 DEF Unwound, AtWork, Rest, Aside
  <2> QED BY <1>1, <1>2, <1>3, <1>20, <2>1 DEF Unwound, Phases
<1>21. CASE CutShort(r)
  <2>1. AtWork /\ Rest
    BY <1>21 DEF CutShort, AtWork, Rest, Aside
  <2> QED BY <1>1, <1>3, <1>21, <2>1 DEF CutShort, Phases
<1>22. CASE ExcuseSettled(r)
  <2>1. AtWork /\ Rest
    BY <1>22 DEF ExcuseSettled, AtWork, Rest, Aside
  <2> QED BY <1>1, <1>4, <1>22, <2>1 DEF ExcuseSettled, Phases
<1>23. CASE Noticed(r)
  <2>1. AtWork /\ Rest
    BY <1>23 DEF Noticed, AtWork, Rest, Aside
  <2> QED BY <1>1, <1>3, <1>4, <1>23, <2>1 DEF Noticed, Phases
<1>24. CASE NoticePlayed(r)
  <2>1. AtWork /\ Rest
    BY <1>24 DEF NoticePlayed, AtWork, Rest, Aside
  <2> QED BY <1>1, <1>3, <1>24, <2>1 DEF NoticePlayed, Phases
<1>25. CASE Settled(r)
  <2>1. UNCHANGED <<outcome, said, cut, late, stopped>>
    BY <1>25 DEF Settled, Aside
  <2>2. phase[r] = "endsettle" /\ thrown' = [thrown EXCEPT ![r] = FALSE]
    BY <1>25 DEF Settled
  <2>3. PICK p \in {"stop", "done"} :
          phase' = [phase EXCEPT ![r] = p] /\ (p = "done" => thrown[r])
    BY <1>25 DEF Settled
  <2>4. EndsOnce'
    BY <2>1, <2>2, <2>3 DEF TypeOK, ClosingInv, EndsOnce
  <2>5. RepliesClose'
    BY <2>1, <2>2, <2>3 DEF TypeOK, ClosingInv, EndsOnce, RepliesClose
  <2> QED BY <2>4, <2>5 DEF ClosingInv
<1>26. CASE StopSpeaking(r)
  <2>1. UNCHANGED <<outcome, said, cut, late>>
    BY <1>26 DEF StopSpeaking, Aside
  <2>2. /\ phase[r] = "stop" /\ phase' = [phase EXCEPT ![r] = "done"]
        /\ thrown' = [thrown EXCEPT ![r] = FALSE]
    BY <1>26 DEF StopSpeaking
  <2>3. stopped \subseteq stopped' /\ (thrown[r] \/ r \in stopped')
    BY <1>26 DEF StopSpeaking
  <2>4. EndsOnce'
    BY <2>1, <2>2 DEF TypeOK, ClosingInv, EndsOnce
  <2>5. RepliesClose'
    BY <2>1, <2>2, <2>3 DEF TypeOK, ClosingInv, EndsOnce, RepliesClose
  <2> QED BY <2>4, <2>5 DEF ClosingInv
<1> QED BY <1>6, <1>7, <1>8, <1>9, <1>10, <1>11, <1>12, <1>13, <1>14, <1>15, <1>16,
   <1>17, <1>18, <1>19, <1>20, <1>21, <1>22, <1>23, <1>24, <1>25, <1>26
   DEF ProviderStep, OwnStep

\* The end of a reply is told once and truly, and the device is re-armed
\* (pipeline.py `_reply`'s `finally`, reply_in_flight.py `latch`): what was
\* cut never claims to have completed, unless it was cut again behind its own
\* last word.
THEOREM RepliesAlwaysClose == Spec => []RepliesClose
<1>1. Init => ClosingInv
  BY DEF Init, ClosingInv, EndsOnce, RepliesClose
<1>2. FloorInv /\ ClosingInv /\ [Next]_vars => ClosingInv'
  <2> SUFFICES ASSUME FloorInv, ClosingInv, [Next]_vars PROVE ClosingInv'
    OBVIOUS
  <2>1. CASE ServeStep
    BY <2>1, ServeCloses
  <2>2. ASSUME NEW r \in Replies, ProviderStep(r) \/ OwnStep(r) PROVE ClosingInv'
    BY <2>2, ReplyCloses DEF FloorInv
  <2>3. CASE SpeakerStep \/ FillerStep \/ UNCHANGED vars
    <3>1. UNCHANGED replyVars
      BY <2>3 DEF SpeakerStep, FillerStep, SpeakerBegins, SpeakerTailed,
         SpeakerSends, SpeakerFails, SpeakerEnds, FillerFires, FillerOver,
         Others, vars
    <3> QED BY <3>1 DEF replyVars, ClosingInv, EndsOnce, RepliesClose
  <2> QED BY <2>1, <2>2, <2>3 DEF Next
<1>3. ClosingInv => RepliesClose
  BY DEF ClosingInv
<1> QED BY <1>1, <1>2, <1>3, FloorInvariant, PTL DEF Spec

-----------------------------------------------------------------------------
(* What becomes of the user's sentence.                                    *)

\* Utterances whose end the serve loop has seen and not yet answered.
HandPcs == {"merge", "manual", "gate", "confirm"}
Awaiting == {"scheduled", "asr"}

\* A reply's audio is of utterances the user has finished, and it has none
\* before it is started.
AudioKnown ==
  \A r \in Replies :
    /\ \A u \in audio[r] : u <= mic
    /\ phase[r] = "none" => audio[r] = {} /\ ~heard[r] /\ cut[r] = "none"

\* The current reply is the last one started.
Latest == inFlight # 0 => \A q \in Replies : q > inFlight => phase[q] = "none"

\* What a merge would take up is the current reply's audio, as long as
\* nobody has transcribed it.
MergeWindow ==
  inFlight # 0 /\ pending # {} => pending = audio[inFlight] /\ ~heard[inFlight]

\* What the serve loop has in hand no reply has transcribed, and but for a
\* merge it is the last utterance alone.
InCarry ==
  pc \in HandPcs =>
    /\ \A r \in Replies : mic \notin audio[r]
    /\ \A r \in Replies : heard[r] => audio[r] \cap carry = {}
    /\ \A u \in carry : u <= mic
    /\ pc # "merge" => carry = {mic}

\* The reply a merge waits for will not transcribe what was taken from it.
MergeCut ==
  pc = "merge" => inFlight # 0 /\ (phase[inFlight] \in Awaiting => thrown[inFlight])

\* No two replies transcribe, or may yet transcribe, the same audio.
Apart ==
  \A r, q \in Replies :
    r # q /\ heard[r] /\ (heard[q] \/ Running(q)) => audio[r] \cap audio[q] = {}

\* The head of a sentence, once cut, is answered by a later reply, or is in
\* the serve loop's hand, or the session is over.
HeadCarried ==
  \A r \in Replies :
    cut[r] = "merged_unheard" =>
      \/ \E q \in Replies : q > r /\ phase[q] # "none"
      \/ pc = "merge" /\ inFlight = r /\ audio[r] \subseteq carry
      \/ pc \in {"drain", "closing", "closed"}

\* The reply that answered it has all of it.
HeadAnswered ==
  \A r, q \in Replies :
    cut[r] = "merged_unheard" /\ NextReply(r, q) => audio[r] \subseteq audio[q]

Sentences ==
  /\ AudioKnown /\ Latest /\ MergeWindow /\ InCarry /\ MergeCut
  /\ Apart /\ HeadCarried /\ HeadAnswered

\* Being cut leaves a reply's mark on itself alone, and `merged_unheard` only
\* where a merge cuts a reply that has not transcribed.
LEMMA CancelMarks ==
  ASSUME TypeOK, NEW r \in 0..MaxUtterances, NEW why, NEW o, Cancel(r, why, o)
  PROVE  /\ \A q \in Replies :
              cut'[q] # cut[q] => q = r /\ phase[q] # "none"
         /\ \A q \in Replies :
              cut'[q] # cut[q] /\ why # "merge" => cut'[q] = "cut"
         /\ r # 0 /\ Running(r) => thrown'[r]
<1>1. CASE r = 0 \/ ~Running(r)
  BY <1>1 DEF Cancel
<1>2. CASE r # 0 /\ Running(r)
  <2>1. r \in Replies /\ phase[r] # "none"
    BY <1>2 DEF Running
  <2>2. thrown'[r]
    BY <1>2, <2>1 DEF Cancel, TypeOK
  <2>3. \/ cut' = cut
        \/ \E c : cut' = [cut EXCEPT ![r] = c] /\ (why # "merge" => c = "cut")
    BY <1>2 DEF Cancel
  <2> QED BY <2>1, <2>2, <2>3 DEF TypeOK
<1> QED BY <1>1, <1>2

\* While no reply is started and none transcribes, most of it stands: what
\* is left to see to is the serve loop's hand.
LEMMA HandLeft ==
  ASSUME FloorInv, Sentences,
         UNCHANGED <<phase, audio, heard>>, mic' \in 0..MaxUtterances, mic' >= mic,
         UNCHANGED <<inFlight, pending>> \/ inFlight' = 0,
         \A q \in Replies : cut'[q] # cut[q] => q = inFlight /\ phase[q] # "none"
  PROVE  AudioKnown' /\ Latest' /\ MergeWindow' /\ Apart' /\ HeadAnswered'
<1> USE DEF FloorInv, Sentences
<1>1. AudioKnown'
  <2>1. \A r \in Replies : \A u \in audio[r] : u <= mic'
    BY DEF AudioKnown, TypeOK
  <2> QED BY <2>1 DEF AudioKnown
<1>2. Latest'
  BY DEF Latest
<1>3. MergeWindow'
  BY DEF MergeWindow
<1>4. Apart'
  BY DEF Apart, Running
<1>5. HeadAnswered'
  <2> SUFFICES ASSUME NEW r \in Replies, NEW q \in Replies,
                      cut'[r] = "merged_unheard", NextReply(r, q)'
               PROVE  audio[r] \subseteq audio[q]
    BY DEF HeadAnswered
  <2>1. NextReply(r, q)
    BY DEF NextReply
  <2>2. CASE cut'[r] = cut[r]
    BY <2>1, <2>2 DEF HeadAnswered
  <2>3. CASE cut'[r] # cut[r]
    <3>1. r = inFlight /\ inFlight # 0
      BY <2>3 DEF TypeOK
    <3>2. r < q /\ phase[q] # "none"
      BY <2>1 DEF NextReply
    <3> QED BY <3>1, <3>2 DEF Latest
  <2> QED BY <2>2, <2>3
<1> QED BY <1>1, <1>2, <1>3, <1>4, <1>5

\* The serve loop stays where it is, or lets go of what it had in hand with
\* the end of the session; and nobody is cut by a merge.
LEMMA HandEmptied ==
  ASSUME FloorInv, Sentences,
         UNCHANGED <<phase, audio, heard, mic>>,
         UNCHANGED <<inFlight, pending>> \/ inFlight' = 0,
         \A q \in Replies : cut'[q] # cut[q] =>
           q = inFlight /\ phase[q] # "none" /\ cut'[q] = "cut",
         pc' \notin HandPcs,
         pc = "merge" \/ pc \in {"drain", "closing", "closed"} =>
           pc' \in {"drain", "closing", "closed"}
  PROVE  Sentences'
<1> USE DEF FloorInv, Sentences
<1>1. AudioKnown' /\ Latest' /\ MergeWindow' /\ Apart' /\ HeadAnswered'
  BY HandLeft DEF TypeOK
<1>2. InCarry' /\ MergeCut'
  BY DEF InCarry, MergeCut, HandPcs
<1>3. HeadCarried'
  BY DEF HeadCarried
<1> QED BY <1>1, <1>2, <1>3

\* A reply is started on audio no other has transcribed, with every reply
\* before it over.
LEMMA StartKeepsSentences ==
  ASSUME FloorInv, Sentences, NEW r \in Replies, NEW pcm \in SUBSET Utterances,
         NEW transcribed \in BOOLEAN, Start(r, pcm, transcribed),
         ~Replying, phase[r] = "none", mic' = r, mic <= r,
         \A s \in Replies : phase[s] # "none" => s < r,
         \A u \in pcm : u <= r,
         \A s \in Replies : heard[s] => audio[s] \cap pcm = {},
         \A s \in Replies :
           cut[s] = "merged_unheard" /\ (\A q \in Replies : q > s => phase[q] = "none")
             => audio[s] \subseteq pcm,
         cut' = cut, pc' = "idle"
  PROVE  Sentences'
<1> USE DEF FloorInv, Sentences
<1>1. /\ phase' = [phase EXCEPT ![r] = "scheduled"]
      /\ audio' = [audio EXCEPT ![r] = pcm]
      /\ heard' = [heard EXCEPT ![r] = transcribed]
      /\ pending' = IF transcribed THEN {} ELSE pcm
      /\ inFlight' = r
  BY DEF Start
<1>2. /\ phase'[r] = "scheduled" /\ audio'[r] = pcm /\ heard'[r] = transcribed
      /\ \A s \in Replies : s # r => /\ phase'[s] = phase[s]
                                     /\ audio'[s] = audio[s]
                                     /\ heard'[s] = heard[s]
  BY <1>1 DEF TypeOK
<1>3. \A s \in Replies : ~Running(s)
  BY DEF Ownership, OneOwner, Replying, TypeOK
<1>4. AudioKnown'
  <2> SUFFICES ASSUME NEW s \in Replies
               PROVE  /\ \A u \in audio'[s] : u <= mic'
                      /\ phase'[s] = "none" =>
                           audio'[s] = {} /\ ~heard'[s] /\ cut'[s] = "none"
    BY DEF AudioKnown
  <2>1. CASE s = r
    BY <1>2, <2>1
  <2>2. CASE s # r
    <3>1. \A u \in audio[s] : u \in Int /\ u <= mic
      BY DEF AudioKnown, TypeOK
    <3>2. \A u \in audio[s] : u <= r
      BY <3>1 DEF TypeOK
    <3> QED BY <1>2, <2>2, <3>2 DEF AudioKnown
  <2> QED BY <2>1, <2>2
<1>5. Latest'
  <2>1. \A q \in Replies : q > r => phase[q] = "none"
    OBVIOUS
  <2> QED BY <1>1, <1>2, <2>1 DEF Latest
<1>6. MergeWindow'
  BY <1>1, <1>2 DEF MergeWindow
<1>7. InCarry' /\ MergeCut'
  BY DEF InCarry, MergeCut, HandPcs
<1>8. Apart'
  <2> SUFFICES ASSUME NEW s \in Replies, NEW q \in Replies, s # q, heard'[s],
                      heard'[q] \/ Running(q)'
               PROVE  audio'[s] \cap audio'[q] = {}
    BY DEF Apart
  <2>1. q # r => heard[q]
    BY <1>2, <1>3 DEF Running
  <2>2. CASE s = r
    BY <1>2, <2>1, <2>2
  <2>3. CASE q = r
    BY <1>2, <2>3
  <2>4. CASE s # r /\ q # r
    BY <1>2, <2>1, <2>4 DEF Apart
  <2> QED BY <2>2, <2>3, <2>4
<1>9. HeadCarried'
  <2> SUFFICES ASSUME NEW s \in Replies, cut[s] = "merged_unheard"
               PROVE  \E q \in Replies : q > s /\ phase'[q] # "none"
    BY DEF HeadCarried
  <2>1. phase[s] # "none"
    BY DEF AudioKnown
  <2>2. s < r
    BY <2>1
  <2> QED BY <1>2, <2>2
<1>10. HeadAnswered'
  <2> SUFFICES ASSUME NEW s \in Replies, NEW q \in Replies,
                      cut[s] = "merged_unheard", NextReply(s, q)'
               PROVE  audio'[s] \subseteq audio'[q]
    BY DEF HeadAnswered
  <2>1. phase[s] # "none" /\ s # r
    BY DEF AudioKnown
  <2>2. /\ s < q /\ phase'[q] # "none"
        /\ \A t \in Replies : s < t /\ t < q => phase'[t] = "none"
    BY DEF NextReply
  <2>3. CASE q = r
    <3>1. \A t \in Replies : t > s => phase[t] = "none"
      <4> SUFFICES ASSUME NEW t \in Replies, t > s, phase[t] # "none" PROVE FALSE
        OBVIOUS
      <4>1. t < r
        OBVIOUS
      <4> QED BY <1>2, <2>2, <2>3, <4>1
    <3> QED BY <1>2, <2>1, <2>3, <3>1
  <2>4. CASE q # r
    <3>1. NextReply(s, q)
      <4>1. \A t \in Replies : s < t /\ t < q => phase[t] = "none"
        BY <1>2, <2>2
      <4> QED BY <1>2, <2>2, <2>4, <4>1 DEF NextReply
    <3> QED BY <1>2, <2>1, <2>4, <3>1 DEF HeadAnswered
  <2> QED BY <2>3, <2>4
<1> QED BY <1>4, <1>5, <1>6, <1>7, <1>8, <1>9, <1>10

\* The serve loop moves the sentence from the merge window to its hand and
\* from there to the next reply.
LEMMA ServeKeepsSentences ==
  ASSUME FloorInv, Sentences, ServeStep
  PROVE  Sentences'
<1> USE DEF FloorInv, Sentences
<1>1. inFlight \in 0..MaxUtterances
  BY DEF TypeOK
<1>2. CASE Utterance
  <2>1. mic + 1 \in Replies /\ mic' = mic + 1 /\ mic <= mic + 1
    BY <1>2 DEF Utterance, TypeOK
  <2>2. \A s \in Replies : phase[s] # "none" => s < mic + 1
    BY <2>1 DEF TypeOK, Ownership, NotYet
  <2>3. \A s \in Replies : audio[s] \cap {mic + 1} = {}
    BY DEF TypeOK, AudioKnown
  <2>4. \A s \in Replies :
          cut[s] = "merged_unheard" =>
            \E q \in Replies : q > s /\ phase[q] # "none"
    BY <1>2 DEF Utterance, HeadCarried
  <2>5. {mic + 1} \in SUBSET Utterances /\ (\A u \in {mic + 1} : u <= mic + 1)
    BY <2>1
  <2>6. /\ Start(mic + 1, {mic + 1}, FALSE) /\ ~Replying
        /\ cut' = cut /\ pc' = "idle"
    BY <1>2 DEF Utterance
  <2>7. phase[mic + 1] = "none"
    BY <2>1, <2>2
  <2>8. \A s \in Replies :
          cut[s] = "merged_unheard" /\ (\A q \in Replies : q > s => phase[q] = "none")
            => audio[s] \subseteq {mic + 1}
    BY <2>4
  <2> QED BY <2>1, <2>2, <2>3, <2>5, <2>6, <2>7, <2>8, StartKeepsSentences
<1>3. CASE SpeechOverReply
  <2>1. /\ mic' = mic + 1 /\ mic' \in Replies /\ inFlight \in Replies
        /\ Running(inFlight) /\ pc = "idle"
        /\ UNCHANGED <<phase, audio, heard, inFlight, pending>>
    BY <1>3 DEF SpeechOverReply, Replying, TypeOK
  <2>2. \A s \in Replies : mic' \notin audio[s]
    BY <2>1 DEF TypeOK, AudioKnown
  <2>3. CASE pending # {}
    <3>1. /\ pc' = "merge" /\ carry' = pending \cup {mic'}
          /\ Cancel(inFlight, "merge", "barged_in")
      BY <1>3, <2>3 DEF SpeechOverReply
    <3>2. \A q \in Replies : cut'[q] # cut[q] => q = inFlight /\ phase[q] # "none"
      BY <1>1, <3>1, CancelMarks
    <3>3. thrown'[inFlight]
      BY <1>1, <2>1, <3>1, CancelMarks
    <3>4. pending = audio[inFlight] /\ ~heard[inFlight]
      BY <2>1, <2>3 DEF MergeWindow
    <3>5. AudioKnown' /\ Latest' /\ MergeWindow' /\ Apart' /\ HeadAnswered'
      BY <2>1, <3>2, HandLeft DEF TypeOK
    <3>6. \A s \in Replies : heard[s] => audio[s] \cap audio[inFlight] = {}
      BY <2>1, <3>4 DEF Apart
    <3>10. \A u \in carry' : u <= mic'
      BY <2>1, <3>1, <3>4 DEF TypeOK, AudioKnown
    <3>7. InCarry'
      BY <2>1, <2>2, <3>1, <3>4, <3>6, <3>10 DEF InCarry
    <3>8. MergeCut'
      BY <2>1, <3>3 DEF MergeCut
    <3>9. HeadCarried'
      BY <2>1, <3>1, <3>2, <3>4 DEF HeadCarried
    <3> QED BY <3>5, <3>7, <3>8, <3>9
  <2>4. CASE pending = {}
    <3>1. pc' = "confirm" /\ carry' = {mic'} /\ cut' = cut
      BY <1>3, <2>1, <2>4 DEF SpeechOverReply
    <3>2. AudioKnown' /\ Latest' /\ MergeWindow' /\ Apart' /\ HeadAnswered'
      BY <2>1, <3>1, HandLeft DEF TypeOK
    <3>3. InCarry' /\ MergeCut' /\ HeadCarried'
      BY <2>1, <2>2, <3>1 DEF InCarry, MergeCut, HeadCarried
    <3> QED BY <3>2, <3>3
  <2> QED BY <2>3, <2>4
<1>4. CASE ButtonOverReply
  <2>1. /\ mic' = mic + 1 /\ mic' \in Replies /\ pc = "idle"
        /\ pc' = "manual" /\ carry' = {mic'}
        /\ UNCHANGED <<phase, audio, heard, inFlight, pending>>
    BY <1>4 DEF ButtonOverReply, TypeOK
  <2>2. \A s \in Replies : mic' \notin audio[s]
    BY <2>1 DEF TypeOK, AudioKnown
  <2>3. \A q \in Replies : cut'[q] # cut[q] =>
          q = inFlight /\ phase[q] # "none" /\ cut'[q] = "cut"
    BY <1>1, <1>4, CancelMarks DEF ButtonOverReply
  <2>4. AudioKnown' /\ Latest' /\ MergeWindow' /\ Apart' /\ HeadAnswered'
    BY <2>1, <2>3, HandLeft DEF TypeOK
  <2>5. InCarry' /\ MergeCut'
    BY <2>1, <2>2 DEF InCarry, MergeCut
  <2>6. HeadCarried'
    BY <2>1, <2>3 DEF HeadCarried
  <2> QED BY <2>4, <2>5, <2>6
<1>5. CASE ConfirmSpeech
  <2>1. /\ pc = "confirm" /\ pc' = "gate"
        /\ UNCHANGED <<carry, mic, phase, audio, heard, inFlight, pending>>
    BY <1>5 DEF ConfirmSpeech
  <2>2. \A q \in Replies : cut'[q] # cut[q] =>
          q = inFlight /\ phase[q] # "none" /\ cut'[q] = "cut"
    BY <1>1, <1>5, CancelMarks DEF ConfirmSpeech
  <2>3. AudioKnown' /\ Latest' /\ MergeWindow' /\ Apart' /\ HeadAnswered'
    BY <2>1, <2>2, HandLeft DEF TypeOK
  <2>4. InCarry' /\ MergeCut'
    BY <2>1 DEF InCarry, MergeCut, HandPcs
  <2>5. HeadCarried'
    BY <2>1, <2>2 DEF HeadCarried
  <2> QED BY <2>3, <2>4, <2>5
<1>6. CASE AnswerAfterCut
  <2>1. pc \in HandPcs /\ mic \in Replies /\ phase[mic] = "none" /\ ~Replying
    BY <1>6 DEF AnswerAfterCut, CutOver, CutPcs, HandPcs, Ownership, InHand
  <2>2. \A s \in Replies : phase[s] # "none" => s < mic
    BY <2>1 DEF TypeOK, Ownership, NotYet
  <2>3. \A s \in Replies : heard[s] => audio[s] \cap carry = {}
    BY <2>1 DEF InCarry
  <2>4. \A s \in Replies :
          cut[s] = "merged_unheard" /\ (\A q \in Replies : q > s => phase[q] = "none")
            => audio[s] \subseteq carry
    BY <2>1 DEF HeadCarried, HandPcs
  <2>5. carry \in SUBSET Utterances /\ (\A u \in carry : u <= mic)
    BY <2>1 DEF TypeOK, InCarry
  <2>6. /\ Start(mic, carry, pc = "gate") /\ mic' = mic /\ mic <= mic
        /\ cut' = cut /\ pc' = "idle" /\ (pc = "gate") \in BOOLEAN
    BY <1>6, <2>1 DEF AnswerAfterCut
  <2> QED BY <2>1, <2>2, <2>3, <2>4, <2>5, <2>6, StartKeepsSentences
<1>7. CASE Vanish
  BY <1>7
     DEF Vanish, serveVars, replyVars, AudioKnown, Latest, MergeWindow,
     InCarry, MergeCut, Apart, HeadCarried, HeadAnswered, NextReply, Running
<1>8. ASSUME pc' \notin HandPcs, UNCHANGED <<phase, audio, heard, mic>>,
             UNCHANGED <<inFlight, pending>> \/ inFlight' = 0,
             pc = "merge" \/ pc \in {"drain", "closing", "closed"} =>
               pc' \in {"drain", "closing", "closed"},
             \/ cut' = cut
             \/ \E why, o : why # "merge" /\ Cancel(inFlight, why, o)
      PROVE  Sentences'
  <2>1. \A q \in Replies : cut'[q] # cut[q] =>
          q = inFlight /\ phase[q] # "none" /\ cut'[q] = "cut"
    BY <1>1, <1>8, CancelMarks
  <2> QED BY <1>8, <2>1, HandEmptied
<1>9. CASE ConfirmNothing
  BY <1>8, <1>9 DEF ConfirmNothing, HandPcs, replyVars
<1>10. CASE Abort
  BY <1>8, <1>10 DEF Abort, HandPcs
<1>11. CASE AbortOver
  BY <1>8, <1>11 DEF AbortOver, HandPcs, replyVars
<1>12. CASE Limit
  BY <1>8, <1>12 DEF Limit, HandPcs, CutPcs, replyVars
<1>13. CASE Close
  BY <1>8, <1>13 DEF Close, HandPcs
<1>14. CASE Hurry
  BY <1>8, <1>14 DEF Hurry, HandPcs
<1>15. CASE CloseOver
  BY <1>8, <1>15 DEF CloseOver, HandPcs, replyVars
<1> QED BY <1>2, <1>3, <1>4, <1>5, <1>6, <1>7, <1>9, <1>10, <1>11, <1>12,
   <1>13, <1>14, <1>15 DEF ServeStep

\* What a step of a reply may do to the sentence: it closes the merge window
\* or leaves it, it hears its own audio, which closes the window too, and it
\* leaves no reply waiting for ASR that was not, uncancelled, before.
Spares(r) ==
  /\ cut' = cut
  /\ pending' \in {pending, {}}
  /\ phase'[r] \in Awaiting => phase[r] \in Awaiting /\ ~thrown[r]
  /\ \/ heard' = heard
     \/ /\ phase[r] = "asr" /\ ~thrown[r] /\ pending' = {}
        /\ heard' = [heard EXCEPT ![r] = TRUE]

LEMMA ReplyStepSpares ==
  ASSUME FloorInv, NEW r \in Replies, ProviderStep(r) \/ OwnStep(r)
  PROVE  Spares(r)
<1> USE DEF FloorInv
<1>1. cut' = cut
  BY DEF ProviderStep, OwnStep, Transcribed, TranscriptionFails, Sentence,
     AwaitSentence, Hold, StreamFails, StreamOver, NeverRan, Begin, Shown,
     SentenceOver, Flushed, StreamCut, SentenceCut, Unwound, CutShort,
     ExcuseSettled, Noticed, NoticePlayed, Settled, StopSpeaking, Aside
<1>2. ASSUME NEW o, NEW clip, Conclude(r, o, clip)
      PROVE  pending' \in {pending, {}} /\ phase'[r] \notin Awaiting
  BY <1>2 DEF Conclude, Awaiting, TypeOK
<1>3. ASSUME NEW o, Excuse(r, o)
      PROVE  pending' \in {pending, {}} /\ phase'[r] \notin Awaiting
  BY <1>3 DEF Excuse, Awaiting, TypeOK
<1>4. CASE Transcribed(r)
  <2>1. filler = "none"
    <3>1. r = inFlight /\ phase[r] = "asr"
      BY <1>4 DEF Transcribed, Running, Ownership, OneOwner
    <3> QED BY <3>1 DEF Voices, FillerOwned, MaskedPhases, SpeakingPhases, Joins
  <2>2. pending' = {} /\ phase'[r] \notin Awaiting
    BY <1>4, <2>1 DEF Transcribed, Conclude, Awaiting, TypeOK
  <2>3. /\ phase[r] = "asr" /\ ~thrown[r]
        /\ heard' = [heard EXCEPT ![r] = TRUE]
    BY <1>4 DEF Transcribed
  <2> QED BY <1>1, <2>2, <2>3 DEF Spares
<1>5. ASSUME heard' = heard, pending' \in {pending, {}},
             phase'[r] \notin Awaiting
      PROVE  Spares(r)
  BY <1>1, <1>5 DEF Spares
<1>6. CASE TranscriptionFails(r)
  BY <1>5, <1>3, <1>6 DEF TranscriptionFails
<1>7. CASE Sentence(r)
  BY <1>5, <1>7 DEF Sentence, Awaiting, replyVars
<1>8. CASE AwaitSentence(r)
  <2>1. heard' = heard /\ phase'[r] \notin Awaiting
    BY <1>8 DEF AwaitSentence, Awaiting, TypeOK
  <2>2. pending' \in {pending, {}}
    BY <1>8 DEF AwaitSentence
  <2> QED BY <1>5, <2>1, <2>2
<1>9. CASE Hold(r)
  BY <1>5, <1>9 DEF Hold, Awaiting, replyVars
<1>10. CASE StreamFails(r)
  BY <1>5, <1>3, <1>10 DEF StreamFails, Awaiting, TypeOK
<1>11. CASE StreamOver(r)
  <2>1. heard' = heard
    BY <1>11 DEF StreamOver
  <2>2. pending' \in {pending, {}} /\ phase'[r] \notin Awaiting
    BY <1>2, <1>3, <1>11 DEF StreamOver, Awaiting, TypeOK
  <2> QED BY <1>5, <2>1, <2>2
<1>12. CASE NeverRan(r)
  <2>1. heard' = heard /\ phase'[r] \notin Awaiting
    BY <1>12 DEF NeverRan, Awaiting, TypeOK
  <2>2. pending' \in {pending, {}}
    BY <1>12 DEF NeverRan
  <2> QED BY <1>5, <2>1, <2>2
<1>13. CASE Begin(r)
  BY <1>1, <1>13 DEF Begin, Spares, Awaiting, TypeOK
<1>14. CASE Shown(r)
  BY <1>5, <1>2, <1>14 DEF Shown, Awaiting, TypeOK
<1>15. CASE SentenceOver(r)
  BY <1>5, <1>2, <1>3, <1>15 DEF SentenceOver, Awaiting, TypeOK
<1>16. CASE Flushed(r)
  <2>1. heard' = heard
    BY <1>16 DEF Flushed
  <2>2. pending' \in {pending, {}} /\ phase'[r] \notin Awaiting
    BY <1>2, <1>16 DEF Flushed, Awaiting, TypeOK
  <2> QED BY <1>5, <2>1, <2>2
<1>17. CASE StreamCut(r)
  <2>1. heard' = heard
    BY <1>17 DEF StreamCut
  <2>2. pending' \in {pending, {}} /\ phase'[r] \notin Awaiting
    BY <1>2, <1>3, <1>17 DEF StreamCut, CutFinds, Awaiting, TypeOK
  <2> QED BY <1>5, <2>1, <2>2
<1>18. CASE SentenceCut(r)
  <2>1. heard' = heard
    BY <1>18 DEF SentenceCut
  <2>2. pending' \in {pending, {}} /\ phase'[r] \notin Awaiting
    BY <1>2, <1>3, <1>18 DEF SentenceCut, CutFinds, Awaiting, TypeOK
  <2> QED BY <1>5, <2>1, <2>2
<1>19. CASE Unwound(r)
  <2>1. heard' = heard
    BY <1>19 DEF Unwound
  <2>2. pending' \in {pending, {}} /\ phase'[r] \notin Awaiting
    BY <1>2, <1>3, <1>19 DEF Unwound, Awaiting, TypeOK
  <2> QED BY <1>5, <2>1, <2>2
<1>20. CASE CutShort(r)
  <2>1. heard' = heard
    BY <1>20 DEF CutShort
  <2>2. pending' \in {pending, {}} /\ phase'[r] \notin Awaiting
    BY <1>2, <1>20 DEF CutShort, Awaiting, TypeOK
  <2> QED BY <1>5, <2>1, <2>2
<1>21. CASE ExcuseSettled(r)
  <2>1. heard' = heard /\ phase'[r] \notin Awaiting
    BY <1>21 DEF ExcuseSettled, Awaiting, TypeOK
  <2>2. pending' \in {pending, {}}
    BY <1>21 DEF ExcuseSettled
  <2> QED BY <1>5, <2>1, <2>2
<1>22. CASE Noticed(r)
  BY <1>5, <1>2, <1>22 DEF Noticed, Awaiting, TypeOK
<1>23. CASE NoticePlayed(r)
  <2>1. heard' = heard
    BY <1>23 DEF NoticePlayed
  <2>2. pending' \in {pending, {}} /\ phase'[r] \notin Awaiting
    BY <1>2, <1>23 DEF NoticePlayed, Awaiting, TypeOK
  <2> QED BY <1>5, <2>1, <2>2
<1>24. CASE Settled(r)
  <2>1. heard' = heard /\ phase'[r] \notin Awaiting
    BY <1>24 DEF Settled, Awaiting, TypeOK
  <2>2. pending' \in {pending, {}}
    BY <1>24 DEF Settled
  <2> QED BY <1>5, <2>1, <2>2
<1>25. CASE StopSpeaking(r)
  <2>1. heard' = heard /\ phase'[r] \notin Awaiting
    BY <1>25 DEF StopSpeaking, Awaiting, TypeOK
  <2>2. pending' \in {pending, {}}
    BY <1>25 DEF StopSpeaking
  <2> QED BY <1>5, <2>1, <2>2
<1> QED BY <1>4, <1>6, <1>7, <1>8, <1>9, <1>10, <1>11, <1>12, <1>13, <1>14, <1>15,
   <1>16, <1>17, <1>18, <1>19, <1>20, <1>21, <1>22, <1>23, <1>24, <1>25
   DEF ProviderStep, OwnStep

\* A reply only closes the window, or transcribes what is its own.
LEMMA ReplyKeepsSentences ==
  ASSUME FloorInv, Sentences, NEW r \in Replies, ProviderStep(r) \/ OwnStep(r)
  PROVE  Sentences'
<1> USE DEF FloorInv, Sentences
<1>1. /\ Running(r)
      /\ UNCHANGED <<pc, carry, mic, inFlight, audio>>
  BY ReplyStepMoves
<1>2. PICK p \in Phases \ {"none"} : phase' = [phase EXCEPT ![r] = p]
  BY ReplyStepMoves
<1>3. Spares(r)
  BY ReplyStepSpares
<1>4. \A q \in Replies : Running(q) => q = r
  BY <1>1 DEF Ownership, OneOwner
<1>5. r = inFlight
  BY <1>1 DEF Ownership, OneOwner
<1>6. \A q \in Replies : (phase'[q] = "none") = (phase[q] = "none")
  BY <1>1, <1>2 DEF TypeOK, Running
<1>7. \A q \in Replies : q # r => phase'[q] = phase[q] /\ heard'[q] = heard[q]
  BY <1>2, <1>3 DEF TypeOK, Spares
<1>8. cut' = cut
  BY <1>3 DEF Spares
<1>9. AudioKnown'
  BY <1>1, <1>6, <1>7, <1>8 DEF AudioKnown, Running
<1>10. Latest'
  BY <1>1, <1>6 DEF Latest
<1>11. MergeWindow'
  BY <1>1, <1>3, <1>5 DEF MergeWindow, Spares
<1>12. MergeCut'
  BY <1>1, <1>3, <1>5 DEF MergeCut, Spares
<1>13. ASSUME heard'[r], ~heard[r], pc \in HandPcs
       PROVE  audio[r] \cap carry = {}
  <2>1. phase[r] = "asr" /\ ~thrown[r]
    BY <1>3, <1>13 DEF Spares
  <2>2. pc # "merge"
    BY <1>5, <2>1 DEF MergeCut, Awaiting
  <2> QED BY <1>13, <2>2 DEF InCarry
<1>14. InCarry'
  BY <1>1, <1>7, <1>13 DEF InCarry
<1>15. Apart'
  <2> SUFFICES ASSUME NEW s \in Replies, NEW q \in Replies, s # q, heard'[s],
                      heard'[q] \/ Running(q)'
               PROVE  audio[s] \cap audio[q] = {}
    BY <1>1 DEF Apart
  <2>1. heard[q] \/ Running(q)
    BY <1>1, <1>7 DEF Running
  <2>2. CASE s # r
    BY <1>7, <2>1, <2>2 DEF Apart
  <2>3. CASE s = r
    <3>1. heard[q]
      BY <1>4, <2>1, <2>3
    <3> QED BY <1>1, <2>3, <3>1 DEF Apart
  <2> QED BY <2>2, <2>3
<1>16. HeadCarried'
  BY <1>1, <1>6, <1>8 DEF HeadCarried
<1>17. HeadAnswered'
  <2>1. \A s, q \in Replies : NextReply(s, q)' => NextReply(s, q)
    BY <1>6 DEF NextReply
  <2> QED BY <1>1, <1>8, <2>1 DEF HeadAnswered
<1> QED BY <1>9, <1>10, <1>11, <1>12, <1>14, <1>15, <1>16, <1>17

\* The user's sentence is neither lost nor answered twice (turntaking.py
\* `_gate_barge_in`, `finish_utterance`): speech that cuts a reply still
\* transcribing the sentence's head is answered with that head, however many
\* merges follow one another, and audio transcribed for one reply is never
\* handed to another.
THEOREM SentenceAlwaysKept == Spec => []SentenceKept
<1>1. Init => Sentences
  BY DEF Init, Sentences, AudioKnown, Latest, MergeWindow, InCarry, MergeCut,
     Apart, HeadCarried, HeadAnswered, HandPcs
<1>2. FloorInv /\ Sentences /\ [Next]_vars => Sentences'
  <2> SUFFICES ASSUME FloorInv, Sentences, [Next]_vars PROVE Sentences'
    OBVIOUS
  <2>1. CASE ServeStep
    BY <2>1, ServeKeepsSentences
  <2>2. ASSUME NEW r \in Replies, ProviderStep(r) \/ OwnStep(r) PROVE Sentences'
    BY <2>2, ReplyKeepsSentences
  <2>3. CASE SpeakerStep \/ FillerStep \/ UNCHANGED vars
    <3>1. UNCHANGED <<serveVars, inFlight, pending, audio, replyVars>>
      BY <2>3 DEF SpeakerStep, FillerStep, SpeakerBegins, SpeakerTailed,
         SpeakerSends, SpeakerFails, SpeakerEnds, FillerFires, FillerOver,
         Others, vars
    <3> QED BY <3>1
       DEF serveVars, replyVars, Sentences, AudioKnown, Latest, MergeWindow,
       InCarry, MergeCut, Apart, HeadCarried, HeadAnswered, NextReply, Running
  <2> QED BY <2>1, <2>2, <2>3 DEF Next
<1>3. Sentences => SentenceKept
  BY DEF Sentences, Apart, HeadAnswered, SentenceKept
<1> QED BY <1>1, <1>2, <1>3, FloorInvariant, PTL DEF Spec

=============================================================================
