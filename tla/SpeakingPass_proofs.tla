------------------------ MODULE SpeakingPass_proofs ------------------------
(***************************************************************************)
(* Proofs about SpeakingPass: its types, and what of a reply the thread's   *)
(* history, the turn's record and the user are left with.                   *)
(***************************************************************************)
EXTENDS SpeakingPass, SequenceTheorems, TLAPS

USE CallsAssumption, RoundsAssumption, BoundsAssumption

-----------------------------------------------------------------------------
(* What is kept of a leg.                                                  *)

\* What is behind the first `k` of a sequence, put behind them, is the sequence.
LEMMA SplitAt ==
  ASSUME NEW S, NEW q \in Seq(S), NEW k \in 0..Len(q)
  PROVE  /\ SubSeq(q, 1, k) \in Seq(S) /\ SubSeq(q, k + 1, Len(q)) \in Seq(S)
         /\ SubSeq(q, 1, k) \o SubSeq(q, k + 1, Len(q)) = q
         /\ Len(SubSeq(q, 1, k)) = k
<1>1. Len(q) \in Nat
  OBVIOUS
<1>2. /\ SubSeq(q, 1, k) \in Seq(S)
      /\ Len(SubSeq(q, 1, k)) = IF 1 <= k THEN k - 1 + 1 ELSE 0
  <2>1. \A i \in 1 .. k : q[i] \in S
    BY <1>1
  <2> QED BY <2>1, SubSeqProperties
<1>3. SubSeq(q, k + 1, Len(q)) \in Seq(S)
  <2>1. \A i \in k + 1 .. Len(q) : q[i] \in S
    BY <1>1
  <2> QED BY <1>1, <2>1, SubSeqProperties
<1>4. SubSeq(q, 1, k) \o SubSeq(q, k + 1, Len(q)) = SubSeq(q, 1, Len(q))
  <2>1. 1 \in 1 .. Len(q) + 1 /\ k \in 1 - 1 .. Len(q) /\ Len(q) \in k .. Len(q)
    BY <1>1
  <2> QED BY <2>1, ConcatAdjacentSubSeq
<1>5. SubSeq(q, 1, Len(q)) = q
  BY SubSeqFull
<1>6. Len(SubSeq(q, 1, k)) = k
  BY <1>1, <1>2
<1> QED BY <1>2, <1>3, <1>4, <1>5, <1>6

LegKept == [said : Seq(Sentences), rounds : Seq(SUBSET Calls)]

LEMMA UnkeptTyped ==
  ASSUME TypeOK
  PROVE  /\ Unkept \in Seq(Sentences) /\ pass.kept \in 0 .. Len(spoken)
         /\ SubSeq(spoken, 1, pass.kept) \o Unkept = spoken
<1>1. spoken \in Seq(Sentences) /\ pass.kept \in 0 .. Len(spoken)
  BY DEF TypeOK
<1> QED BY <1>1, SplitAt DEF Unkept

\* What `_keep_speech` changes, and what it leaves.
LEMMA KeepSpeechSaid ==
  ASSUME TypeOK, KeepSpeech
  PROVE  /\ history' \in [Legs -> LegKept]
         /\ history'[leg].said = history[leg].said \o Unkept
         /\ \A l \in Legs : history'[l].rounds = history[l].rounds
         /\ \A l \in Legs \ {leg} : history'[l] = history[l]
<1> DEFINE said == history[leg].said \o Unkept
<1>1. history \in [Legs -> LegKept] /\ leg \in Legs
  BY DEF TypeOK, LegKept
<1>2. said \in Seq(Sentences)
  <2>1. history[leg].said \in Seq(Sentences)
    BY <1>1 DEF LegKept
  <2> QED BY <2>1, UnkeptTyped, ConcatProperties
<1>3. history' = [history EXCEPT ![leg].said = said]
  BY DEF KeepSpeech
<1> HIDE DEF said
<1>4. \A l \in Legs : history'[l] = IF l = leg THEN [history[l] EXCEPT !.said = said]
                                    ELSE history[l]
  BY <1>1, <1>3
<1>5. history'[leg] \in LegKept /\ history'[leg].said = said
      /\ history'[leg].rounds = history[leg].rounds
  BY <1>1, <1>2, <1>4 DEF LegKept
<1> QED BY <1>1, <1>3, <1>4, <1>5 DEF said

\* What `_keep_round` changes, and what it leaves.
LEMMA KeepRoundSaid ==
  ASSUME TypeOK, KeepRound, UNCHANGED spoken
  PROVE  /\ history' \in [Legs -> LegKept]
         /\ pass' \in [spoke : BOOLEAN, withheld : BOOLEAN, kept : 0..Len(spoken)]
         /\ pass'.spoke = pass.spoke /\ pass'.withheld = pass.withheld
         /\ \A l \in Legs \ {leg} : history'[l] = history[l]
         /\ Answered = {} => history' = history /\ pass' = pass
         /\ Answered # {} =>
              /\ history'[leg].said = history[leg].said \o Unkept
              /\ history'[leg].rounds = Append(history[leg].rounds, Answered)
              /\ pass'.kept = Len(spoken)
<1>1. history \in [Legs -> LegKept] /\ leg \in Legs /\ spoken \in Seq(Sentences)
      /\ pass \in [spoke : BOOLEAN, withheld : BOOLEAN, kept : 0..Len(spoken)]
  BY DEF TypeOK, LegKept
<1>2. CASE Answered = {}
  BY <1>1, <1>2 DEF KeepRound
<1>3. CASE Answered # {}
  <2> DEFINE said == history[leg].said \o Unkept
             rounds == Append(history[leg].rounds, Answered)
  <2>1. said \in Seq(Sentences)
    <3>1. history[leg].said \in Seq(Sentences)
      BY <1>1 DEF LegKept
    <3> QED BY <3>1, UnkeptTyped, ConcatProperties
  <2>2. rounds \in Seq(SUBSET Calls)
    <3>1. history[leg].rounds \in Seq(SUBSET Calls) /\ Answered \in SUBSET Calls
      BY <1>1 DEF LegKept, Answered, InRound
    <3> QED BY <3>1, AppendProperties
  <2>3. /\ history' = [history EXCEPT ![leg].said = said, ![leg].rounds = rounds]
        /\ pass' = [pass EXCEPT !.kept = Len(spoken)]
    <3>1. history' = [history EXCEPT ![leg].said = @ \o Unkept,
                                     ![leg].rounds = Append(@, Answered)]
      BY <1>3 DEF KeepRound
    <3>2. [history EXCEPT ![leg].said = said][leg].rounds = history[leg].rounds
      BY <1>1 DEF LegKept
    <3> QED BY <1>1, <1>3, <3>1, <3>2 DEF KeepRound
  <2> HIDE DEF said, rounds
  <2>4. history'[leg] = [said |-> said, rounds |-> rounds]
    BY <1>1, <2>3 DEF LegKept
  <2>5. \A l \in Legs \ {leg} : history'[l] = history[l]
    BY <1>1, <2>3
  <2>6. history' \in [Legs -> LegKept]
    BY <1>1, <2>1, <2>2, <2>3, <2>4, <2>5 DEF LegKept
  <2>7. /\ pass'.kept = Len(spoken) /\ pass'.spoke = pass.spoke
        /\ pass'.withheld = pass.withheld
        /\ pass' \in [spoke : BOOLEAN, withheld : BOOLEAN, kept : 0..Len(spoken)]
    BY <1>1, <2>3
  <2> QED BY <1>3, <2>4, <2>5, <2>6, <2>7 DEF said, rounds
<1> QED BY <1>2, <1>3

\* What `_record_turn` changes, and what it leaves.
LegRecord == [filed : BOOLEAN, said : Seq(Sentences), calls : Seq(Calls)]
LEMMA RecordTurnSaid ==
  ASSUME TypeOK, RecordTurn
  PROVE  /\ stored' \in [Legs -> LegRecord]
         /\ stored[leg] = Unsaid =>
              stored'[leg].said = spoken /\ stored'[leg].calls = tools[leg]
         /\ \A l \in Legs \ {leg} : stored'[l] = stored[l]
<1>1. /\ stored \in [Legs -> LegRecord] /\ leg \in Legs /\ spoken \in Seq(Sentences)
      /\ tools[leg] \in Seq(Calls)
  BY DEF TypeOK, LegRecord
<1>2. CASE leg = 2 /\ spoken = <<>> /\ tools[leg] = <<>>
  BY <1>1, <1>2 DEF RecordTurn, Unsaid
<1>3. CASE ~(leg = 2 /\ spoken = <<>> /\ tools[leg] = <<>>)
  <2> DEFINE filed == [filed |-> TRUE, said |-> spoken, calls |-> tools[leg]]
  <2>1. filed \in LegRecord /\ filed.said = spoken /\ filed.calls = tools[leg]
    BY <1>1 DEF LegRecord
  <2>2. stored' = [stored EXCEPT ![leg] = filed]
    BY <1>3 DEF RecordTurn
  <2> HIDE DEF filed
  <2> QED BY <1>1, <2>1, <2>2
<1> QED BY <1>2, <1>3

-----------------------------------------------------------------------------
(* Types.                                                                  *)

PlaceTyped ==
  /\ pc \in Places /\ thrown \in {"none"} \cup Errors
  /\ leg \in Legs /\ round \in 1..MaxRounds /\ attempt \in 1..2
SpeechTyped ==
  /\ last \in 0..MaxSentences /\ speaking \in 0..last
  /\ voice \in [Sentences -> Voices]
  /\ synth \in [Sentences -> {"none", "ended", "failed", "cancel"} \cup Pulling]
  /\ ready \in [Sentences -> 0..1] /\ given \in [Sentences -> 0..MaxChunks]
KeptTyped ==
  /\ spoken \in Seq(Sentences)
  /\ pass \in [spoke : BOOLEAN, withheld : BOOLEAN, kept : 0..Len(spoken)]
  /\ history \in [Legs -> LegKept]
  /\ stored \in [Legs -> LegRecord]
  /\ aired \in [Legs -> Seq(Sentences)]
AskedTyped ==
  /\ slots \in Seq(Calls)
  /\ call \in [Calls -> {"none", "reserved", "answered", "moved"}]
  /\ tools \in [Legs -> Seq(Calls)] /\ issued \in [Legs -> Seq(Calls)]
RestTyped ==
  /\ clip \in {"none", "armed", "sounding", "leaving"}
  /\ phrase \in {"none", "nothing", "failed"}
  /\ cuts \in 0..MaxCuts

LEMMA TypeParts ==
  /\ TypeOK => PlaceTyped /\ SpeechTyped /\ KeptTyped /\ AskedTyped /\ RestTyped
  /\ PlaceTyped' /\ SpeechTyped' /\ KeptTyped' /\ AskedTyped' /\ RestTyped' => TypeOK'
BY DEF TypeOK, PlaceTyped, SpeechTyped, KeptTyped, AskedTyped, RestTyped, LegKept, LegRecord

\* What a step leaves alone keeps its types.
LEMMA Untouched ==
  ASSUME TypeOK
  PROVE  /\ UNCHANGED place => PlaceTyped'
         /\ UNCHANGED speech => SpeechTyped'
         /\ UNCHANGED kept => KeptTyped'
         /\ UNCHANGED asked => AskedTyped'
         /\ UNCHANGED <<clip, phrase, cuts>> => RestTyped'
<1>1. UNCHANGED place => PlaceTyped'
  BY TypeParts DEF PlaceTyped, place
<1>2. UNCHANGED speech => SpeechTyped'
  BY TypeParts DEF SpeechTyped, speech
<1>3. UNCHANGED kept => KeptTyped'
  BY TypeParts DEF KeptTyped, kept
<1>4. UNCHANGED asked => AskedTyped'
  BY TypeParts DEF AskedTyped, asked
<1>5. UNCHANGED <<clip, phrase, cuts>> => RestTyped'
  BY TypeParts DEF RestTyped
<1> QED BY <1>1, <1>2, <1>3, <1>4, <1>5

\* A sentence behind another: of the errors a voice ends with, those that are
\* raised.
LEMMA SpeakAfterTyped ==
  ASSUME TypeOK, NEW behind \in Places, NEW next \in Places, SpeakAfter(behind, next),
         UNCHANGED <<ready, given>>
  PROVE  /\ SpeechTyped'
         /\ pc' \in Places /\ thrown' \in {"none"} \cup Errors
<1>1. last' = last + 1 /\ last' \in 1..MaxSentences /\ last' \in Sentences
  BY SMTT(30), TypeParts DEF SpeechTyped, SpeakAfter, Sentences
<1>2. voice' \in [Sentences -> Voices]
  <2>1. voice' = voice \/ voice' = [voice EXCEPT ![last + 1] = "new"]
    BY DEF SpeakAfter
  <2> QED BY <1>1, <2>1, TypeParts DEF SpeechTyped, Voices
<1>3. synth' \in [Sentences -> {"none", "ended", "failed", "cancel"} \cup Pulling]
  <2>1. synth' = Ahead \/ synth' = [synth EXCEPT ![last + 1] = "cancel"]
    BY DEF SpeakAfter
  <2> QED BY <1>1, <2>1, TypeParts DEF SpeechTyped, Ahead, Pulling
<1>4. speaking' \in 0..last'
  BY <1>1, TypeParts DEF SpeechTyped, SpeakAfter
<1>5. pc' \in Places
  BY DEF SpeakAfter, Places
<1>6. thrown' \in {"none"} \cup Errors
  BY TypeParts DEF PlaceTyped, SpeakAfter, VoiceOver, Errors
<1> QED BY <1>1, <1>2, <1>3, <1>4, <1>5, <1>6, TypeParts DEF SpeechTyped

\* The boundary of a move.
LEMMA BoundaryTyped ==
  ASSUME TypeOK, Boundary, UNCHANGED aired
  PROVE  /\ KeptTyped' /\ slots' = <<>>
         /\ pc' \in Places /\ leg' \in Legs /\ round' \in 1..MaxRounds /\ attempt' \in 1..2
<1>1. KeepSpeech /\ RecordTurn
  BY DEF Boundary
<1>2. history' \in [Legs -> LegKept] /\ stored' \in [Legs -> LegRecord]
  BY <1>1, KeepSpeechSaid, RecordTurnSaid
<1>3. spoken' = <<>> /\ Len(spoken') = 0 /\ spoken' \in Seq(Sentences)
  BY DEF Boundary
<1>4. pass' \in [spoke : BOOLEAN, withheld : BOOLEAN, kept : 0..Len(spoken')]
  <2>1. Heard \in BOOLEAN
    BY TypeParts DEF Heard, KeptTyped
  <2>2. pass' = [pass EXCEPT !.spoke = Heard, !.kept = 0]
    BY DEF Boundary
  <2>3. 0 \in 0..Len(spoken')
    BY <1>3
  <2> QED BY <2>1, <2>2, <2>3, TypeParts DEF KeptTyped
<1>5. aired' \in [Legs -> Seq(Sentences)]
  BY TypeParts DEF KeptTyped
<1>6. KeptTyped'
  BY <1>2, <1>3, <1>4, <1>5 DEF KeptTyped
<1> QED BY <1>6 DEF Boundary, Places, Legs

\* The end of the tools of a round.
LEMMA ToolsEndTyped ==
  ASSUME TypeOK, NEW e \in {"none"} \cup Errors, ToolsEnd(e),
         UNCHANGED <<leg, spoken, stored, aired, phrase>>
  PROVE  /\ KeptTyped' /\ PlaceTyped' /\ slots' \in Seq(Calls)
         /\ clip' \in {"none", "armed", "sounding", "leaving"}
<1>1. KeptTyped'
  BY KeepRoundSaid, TypeParts DEF ToolsEnd, KeptTyped
<1>2. PlaceTyped'
  BY TypeParts DEF ToolsEnd, Caught, PlaceTyped, Places, Errors
<1>3. slots' \in Seq(Calls)
  <2>1. slots' = slots \/ slots' = <<>>
    BY DEF ToolsEnd
  <2> QED BY <2>1, TypeParts, EmptySeq DEF AskedTyped
<1>4. clip' \in {"none", "armed", "sounding", "leaving"}
  BY TypeParts DEF ToolsEnd, Caught, Settling, Abandoned, RestTyped
<1> QED BY <1>1, <1>2, <1>3, <1>4

LEMMA TypeInit == Init => TypeOK
<1> SUFFICES ASSUME Init PROVE TypeOK
  OBVIOUS
<1>1. PlaceTyped
  BY DEF Init, PlaceTyped, Places, Errors, Legs
<1>2. SpeechTyped
  BY DEF Init, SpeechTyped, Sentences, Voices, Pulling
<1>3. KeptTyped
  <2>1. Unheard \in LegKept /\ Unsaid \in LegRecord
    BY DEF Unheard, Unsaid, LegKept, LegRecord
  <2> QED BY <2>1 DEF Init, KeptTyped
<1>4. AskedTyped
  BY DEF Init, AskedTyped
<1>5. RestTyped
  BY DEF Init, RestTyped
<1> QED
  BY <1>1, <1>2, <1>3, <1>4, <1>5
  DEF TypeOK, PlaceTyped, SpeechTyped, KeptTyped, AskedTyped, RestTyped, LegKept, LegRecord

LEMMA TypeStep == TypeOK /\ [Next]_vars => TypeOK'
<1> SUFFICES ASSUME TypeOK, [Next]_vars PROVE TypeOK'
  OBVIOUS
<1>a. PlaceTyped /\ SpeechTyped /\ KeptTyped /\ AskedTyped /\ RestTyped
  BY TypeParts
<1>1. CASE FirstEvent
  <2>1. PlaceTyped'
    BY <1>a, <1>1 DEF FirstEvent, PlaceTyped, Places
  <2> QED BY <1>1, <2>1, TypeParts, Untouched DEF FirstEvent, speech, kept, asked
<1>2. CASE Sentence
  <2>1. SpeakAfter("queueing", "streaming") /\ UNCHANGED <<ready, given>>
    BY <1>2 DEF Sentence
  <2>2. SpeechTyped' /\ pc' \in Places /\ thrown' \in {"none"} \cup Errors
    BY <2>1, SpeakAfterTyped DEF Places
  <2>3. PlaceTyped'
    BY <1>a, <1>2, <2>2 DEF Sentence, PlaceTyped
  <2> QED BY <1>2, <2>2, <2>3, TypeParts, Untouched DEF Sentence, kept, asked
<1>3. CASE Withheld
  <2>1. KeptTyped'
    BY <1>a, <1>3 DEF Withheld, KeptTyped
  <2> QED BY <1>3, <2>1, TypeParts, Untouched DEF Withheld, place, speech, asked
<1>4. CASE StreamFails
  <2>1. PlaceTyped'
    BY <1>a, <1>4 DEF StreamFails, PlaceTyped, Unwind, Caught, Places, Errors
  <2>2. SpeechTyped'
    BY <1>a, <1>4 DEF StreamFails, SpeechTyped, Unwind, Silence, Dropped, Voices, VoiceOver
  <2>3. RestTyped'
    BY <1>a, <1>4 DEF StreamFails, RestTyped, Unwind, Caught, Settling, Abandoned
  <2> QED BY <1>4, <2>1, <2>2, <2>3, TypeParts, Untouched DEF StreamFails, kept, asked
<1>5. CASE ModelDone
  <2>1. PICK calls \in Rounds :
         /\ slots' = calls /\ Reserve(calls)
         /\ issued' = [issued EXCEPT ![leg] = issued[leg] \o calls]
         /\ call' = [c \in Calls |->
                       IF \E i \in DOMAIN calls : calls[i] = c THEN "reserved" ELSE call[c]]
         /\ \/ SpeakAfter("flushing", "roundend") /\ UNCHANGED clip
            \/ /\ RoundOver(calls) \/ (pc' = "roundend" /\ UNCHANGED clip)
               /\ UNCHANGED <<thrown, last, speaking, voice, synth>>
    BY <1>5 DEF ModelDone
  <2>2. calls \in Seq(Calls)
    BY DEF Rounds
  <2>3. AskedTyped'
    <3>1. tools[leg] \o calls \in Seq(Calls) /\ issued[leg] \o calls \in Seq(Calls)
      BY <1>a, <2>2, ConcatProperties DEF AskedTyped, PlaceTyped
    <3>2. tools' \in [Legs -> Seq(Calls)] /\ issued' \in [Legs -> Seq(Calls)]
      BY <1>a, <2>1, <3>1 DEF AskedTyped, Reserve
    <3> QED BY <1>a, <2>1, <2>2, <3>2 DEF AskedTyped
  <2>4. SpeechTyped' /\ pc' \in Places /\ thrown' \in {"none"} \cup Errors /\ RestTyped'
    <3>1. UNCHANGED <<ready, given, phrase, cuts>>
      BY <1>5 DEF ModelDone
    <3>2. CASE SpeakAfter("flushing", "roundend") /\ UNCHANGED clip
      <4>1. SpeechTyped' /\ pc' \in Places /\ thrown' \in {"none"} \cup Errors
        BY <3>1, <3>2, SpeakAfterTyped DEF Places
      <4> QED BY <1>a, <3>1, <3>2, <4>1 DEF RestTyped
    <3>3. CASE /\ RoundOver(calls) \/ (pc' = "roundend" /\ UNCHANGED clip)
               /\ UNCHANGED <<thrown, last, speaking, voice, synth>>
      <4>1. SpeechTyped'
        BY <1>a, <3>1, <3>3 DEF SpeechTyped
      <4>2. pc' \in Places /\ thrown' \in {"none"} \cup Errors
        BY <1>a, <3>3 DEF PlaceTyped, RoundOver, Places
      <4>3. RestTyped'
        BY <1>a, <3>1, <3>3 DEF RestTyped, RoundOver
      <4> QED BY <4>1, <4>2, <4>3
    <3> QED BY <2>1, <3>2, <3>3
  <2>5. PlaceTyped'
    BY <1>a, <1>5, <2>4 DEF ModelDone, PlaceTyped
  <2> QED BY <1>5, <2>3, <2>4, <2>5, TypeParts, Untouched DEF ModelDone, kept
<1>6. CASE Stalled
  <2>1. PlaceTyped'
    BY <1>a, <1>6 DEF Stalled, PlaceTyped, Caught, Places, Errors
  <2>2. RestTyped'
    BY <1>a, <1>6 DEF Stalled, RestTyped, Caught, Settling, Abandoned
  <2> QED BY <1>6, <2>1, <2>2, TypeParts, Untouched DEF Stalled, speech, kept, asked
<1>7. CASE Queued
  <2>1. PlaceTyped'
    BY <1>a, <1>7 DEF Queued, PlaceTyped, Places, Errors, VoiceOver
  <2>2. SpeechTyped'
    BY <1>a, <1>7 DEF Queued, SpeechTyped, Dropped, Queueing, Voices, VoiceOver
  <2> QED BY <1>7, <2>1, <2>2, TypeParts, Untouched DEF Queued, kept, asked
<1>8. CASE SeenDown
  <2>1. PlaceTyped'
    BY <1>a, <1>8 DEF SeenDown, PlaceTyped, Places
  <2> QED BY <1>8, <2>1, TypeParts, Untouched DEF SeenDown, speech, kept, asked
<1>9. CASE CleanedUp
  <2>1. PlaceTyped'
    BY <1>a, <1>9 DEF CleanedUp, PlaceTyped, Caught, Places, Errors
  <2>2. SpeechTyped'
    BY <1>a, <1>9 DEF CleanedUp, SpeechTyped
  <2>3. RestTyped'
    BY <1>a, <1>9 DEF CleanedUp, RestTyped, Caught, Settling, Abandoned
  <2> QED BY <1>9, <2>1, <2>2, <2>3, TypeParts, Untouched DEF CleanedUp, kept, asked
<1>10. CASE SpokenOut
  <2>1. PlaceTyped'
    BY <1>a, <1>10 DEF SpokenOut, PlaceTyped, RoundOver, Places, Errors, VoiceOver
  <2>2. SpeechTyped'
    BY <1>a, <1>10 DEF SpokenOut, SpeechTyped
  <2>3. RestTyped'
    BY <1>a, <1>10 DEF SpokenOut, RestTyped, RoundOver
  <2> QED BY <1>10, <2>1, <2>2, <2>3, TypeParts, Untouched DEF SpokenOut, kept, asked
<1>11. CASE ToolsOver
  <2>1. \E e \in {"none"} \cup Errors : ToolsEnd(e)
    BY <1>11 DEF ToolsOver, Errors
  <2>2. UNCHANGED <<leg, speech, spoken, stored, aired, call, tools, issued, phrase, cuts>>
    BY <1>11 DEF ToolsOver
  <2>3. KeptTyped' /\ PlaceTyped' /\ slots' \in Seq(Calls)
        /\ clip' \in {"none", "armed", "sounding", "leaving"}
    BY <2>1, <2>2, ToolsEndTyped
  <2>4. AskedTyped' /\ RestTyped'
    BY <1>a, <2>2, <2>3 DEF AskedTyped, RestTyped
  <2> QED BY <2>2, <2>3, <2>4, TypeParts, Untouched
<1>12. CASE Drained
  <2>1. UNCHANGED <<call, tools, issued, phrase, cuts>>
    BY <1>12 DEF Drained
  <2>2. CASE /\ LegEnds
             /\ UNCHANGED <<thrown, leg, round, attempt, speech, kept, slots>>
    <3>1. PlaceTyped' /\ RestTyped'
      BY <1>a, <2>1, <2>2 DEF LegEnds, PlaceTyped, RestTyped, Places, Settling
    <3> QED BY <2>1, <2>2, <3>1, TypeParts, Untouched DEF asked
  <2>3. CASE Boundary /\ UNCHANGED <<thrown, speech, aired, clip>>
    <3>1. KeptTyped' /\ slots' = <<>>
          /\ pc' \in Places /\ leg' \in Legs /\ round' \in 1..MaxRounds /\ attempt' \in 1..2
      BY <2>3, BoundaryTyped
    <3>2. PlaceTyped' /\ RestTyped' /\ AskedTyped'
      BY <1>a, <2>1, <2>3, <3>1 DEF PlaceTyped, RestTyped, AskedTyped
    <3> QED BY <2>3, <3>1, <3>2, TypeParts, Untouched
  <2>4. CASE /\ SpeakAfter("queueing", "recapping")
             /\ UNCHANGED <<leg, round, attempt, ready, given, kept, slots, clip>>
    <3>1. SpeechTyped' /\ pc' \in Places /\ thrown' \in {"none"} \cup Errors
      BY <2>4, SpeakAfterTyped DEF Places
    <3>2. PlaceTyped' /\ RestTyped'
      BY <1>a, <2>1, <2>4, <3>1 DEF PlaceTyped, RestTyped
    <3> QED BY <2>1, <2>4, <3>1, <3>2, TypeParts, Untouched DEF asked
  <2>5. CASE Caught("gone") /\ UNCHANGED <<leg, round, attempt, speech, kept, slots>>
    <3>1. PlaceTyped' /\ RestTyped'
      BY <1>a, <2>1, <2>5 DEF Caught, PlaceTyped, RestTyped, Places, Errors, Settling, Abandoned
    <3> QED BY <2>1, <2>5, <3>1, TypeParts, Untouched DEF asked
  <2> QED BY <1>12, <2>2, <2>3, <2>4, <2>5 DEF Drained
<1>13. CASE Recapped
  <2>1. PlaceTyped'
    BY <1>a, <1>13 DEF Recapped, PlaceTyped, Places, Errors, VoiceOver
  <2>2. SpeechTyped'
    BY <1>a, <1>13 DEF Recapped, SpeechTyped
  <2> QED BY <1>13, <2>1, <2>2, TypeParts, Untouched DEF Recapped, kept, asked
<1>14. CASE Stored
  <2>1. UNCHANGED <<speech, call, tools, issued, phrase, cuts>>
    BY <1>14 DEF Stored
  <2>2. CASE Boundary /\ UNCHANGED <<thrown, aired, clip>>
    <3>1. KeptTyped' /\ slots' = <<>>
          /\ pc' \in Places /\ leg' \in Legs /\ round' \in 1..MaxRounds /\ attempt' \in 1..2
      BY <2>2, BoundaryTyped
    <3>2. PlaceTyped' /\ RestTyped' /\ AskedTyped'
      BY <1>a, <2>1, <2>2, <3>1 DEF PlaceTyped, RestTyped, AskedTyped
    <3> QED BY <2>1, <3>1, <3>2, TypeParts, Untouched
  <2>3. CASE Caught("gone") /\ UNCHANGED <<leg, round, attempt, kept, slots>>
    <3>1. PlaceTyped' /\ RestTyped'
      BY <1>a, <2>1, <2>3 DEF Caught, PlaceTyped, RestTyped, Places, Errors, Settling, Abandoned
    <3> QED BY <2>1, <2>3, <3>1, TypeParts, Untouched DEF asked
  <2> QED BY <1>14, <2>2, <2>3 DEF Stored
<1>15. CASE Excuse
  <2>1. PlaceTyped'
    BY <1>a, <1>15 DEF Excuse, PlaceTyped, Places
  <2>2. RestTyped'
    BY <1>a, <1>15 DEF Excuse, RestTyped
  <2> QED BY <1>15, <2>1, <2>2, TypeParts, Untouched DEF Excuse, speech, kept, asked
<1>16. CASE Settled
  <2>1. history' \in [Legs -> LegKept] /\ stored' \in [Legs -> LegRecord]
    BY <1>16, KeepSpeechSaid, RecordTurnSaid DEF Settled
  <2>2. KeptTyped'
    BY <1>a, <1>16, <2>1 DEF Settled, KeptTyped
  <2>3. PlaceTyped' /\ RestTyped'
    BY <1>a, <1>16 DEF Settled, PlaceTyped, RestTyped, Places
  <2> QED BY <1>16, <2>2, <2>3, TypeParts, Untouched DEF Settled
<1>17. CASE ClipStep
  <2>1. RestTyped'
    BY <1>a, <1>17 DEF ClipStep, RestTyped
  <2> QED BY <1>17, <2>1, TypeParts, Untouched DEF ClipStep, place, speech, kept, asked
<1>18. CASE \E c \in Calls : Answer(c) \/ MoveGranted(c)
  <2>1. PICK c \in Calls : Answer(c) \/ MoveGranted(c)
    BY <1>18
  <2>2. UNCHANGED <<place, speech, kept, slots, tools, issued, clip, phrase, cuts>>
    BY <2>1 DEF Answer, MoveGranted
  <2>3. AskedTyped'
    BY <1>a, <2>1, <2>2 DEF AskedTyped, Answer, MoveGranted
  <2> QED BY <2>2, <2>3, TypeParts, Untouched
<1>19. CASE \E s \in Sentences : SynthesisStep(s)
  <2>1. PICK s \in Sentences : SynthesisStep(s)
    BY <1>19
  <2>2. UNCHANGED <<place, last, speaking, voice, kept, asked, clip, phrase, cuts>>
    BY <2>1 DEF SynthesisStep, ChunkGiven, RoomMade, StreamOver
  <2>3. ready' \in [Sentences -> 0..1] /\ given' \in [Sentences -> 0..MaxChunks]
    BY <1>a, <2>1 DEF SpeechTyped, SynthesisStep, ChunkGiven, RoomMade, StreamOver
  <2>4. synth' \in [Sentences -> {"none", "ended", "failed", "cancel"} \cup Pulling]
    BY <1>a, <2>1 DEF SpeechTyped, SynthesisStep, ChunkGiven, RoomMade, StreamOver, Pulling
  <2>5. SpeechTyped'
    BY <1>a, <2>2, <2>3, <2>4 DEF SpeechTyped
  <2> QED BY <2>2, <2>5, TypeParts, Untouched
<1>20. CASE \E s \in Sentences : VoiceStep(s)
  <2>1. PICK s \in Sentences : VoiceStep(s)
    BY <1>20
  <2>2. UNCHANGED <<place, last, speaking, given, pass, history, stored, asked, phrase, cuts>>
    BY <2>1 DEF VoiceStep, VoiceStarts, Announced, ChunkTaken, ChunkSent, Spoken, VoiceEnds, kept
  <2>3. voice' \in [Sentences -> Voices]
    BY <1>a, <2>1 DEF SpeechTyped, VoiceStep, VoiceStarts, Announced, ChunkTaken, ChunkSent,
                      Spoken, VoiceEnds, Voices, VoiceOver
  <2>4. synth' \in [Sentences -> {"none", "ended", "failed", "cancel"} \cup Pulling]
    BY <1>a, <2>1 DEF SpeechTyped, VoiceStep, VoiceStarts, Announced, ChunkTaken, ChunkSent,
                      Spoken, VoiceEnds, Dropped
  <2>5. ready' \in [Sentences -> 0..1]
    BY <1>a, <2>1 DEF SpeechTyped, VoiceStep, VoiceStarts, Announced, ChunkTaken, ChunkSent,
                      Spoken, VoiceEnds
  <2>6. SpeechTyped'
    BY <1>a, <2>2, <2>3, <2>4, <2>5 DEF SpeechTyped
  <2>7. RestTyped'
    BY <1>a, <2>1, <2>2 DEF RestTyped, VoiceStep, VoiceStarts, Announced, ChunkTaken, ChunkSent,
                            Spoken, VoiceEnds, Settling
  <2>8. KeptTyped'
    <3>1. CASE UNCHANGED kept
      BY <3>1, Untouched
    <3>2. CASE spoken' = Append(spoken, s) /\ aired' = [aired EXCEPT ![leg] = Append(aired[leg], s)]
      <4>1. /\ spoken' \in Seq(Sentences) /\ Len(spoken') = Len(spoken) + 1
            /\ Append(aired[leg], s) \in Seq(Sentences)
        BY <1>a, <3>2, AppendProperties DEF KeptTyped, PlaceTyped
      <4>2. 0..Len(spoken) \subseteq 0..Len(spoken')
        BY <1>a, <4>1 DEF KeptTyped
      <4>3. pass' \in [spoke : BOOLEAN, withheld : BOOLEAN, kept : 0..Len(spoken')]
        BY <1>a, <2>2, <4>2 DEF KeptTyped
      <4> QED BY <1>a, <2>2, <3>2, <4>1, <4>3 DEF KeptTyped
    <3>3. UNCHANGED kept \/ (spoken' = Append(spoken, s)
                             /\ aired' = [aired EXCEPT ![leg] = Append(aired[leg], s)])
      BY <2>1 DEF VoiceStep, VoiceStarts, Announced, ChunkTaken, ChunkSent, Spoken, VoiceEnds, kept
    <3> QED BY <3>1, <3>2, <3>3
  <2> QED BY <2>2, <2>6, <2>7, <2>8, TypeParts, Untouched
<1>21. CASE Cut
  <2>1. /\ cuts' \in 0..MaxCuts
        /\ UNCHANGED <<leg, last, speaking, ready, given, spoken, aired, call, tools, issued,
                       phrase>>
    BY <1>a, <1>21 DEF Cut, RestTyped
  <2>2. CASE CutHere
    <3>1. CASE Unwind("cancel") /\ UNCHANGED <<round, attempt, history, pass, stored, slots>>
      <4>1. PlaceTyped'
        BY <1>a, <2>1, <3>1 DEF PlaceTyped, Unwind, Caught, Places, Errors
      <4>2. SpeechTyped'
        BY <1>a, <2>1, <3>1 DEF SpeechTyped, Unwind, Silence, Dropped, Voices, VoiceOver
      <4>3. RestTyped'
        BY <1>a, <2>1, <3>1 DEF RestTyped, Unwind, Caught, Settling, Abandoned
      <4> QED BY <2>1, <3>1, <4>1, <4>2, <4>3, TypeParts, Untouched DEF kept, asked
    <3>2. CASE ToolsEnd("cancel") /\ UNCHANGED <<voice, synth, stored>>
      <4>1. KeptTyped' /\ PlaceTyped' /\ slots' \in Seq(Calls)
            /\ clip' \in {"none", "armed", "sounding", "leaving"}
        BY <2>1, <3>2, ToolsEndTyped DEF Errors
      <4>2. AskedTyped' /\ RestTyped'
        BY <1>a, <2>1, <4>1 DEF AskedTyped, RestTyped
      <4> QED BY <2>1, <3>2, <4>1, <4>2, TypeParts, Untouched DEF speech
    <3>3. CASE /\ Caught("cancel")
               /\ UNCHANGED <<voice, synth, round, attempt, history, pass, stored, slots>>
      <4>1. PlaceTyped'
        BY <1>a, <2>1, <3>3 DEF PlaceTyped, Caught, Places, Errors
      <4>2. RestTyped'
        BY <1>a, <2>1, <3>3 DEF RestTyped, Caught, Abandoned
      <4> QED BY <2>1, <3>3, <4>1, <4>2, TypeParts, Untouched DEF kept, asked, speech
    <3> QED BY <2>2, <3>1, <3>2, <3>3 DEF CutHere
  <2>3. CASE CutVoice
    <3>1. UNCHANGED <<round, attempt, history, pass, stored, slots>>
      BY <2>3 DEF CutVoice
    <3>2. PlaceTyped'
      BY <1>a, <2>1, <2>3 DEF PlaceTyped, CutVoice, Places, Errors
    <3>3. SpeechTyped'
      BY <1>a, <2>1, <2>3 DEF SpeechTyped, CutVoice, Silence, Dropped, Voices, VoiceOver
    <3>4. RestTyped'
      BY <1>a, <2>1, <2>3 DEF RestTyped, CutVoice
    <3> QED BY <2>1, <3>1, <3>2, <3>3, <3>4, TypeParts, Untouched DEF kept, asked
  <2>4. CASE CutSwallowed
    <3>1. RestTyped'
      BY <1>a, <2>1, <2>4 DEF RestTyped, CutSwallowed
    <3> QED BY <2>1, <2>4, <3>1, TypeParts, Untouched
            DEF CutSwallowed, place, kept, asked, speech
  <2>5. CASE CutSettling
    <3>1. PlaceTyped' /\ RestTyped'
      BY <1>a, <2>1, <2>5 DEF CutSettling, PlaceTyped, RestTyped, Places, Errors
    <3>2. KeptTyped'
      BY <1>a, <2>1, <2>5, RecordTurnSaid DEF CutSettling, KeptTyped
    <3> QED BY <2>1, <2>5, <3>1, <3>2, TypeParts, Untouched DEF CutSettling, asked, speech
  <2> QED BY <1>21, <2>2, <2>3, <2>4, <2>5 DEF Cut
<1>22. CASE UNCHANGED vars
  BY <1>22, Untouched, TypeParts DEF vars
<1> QED
  BY <1>1, <1>2, <1>3, <1>4, <1>5, <1>6, <1>7, <1>8, <1>9, <1>10, <1>11, <1>12, <1>13, <1>14,
     <1>15, <1>16, <1>17, <1>18, <1>19, <1>20, <1>21, <1>22
  DEF Next, ModelStep, ReplyStep, TaskStep

\* Everything of a reply keeps its type.
THEOREM TypeCorrect == Spec => []TypeOK
<1>1. Init => TypeOK
  BY TypeInit
<1>2. TypeOK /\ [Next]_vars => TypeOK'
  BY TypeStep
<1> QED BY <1>1, <1>2, PTL DEF Spec

-----------------------------------------------------------------------------
(* The invariant.                                                          *)

\* A move is of the first leg, and of one that has not ended.
FirstLeg ==
  /\ leg = 2 => ~Moved
  /\ pc \in {"recapping", "storing"} => leg = 1

\* A voice that has begun and is not over.
Live(s) == voice[s] \notin {"none"} \cup VoiceOver

\* Behind the last sentence and the last round.
Ending == {"excusing", "settling", "over"}

\* What was heard is what was written, leg behind leg.
InOrder ==
  /\ \A i \in DOMAIN aired[1] : aired[1][i] = i
  /\ \A i \in DOMAIN aired[2] : aired[2][i] = Len(aired[1]) + i
  /\ leg = 1 => aired[2] = <<>>
  /\ spoken = aired[leg]

Count == Len(aired[1]) + Len(aired[2])

\* One voice at a time, that of the sentence behind those heard.
OneVoice ==
  /\ \A s \in Sentences : Live(s) => s = speaking
  /\ speaking # 0 =>
       /\ voice[speaking] # "none"
       /\ Count = IF voice[speaking] = "said" THEN speaking ELSE speaking - 1

\* A sentence that waits is the one behind it, and where nobody speaks all of
\* them were heard.
Queue ==
  /\ speaking = 0 /\ pc \notin Ending => Count = last
  /\ pc \in {"streaming", "roundend", "recapping"} /\ speaking # 0 => last = speaking
  /\ pc \in Queueing =>
       /\ last = speaking + 1 /\ voice[last] = "none" /\ synth[last] # "cancel"
  /\ pc \in Queueing \cup {"roundend", "recapping", "dropping", "cleanup"} => speaking # 0
  /\ pc \in {"asking", "tools", "draining", "storing"} \cup Ending => speaking = 0

OneBehindAnother == OneVoice /\ Queue

\* A sentence that has not begun has nothing.
Unbegun ==
  \A s \in Sentences : s > last =>
    voice[s] = "none" /\ synth[s] = "none" /\ ready[s] = 0 /\ given[s] = 0

\* While a clip is there, what a synthesis has given has not been taken; one
\* that is being spoken has not been dropped.
Waits(s) ==
  voice[s] \in {"none", "new", "announcing"} \/ (voice[s] = "listening" /\ clip # "none")
UntakenOf(s) ==
  /\ Waits(s) =>
       \/ synth[s] = "cancel"
       \/ given[s] = ready[s] + IF synth[s] = "holding" THEN 1 ELSE 0
  /\ voice[s] \in {"new", "announcing", "listening", "sending"} => synth[s] # "cancel"
  /\ voice[s] = "said" => synth[s] \notin Pulling
Untaken == \A s \in Sentences : UntakenOf(s)

\* A clip that is there behind something heard was armed for a lookup, whose
\* answer takes what was heard with it into the history.
ClipOverKept ==
  cuts = 0 /\ Sounded /\ clip # "none" =>
    \/ pass.kept = Len(spoken)
    \/ pc = "tools" /\ InRound(Lookups) # {}

\* What the history and the record hold so far.
Kept ==
  /\ tools = issued
  /\ pc # "over" => /\ history[leg].said = SubSeq(aired[leg], 1, pass.kept)
                    /\ stored[leg] = Unsaid
  /\ leg = 2 => /\ history[1].said = aired[1]
                /\ stored[1].said = aired[1] /\ stored[1].calls = issued[1]
  /\ leg = 1 => history[2] = Unheard /\ stored[2] = Unsaid /\ issued[2] = <<>>
  /\ pc = "over" =>
       /\ Prefix(history[leg].said, aired[leg])
       /\ stored[leg].said = aired[leg] /\ stored[leg].calls = issued[leg]
       /\ cuts < 2 /\ Sounded => history[leg].said = aired[leg]

IssuedOn(l, c) == \E i \in DOMAIN issued[l] : issued[l][i] = c
Open(l, c) == l = leg /\ pc = "tools" /\ c \in InRound(Calls)

\* A call is issued once, on one leg; the round in hand is of this leg, and has
\* no answer before its tools.
CallsIssued ==
  /\ \A c \in Calls : call[c] = "none" <=> ~IssuedOn(1, c) /\ ~IssuedOn(2, c)
  /\ \A c \in Calls : ~(IssuedOn(1, c) /\ IssuedOn(2, c))
  /\ \A c \in Calls : call[c] = "moved" => c \in Moves
  /\ \A c \in InRound(Calls) : IssuedOn(leg, c)
  /\ pc \in {"flushing", "roundend"} => \A c \in InRound(Calls) : call[c] = "reserved"

\* What was answered is with one round, but for the round in hand.
With(l, c) == \E i \in DOMAIN history[l].rounds : c \in history[l].rounds[i]
CallsWithRounds ==
  \A l \in Legs :
    /\ \A c \in Calls : With(l, c) <=> call[c] = "answered" /\ IssuedOn(l, c) /\ ~Open(l, c)
    /\ \A i, j \in DOMAIN history[l].rounds :
         i # j => history[l].rounds[i] \cap history[l].rounds[j] = {}

CallsKept == CallsIssued /\ CallsWithRounds

AllSilent == aired[1] = <<>> /\ aired[2] = <<>>

\* What is said of silence.
Told ==
  /\ pass.spoke <=> leg = 2 /\ aired[1] # <<>>
  /\ pc \notin Ending => (thrown # "none" <=> pc \in {"dropping", "cleanup"})
  /\ phrase # "none" => pc \in {"settling", "over"}
  /\ phrase = "nothing" => AllSilent
  /\ pc = "excusing" => thrown = "failed" \/ (thrown = "none" /\ pass.withheld /\ AllSilent)
  /\ pc \in {"settling", "over"} /\ thrown = "none" /\ pass.withheld /\ AllSilent =>
       phrase = "nothing"

PassInv ==
  /\ TypeOK /\ FirstLeg /\ InOrder /\ OneBehindAnother /\ Unbegun /\ Untaken /\ ClipOverKept
  /\ Kept /\ CallsKept /\ Told

-----------------------------------------------------------------------------
(* What moves what.                                                        *)

\* What was heard grows by a sentence, and changes leg at a boundary.
LEMMA HeardMoves ==
  ASSUME [Next]_vars
  PROVE  \/ UNCHANGED <<leg, spoken, aired>>
         \/ \E s \in Sentences : Spoken(s)
         \/ Boundary /\ UNCHANGED aired /\ (pc = "storing" \/ Moved)
<1>1. CASE ModelStep
  BY <1>1 DEF ModelStep, FirstEvent, Sentence, Withheld, StreamFails, ModelDone, kept, place
<1>2. CASE Stalled \/ Queued \/ SeenDown \/ CleanedUp \/ SpokenOut \/ ToolsOver \/ Recapped
           \/ Excuse \/ Settled
  BY <1>2 DEF Stalled, Queued, SeenDown, CleanedUp, SpokenOut, ToolsOver, Recapped, Excuse,
              Settled, kept, place
<1>3. CASE Drained \/ Stored
  BY <1>3 DEF Drained, Stored, kept
<1>4. CASE \E c \in Calls : Answer(c) \/ MoveGranted(c)
  BY <1>4 DEF Answer, MoveGranted, kept, place
<1>5. CASE ClipStep \/ Cut
  BY <1>5 DEF ClipStep, Cut, kept, place
<1>6. CASE \E s \in Sentences : SynthesisStep(s)
  BY <1>6 DEF SynthesisStep, ChunkGiven, RoomMade, StreamOver, kept, place
<1>7. CASE \E s \in Sentences : VoiceStep(s)
  BY <1>7 DEF VoiceStep, VoiceStarts, Announced, ChunkTaken, ChunkSent, VoiceEnds, kept, place
<1>8. CASE UNCHANGED vars
  BY <1>8 DEF vars, kept, place
<1> QED
  BY <1>1, <1>2, <1>3, <1>4, <1>5, <1>6, <1>7, <1>8 DEF Next, ReplyStep, TaskStep

\* A leg that has moved is the first.
LEMMA MovesOnce ==
  ASSUME TypeOK, FirstLeg, Boundary, pc = "storing" \/ Moved
  PROVE  leg = 1
BY DEF TypeOK, FirstLeg, Legs

LEMMA FirstLegStep ==
  ASSUME TypeOK, FirstLeg, [Next]_vars
  PROVE  FirstLeg'
<1>a. leg \in {1, 2} /\ call \in [Calls -> {"none", "reserved", "answered", "moved"}]
  BY DEF TypeOK, Legs
<1> DEFINE Recaps == pc \in {"recapping", "storing"}
<1>b. ASSUME UNCHANGED <<leg, slots, call>>, Recaps' => Recaps \/ Moved
      PROVE  FirstLeg'
  <2>1. Moved' <=> Moved
    BY <1>b DEF Moved, InRound
  <2> QED BY <1>a, <1>b, <2>1 DEF FirstLeg
<1>c. ASSUME slots' = <<>>, pc' \in {"asking", "draining"}
      PROVE  FirstLeg'
  BY <1>c DEF FirstLeg, Moved, InRound
<1>1. CASE FirstEvent \/ Sentence \/ Withheld \/ StreamFails
  <2>1. UNCHANGED <<leg, slots, call>> /\ (Recaps' => Recaps)
    BY <1>1
       DEF FirstEvent, Sentence, Withheld, StreamFails, place, asked, SpeakAfter, Unwind,
           Caught
  <2> QED BY <1>b, <2>1
<1>2. CASE ModelDone
  <2>1. PICK calls \in Rounds :
          /\ slots' = calls
          /\ call' = [c \in Calls |->
                        IF \E i \in DOMAIN calls : calls[i] = c THEN "reserved" ELSE call[c]]
    BY <1>2 DEF ModelDone
  <2>2. ~Moved'
    <3>1. \A m \in InRound(Moves)' : m \in Calls /\ \E i \in DOMAIN calls : calls[i] = m
      BY <2>1 DEF InRound
    <3> QED BY <2>1, <3>1 DEF Moved
  <2>3. pc' \notin {"recapping", "storing"}
    BY <1>2 DEF ModelDone, SpeakAfter, RoundOver
  <2> QED BY <2>2, <2>3 DEF FirstLeg
<1>3. CASE Stalled \/ Queued \/ SeenDown \/ CleanedUp \/ SpokenOut \/ Recapped \/ Excuse \/ Settled
  <2>1. UNCHANGED <<leg, slots, call>> /\ (Recaps' => Recaps)
    BY <1>3 DEF Stalled, Queued, SeenDown, CleanedUp, SpokenOut, Recapped, Excuse, Settled, asked,
                Caught, RoundOver
  <2> QED BY <1>b, <2>1
<1>4. CASE ToolsOver
  BY <1>4, <1>b, <1>c DEF ToolsOver, ToolsEnd, Caught
<1>5. CASE Drained \/ Stored
  <2>1. CASE Boundary
    BY <1>c, <2>1 DEF Boundary
  <2>2. CASE ~Boundary
    <3>1. UNCHANGED <<leg, slots, call>> /\ (Recaps' => Recaps \/ Moved)
      BY <1>5, <2>2 DEF Drained, Stored, LegEnds, Caught, SpeakAfter
    <3> QED BY <1>b, <3>1
  <2> QED BY <2>1, <2>2
<1>6. CASE \E c \in Calls : Answer(c)
  <2>1. PICK c \in Calls : Answer(c)
    BY <1>6
  <2>2. UNCHANGED <<leg, slots, pc>> /\ (Moved' => Moved)
    BY <1>a, <2>1 DEF Answer, Moved, InRound, place
  <2> QED BY <2>2 DEF FirstLeg
<1>7. CASE \E c \in Calls : MoveGranted(c)
  BY <1>7 DEF MoveGranted, FirstLeg, place
<1>8. CASE ClipStep \/ \E s \in Sentences : SynthesisStep(s) \/ VoiceStep(s)
  <2>1. UNCHANGED <<pc, leg, slots, call>>
    BY <1>8 DEF ClipStep, SynthesisStep, VoiceStep, ChunkGiven, RoomMade, StreamOver, VoiceStarts,
                Announced, ChunkTaken, ChunkSent, Spoken, VoiceEnds, place, asked
  <2> QED BY <1>b, <2>1
<1>9. CASE Cut
  <2>1. UNCHANGED <<leg, slots, call>> /\ (Recaps' => Recaps)
    BY <1>9 DEF Cut, CutHere, CutVoice, CutSwallowed, CutSettling, ToolsEnd, Unwind, Caught
  <2> QED BY <1>b, <2>1
<1>10. CASE UNCHANGED vars
  BY <1>b, <1>10 DEF vars, place, asked
<1> QED
  BY <1>1, <1>2, <1>3, <1>4, <1>5, <1>6, <1>7, <1>8, <1>9, <1>10
  DEF Next, ModelStep, ReplyStep, TaskStep

LEMMA InOrderStep ==
  ASSUME PassInv, [Next]_vars
  PROVE  InOrder'
<1>a. /\ aired \in [Legs -> Seq(Sentences)] /\ spoken \in Seq(Sentences) /\ leg \in {1, 2}
  BY DEF PassInv, TypeOK, Legs
<1>1. CASE UNCHANGED <<leg, spoken, aired>>
  BY <1>1 DEF PassInv, InOrder
<1>2. CASE \E s \in Sentences : Spoken(s)
  <2>1. PICK s \in Sentences : Spoken(s)
    BY <1>2
  <2>2. CASE UNCHANGED <<leg, spoken, aired>>
    BY <1>1, <2>2
  <2>3. CASE spoken' = Append(spoken, s) /\ aired' = [aired EXCEPT ![leg] = Append(aired[leg], s)]
             /\ leg' = leg
    <3>1. s = Len(aired[1]) + Len(aired[2]) + 1
      <4>1. Live(s)
        BY <2>1 DEF Spoken, Live, VoiceOver
      <4>2. s = speaking /\ s # 0 /\ voice[s] # "said"
        BY <2>1, <4>1 DEF PassInv, OneBehindAnother, OneVoice, Sentences, Spoken
      <4> QED BY <1>a, <4>2 DEF PassInv, OneBehindAnother, OneVoice, Count, Sentences, Legs
    <3>2. /\ aired'[leg] = Append(aired[leg], s)
          /\ \A l \in Legs \ {leg} : aired'[l] = aired[l]
      BY <1>a, <2>3 DEF Legs
    <3>3. /\ Len(Append(aired[leg], s)) = Len(aired[leg]) + 1
          /\ \A i \in 1 .. Len(aired[leg]) : Append(aired[leg], s)[i] = aired[leg][i]
          /\ Append(aired[leg], s)[Len(aired[leg]) + 1] = s
          /\ Append(aired[leg], s) \in Seq(Sentences)
      BY <1>a, AppendProperties DEF Legs
    <3>4. CASE leg = 1
      <4>1. Len(aired[2]) = 0 /\ aired'[2] = <<>> /\ leg' = 1 /\ aired[2] = <<>>
        BY <1>a, <2>3, <3>2, <3>4 DEF PassInv, InOrder, Legs
      <4>2. \A i \in DOMAIN aired'[1] : aired'[1][i] = i
        <5>1. /\ DOMAIN aired'[1] = 1..Len(aired[1]) + 1 /\ Len(aired[1]) \in Nat
              /\ DOMAIN aired[1] = 1..Len(aired[1])
          BY <1>a, <3>2, <3>3, <3>4 DEF Legs
        <5>2. aired'[1] = Append(aired[1], s) /\ s = Len(aired[1]) + 1
          BY <1>a, <3>1, <3>2, <3>4, <4>1 DEF Legs
        <5> QED BY <3>3, <3>4, <5>1, <5>2 DEF PassInv, InOrder
      <4> QED BY <1>a, <2>3, <3>2, <3>4, <4>1, <4>2 DEF PassInv, InOrder, Legs
    <3>5. CASE leg = 2
      <4>1. aired'[1] = aired[1] /\ leg' = 2
        BY <2>3, <3>2, <3>5 DEF Legs
      <4>2. \A i \in DOMAIN aired'[2] : aired'[2][i] = Len(aired[1]) + i
        <5>1. /\ DOMAIN aired'[2] = 1..Len(aired[2]) + 1 /\ Len(aired[2]) \in Nat
              /\ DOMAIN aired[2] = 1..Len(aired[2])
              /\ Len(aired[1]) \in Nat
          BY <1>a, <3>2, <3>3, <3>5 DEF Legs
        <5>2. aired'[2] = Append(aired[2], s) /\ s = Len(aired[1]) + (Len(aired[2]) + 1)
          BY <1>a, <3>1, <3>2, <3>5, <5>1 DEF Legs
        <5>3. SUFFICES ASSUME NEW i \in 1..Len(aired[2]) + 1
                       PROVE  Append(aired[2], s)[i] = Len(aired[1]) + i
          BY <5>1, <5>2
        <5>4. CASE i \in 1..Len(aired[2])
          BY <3>3, <3>5, <5>1, <5>4 DEF PassInv, InOrder
        <5>5. CASE i = Len(aired[2]) + 1
          BY <3>3, <3>5, <5>2, <5>5
        <5> QED BY <5>1, <5>4, <5>5
      <4> QED BY <1>a, <2>3, <3>2, <3>5, <4>1, <4>2 DEF PassInv, InOrder, Legs
    <3> QED BY <1>a, <3>4, <3>5
  <2> QED BY <2>1, <2>2, <2>3 DEF Spoken, place
<1>3. CASE Boundary /\ UNCHANGED aired /\ (pc = "storing" \/ Moved)
  <2>1. leg = 1 /\ leg' = 2 /\ spoken' = <<>>
    BY <1>3, MovesOnce DEF PassInv, Boundary
  <2> QED BY <1>3, <2>1 DEF PassInv, InOrder
<1> QED BY <1>1, <1>2, <1>3, HeardMoves

LEMMA CountMoves ==
  ASSUME TypeOK, [Next]_vars
  PROVE  /\ Count \in Nat
         /\ UNCHANGED aired => Count' = Count
         /\ \A s \in Sentences :
              aired' = [aired EXCEPT ![leg] = Append(aired[leg], s)] => Count' = Count + 1
<1>1. /\ aired[1] \in Seq(Sentences) /\ aired[2] \in Seq(Sentences)
      /\ aired \in [Legs -> Seq(Sentences)] /\ leg \in {1, 2} /\ Legs = {1, 2}
  BY DEF TypeOK, Legs
<1>2. Count \in Nat
  BY <1>1 DEF Count
<1>3. ASSUME NEW s \in Sentences, aired' = [aired EXCEPT ![leg] = Append(aired[leg], s)]
      PROVE  Count' = Count + 1
  <2>1. Len(Append(aired[leg], s)) = Len(aired[leg]) + 1
    <3>1. aired[leg] \in Seq(Sentences)
      BY <1>1
    <3> QED BY <3>1, AppendProperties
  <2>2. CASE leg = 1
    <3>1. Len(aired'[1]) = Len(aired[1]) + 1 /\ aired'[2] = aired[2]
      BY <1>1, <1>3, <2>1, <2>2
    <3> QED BY <1>1, <3>1 DEF Count
  <2>3. CASE leg = 2
    <3>1. Len(aired'[2]) = Len(aired[2]) + 1 /\ aired'[1] = aired[1]
      BY <1>1, <1>3, <2>1, <2>3
    <3> QED BY <1>1, <3>1 DEF Count
  <2> QED BY <1>1, <2>2, <2>3
<1>4. UNCHANGED aired => Count' = Count
  BY DEF Count
<1> QED BY <1>2, <1>3, <1>4

\* A sentence behind another keeps one voice: it speaks at once, waits, or is
\* dropped.
LEMMA SpeakAfterOrder ==
  ASSUME TypeOK, OneVoice, Queue, Unbegun, UNCHANGED aired, Count \in Nat, Count' = Count,
         NEW behind, NEW next, SpeakAfter(behind, next), pc \in {"streaming", "draining"}
  PROVE  /\ OneVoice' /\ last' = last + 1
         /\ \/ pc' = next /\ speaking' = last' /\ speaking' # 0
            \/ /\ pc' = behind /\ speaking' = speaking /\ speaking # 0 /\ last' = speaking + 1
               /\ voice'[last'] = "none" /\ synth'[last'] # "cancel"
            \/ pc' = "dropping" /\ speaking' = speaking /\ speaking # 0
<1>a. SpeechTyped /\ last + 1 \in Sentences /\ last \in Nat /\ speaking \in Nat /\ last' = last + 1
  BY SMTT(30), TypeParts DEF SpeechTyped, SpeakAfter, Sentences
<1>b. voice[last + 1] = "none" /\ (speaking # 0 => last = speaking)
  BY <1>a DEF Unbegun, Queue, Ending
<1>1. CASE speaking = 0 \/ voice[speaking] = "said"
  <2>1. voice' = [voice EXCEPT ![last + 1] = "new"] /\ speaking' = last + 1 /\ pc' = next
    BY <1>1 DEF SpeakAfter
  <2>2. \A s \in Sentences : Live(s)' => s = speaking'
    <3>1. \A s \in Sentences : ~Live(s)
      BY <1>a, <1>1 DEF OneVoice, Live, VoiceOver, Sentences
    <3> QED BY <1>a, <2>1, <3>1 DEF Live, VoiceOver, SpeechTyped
  <2>3. Count = last
    BY <1>a, <1>b, <1>1 DEF OneVoice, Queue, Ending
  <2>4. voice'[speaking'] = "new"
    BY <1>a, <2>1 DEF SpeechTyped
  <2> QED BY <1>a, <2>1, <2>2, <2>3, <2>4 DEF OneVoice
<1>2. CASE ~(speaking = 0 \/ voice[speaking] = "said")
  <2>1. UNCHANGED <<voice, speaking>>
    BY <1>2 DEF SpeakAfter
  <2>2. OneVoice'
    BY <2>1 DEF OneVoice, Live
  <2>3. \/ pc' = "dropping"
        \/ pc' = behind /\ synth' = [synth EXCEPT ![last + 1] = "pulling"]
    BY <1>2 DEF SpeakAfter, Ahead
  <2> QED BY <1>a, <1>b, <1>2, <2>1, <2>2, <2>3 DEF SpeechTyped
<1> QED BY <1>1, <1>2

LEMMA OneBehindAnotherStep ==
  ASSUME PassInv, [Next]_vars
  PROVE  OneBehindAnother'
<1>a. /\ TypeOK /\ SpeechTyped /\ OneVoice /\ Queue /\ Unbegun
      /\ Count \in Nat /\ (UNCHANGED aired => Count' = Count)
      /\ speaking \in Nat /\ last \in Nat
  BY CountMoves, TypeParts DEF PassInv, OneBehindAnother, SpeechTyped
<1>1. CASE FirstEvent
  BY <1>1, <1>a
     DEF FirstEvent, speech, kept, asked, OneBehindAnother, OneVoice, Queue, SpeechTyped,
         Sentences, Live, Ending, VoiceOver, Queueing
<1>2. CASE Sentence
  <2>1. /\ SpeakAfter("queueing", "streaming") /\ pc \in {"streaming", "draining"}
        /\ UNCHANGED aired
    BY <1>2 DEF Sentence, kept
  <2>2. OneVoice'
    BY <1>a, <2>1, SpeakAfterOrder
  <2>3. Queue'
    BY <1>a, <2>1, SpeakAfterOrder DEF Queue, Queueing, Ending
  <2> QED BY <2>2, <2>3 DEF OneBehindAnother
<1>3. CASE Withheld
  BY <1>3, <1>a
     DEF Withheld, place, speech, asked, OneBehindAnother, OneVoice, Queue, SpeechTyped,
         Sentences, Live, Ending, VoiceOver, Queueing
<1>4. CASE StreamFails
  BY <1>4, <1>a
     DEF StreamFails, Unwind, Caught, Silence, Dropped, kept, asked, OneBehindAnother,
         OneVoice, Queue, SpeechTyped, Sentences, Live, Ending, VoiceOver, Queueing
<1>5. CASE ModelDone
  <2>a. UNCHANGED aired /\ Count' = Count
    BY <1>a, <1>5 DEF ModelDone, kept
  <2>1. CASE SpeakAfter("flushing", "roundend") /\ pc \in {"streaming", "draining"}
    <3>1. OneVoice'
      BY <1>a, <2>a, <2>1, SpeakAfterOrder
    <3>2. Queue'
      BY <1>a, <2>a, <2>1, SpeakAfterOrder DEF Queue, Queueing, Ending
    <3> QED BY <3>1, <3>2 DEF OneBehindAnother
  <2>2. CASE /\ IF speaking = 0 THEN pc' \in {"tools", "draining"} ELSE pc' = "roundend"
             /\ UNCHANGED <<last, speaking, voice, synth>>
    <3>1. OneVoice'
      BY <1>a, <2>a, <2>2 DEF OneVoice, Live
    <3>2. Queue'
      BY <1>a, <2>a, <2>2, <1>5 DEF ModelDone, Queue, Queueing, Ending
    <3> QED BY <3>1, <3>2 DEF OneBehindAnother
  <2> QED BY <1>5, <2>1, <2>2 DEF ModelDone, RoundOver
<1>6. CASE Stalled
  BY <1>6, <1>a
     DEF Stalled, Caught, speech, kept, asked, OneBehindAnother, OneVoice, Queue, SpeechTyped,
         Sentences, Live, Ending, VoiceOver, Queueing
<1>7. CASE Queued
  <2>a. UNCHANGED aired /\ Count' = Count /\ UNCHANGED last
    BY <1>a, <1>7 DEF Queued, kept
  <2>b. last = speaking + 1 /\ last \in Sentences /\ speaking # 0 /\ speaking \in Sentences
    BY <1>a, <1>7 DEF Queued, Queue, SpeechTyped, Sentences
  <2>c. \A s \in Sentences : ~Live(s)
    BY <1>a, <1>7 DEF Queued, OneVoice, Live
  <2>1. CASE voice[speaking] = "said"
    <3>1. voice' = [voice EXCEPT ![last] = "new"] /\ speaking' = last
          /\ pc' \in {"roundend", "streaming"}
      BY <1>7, <2>1 DEF Queued
    <3>2. OneVoice'
      BY <1>a, <2>a, <2>b, <2>c, <2>1, <3>1 DEF OneVoice, Live, SpeechTyped, VoiceOver
    <3>3. Queue'
      BY <1>a, <2>a, <2>b, <3>1 DEF Queue, Queueing, Ending
    <3> QED BY <3>2, <3>3 DEF OneBehindAnother
  <2>2. CASE voice[speaking] # "said"
    <3>1. UNCHANGED <<voice, speaking>> /\ pc' = "dropping"
      BY <1>7, <2>2 DEF Queued
    <3>2. OneVoice'
      BY <1>a, <2>a, <3>1 DEF OneVoice, Live
    <3>3. Queue'
      BY <1>a, <2>b, <3>1 DEF Queue, Queueing, Ending
    <3> QED BY <3>2, <3>3 DEF OneBehindAnother
  <2> QED BY <2>1, <2>2
<1>8. CASE SeenDown
  BY <1>8, <1>a
     DEF SeenDown, speech, kept, asked, OneBehindAnother, OneVoice, Queue, SpeechTyped,
         Sentences, Live, Ending, VoiceOver, Queueing
<1>9. CASE CleanedUp
  BY <1>9, <1>a
     DEF CleanedUp, Caught, kept, asked, OneBehindAnother, OneVoice, Queue, SpeechTyped,
         Sentences, Live, Ending, VoiceOver, Queueing
<1>10. CASE SpokenOut
  BY <1>10, <1>a
     DEF SpokenOut, RoundOver, kept, asked, OneBehindAnother, OneVoice, Queue, SpeechTyped,
         Sentences, Live, Ending, VoiceOver, Queueing
<1>11. CASE ToolsOver
  BY <1>11, <1>a
     DEF ToolsOver, ToolsEnd, Caught, speech, OneBehindAnother, OneVoice, Queue, SpeechTyped,
         Sentences, Live, Ending, VoiceOver, Queueing
<1>12. CASE Drained
  <2>a. UNCHANGED aired /\ Count' = Count /\ pc = "draining"
    BY <1>a, <1>12 DEF Drained, Boundary, kept
  <2>1. CASE SpeakAfter("queueing", "recapping")
    <3>1. OneVoice'
      BY <1>a, <2>a, <2>1, SpeakAfterOrder
    <3>2. Queue'
      BY <1>a, <2>a, <2>1, SpeakAfterOrder DEF Queue, Queueing, Ending
    <3> QED BY <3>1, <3>2 DEF OneBehindAnother
  <2>2. CASE UNCHANGED <<last, speaking, voice, synth>> /\ pc' \in Ending \cup {"asking"}
    BY <1>a, <2>a, <2>2 DEF OneBehindAnother, OneVoice, Queue, Live, Queueing, Ending
  <2> QED BY <1>12, <2>1, <2>2 DEF Drained, LegEnds, Boundary, Caught, Ending, speech
<1>13. CASE Recapped
  BY <1>13, <1>a
     DEF Recapped, kept, asked, OneBehindAnother, OneVoice, Queue, SpeechTyped, Sentences,
         Live, Ending, VoiceOver, Queueing
<1>14. CASE Stored
  BY <1>14, <1>a
     DEF Stored, Boundary, Caught, speech, kept, OneBehindAnother, OneVoice, Queue,
         SpeechTyped, Sentences, Live, Ending, VoiceOver, Queueing
<1>15. CASE Excuse
  BY <1>15, <1>a
     DEF Excuse, speech, kept, asked, OneBehindAnother, OneVoice, Queue, SpeechTyped,
         Sentences, Live, Ending, VoiceOver, Queueing
<1>16. CASE Settled
  BY <1>16, <1>a
     DEF Settled, speech, asked, OneBehindAnother, OneVoice, Queue, SpeechTyped, Sentences,
         Live, Ending, VoiceOver, Queueing
<1>17. ASSUME NEW c \in Calls, Answer(c) \/ MoveGranted(c) PROVE OneBehindAnother'
  BY <1>17, <1>a
     DEF Answer, MoveGranted, place, speech, kept, OneBehindAnother, OneVoice, Queue,
         SpeechTyped, Sentences, Live, Ending, VoiceOver, Queueing
<1>18. CASE ClipStep
  BY <1>18, <1>a
     DEF ClipStep, place, speech, kept, asked, OneBehindAnother, OneVoice, Queue, SpeechTyped,
         Sentences, Live, Ending, VoiceOver, Queueing
<1>19. ASSUME NEW s \in Sentences, SynthesisStep(s) PROVE OneBehindAnother'
  <2>1. UNCHANGED <<place, last, speaking, voice, aired>>
    BY <1>19 DEF SynthesisStep, ChunkGiven, RoomMade, StreamOver, kept
  <2>2. \A r \in Sentences : synth[r] # "cancel" => synth'[r] # "cancel"
    BY <1>a, <1>19 DEF SynthesisStep, ChunkGiven, RoomMade, StreamOver, SpeechTyped
  <2>3. OneVoice'
    BY <1>a, <2>1 DEF OneVoice, Live
  <2>4. Queue'
    <3>1. pc \in Queueing => last \in Sentences
      BY <1>a DEF Queue, SpeechTyped, Sentences
    <3> QED BY <1>a, <2>1, <2>2, <3>1 DEF Queue, place
  <2> QED BY <2>3, <2>4 DEF OneBehindAnother
<1>20. ASSUME NEW s \in Sentences, VoiceStarts(s) \/ Announced(s) PROVE OneBehindAnother'
  <2>1. s = speaking /\ voice[s] # "said"
    BY <1>a, <1>20 DEF VoiceStarts, Announced, OneVoice, Live, VoiceOver
  <2>2. UNCHANGED <<place, last, speaking, synth, aired>>
    BY <1>20 DEF VoiceStarts, Announced, kept
  <2>3. PICK v \in {"announcing", "listening", "gone"} : voice' = [voice EXCEPT ![s] = v]
    BY <1>20 DEF VoiceStarts, Announced
  <2>4. OneVoice'
    BY <1>a, <2>1, <2>2, <2>3 DEF OneVoice, Live, SpeechTyped, VoiceOver
  <2>5. Queue'
    BY <1>a, <2>1, <2>2, <2>3 DEF Queue, place, SpeechTyped
  <2> QED BY <2>4, <2>5 DEF OneBehindAnother
<1>21. ASSUME NEW s \in Sentences, ChunkTaken(s) PROVE OneBehindAnother'
  BY <1>21, <1>a
     DEF ChunkTaken, place, kept, asked, OneBehindAnother, OneVoice, Queue, SpeechTyped,
         Sentences, Live, Ending, VoiceOver, Queueing
<1>22. ASSUME NEW s \in Sentences, ChunkSent(s) PROVE OneBehindAnother'
  BY SMTT(30), <1>22, <1>a
     DEF ChunkSent, Dropped, place, kept, asked, OneBehindAnother, OneVoice, Queue,
         SpeechTyped, Sentences, Live, Ending, VoiceOver, Queueing
<1>23. ASSUME NEW s \in Sentences, Spoken(s) PROVE OneBehindAnother'
  <2>1. s = speaking /\ voice[s] # "said" /\ speaking # 0
    BY <1>a, <1>23 DEF Spoken, OneVoice, Live, VoiceOver, Sentences
  <2>2. UNCHANGED <<place, last, speaking, synth>>
    BY <1>23 DEF Spoken
  <2>3. \/ voice' = [voice EXCEPT ![s] = "failed"] /\ Count' = Count
        \/ voice' = [voice EXCEPT ![s] = "said"] /\ Count' = Count + 1
    BY <1>a, <1>23, CountMoves DEF Spoken
  <2>4. OneVoice'
    BY <1>a, <2>1, <2>2, <2>3 DEF OneVoice, Live, SpeechTyped, VoiceOver
  <2>5. Queue'
    <3>1. PICK v \in {"failed", "said"} : voice' = [voice EXCEPT ![s] = v]
      BY <2>3
    <3> QED BY <1>a, <2>1, <2>2, <3>1 DEF Queue, place, SpeechTyped
  <2> QED BY <2>4, <2>5 DEF OneBehindAnother
<1>24. ASSUME NEW s \in Sentences, VoiceEnds(s) PROVE OneBehindAnother'
  BY <1>24, <1>a
     DEF VoiceEnds, place, kept, asked, OneBehindAnother, OneVoice, Queue, SpeechTyped,
         Sentences, Live, Ending, VoiceOver, Queueing
<1>25. ASSUME CutHere, Cut PROVE OneBehindAnother'
  BY SMTT(30), <1>25, <1>a
     DEF CutHere, Cut, ToolsEnd, Unwind, Caught, Silence, Dropped, OneBehindAnother, OneVoice,
         Queue, SpeechTyped, Sentences, Live, Ending, VoiceOver, Queueing
<1>26. ASSUME CutVoice, Cut PROVE OneBehindAnother'
  <2>a. UNCHANGED <<aired, last, speaking>> /\ Count' = Count
    BY <1>a, <1>26 DEF Cut
  <2>b. speaking # 0 /\ speaking \in Sentences
    BY <1>a, <1>26 DEF CutVoice, Queue, SpeechTyped, Sentences
  <2>1. CASE voice[speaking] \in VoiceOver
    <3>1. UNCHANGED voice /\ pc' \in {"dropping", "cleanup"}
      BY <1>26, <2>1 DEF CutVoice
    <3> QED
      BY <1>a, <2>a, <2>b, <3>1 DEF OneBehindAnother, OneVoice, Live, Queue, Queueing, Ending
  <2>2. CASE voice[speaking] \notin VoiceOver
    <3>1. Silence(speaking) /\ UNCHANGED pc
      BY <1>26, <2>2 DEF CutVoice
    <3>2. OneVoice'
      BY <1>a, <2>a, <2>b, <2>2, <3>1 DEF OneVoice, Live, SpeechTyped, Silence, VoiceOver
    <3>3. Queue'
      BY <1>a, <2>a, <2>b, <3>1 DEF Queue, Silence, Dropped, SpeechTyped
    <3> QED BY <3>2, <3>3 DEF OneBehindAnother
  <2> QED BY <2>1, <2>2
<1>27. ASSUME CutSwallowed, Cut PROVE OneBehindAnother'
  BY <1>27, <1>a
     DEF CutSwallowed, Cut, OneBehindAnother, OneVoice, Queue, SpeechTyped, Sentences, Live,
         Ending, VoiceOver, Queueing
<1>28. ASSUME CutSettling, Cut PROVE OneBehindAnother'
  BY <1>28, <1>a
     DEF CutSettling, Cut, OneBehindAnother, OneVoice, Queue, SpeechTyped, Sentences, Live,
         Ending, VoiceOver, Queueing
<1>29. CASE UNCHANGED vars
  BY <1>29, <1>a
     DEF vars, place, speech, kept, asked, OneBehindAnother, OneVoice, Queue, SpeechTyped,
         Sentences, Live, Ending, VoiceOver, Queueing
<1> QED
  BY <1>1, <1>2, <1>3, <1>4, <1>5, <1>6, <1>7, <1>8, <1>9, <1>10, <1>11, <1>12, <1>13, <1>14,
     <1>15, <1>16, <1>17, <1>18, <1>19, <1>20, <1>21, <1>22, <1>23, <1>24, <1>25, <1>26, <1>27,
     <1>28, <1>29
  DEF Next, ModelStep, ReplyStep, TaskStep, VoiceStep, Cut

LEMMA UnbegunStep ==
  ASSUME PassInv, [Next]_vars
  PROVE  Unbegun'
<1>a. SpeechTyped /\ OneVoice /\ Queue /\ Unbegun /\ speaking \in Nat /\ last \in Nat
  BY TypeParts DEF PassInv, OneBehindAnother, SpeechTyped
<1>1. CASE FirstEvent
  BY <1>1, <1>a
     DEF FirstEvent, speech, kept, asked, Unbegun, SpeechTyped, OneVoice, Queue, Sentences,
         Live, VoiceOver, Queueing
<1>2. CASE Sentence
  BY <1>2, <1>a
     DEF Sentence, SpeakAfter, Ahead, kept, asked, Unbegun, SpeechTyped, OneVoice, Queue,
         Sentences, Live, VoiceOver, Queueing
<1>3. CASE Withheld
  BY <1>3, <1>a
     DEF Withheld, place, speech, asked, Unbegun, SpeechTyped, OneVoice, Queue, Sentences,
         Live, VoiceOver, Queueing
<1>4. CASE StreamFails
  BY <1>4, <1>a
     DEF StreamFails, Unwind, Caught, Silence, Dropped, kept, asked, Unbegun, SpeechTyped,
         OneVoice, Queue, Sentences, Live, VoiceOver, Queueing
<1>5. CASE ModelDone
  BY <1>5, <1>a
     DEF ModelDone, SpeakAfter, Ahead, RoundOver, kept, Unbegun, SpeechTyped, OneVoice, Queue,
         Sentences, Live, VoiceOver, Queueing
<1>6. CASE Stalled
  BY <1>6, <1>a
     DEF Stalled, Caught, speech, kept, asked, Unbegun, SpeechTyped, OneVoice, Queue,
         Sentences, Live, VoiceOver, Queueing
<1>7. CASE Queued
  BY <1>7, <1>a
     DEF Queued, Dropped, kept, asked, Unbegun, SpeechTyped, OneVoice, Queue, Sentences, Live,
         VoiceOver, Queueing
<1>8. CASE SeenDown
  BY <1>8, <1>a
     DEF SeenDown, speech, kept, asked, Unbegun, SpeechTyped, OneVoice, Queue, Sentences,
         Live, VoiceOver, Queueing
<1>9. CASE CleanedUp
  BY <1>9, <1>a
     DEF CleanedUp, Caught, kept, asked, Unbegun, SpeechTyped, OneVoice, Queue, Sentences,
         Live, VoiceOver, Queueing
<1>10. CASE SpokenOut
  BY <1>10, <1>a
     DEF SpokenOut, RoundOver, kept, asked, Unbegun, SpeechTyped, OneVoice, Queue, Sentences,
         Live, VoiceOver, Queueing
<1>11. CASE ToolsOver
  BY <1>11, <1>a
     DEF ToolsOver, ToolsEnd, Caught, speech, Unbegun, SpeechTyped, OneVoice, Queue,
         Sentences, Live, VoiceOver, Queueing
<1>12. CASE Drained
  BY SMTT(30), <1>12, <1>a
     DEF Drained, LegEnds, Boundary, SpeakAfter, Ahead, Caught, speech, kept, Unbegun,
         SpeechTyped, OneVoice, Queue, Sentences, Live, VoiceOver, Queueing
<1>13. CASE Recapped
  BY <1>13, <1>a
     DEF Recapped, kept, asked, Unbegun, SpeechTyped, OneVoice, Queue, Sentences, Live,
         VoiceOver, Queueing
<1>14. CASE Stored
  BY <1>14, <1>a
     DEF Stored, Boundary, Caught, speech, kept, Unbegun, SpeechTyped, OneVoice, Queue,
         Sentences, Live, VoiceOver, Queueing
<1>15. CASE Excuse
  BY <1>15, <1>a
     DEF Excuse, speech, kept, asked, Unbegun, SpeechTyped, OneVoice, Queue, Sentences, Live,
         VoiceOver, Queueing
<1>16. CASE Settled
  BY <1>16, <1>a
     DEF Settled, speech, asked, Unbegun, SpeechTyped, OneVoice, Queue, Sentences, Live,
         VoiceOver, Queueing
<1>17. ASSUME NEW c \in Calls, Answer(c) \/ MoveGranted(c) PROVE Unbegun'
  BY <1>17, <1>a
     DEF Answer, MoveGranted, place, speech, kept, Unbegun, SpeechTyped, OneVoice, Queue,
         Sentences, Live, VoiceOver, Queueing
<1>18. CASE ClipStep
  BY <1>18, <1>a
     DEF ClipStep, place, speech, kept, asked, Unbegun, SpeechTyped, OneVoice, Queue,
         Sentences, Live, VoiceOver, Queueing
<1>19. ASSUME NEW s \in Sentences, SynthesisStep(s) PROVE Unbegun'
  BY SMTT(30), <1>19, <1>a
     DEF SynthesisStep, ChunkGiven, RoomMade, StreamOver, place, kept, asked, Pulling,
         Unbegun, SpeechTyped, OneVoice, Queue, Sentences, Live, VoiceOver, Queueing
<1>20. ASSUME NEW s \in Sentences, VoiceStarts(s) \/ Announced(s) PROVE Unbegun'
  BY <1>20, <1>a
     DEF VoiceStarts, Announced, place, kept, asked, Unbegun, SpeechTyped, OneVoice, Queue,
         Sentences, Live, VoiceOver, Queueing
<1>21. ASSUME NEW s \in Sentences, ChunkTaken(s) PROVE Unbegun'
  BY <1>21, <1>a
     DEF ChunkTaken, place, kept, asked, Unbegun, SpeechTyped, OneVoice, Queue, Sentences,
         Live, VoiceOver, Queueing
<1>22. ASSUME NEW s \in Sentences, ChunkSent(s) PROVE Unbegun'
  BY <1>22, <1>a
     DEF ChunkSent, Dropped, place, kept, asked, Unbegun, SpeechTyped, OneVoice, Queue,
         Sentences, Live, VoiceOver, Queueing
<1>23. ASSUME NEW s \in Sentences, Spoken(s) PROVE Unbegun'
  BY <1>23, <1>a
     DEF Spoken, place, asked, Unbegun, SpeechTyped, OneVoice, Queue, Sentences, Live,
         VoiceOver, Queueing
<1>24. ASSUME NEW s \in Sentences, VoiceEnds(s) PROVE Unbegun'
  BY <1>24, <1>a
     DEF VoiceEnds, place, kept, asked, Unbegun, SpeechTyped, OneVoice, Queue, Sentences,
         Live, VoiceOver, Queueing
<1>25. ASSUME CutHere, Cut PROVE Unbegun'
  BY <1>25, <1>a
     DEF CutHere, Cut, ToolsEnd, Unwind, Caught, Silence, Dropped, Unbegun, SpeechTyped,
         OneVoice, Queue, Sentences, Live, VoiceOver, Queueing
<1>26. ASSUME CutVoice, Cut PROVE Unbegun'
  BY <1>26, <1>a
     DEF CutVoice, Cut, Silence, Dropped, Unbegun, SpeechTyped, OneVoice, Queue, Sentences,
         Live, VoiceOver, Queueing
<1>27. ASSUME CutSwallowed, Cut PROVE Unbegun'
  BY <1>27, <1>a
     DEF CutSwallowed, Cut, Unbegun, SpeechTyped, OneVoice, Queue, Sentences, Live, VoiceOver,
         Queueing
<1>28. ASSUME CutSettling, Cut PROVE Unbegun'
  BY <1>28, <1>a
     DEF CutSettling, Cut, Unbegun, SpeechTyped, OneVoice, Queue, Sentences, Live, VoiceOver,
         Queueing
<1>29. CASE UNCHANGED vars
  BY <1>29, <1>a
     DEF vars, place, speech, kept, asked, Unbegun, SpeechTyped, OneVoice, Queue, Sentences,
         Live, VoiceOver, Queueing
<1> QED
  BY <1>1, <1>2, <1>3, <1>4, <1>5, <1>6, <1>7, <1>8, <1>9, <1>10, <1>11, <1>12, <1>13, <1>14,
     <1>15, <1>16, <1>17, <1>18, <1>19, <1>20, <1>21, <1>22, <1>23, <1>24, <1>25, <1>26, <1>27,
     <1>28, <1>29
  DEF Next, ModelStep, ReplyStep, TaskStep, VoiceStep, Cut

LEMMA SpeakAfterUntaken ==
  ASSUME TypeOK, Unbegun, Untaken, UNCHANGED <<ready, given, clip>>,
         NEW behind, NEW next, SpeakAfter(behind, next)
  PROVE  Untaken'
<1>a. SpeechTyped /\ last + 1 \in Sentences
  BY SMTT(30), TypeParts DEF SpeechTyped, SpeakAfter, Sentences
<1>1. \/ voice' = [voice EXCEPT ![last + 1] = "new"] /\ synth' = [synth EXCEPT ![last + 1] = "pulling"]
      \/ voice' = voice /\ synth' = [synth EXCEPT ![last + 1] = "cancel"]
      \/ voice' = voice /\ synth' = [synth EXCEPT ![last + 1] = "pulling"]
  BY DEF SpeakAfter, Ahead
<1>2. /\ voice[last + 1] = "none" /\ synth[last + 1] = "none"
      /\ ready[last + 1] = 0 /\ given[last + 1] = 0
  BY <1>a DEF Unbegun, SpeechTyped
<1>3. ASSUME NEW r \in Sentences PROVE UntakenOf(r)'
  <2>1. CASE r = last + 1
    BY <1>a, <1>1, <1>2, <2>1 DEF SpeechTyped, UntakenOf, Waits, Pulling
  <2>2. CASE r # last + 1
    <3>1. UNCHANGED <<voice[r], synth[r], ready[r], given[r], clip>>
      BY <1>a, <1>1, <2>2 DEF SpeechTyped
    <3>2. UntakenOf(r)
      BY DEF Untaken
    <3> QED BY <3>1, <3>2 DEF UntakenOf, Waits
  <2> QED BY <2>1, <2>2
<1> QED BY <1>3 DEF Untaken

\* A voice that is cancelled takes its synthesis down with it, or has not begun
\* to take from it.
LEMMA SilenceUntaken ==
  ASSUME TypeOK, Untaken, speaking \in Sentences, Silence(speaking), UNCHANGED <<ready, given>>,
         clip' # "none" => clip # "none"
  PROVE  Untaken'
<1>a. SpeechTyped
  BY TypeParts
<1>1. ASSUME NEW r \in Sentences PROVE UntakenOf(r)'
  <2>a. UntakenOf(r)
    BY DEF Untaken
  <2>1. CASE r = speaking
    <3>1. /\ voice'[r] \notin {"none", "new", "announcing", "listening", "sending"} \/ voice[r] = "none"
          /\ voice[r] = "none" => voice'[r] = "none" /\ UNCHANGED <<synth[r], ready[r], given[r]>>
          /\ voice'[r] = "said" => voice[r] = "said" /\ UNCHANGED synth[r]
      BY <1>a, <2>1 DEF SpeechTyped, Silence, Voices, VoiceOver
    <3> QED BY <2>a, <3>1 DEF UntakenOf, Waits
  <2>2. CASE r # speaking
    <3>1. UNCHANGED <<voice[r], synth[r], ready[r], given[r]>>
      BY <1>a, <2>2 DEF SpeechTyped, Silence, Dropped
    <3> QED BY <2>a, <3>1 DEF UntakenOf, Waits
  <2> QED BY <2>1, <2>2
<1> QED BY <1>1 DEF Untaken

LEMMA UntakenStep ==
  ASSUME PassInv, [Next]_vars
  PROVE  Untaken'
<1>a. /\ TypeOK /\ SpeechTyped /\ OneVoice /\ Queue /\ Unbegun /\ Untaken
      /\ speaking \in Nat /\ last \in Nat
      /\ speaking \in 0..MaxSentences
  BY TypeParts DEF PassInv, OneBehindAnother, SpeechTyped
<1>1. CASE FirstEvent
  BY <1>1, <1>a
     DEF FirstEvent, speech, kept, asked, Untaken, UntakenOf, Waits, SpeechTyped, OneVoice,
         Queue, Sentences, Live, VoiceOver, Queueing, Pulling, Settling, Abandoned, Unbegun
<1>2. CASE Sentence
  BY <1>a, <1>2, SpeakAfterUntaken DEF Sentence
<1>3. CASE Withheld
  BY <1>3, <1>a
     DEF Withheld, place, speech, asked, Untaken, UntakenOf, Waits, SpeechTyped, OneVoice,
         Queue, Sentences, Live, VoiceOver, Queueing, Pulling, Settling, Abandoned, Unbegun
<1>4. CASE StreamFails
  BY SMTT(30), <1>4, <1>a
     DEF StreamFails, Unwind, Caught, Silence, Dropped, kept, asked, Untaken, UntakenOf,
         Waits, SpeechTyped, OneVoice, Queue, Sentences, Live, VoiceOver, Queueing, Pulling,
         Settling, Abandoned, Unbegun
<1>5. CASE ModelDone
  <2>1. CASE SpeakAfter("flushing", "roundend") /\ UNCHANGED clip
    BY <1>a, <1>5, <2>1, SpeakAfterUntaken DEF ModelDone
  <2>2. CASE UNCHANGED <<voice, synth>> /\ (speaking = 0 \/ UNCHANGED clip)
    <3>1. UNCHANGED <<ready, given>>
      BY <1>5 DEF ModelDone
    <3>2. CASE speaking = 0
      <4>1. \A r \in Sentences : ~Live(r)
        BY <1>a, <3>2 DEF OneVoice, Sentences
      <4> QED BY <1>a, <2>2, <3>1, <4>1 DEF Untaken, UntakenOf, Waits, Live, VoiceOver
    <3>3. CASE UNCHANGED clip
      BY <1>a, <2>2, <3>1, <3>3 DEF Untaken, UntakenOf, Waits
    <3> QED BY <2>2, <3>2, <3>3
  <2> QED BY <1>5, <2>1, <2>2 DEF ModelDone
<1>6. CASE Stalled
  BY <1>6, <1>a
     DEF Stalled, Caught, speech, kept, asked, Untaken, UntakenOf, Waits, SpeechTyped,
         OneVoice, Queue, Sentences, Live, VoiceOver, Queueing, Pulling, Settling, Abandoned,
         Unbegun
<1>7. CASE Queued
  BY SMTT(30), <1>7, <1>a
     DEF Queued, Dropped, kept, asked, Untaken, UntakenOf, Waits, SpeechTyped, OneVoice,
         Queue, Sentences, Live, VoiceOver, Queueing, Pulling, Settling, Abandoned, Unbegun
<1>8. CASE SeenDown
  BY <1>8, <1>a
     DEF SeenDown, speech, kept, asked, Untaken, UntakenOf, Waits, SpeechTyped, OneVoice,
         Queue, Sentences, Live, VoiceOver, Queueing, Pulling, Settling, Abandoned, Unbegun
<1>9. CASE CleanedUp
  BY <1>9, <1>a
     DEF CleanedUp, Caught, kept, asked, Untaken, UntakenOf, Waits, SpeechTyped, OneVoice,
         Queue, Sentences, Live, VoiceOver, Queueing, Pulling, Settling, Abandoned, Unbegun
<1>10. CASE SpokenOut
  BY <1>10, <1>a
     DEF SpokenOut, RoundOver, kept, asked, Untaken, UntakenOf, Waits, SpeechTyped, OneVoice,
         Queue, Sentences, Live, VoiceOver, Queueing, Pulling, Settling, Abandoned, Unbegun
<1>11. CASE ToolsOver
  BY <1>11, <1>a
     DEF ToolsOver, ToolsEnd, Caught, speech, Untaken, UntakenOf, Waits, SpeechTyped,
         OneVoice, Queue, Sentences, Live, VoiceOver, Queueing, Pulling, Settling, Abandoned,
         Unbegun
<1>12. CASE Drained
  BY <1>12, <1>a
     DEF Drained, LegEnds, Boundary, SpeakAfter, Ahead, Caught, speech, kept, Untaken,
         UntakenOf, Waits, SpeechTyped, OneVoice, Queue, Sentences, Live, VoiceOver, Queueing,
         Pulling, Settling, Abandoned, Unbegun
<1>13. CASE Recapped
  BY <1>13, <1>a
     DEF Recapped, kept, asked, Untaken, UntakenOf, Waits, SpeechTyped, OneVoice, Queue,
         Sentences, Live, VoiceOver, Queueing, Pulling, Settling, Abandoned, Unbegun
<1>14. CASE Stored
  BY <1>14, <1>a
     DEF Stored, Boundary, Caught, speech, kept, Untaken, UntakenOf, Waits, SpeechTyped,
         OneVoice, Queue, Sentences, Live, VoiceOver, Queueing, Pulling, Settling, Abandoned,
         Unbegun
<1>15. CASE Excuse
  BY <1>15, <1>a
     DEF Excuse, speech, kept, asked, Untaken, UntakenOf, Waits, SpeechTyped, OneVoice, Queue,
         Sentences, Live, VoiceOver, Queueing, Pulling, Settling, Abandoned, Unbegun
<1>16. CASE Settled
  BY <1>16, <1>a
     DEF Settled, speech, asked, Untaken, UntakenOf, Waits, SpeechTyped, OneVoice, Queue,
         Sentences, Live, VoiceOver, Queueing, Pulling, Settling, Abandoned, Unbegun
<1>17. ASSUME NEW c \in Calls, Answer(c) \/ MoveGranted(c) PROVE Untaken'
  BY <1>17, <1>a
     DEF Answer, MoveGranted, place, speech, kept, Untaken, UntakenOf, Waits, SpeechTyped,
         OneVoice, Queue, Sentences, Live, VoiceOver, Queueing, Pulling, Settling, Abandoned,
         Unbegun
<1>18. CASE ClipStep
  BY <1>18, <1>a
     DEF ClipStep, place, speech, kept, asked, Untaken, UntakenOf, Waits, SpeechTyped,
         OneVoice, Queue, Sentences, Live, VoiceOver, Queueing, Pulling, Settling, Abandoned,
         Unbegun
<1>19. ASSUME NEW s \in Sentences, SynthesisStep(s) PROVE Untaken'
  <2>1. ASSUME NEW r \in Sentences PROVE UntakenOf(r)'
    <3>a. UntakenOf(r) /\ UNCHANGED <<voice[r], clip>>
      BY <1>a, <1>19 DEF Untaken, SynthesisStep, ChunkGiven, RoomMade, StreamOver
    <3>1. CASE r = s
      <4>1. CASE ChunkGiven(s)
        BY <1>a, <3>a, <3>1, <4>1 DEF ChunkGiven, UntakenOf, Waits, Pulling, SpeechTyped
      <4>2. CASE RoomMade(s)
        BY <1>a, <3>a, <3>1, <4>2 DEF RoomMade, UntakenOf, Waits, Pulling, SpeechTyped
      <4>3. CASE StreamOver(s)
        BY <1>a, <3>a, <3>1, <4>3 DEF StreamOver, UntakenOf, Waits, Pulling, SpeechTyped
      <4> QED BY <1>19, <4>1, <4>2, <4>3 DEF SynthesisStep
    <3>2. CASE r # s
      <4>1. UNCHANGED <<synth[r], ready[r], given[r]>>
        BY <1>a, <1>19, <3>2 DEF SynthesisStep, ChunkGiven, RoomMade, StreamOver, SpeechTyped
      <4> QED BY <3>a, <4>1 DEF UntakenOf, Waits
    <3> QED BY <3>1, <3>2
  <2> QED BY <2>1 DEF Untaken
<1>20. ASSUME NEW s \in Sentences, VoiceStarts(s) \/ Announced(s) PROVE Untaken'
  BY <1>20, <1>a
     DEF VoiceStarts, Announced, place, kept, asked, Untaken, UntakenOf, Waits, SpeechTyped,
         OneVoice, Queue, Sentences, Live, VoiceOver, Queueing, Pulling, Settling, Abandoned,
         Unbegun
<1>21. ASSUME NEW s \in Sentences, ChunkTaken(s) PROVE Untaken'
  BY <1>21, <1>a
     DEF ChunkTaken, place, kept, asked, Untaken, UntakenOf, Waits, SpeechTyped, OneVoice,
         Queue, Sentences, Live, VoiceOver, Queueing, Pulling, Settling, Abandoned, Unbegun
<1>22. ASSUME NEW s \in Sentences, ChunkSent(s) PROVE Untaken'
  BY SMTT(30), <1>22, <1>a
     DEF ChunkSent, Dropped, place, kept, asked, Untaken, UntakenOf, Waits, SpeechTyped,
         OneVoice, Queue, Sentences, Live, VoiceOver, Queueing, Pulling, Settling, Abandoned,
         Unbegun
<1>23. ASSUME NEW s \in Sentences, Spoken(s) PROVE Untaken'
  <2>1. ASSUME NEW r \in Sentences PROVE UntakenOf(r)'
    <3>a. UntakenOf(r) /\ UNCHANGED <<synth, ready, given, clip>>
      BY <1>a, <1>23 DEF Untaken, Spoken
    <3>1. CASE r = s
      BY <1>a, <1>23, <3>a, <3>1 DEF Spoken, SentinelIn, UntakenOf, Waits, SpeechTyped
    <3>2. CASE r # s
      <4>1. UNCHANGED voice[r]
        BY <1>a, <1>23, <3>2 DEF Spoken, SpeechTyped
      <4> QED BY <3>a, <4>1 DEF UntakenOf, Waits
    <3> QED BY <3>1, <3>2
  <2> QED BY <2>1 DEF Untaken
<1>24. ASSUME NEW s \in Sentences, VoiceEnds(s) PROVE Untaken'
  BY <1>24, <1>a
     DEF VoiceEnds, place, kept, asked, Untaken, UntakenOf, Waits, SpeechTyped, OneVoice,
         Queue, Sentences, Live, VoiceOver, Queueing, Pulling, Settling, Abandoned, Unbegun
<1>25. ASSUME CutHere, Cut PROVE Untaken'
  <2>1. UNCHANGED <<ready, given>> /\ (clip' # "none" => clip # "none")
    BY <1>25 DEF Cut, CutHere, Unwind, ToolsEnd, Caught, Settling, Abandoned
  <2>2. UNCHANGED <<voice, synth>> \/ (speaking # 0 /\ Silence(speaking))
    BY <1>25 DEF CutHere, Unwind
  <2> QED BY <1>a, <2>1, <2>2, SilenceUntaken DEF Untaken, UntakenOf, Waits, Sentences
<1>26. ASSUME CutVoice, Cut PROVE Untaken'
  <2>a. UNCHANGED <<ready, given>> /\ (clip' # "none" => clip # "none")
    BY <1>26 DEF Cut, CutVoice
  <2>1. CASE Silence(speaking) /\ speaking # 0
    BY <1>a, <2>a, <2>1, SilenceUntaken DEF Sentences
  <2>2. CASE UNCHANGED <<voice, synth>>
    BY <1>a, <2>a, <2>2 DEF Untaken, UntakenOf, Waits
  <2>3. CASE pc \in Queueing /\ synth' = Dropped(last) /\ UNCHANGED voice
    <3>1. voice[last] = "none"
      BY <1>a, <2>3 DEF Queue
    <3>2. \A r \in Sentences : synth'[r] = synth[r] \/ (synth'[r] = "cancel" /\ voice[r] = "none")
      BY <1>a, <2>3, <3>1 DEF Dropped, SpeechTyped
    <3> QED BY <1>a, <2>a, <2>3, <3>2 DEF Untaken, UntakenOf, Waits, Pulling
  <2> QED BY <1>a, <1>26, <2>1, <2>2, <2>3 DEF CutVoice, Queue
<1>27. ASSUME CutSwallowed, Cut PROVE Untaken'
  BY <1>27, <1>a
     DEF CutSwallowed, Cut, Untaken, UntakenOf, Waits, SpeechTyped, OneVoice, Queue,
         Sentences, Live, VoiceOver, Queueing, Pulling, Settling, Abandoned, Unbegun
<1>28. ASSUME CutSettling, Cut PROVE Untaken'
  BY <1>28, <1>a
     DEF CutSettling, Cut, Untaken, UntakenOf, Waits, SpeechTyped, OneVoice, Queue, Sentences,
         Live, VoiceOver, Queueing, Pulling, Settling, Abandoned, Unbegun
<1>29. CASE UNCHANGED vars
  BY <1>29, <1>a
     DEF vars, place, speech, kept, asked, Untaken, UntakenOf, Waits, SpeechTyped, OneVoice,
         Queue, Sentences, Live, VoiceOver, Queueing, Pulling, Settling, Abandoned, Unbegun
<1> QED
  BY <1>1, <1>2, <1>3, <1>4, <1>5, <1>6, <1>7, <1>8, <1>9, <1>10, <1>11, <1>12, <1>13, <1>14,
     <1>15, <1>16, <1>17, <1>18, <1>19, <1>20, <1>21, <1>22, <1>23, <1>24, <1>25, <1>26, <1>27,
     <1>28, <1>29
  DEF Next, ModelStep, ReplyStep, TaskStep, VoiceStep, Cut

\* A voice that is over stays over, and its synthesis gives nothing more.
LEMMA SoundedBack ==
  ASSUME PassInv, [Next]_vars, Sounded'
  PROVE  Sounded
<1> DEFINE Same == \A r \in Sentences : voice[r] = "said" => voice'[r] = "said" /\ given'[r] = given[r]
<1>a. /\ TypeOK /\ SpeechTyped /\ OneVoice /\ Queue /\ Unbegun /\ Untaken
      /\ speaking \in Nat /\ last \in Nat
  BY TypeParts DEF PassInv, OneBehindAnother, SpeechTyped
<1>b. \A r \in Sentences : voice[r] = "said" => synth[r] \notin Pulling /\ r <= last
  BY <1>a DEF Untaken, UntakenOf, Unbegun, Sentences
<1>1. ASSUME FirstEvent PROVE Same
  BY <1>1, <1>a, <1>b
     DEF FirstEvent, speech, kept, asked, SpeechTyped, Queue, Sentences, VoiceOver, Queueing,
         Pulling
<1>2. ASSUME Sentence PROVE Same
  BY <1>2, <1>a, <1>b
     DEF Sentence, SpeakAfter, Ahead, kept, asked, SpeechTyped, Queue, Sentences, VoiceOver,
         Queueing, Pulling
<1>3. ASSUME Withheld PROVE Same
  BY <1>3, <1>a, <1>b
     DEF Withheld, place, speech, asked, SpeechTyped, Queue, Sentences, VoiceOver, Queueing,
         Pulling
<1>4. ASSUME StreamFails PROVE Same
  BY <1>4, <1>a, <1>b
     DEF StreamFails, Unwind, Caught, Silence, Dropped, kept, asked, SpeechTyped, Queue,
         Sentences, VoiceOver, Queueing, Pulling
<1>5. ASSUME ModelDone PROVE Same
  BY <1>5, <1>a, <1>b
     DEF ModelDone, SpeakAfter, Ahead, RoundOver, kept, SpeechTyped, Queue, Sentences,
         VoiceOver, Queueing, Pulling
<1>6. ASSUME Stalled PROVE Same
  BY <1>6, <1>a, <1>b
     DEF Stalled, Caught, speech, kept, asked, SpeechTyped, Queue, Sentences, VoiceOver,
         Queueing, Pulling
<1>7. ASSUME Queued PROVE Same
  BY <1>7, <1>a, <1>b
     DEF Queued, Dropped, kept, asked, SpeechTyped, Queue, Sentences, VoiceOver, Queueing,
         Pulling
<1>8. ASSUME SeenDown PROVE Same
  BY <1>8, <1>a, <1>b
     DEF SeenDown, speech, kept, asked, SpeechTyped, Queue, Sentences, VoiceOver, Queueing,
         Pulling
<1>9. ASSUME CleanedUp PROVE Same
  BY <1>9, <1>a, <1>b
     DEF CleanedUp, Caught, kept, asked, SpeechTyped, Queue, Sentences, VoiceOver, Queueing,
         Pulling
<1>10. ASSUME SpokenOut PROVE Same
  BY <1>10, <1>a, <1>b
     DEF SpokenOut, RoundOver, kept, asked, SpeechTyped, Queue, Sentences, VoiceOver,
         Queueing, Pulling
<1>11. ASSUME ToolsOver PROVE Same
  BY <1>11, <1>a, <1>b
     DEF ToolsOver, ToolsEnd, Caught, speech, SpeechTyped, Queue, Sentences, VoiceOver,
         Queueing, Pulling
<1>12. ASSUME Drained PROVE Same
  BY <1>12, <1>a, <1>b
     DEF Drained, LegEnds, Boundary, SpeakAfter, Ahead, Caught, speech, kept, SpeechTyped,
         Queue, Sentences, VoiceOver, Queueing, Pulling
<1>13. ASSUME Recapped PROVE Same
  BY <1>13, <1>a, <1>b
     DEF Recapped, kept, asked, SpeechTyped, Queue, Sentences, VoiceOver, Queueing, Pulling
<1>14. ASSUME Stored PROVE Same
  BY <1>14, <1>a, <1>b
     DEF Stored, Boundary, Caught, speech, kept, SpeechTyped, Queue, Sentences, VoiceOver,
         Queueing, Pulling
<1>15. ASSUME Excuse PROVE Same
  BY <1>15, <1>a, <1>b
     DEF Excuse, speech, kept, asked, SpeechTyped, Queue, Sentences, VoiceOver, Queueing,
         Pulling
<1>16. ASSUME Settled PROVE Same
  BY <1>16, <1>a, <1>b
     DEF Settled, speech, asked, SpeechTyped, Queue, Sentences, VoiceOver, Queueing, Pulling
<1>17. ASSUME NEW c \in Calls, Answer(c) \/ MoveGranted(c) PROVE Same
  BY <1>17, <1>a, <1>b
     DEF Answer, MoveGranted, place, speech, kept, SpeechTyped, Queue, Sentences, VoiceOver,
         Queueing, Pulling
<1>18. ASSUME ClipStep PROVE Same
  BY <1>18, <1>a, <1>b
     DEF ClipStep, place, speech, kept, asked, SpeechTyped, Queue, Sentences, VoiceOver,
         Queueing, Pulling
<1>19. ASSUME NEW s \in Sentences, SynthesisStep(s) PROVE Same
  BY <1>19, <1>a, <1>b
     DEF SynthesisStep, ChunkGiven, RoomMade, StreamOver, place, kept, asked, Pulling,
         SpeechTyped, Queue, Sentences, VoiceOver, Queueing
<1>20. ASSUME NEW s \in Sentences, VoiceStarts(s) \/ Announced(s) PROVE Same
  BY <1>20, <1>a, <1>b
     DEF VoiceStarts, Announced, place, kept, asked, SpeechTyped, Queue, Sentences, VoiceOver,
         Queueing, Pulling
<1>21. ASSUME NEW s \in Sentences, ChunkTaken(s) PROVE Same
  BY <1>21, <1>a, <1>b
     DEF ChunkTaken, place, kept, asked, SpeechTyped, Queue, Sentences, VoiceOver, Queueing,
         Pulling
<1>22. ASSUME NEW s \in Sentences, ChunkSent(s) PROVE Same
  BY <1>22, <1>a, <1>b
     DEF ChunkSent, Dropped, place, kept, asked, SpeechTyped, Queue, Sentences, VoiceOver,
         Queueing, Pulling
<1>23. ASSUME NEW s \in Sentences, Spoken(s) PROVE Same
  BY <1>23, <1>a, <1>b
     DEF Spoken, place, asked, SpeechTyped, Queue, Sentences, VoiceOver, Queueing, Pulling
<1>24. ASSUME NEW s \in Sentences, VoiceEnds(s) PROVE Same
  BY <1>24, <1>a, <1>b
     DEF VoiceEnds, place, kept, asked, SpeechTyped, Queue, Sentences, VoiceOver, Queueing,
         Pulling
<1>25. ASSUME CutHere, Cut PROVE Same
  BY <1>25, <1>a, <1>b
     DEF CutHere, Cut, ToolsEnd, Unwind, Caught, Silence, Dropped, SpeechTyped, Queue,
         Sentences, VoiceOver, Queueing, Pulling
<1>26. ASSUME CutVoice, Cut PROVE Same
  BY <1>26, <1>a, <1>b
     DEF CutVoice, Cut, Silence, Dropped, SpeechTyped, Queue, Sentences, VoiceOver, Queueing,
         Pulling
<1>27. ASSUME CutSwallowed, Cut PROVE Same
  BY <1>27, <1>a, <1>b
     DEF CutSwallowed, Cut, SpeechTyped, Queue, Sentences, VoiceOver, Queueing, Pulling
<1>28. ASSUME CutSettling, Cut PROVE Same
  BY <1>28, <1>a, <1>b
     DEF CutSettling, Cut, SpeechTyped, Queue, Sentences, VoiceOver, Queueing, Pulling
<1>29. ASSUME UNCHANGED vars PROVE Same
  BY <1>29, <1>a, <1>b
     DEF vars, place, speech, kept, asked, SpeechTyped, Queue, Sentences, VoiceOver, Queueing,
         Pulling
<1> QED
  BY <1>a, <1>1, <1>2, <1>3, <1>4, <1>5, <1>6, <1>7, <1>8, <1>9, <1>10, <1>11, <1>12, <1>13,
     <1>14, <1>15, <1>16, <1>17, <1>18, <1>19, <1>20, <1>21, <1>22, <1>23, <1>24, <1>25, <1>26,
     <1>27, <1>28, <1>29
  DEF Next, ModelStep, ReplyStep, TaskStep, VoiceStep, Cut, Sounded, SpeechTyped

\* Where a round has searched the documentation and is over, its answers are
\* kept with the speech before them.
LEMMA LookupsKept ==
  ASSUME TypeOK, CallsKept, KeepRound, UNCHANGED spoken, InRound(Lookups) # {},
         \A d \in InRound(Calls \ Moves) : Done(d)
  PROVE  pass'.kept = Len(spoken)
<1>1. PICK c \in InRound(Lookups) : TRUE
  OBVIOUS
<1>2. c \in InRound(Calls \ Moves) /\ c \in InRound(Calls) /\ c \in Calls /\ c \notin Moves
  BY <1>1 DEF InRound
<1>3. call[c] = "answered"
  BY <1>2 DEF Done, CallsKept, CallsIssued
<1> QED BY <1>2, <1>3, KeepRoundSaid DEF Answered

LEMMA ClipOverKeptStep ==
  ASSUME PassInv, [Next]_vars
  PROVE  ClipOverKept'
<1>a. /\ TypeOK /\ SpeechTyped /\ OneVoice /\ Queue /\ Unbegun /\ Untaken /\ ClipOverKept /\ CallsKept
      /\ speaking \in Nat /\ last \in Nat
      /\ cuts \in Nat /\ Len(spoken) \in Nat
      /\ Sounded' => Sounded
  <2>1. Sounded' => Sounded
    BY SoundedBack
  <2>2. spoken \in Seq(Sentences) /\ cuts \in Nat
    BY DEF PassInv, TypeOK
  <2> QED BY <2>1, <2>2, TypeParts DEF PassInv, OneBehindAnother, SpeechTyped
<1>b. ASSUME cuts' = 0 => cuts = 0, UNCHANGED <<spoken, pass, slots>>,
             clip' # "none" => clip # "none", pc = "tools" => pc' = "tools"
      PROVE  ClipOverKept'
  BY <1>a, <1>b DEF ClipOverKept, InRound
<1>1. CASE FirstEvent
  BY <1>a, <1>b, <1>1 DEF FirstEvent, speech, kept, asked, Settling, Abandoned
<1>2. CASE Sentence
  BY <1>a, <1>b, <1>2 DEF Sentence, SpeakAfter, Ahead, kept, asked, Settling, Abandoned
<1>3. CASE Withheld
  BY <1>a, <1>3 DEF Withheld, ClipOverKept, InRound, Sounded, TypeOK, place, speech, asked
<1>4. CASE StreamFails
  BY <1>a, <1>b, <1>4
     DEF StreamFails, Unwind, Caught, Silence, Dropped, kept, asked, Settling, Abandoned
<1>5. CASE ModelDone
  <2>1. PICK calls \in Rounds :
         /\ slots' = calls
         /\ UNCHANGED clip \/ RoundOver(calls)
    BY <1>5 DEF ModelDone
  <2>2. UNCHANGED <<spoken, pass, cuts>> /\ pc # "tools"
    BY <1>5 DEF ModelDone, kept
  <2>3. clip' # "none" /\ clip = "none" => pc' = "tools" /\ InRound(Lookups)' # {}
    BY <2>1 DEF RoundOver, InRound
  <2> QED BY <1>a, <2>2, <2>3 DEF ClipOverKept
<1>6. CASE Stalled
  BY <1>a, <1>b, <1>6 DEF Stalled, Caught, speech, kept, asked, Settling, Abandoned
<1>7. CASE Queued
  BY <1>a, <1>b, <1>7 DEF Queued, Queueing, Dropped, kept, asked, Settling, Abandoned
<1>8. CASE SeenDown
  BY <1>a, <1>b, <1>8 DEF SeenDown, speech, kept, asked, Settling, Abandoned
<1>9. CASE CleanedUp
  BY <1>a, <1>b, <1>9 DEF CleanedUp, Caught, kept, asked, Settling, Abandoned
<1>10. CASE SpokenOut
  <2>1. UNCHANGED <<spoken, pass, cuts, slots>> /\ pc # "tools"
    BY <1>10 DEF SpokenOut, kept, asked
  <2>2. clip' # "none" /\ clip = "none" => pc' = "tools" /\ InRound(Lookups)' # {}
    BY <1>10, <2>1 DEF SpokenOut, RoundOver, InRound
  <2> QED BY <1>a, <2>1, <2>2 DEF ClipOverKept
<1>11. CASE ToolsOver
  <2>1. KeepRound /\ UNCHANGED <<spoken, cuts>> /\ (clip' # "none" => clip # "none")
    BY <1>11 DEF ToolsOver, ToolsEnd, Caught, Settling, Abandoned
  <2>2. \A d \in InRound(Calls \ Moves) : Done(d)
    BY <1>11 DEF ToolsOver, ToolsEnd, Turn, InRound
  <2>3. CASE InRound(Lookups) # {}
    BY <1>a, <2>1, <2>2, <2>3, LookupsKept DEF ClipOverKept
  <2>4. CASE InRound(Lookups) = {}
    <3>1. pass'.kept = pass.kept \/ pass'.kept = Len(spoken)
      BY <1>a, <2>1, KeepRoundSaid
    <3> QED BY <1>a, <2>1, <2>4, <3>1 DEF ClipOverKept
  <2> QED BY <2>3, <2>4
<1>12. CASE Drained
  <2>1. CASE Boundary
    BY <2>1, <1>a DEF Boundary, ClipOverKept, TypeOK
  <2>2. CASE ~Boundary
    BY <1>b, <2>2, <1>12 DEF Drained, LegEnds, SpeakAfter, Caught, Settling, Abandoned, kept
  <2> QED BY <2>1, <2>2
<1>13. CASE Recapped
  BY <1>a, <1>b, <1>13 DEF Recapped, kept, asked, Settling, Abandoned
<1>14. CASE Stored
  <2>1. CASE Boundary
    BY <2>1, <1>a DEF Boundary, ClipOverKept, TypeOK
  <2>2. CASE ~Boundary
    BY <1>b, <2>2, <1>14 DEF Stored, LegEnds, SpeakAfter, Caught, Settling, Abandoned, kept
  <2> QED BY <2>1, <2>2
<1>15. CASE Excuse
  BY <1>a, <1>b, <1>15 DEF Excuse, speech, kept, asked, Settling, Abandoned
<1>16. CASE Settled
  BY <1>16 DEF Settled, ClipOverKept
<1>17. ASSUME NEW c \in Calls, Answer(c) \/ MoveGranted(c) PROVE ClipOverKept'
  BY <1>a, <1>b, <1>17 DEF Answer, MoveGranted, place, speech, kept, Settling, Abandoned
<1>18. CASE ClipStep
  BY <1>a, <1>b, <1>18 DEF ClipStep, place, speech, kept, asked, Settling, Abandoned
<1>19. ASSUME NEW s \in Sentences, SynthesisStep(s) PROVE ClipOverKept'
  BY <1>a, <1>b, <1>19
     DEF SynthesisStep, ChunkGiven, RoomMade, StreamOver, place, kept, asked, Pulling,
         Settling, Abandoned
<1>20. ASSUME NEW s \in Sentences, VoiceStarts(s) \/ Announced(s) PROVE ClipOverKept'
  BY <1>a, <1>b, <1>20 DEF VoiceStarts, Announced, place, kept, asked, Settling, Abandoned
<1>21. ASSUME NEW s \in Sentences, ChunkTaken(s) PROVE ClipOverKept'
  BY <1>a, <1>b, <1>21 DEF ChunkTaken, place, kept, asked, Settling, Abandoned
<1>22. ASSUME NEW s \in Sentences, ChunkSent(s) PROVE ClipOverKept'
  BY <1>a, <1>b, <1>22 DEF ChunkSent, Dropped, place, kept, asked, Settling, Abandoned
<1>23. ASSUME NEW s \in Sentences, Spoken(s) PROVE ClipOverKept'
  <2>1. CASE spoken' = spoken
    BY <1>b, <1>23, <2>1 DEF Spoken, place, asked
  <2>2. CASE spoken' # spoken
    <3>1. voice[s] = "listening" /\ synth[s] \notin Pulling /\ ready[s] = 0 /\ UNCHANGED <<clip, given>>
      BY <1>23 DEF Spoken, SentinelIn
    <3>2. voice'[s] = "said"
      BY <1>a, <1>23, <2>2 DEF Spoken, SpeechTyped
    <3>3. clip # "none" => given[s] = 0
      BY <1>a, <3>1 DEF Untaken, UntakenOf, Waits, Pulling, SpeechTyped
    <3> QED BY <3>1, <3>2, <3>3 DEF ClipOverKept, Sounded
  <2> QED BY <2>1, <2>2
<1>24. ASSUME NEW s \in Sentences, VoiceEnds(s) PROVE ClipOverKept'
  BY <1>a, <1>b, <1>24 DEF VoiceEnds, place, kept, asked, Settling, Abandoned
<1>25. ASSUME CutHere, Cut PROVE ClipOverKept'
  BY <1>a, <1>25 DEF Cut, ClipOverKept
<1>26. ASSUME CutVoice, Cut PROVE ClipOverKept'
  BY <1>a, <1>26 DEF Cut, ClipOverKept
<1>27. ASSUME CutSwallowed, Cut PROVE ClipOverKept'
  BY <1>a, <1>27 DEF Cut, ClipOverKept
<1>28. ASSUME CutSettling, Cut PROVE ClipOverKept'
  BY <1>a, <1>28 DEF Cut, ClipOverKept
<1>29. CASE UNCHANGED vars
  BY <1>b, <1>29 DEF vars, place, kept, asked
<1> QED
  BY <1>1, <1>2, <1>3, <1>4, <1>5, <1>6, <1>7, <1>8, <1>9, <1>10, <1>11, <1>12, <1>13, <1>14,
     <1>15, <1>16, <1>17, <1>18, <1>19, <1>20, <1>21, <1>22, <1>23, <1>24, <1>25, <1>26, <1>27,
     <1>28, <1>29
  DEF Next, ModelStep, ReplyStep, TaskStep, VoiceStep, Cut

\* A longer sequence has the same beginning.
LEMMA BeginningKept ==
  ASSUME NEW S, NEW q \in Seq(S), NEW e \in S, NEW k \in 0..Len(q)
  PROVE  SubSeq(Append(q, e), 1, k) = SubSeq(q, 1, k)
<1> DEFINE p == Append(q, e)
<1>1. /\ p \in Seq(S) /\ Len(p) = Len(q) + 1
      /\ \A i \in 1 .. Len(q) : p[i] = q[i]
  BY AppendProperties
<1>2. Len(q) \in Nat /\ k \in 0..Len(p)
  BY <1>1
<1> HIDE DEF p
<1>3. SubSeq(p, 1, k) \in Seq(S) /\ SubSeq(q, 1, k) \in Seq(S)
  BY <1>1, <1>2, SplitAt
<1>4. Len(SubSeq(p, 1, k)) = k /\ Len(SubSeq(q, 1, k)) = k
  BY <1>1, <1>2, SplitAt
<1>5. \A i \in 1 .. k : SubSeq(p, 1, k)[i] = SubSeq(q, 1, k)[i]
  <2>1. \A i \in 1 .. k : p[i] \in S /\ q[i] \in S /\ p[i] = q[i]
    BY <1>1, <1>2
  <2>2. \A i \in 1 .. k - 1 + 1 : SubSeq(p, 1, k)[i] = p[1 + i - 1]
    BY <1>2, <2>1, SubSeqProperties
  <2>3. \A i \in 1 .. k - 1 + 1 : SubSeq(q, 1, k)[i] = q[1 + i - 1]
    BY <1>2, <2>1, SubSeqProperties
  <2> QED BY <1>2, <2>1, <2>2, <2>3
<1> QED BY <1>3, <1>4, <1>5, SeqEqual DEF p

\* What the history and the record hold move with what was heard and asked.
LEMMA KeptStep ==
  ASSUME PassInv, [Next]_vars
  PROVE  Kept'
<1>a. /\ TypeOK /\ Kept /\ InOrder /\ FirstLeg /\ leg \in {1, 2} /\ Legs = {1, 2}
      /\ Sounded' => Sounded
      /\ cuts \in Nat /\ cuts' \in Nat
  <2>1. Sounded' => Sounded
    BY SoundedBack
  <2>2. leg \in {1, 2} /\ Legs = {1, 2}
    BY DEF PassInv, TypeOK, Legs
  <2>3. cuts \in Nat /\ cuts' \in Nat
    <3>1. TypeOK /\ TypeOK'
      BY TypeStep DEF PassInv
    <3> QED BY <3>1 DEF TypeOK
  <2> QED BY <2>1, <2>2, <2>3 DEF PassInv
<1>t. /\ aired \in [Legs -> Seq(Sentences)] /\ spoken \in Seq(Sentences) /\ spoken = aired[leg]
      /\ pass.kept \in 0..Len(spoken)
      /\ tools \in [Legs -> Seq(Calls)] /\ issued \in [Legs -> Seq(Calls)]
  BY <1>a DEF TypeOK, InOrder
\* A step that leaves alone what was heard, kept and asked, before the end or
\* behind it.
<1>b. ASSUME UNCHANGED <<leg, tools, issued, aired, history, stored, pass>>,
             pc = "over" <=> pc' = "over", cuts' >= cuts
      PROVE  Kept'
  BY <1>a, <1>b DEF Kept
\* The end of the tools, wherever it is met.
<1>c. ASSUME KeepRound, UNCHANGED <<leg, tools, issued, spoken, aired, stored>>,
             pc # "over", pc' # "over"
      PROVE  Kept'
  <2>1. CASE Answered = {}
    BY <1>a, <1>c, <2>1, KeepRoundSaid DEF Kept
  <2>2. CASE Answered # {}
    <3>1. history'[leg].said = history[leg].said \o Unkept /\ pass'.kept = Len(spoken)
          /\ \A l \in Legs \ {leg} : history'[l] = history[l]
      BY <1>a, <1>c, <2>2, KeepRoundSaid
    <3>2. history'[leg].said = spoken
      BY <1>a, <1>c, <1>t, <3>1, UnkeptTyped DEF Kept
    <3>3. SubSeq(aired[leg], 1, Len(spoken)) = spoken
      BY <1>t, SubSeqFull
    <3> QED BY <1>a, <1>c, <1>t, <3>1, <3>2, <3>3 DEF Kept
  <2> QED BY <2>1, <2>2
<1>d. ASSUME Boundary, UNCHANGED <<tools, issued, aired>>, pc # "over", leg = 1
      PROVE  Kept'
  <2>1. KeepSpeech /\ RecordTurn /\ leg' = 2 /\ pc' = "asking" /\ pass'.kept = 0 /\ spoken' = <<>>
    BY <1>a, <1>d DEF Boundary, TypeOK
  <2>2. /\ history'[1].said = history[1].said \o Unkept /\ history'[2] = history[2]
        /\ stored'[1].said = spoken /\ stored'[1].calls = tools[1] /\ stored'[2] = stored[2]
    BY <1>a, <1>d, <2>1, KeepSpeechSaid, RecordTurnSaid DEF Kept
  <2>3. history'[1].said = aired[1]
    BY <1>a, <1>d, <1>t, <2>2, UnkeptTyped DEF Kept
  <2>4. history'[2].said = SubSeq(aired[2], 1, 0)
    <3>1. SubSeq(aired[2], 1, 0) = <<>>
      <4>1. 0 \in Int /\ 1 \in Int /\ 0 < 1
        OBVIOUS
      <4> QED BY <4>1, SubSeqEmpty
    <3>2. history[2].said = <<>>
      BY <1>a, <1>d DEF Kept, Unheard
    <3> QED BY <2>2, <3>1, <3>2
  <2> QED BY <1>a, <1>d, <1>t, <2>1, <2>2, <2>3, <2>4 DEF Kept, InOrder
\* Nothing was kept on another leg than the one at hand and the one before.
<1>e. ASSUME RecordTurn, pc = "settling", pc' = "over", UNCHANGED <<leg, tools, issued, aired, spoken>>,
             \A l \in Legs \ {leg} : history'[l] = history[l],
             Prefix(history'[leg].said, aired[leg]),
             cuts' < 2 /\ Sounded => history'[leg].said = aired[leg]
      PROVE  Kept'
  <2>1. /\ stored'[leg].said = spoken /\ stored'[leg].calls = tools[leg]
        /\ \A l \in Legs \ {leg} : stored'[l] = stored[l]
    BY <1>a, <1>e, RecordTurnSaid DEF Kept
  <2> QED BY <1>a, <1>e, <1>t, <2>1 DEF Kept, Prefix
<1>1. CASE FirstEvent
  BY <1>a, <1>b, <1>1 DEF FirstEvent, speech, kept, asked
<1>2. CASE Sentence
  BY <1>a, <1>b, <1>2 DEF Sentence, SpeakAfter, Ahead, kept, asked
<1>3. CASE Withheld
  BY <1>a, <1>3 DEF Withheld, Kept, TypeOK, place, speech, asked
<1>4. CASE StreamFails
  BY <1>a, <1>b, <1>4 DEF StreamFails, Unwind, Caught, Silence, Dropped, kept, asked
<1>5. CASE ModelDone
  <2>1. /\ tools' = issued' /\ UNCHANGED <<leg, aired, history, stored, pass>>
        /\ pc # "over" /\ pc' # "over"
        /\ leg = 1 => issued'[2] = issued[2]
        /\ leg = 2 => issued'[1] = issued[1]
    BY <1>a, <1>t, <1>5 DEF ModelDone, Reserve, kept, Kept, SpeakAfter, RoundOver
  <2> QED BY <1>a, <2>1 DEF Kept
<1>6. CASE Stalled
  BY <1>a, <1>b, <1>6 DEF Stalled, Caught, speech, kept, asked
<1>7. CASE Queued
  BY <1>a, <1>b, <1>7 DEF Queued, Queueing, Dropped, kept, asked
<1>8. CASE SeenDown
  BY <1>a, <1>b, <1>8 DEF SeenDown, speech, kept, asked
<1>9. CASE CleanedUp
  BY <1>a, <1>b, <1>9 DEF CleanedUp, Caught, kept, asked
<1>10. CASE SpokenOut
  BY <1>a, <1>b, <1>10 DEF SpokenOut, RoundOver, kept, asked
<1>11. CASE ToolsOver
  BY <1>a, <1>c, <1>11 DEF ToolsOver, ToolsEnd, Caught
<1>12. CASE Drained
  <2>1. CASE Boundary
    <3>1. leg = 1
      BY <1>a, <1>12, <2>1, MovesOnce DEF Drained, Boundary, LegEnds, Caught, SpeakAfter
    <3> QED BY <1>d, <1>12, <2>1, <3>1 DEF Drained, Boundary, kept
  <2>2. CASE ~Boundary
    BY <1>a, <1>b, <2>2, <1>12 DEF Drained, LegEnds, SpeakAfter, Caught, kept
  <2> QED BY <2>1, <2>2
<1>13. CASE Recapped
  BY <1>a, <1>b, <1>13 DEF Recapped, kept, asked
<1>14. CASE Stored
  <2>1. CASE Boundary
    <3>1. leg = 1
      BY <1>a, <1>14, <2>1, MovesOnce DEF Stored, Boundary, LegEnds, Caught, SpeakAfter
    <3> QED BY <1>d, <1>14, <2>1, <3>1 DEF Stored, Boundary
  <2>2. CASE ~Boundary
    BY <1>a, <1>b, <2>2, <1>14 DEF Stored, LegEnds, SpeakAfter, Caught, kept
  <2> QED BY <2>1, <2>2
<1>15. CASE Excuse
  BY <1>a, <1>b, <1>15 DEF Excuse, speech, kept, asked
<1>16. CASE Settled
  <2>1. /\ history'[leg].said = history[leg].said \o Unkept
        /\ \A l \in Legs \ {leg} : history'[l] = history[l]
    BY <1>a, <1>16, KeepSpeechSaid DEF Settled
  <2>2. history'[leg].said = aired[leg]
    BY <1>a, <1>t, <1>16, <2>1, UnkeptTyped DEF Settled, Kept
  <2>3. Prefix(aired[leg], aired[leg])
    BY <1>a, <1>t, SubSeqFull DEF Prefix
  <2> QED BY <1>e, <1>16, <2>1, <2>2, <2>3 DEF Settled, asked
<1>17. ASSUME NEW c \in Calls, Answer(c) \/ MoveGranted(c) PROVE Kept'
  BY <1>a, <1>b, <1>17 DEF Answer, MoveGranted, place, speech, kept
<1>18. CASE ClipStep
  BY <1>a, <1>b, <1>18 DEF ClipStep, place, speech, kept, asked
<1>19. ASSUME NEW s \in Sentences, SynthesisStep(s) PROVE Kept'
  BY <1>a, <1>b, <1>19
     DEF SynthesisStep, ChunkGiven, RoomMade, StreamOver, place, kept, asked, Pulling
<1>20. ASSUME NEW s \in Sentences, VoiceStarts(s) \/ Announced(s) PROVE Kept'
  BY <1>a, <1>b, <1>20 DEF VoiceStarts, Announced, place, kept, asked
<1>21. ASSUME NEW s \in Sentences, ChunkTaken(s) PROVE Kept'
  BY <1>a, <1>b, <1>21 DEF ChunkTaken, place, kept, asked
<1>22. ASSUME NEW s \in Sentences, ChunkSent(s) PROVE Kept'
  BY <1>a, <1>b, <1>22 DEF ChunkSent, Dropped, place, kept, asked
<1>23. ASSUME NEW s \in Sentences, Spoken(s) PROVE Kept'
  <2>1. CASE UNCHANGED aired
    BY <1>a, <1>b, <1>23, <2>1 DEF Spoken, place, asked
  <2>2. CASE aired' = [aired EXCEPT ![leg] = Append(aired[leg], s)]
    <3>1. UNCHANGED <<leg, pc, tools, issued, history, stored, pass>>
      BY <1>23 DEF Spoken, place, asked
    <3>2. pc # "over"
      BY <1>23
         DEF Spoken, PassInv, OneBehindAnother, OneVoice, Queue, Live, VoiceOver, Ending,
             Sentences
    <3>3. SubSeq(Append(aired[leg], s), 1, pass.kept) = SubSeq(aired[leg], 1, pass.kept)
      BY SMTT(30), <1>a, <1>t, BeginningKept
    <3>4. aired'[leg] = Append(aired[leg], s) /\ \A l \in Legs \ {leg} : aired'[l] = aired[l]
      BY <1>t, <1>a, <2>2
    <3>5. history[leg].said = SubSeq(aired[leg], 1, pass.kept) /\ stored[leg] = Unsaid
      BY <1>a, <3>2 DEF Kept
    <3>6. history'[leg'].said = SubSeq(aired'[leg'], 1, pass'.kept) /\ stored'[leg'] = Unsaid
      BY <3>1, <3>3, <3>4, <3>5
    <3>7. leg = 2 => aired'[1] = aired[1]
      BY <1>a, <3>4
    <3> QED BY <1>a, <3>1, <3>2, <3>6, <3>7 DEF Kept
  <2> QED BY <1>23, <2>1, <2>2 DEF Spoken
<1>24. ASSUME NEW s \in Sentences, VoiceEnds(s) PROVE Kept'
  BY <1>a, <1>b, <1>24 DEF VoiceEnds, place, kept, asked
<1>25. ASSUME CutHere, Cut PROVE Kept'
  <2>1. CASE ToolsEnd("cancel") /\ pc = "tools" /\ UNCHANGED stored
    BY <1>c, <1>25, <2>1 DEF Cut, ToolsEnd, Caught
  <2>2. CASE /\ UNCHANGED <<history, pass, stored>> /\ pc' \in {"cleanup", "excusing", "settling"}
             /\ pc # "over"
    BY <1>a, <1>b, <1>25, <2>2 DEF Cut
  <2> QED BY <1>25, <2>1, <2>2 DEF CutHere, Unwind, Caught
<1>26. ASSUME CutVoice, Cut PROVE Kept'
  BY <1>a, <1>b, <1>26 DEF Cut, CutVoice, Queueing
<1>27. ASSUME CutSwallowed, Cut PROVE Kept'
  BY <1>a, <1>b, <1>27 DEF CutSwallowed, Cut
<1>28. ASSUME CutSettling, Cut PROVE Kept'
  <2>1. UNCHANGED <<leg, tools, issued, aired, spoken, history>>
    BY <1>28 DEF Cut, CutSettling
  <2>2. Prefix(history[leg].said, aired[leg])
    <3>1. history[leg].said = SubSeq(aired[leg], 1, pass.kept)
      BY <1>a, <1>28 DEF Kept, CutSettling
    <3>2. Len(SubSeq(aired[leg], 1, pass.kept)) = pass.kept
      BY <1>a, <1>t, SplitAt
    <3> QED BY <1>t, <3>1, <3>2 DEF Prefix
  <2>3. ASSUME cuts' < 2, Sounded PROVE history[leg].said = aired[leg]
    <3>1. cuts = 0 /\ clip # "none" /\ pc = "settling"
      BY <1>a, <1>28, <2>3 DEF Cut, CutSettling, TypeOK
    <3>2. pass.kept = Len(spoken)
      BY <2>3, <3>1 DEF PassInv, ClipOverKept
    <3> QED BY <1>a, <1>t, <3>1, <3>2, SubSeqFull DEF Kept
  <2> QED BY <1>e, <1>28, <2>1, <2>2, <2>3 DEF CutSettling
<1>29. CASE UNCHANGED vars
  BY <1>a, <1>b, <1>29 DEF vars, place, kept, asked
<1> QED
  BY <1>1, <1>2, <1>3, <1>4, <1>5, <1>6, <1>7, <1>8, <1>9, <1>10, <1>11, <1>12, <1>13, <1>14,
     <1>15, <1>16, <1>17, <1>18, <1>19, <1>20, <1>21, <1>22, <1>23, <1>24, <1>25, <1>26, <1>27,
     <1>28, <1>29
  DEF Next, ModelStep, ReplyStep, TaskStep, VoiceStep, Cut

\* What is issued behind what was.
LEMMA IssuedBehind ==
  ASSUME NEW q \in Seq(Calls), NEW r \in Seq(Calls), NEW c \in Calls
  PROVE  (\E i \in DOMAIN (q \o r) : (q \o r)[i] = c)
           <=> (\E i \in DOMAIN q : q[i] = c) \/ (\E i \in DOMAIN r : r[i] = c)
<1>1. /\ q \o r \in Seq(Calls) /\ Len(q \o r) = Len(q) + Len(r)
      /\ \A i \in 1 .. Len(q) + Len(r) :
           (q \o r)[i] = IF i <= Len(q) THEN q[i] ELSE r[i - Len(q)]
  BY ConcatProperties
<1>2. Len(q) \in Nat /\ Len(r) \in Nat /\ DOMAIN q = 1..Len(q) /\ DOMAIN r = 1..Len(r)
      /\ DOMAIN (q \o r) = 1..(Len(q) + Len(r))
  BY <1>1
<1>3. ASSUME NEW i \in DOMAIN q PROVE i \in DOMAIN (q \o r) /\ (q \o r)[i] = q[i]
  BY <1>1, <1>2
<1>4. ASSUME NEW i \in DOMAIN r
      PROVE  i + Len(q) \in DOMAIN (q \o r) /\ (q \o r)[i + Len(q)] = r[i]
  BY <1>1, <1>2
<1>5. ASSUME NEW i \in DOMAIN (q \o r)
      PROVE  \/ i \in DOMAIN q /\ (q \o r)[i] = q[i]
             \/ i - Len(q) \in DOMAIN r /\ (q \o r)[i] = r[i - Len(q)]
  BY <1>1, <1>2
<1> QED BY <1>3, <1>4, <1>5

\* A round is issued on the leg at hand and reserved.
LEMMA RoundIssued ==
  ASSUME TypeOK, CallsIssued, ModelDone
  PROVE  /\ CallsIssued' /\ pc # "tools" /\ UNCHANGED <<leg, history>>
         /\ \A c \in InRound(Calls)' : call[c] = "none" /\ call'[c] = "reserved"
         /\ \A c \in Calls : c \notin InRound(Calls)' =>
              /\ call'[c] = call[c]
              /\ \A l \in Legs : IssuedOn(l, c)' <=> IssuedOn(l, c)
<1>a. /\ leg \in {1, 2} /\ Legs = {1, 2} /\ issued \in [Legs -> Seq(Calls)]
      /\ call \in [Calls -> {"none", "reserved", "answered", "moved"}]
  BY DEF TypeOK, Legs
<1>1. PICK calls \in Rounds :
        /\ slots' = calls
        /\ issued' = [issued EXCEPT ![leg] = issued[leg] \o calls]
        /\ call' = [c \in Calls |->
                      IF \E i \in DOMAIN calls : calls[i] = c THEN "reserved" ELSE call[c]]
  BY DEF ModelDone
<1>2. calls \in Seq(Calls) /\ \A i \in DOMAIN calls : call[calls[i]] = "none"
  BY DEF Rounds
<1> DEFINE In(c) == \E i \in DOMAIN calls : calls[i] = c
<1>3. \A c : c \in InRound(Calls)' <=> c \in Calls /\ In(c)
  BY <1>1 DEF InRound
<1>4. UNCHANGED <<leg, history>> /\ pc # "tools"
      /\ pc' \in {"flushing", "roundend", "tools", "draining", "dropping"}
  BY DEF ModelDone, kept, SpeakAfter, RoundOver
<1>5. \A c \in Calls : /\ In(c) => call[c] = "none" /\ call'[c] = "reserved"
                       /\ ~In(c) => call'[c] = call[c]
  BY <1>1, <1>2
<1>6. ASSUME NEW l \in Legs, NEW c \in Calls
      PROVE  IssuedOn(l, c)' <=> IssuedOn(l, c) \/ (l = leg /\ In(c))
  <2>1. CASE l = leg
    <3>1. issued'[l] = issued[l] \o calls /\ issued[l] \in Seq(Calls)
      BY <1>a, <1>1, <2>1
    <3>2. (\E i \in DOMAIN (issued[l] \o calls) : (issued[l] \o calls)[i] = c)
            <=> (\E i \in DOMAIN issued[l] : issued[l][i] = c)
                \/ (\E i \in DOMAIN calls : calls[i] = c)
      BY SMTT(30), <1>2, <3>1, IssuedBehind
    <3> QED BY <2>1, <3>1, <3>2 DEF IssuedOn
  <2>2. CASE l # leg
    <3>1. issued'[l] = issued[l]
      BY <1>a, <1>1, <2>2
    <3> QED BY <2>2, <3>1 DEF IssuedOn
  <2> QED BY <2>1, <2>2
<1> HIDE DEF In
<1>7. CallsIssued'
  <2>1. ASSUME NEW c \in Calls
        PROVE  /\ call'[c] = "none" <=> ~IssuedOn(1, c)' /\ ~IssuedOn(2, c)'
               /\ ~(IssuedOn(1, c)' /\ IssuedOn(2, c)')
               /\ call'[c] = "moved" => c \in Moves
    <3>1. CASE In(c)
      BY <1>a, <1>4, <1>5, <1>6, <3>1 DEF CallsIssued
    <3>2. CASE ~In(c)
      BY <1>a, <1>4, <1>5, <1>6, <3>2 DEF CallsIssued
    <3> QED BY <3>1, <3>2
  <2>2. ASSUME NEW c \in InRound(Calls)'
        PROVE  IssuedOn(leg, c)' /\ call'[c] = "reserved"
    <3>1. c \in Calls /\ In(c) /\ call'[c] = "reserved"
      BY <1>3, <1>5, <2>2
    <3>2. \E i \in DOMAIN issued'[leg] : issued'[leg][i] = c
      BY <1>a, <1>6, <3>1 DEF IssuedOn
    <3> QED BY <1>4, <3>1, <3>2 DEF IssuedOn
  <2> QED BY <2>1, <2>2 DEF CallsIssued
<1> QED BY <1>a, <1>3, <1>4, <1>5, <1>6, <1>7

\* The answers of a round are kept with it.
LEMMA RoundKept ==
  ASSUME TypeOK, CallsKept, KeepRound, pc = "tools", pc' \notin {"tools", "flushing", "roundend"},
         UNCHANGED <<leg, call, issued, spoken>>, slots' = slots \/ slots' = <<>>
  PROVE  CallsKept'
<1>a. leg \in Legs /\ \A l \in Legs : history[l].rounds \in Seq(SUBSET Calls)
  BY DEF TypeOK
<1>b. \A l \in Legs, c \in Calls : IssuedOn(l, c)' <=> IssuedOn(l, c)
  BY DEF IssuedOn
<1>c. InRound(Calls)' \subseteq InRound(Calls) /\ InRound(Calls) \subseteq Calls
  BY DEF InRound
<1>1. CallsIssued'
  <2>1. \A c \in InRound(Calls)' : IssuedOn(leg, c)'
    <3>1. \A c \in InRound(Calls) : IssuedOn(leg, c)
      BY DEF CallsKept, CallsIssued
    <3> QED BY <1>c, <3>1 DEF IssuedOn
  <2>2. \A c \in Calls : /\ call'[c] = "none" <=> ~IssuedOn(1, c)' /\ ~IssuedOn(2, c)'
                         /\ ~(IssuedOn(1, c)' /\ IssuedOn(2, c)')
                         /\ call'[c] = "moved" => c \in Moves
    BY <1>b DEF CallsKept, CallsIssued, Legs
  <2> QED BY <2>1, <2>2 DEF CallsIssued
<1> DEFINE WithNext(l, c) == \E i \in DOMAIN history'[l].rounds : c \in history'[l].rounds[i]
<1>2. ASSUME NEW l \in Legs
      PROVE  /\ \A c \in Calls : WithNext(l, c) <=> call[c] = "answered" /\ IssuedOn(l, c)
             /\ \A i, j \in DOMAIN history'[l].rounds :
                  i # j => history'[l].rounds[i] \cap history'[l].rounds[j] = {}
  <2>a. \A c \in Calls : With(l, c) <=> call[c] = "answered" /\ IssuedOn(l, c) /\ ~Open(l, c)
    BY DEF CallsKept, CallsWithRounds
  <2>b. \A i, j \in DOMAIN history[l].rounds :
          i # j => history[l].rounds[i] \cap history[l].rounds[j] = {}
    BY DEF CallsKept, CallsWithRounds
  <2>c. \A c \in Answered : Open(leg, c) /\ IssuedOn(leg, c) /\ call[c] = "answered" /\ c \in Calls
    BY <1>c DEF Answered, Open, CallsKept, CallsIssued
  <2>d. \A c \in Calls : call[c] = "answered" /\ Open(l, c) <=> l = leg /\ c \in Answered
    BY DEF Answered, Open
  <2>1. CASE l # leg \/ Answered = {}
    <3>1. history'[l] = history[l]
      BY <2>1, KeepRoundSaid
    <3>2. \A c \in Calls : ~(call[c] = "answered" /\ Open(l, c))
      BY <2>1, <2>d
    <3> QED BY <2>a, <2>b, <3>1, <3>2 DEF With
  <2>2. CASE l = leg /\ Answered # {}
    <3> DEFINE r == history[l].rounds
    <3>1. history'[l].rounds = Append(r, Answered)
      BY <2>2, KeepRoundSaid
    <3>2. r \in Seq(SUBSET Calls) /\ Answered \in SUBSET Calls
      BY <1>a, <1>c DEF Answered
    <3>3. /\ DOMAIN Append(r, Answered) = 1 .. Len(r) + 1 /\ Len(r) \in Nat /\ DOMAIN r = 1 .. Len(r)
          /\ \A i \in 1 .. Len(r) : Append(r, Answered)[i] = r[i]
          /\ Append(r, Answered)[Len(r) + 1] = Answered
      BY <3>2, AppendProperties
    <3> DEFINE n == Len(r)
               s == Append(r, Answered)
    <3>4. \A c : With(l, c) <=> \E i \in DOMAIN r : c \in r[i]
      BY DEF With
    <3>5. history'[l].rounds = s /\ DOMAIN s = 1 .. n + 1 /\ n \in Nat /\ DOMAIN r = 1 .. n
          /\ (\A i \in 1 .. n : s[i] = r[i]) /\ s[n + 1] = Answered
      BY <3>1, <3>3
    <3> HIDE DEF r, s, n
    <3>6. \A c : WithNext(l, c) <=> With(l, c) \/ c \in Answered
      BY <3>4, <3>5
    <3>7. \A i \in 1 .. n : r[i] \cap Answered = {}
      <4>1. SUFFICES ASSUME NEW i \in 1 .. n, NEW c \in Answered, c \in r[i] PROVE FALSE
        OBVIOUS
      <4>2. With(l, c)
        BY <3>4, <3>5, <4>1
      <4> QED BY <2>2, <2>a, <2>c, <4>2
    <3>8. \A i, j \in 1 .. n : i # j => r[i] \cap r[j] = {}
      BY <2>b, <3>5 DEF r
    <3>9. ASSUME NEW i \in 1 .. n + 1, NEW j \in 1 .. n + 1, i # j PROVE s[i] \cap s[j] = {}
      <4>1. CASE i = n + 1
        BY <3>5, <3>7, <3>9, <4>1
      <4>2. CASE j = n + 1
        BY <3>5, <3>7, <3>9, <4>2
      <4>3. CASE i \in 1 .. n /\ j \in 1 .. n
        BY <3>5, <3>8, <3>9, <4>3
      <4> QED BY <3>5, <4>1, <4>2, <4>3
    <3> QED BY <2>2, <2>a, <2>c, <2>d, <3>5, <3>6, <3>9
  <2> QED BY <2>1, <2>2
<1>3. CallsWithRounds'
  <2>1. ASSUME NEW l \in Legs, NEW c \in Calls
        PROVE  With(l, c)' <=> call'[c] = "answered" /\ IssuedOn(l, c)' /\ ~Open(l, c)'
    BY <1>2, <1>b DEF With, Open
  <2>2. \A l \in Legs : \A i, j \in DOMAIN history'[l].rounds :
          i # j => history'[l].rounds[i] \cap history'[l].rounds[j] = {}
    BY <1>2
  <2> QED BY <2>1, <2>2 DEF CallsWithRounds
<1> QED BY <1>1, <1>3 DEF CallsKept

LEMMA CallsKeptStep ==
  ASSUME PassInv, [Next]_vars
  PROVE  CallsKept'
<1>a. /\ TypeOK /\ FirstLeg /\ CallsKept /\ CallsIssued /\ CallsWithRounds
      /\ leg \in {1, 2} /\ Legs = {1, 2}
      /\ call \in [Calls -> {"none", "reserved", "answered", "moved"}]
  <2>1. leg \in {1, 2} /\ Legs = {1, 2}
        /\ call \in [Calls -> {"none", "reserved", "answered", "moved"}]
    BY DEF PassInv, TypeOK, Legs
  <2> QED BY <2>1 DEF PassInv, CallsKept
\* A step that leaves alone what was asked, and its tools.
<1>b. ASSUME UNCHANGED <<leg, slots, call, issued>>,
             \A l \in Legs : history'[l].rounds = history[l].rounds,
             pc' = "tools" <=> pc = "tools",
             pc' \in {"flushing", "roundend"} => pc \in {"flushing", "roundend"}
      PROVE  CallsKept'
  <2>1. \A c : c \in InRound(Calls)' <=> c \in InRound(Calls)
    BY <1>b DEF InRound
  <2>2. CallsIssued'
    BY <1>a, <1>b, <2>1 DEF CallsIssued, IssuedOn
  <2>3. CallsWithRounds'
    BY <1>a, <1>b, <2>1 DEF CallsWithRounds, With, Open, IssuedOn
  <2> QED BY <2>2, <2>3 DEF CallsKept
<1>c. ASSUME Boundary, pc # "tools", UNCHANGED <<call, issued>>, leg = 1
      PROVE  CallsKept'
  <2>1. leg' = 2 /\ slots' = <<>> /\ pc' = "asking" /\ KeepSpeech
    BY <1>c DEF Boundary
  <2>2. \A l \in Legs : history'[l].rounds = history[l].rounds
    BY <1>a, <2>1, KeepSpeechSaid
  <2>3. InRound(Calls)' = {}
    BY <2>1 DEF InRound
  <2>4. CallsIssued'
    BY <1>a, <1>c, <2>1, <2>3 DEF CallsIssued, IssuedOn
  <2>5. CallsWithRounds'
    BY <1>a, <1>c, <2>1, <2>2 DEF CallsWithRounds, With, Open, IssuedOn
  <2> QED BY <2>4, <2>5 DEF CallsKept
<1>1. CASE FirstEvent
  BY <1>b, <1>1 DEF FirstEvent, speech, kept, asked
<1>2. CASE Sentence
  BY <1>b, <1>2 DEF Sentence, SpeakAfter, Ahead, kept, asked
<1>3. CASE Withheld
  BY <1>b, <1>3 DEF Withheld, place, speech, asked
<1>4. CASE StreamFails
  BY <1>b, <1>4 DEF StreamFails, Unwind, Caught, Silence, Dropped, kept, asked
<1>5. CASE ModelDone
  <2>1. /\ CallsIssued' /\ pc # "tools" /\ UNCHANGED <<leg, history>>
        /\ \A c \in InRound(Calls)' : call[c] = "none" /\ call'[c] = "reserved"
        /\ \A c \in Calls : c \notin InRound(Calls)' =>
             /\ call'[c] = call[c]
             /\ \A l \in Legs : IssuedOn(l, c)' <=> IssuedOn(l, c)
    BY <1>a, <1>5, RoundIssued
  <2>2. CallsWithRounds'
    <3>1. ASSUME NEW l \in Legs, NEW c \in Calls
          PROVE  With(l, c)' <=> call'[c] = "answered" /\ IssuedOn(l, c)' /\ ~Open(l, c)'
      <4>1. With(l, c)' <=> call[c] = "answered" /\ IssuedOn(l, c) /\ ~Open(l, c)
        BY <1>a, <2>1 DEF CallsWithRounds, With
      <4>2. ~Open(l, c)
        BY <2>1 DEF Open
      <4>3. CASE c \in InRound(Calls)'
        BY <2>1, <4>1, <4>3
      <4>4. CASE c \notin InRound(Calls)'
        BY <2>1, <4>1, <4>2, <4>4 DEF Open
      <4> QED BY <4>3, <4>4
    <3> QED BY <1>a, <2>1, <3>1 DEF CallsWithRounds
  <2> QED BY <2>1, <2>2 DEF CallsKept
<1>6. CASE Stalled
  BY <1>b, <1>6 DEF Stalled, Caught, speech, kept, asked
<1>7. CASE Queued
  BY <1>b, <1>7 DEF Queued, Queueing, Dropped, kept, asked
<1>8. CASE SeenDown
  BY <1>b, <1>8 DEF SeenDown, speech, kept, asked
<1>9. CASE CleanedUp
  BY <1>b, <1>9 DEF CleanedUp, Caught, kept, asked
<1>10. CASE SpokenOut
  <2>1. /\ UNCHANGED <<leg, slots, call, issued, history>>
        /\ pc = "roundend" /\ pc' \in {"tools", "draining", "cleanup"}
    BY <1>10 DEF SpokenOut, RoundOver, kept, asked
  <2>2. \A c \in InRound(Calls) : call[c] = "reserved"
    BY <1>a, <2>1 DEF CallsIssued
  <2>3. CallsIssued'
    BY <1>a, <2>1 DEF CallsIssued, IssuedOn, InRound
  <2>4. CallsWithRounds'
    <3>1. ASSUME NEW l \in Legs, NEW c \in Calls
          PROVE  With(l, c)' <=> call'[c] = "answered" /\ IssuedOn(l, c)' /\ ~Open(l, c)'
      <4>1. With(l, c) <=> call[c] = "answered" /\ IssuedOn(l, c) /\ ~Open(l, c)
        BY <1>a DEF CallsWithRounds
      <4>2. ~Open(l, c)
        BY <2>1 DEF Open
      <4>3. call[c] = "answered" => ~Open(l, c)'
        BY <2>1, <2>2 DEF Open, InRound
      <4> QED BY <2>1, <4>1, <4>2, <4>3 DEF With, IssuedOn
    <3> QED BY <1>a, <2>1, <3>1 DEF CallsWithRounds
  <2> QED BY <2>3, <2>4 DEF CallsKept
<1>11. CASE ToolsOver
  <2>1. \E e \in {"none", "failed"} : ToolsEnd(e)
    BY <1>11 DEF ToolsOver
  <2>2. KeepRound /\ pc' \in {"draining", "asking", "excusing", "settling"}
        /\ (slots' = slots \/ slots' = <<>>)
    BY <2>1 DEF ToolsEnd, Caught
  <2> QED BY <1>a, <1>11, <2>2, RoundKept DEF ToolsOver
<1>12. CASE Drained
  <2>1. CASE Boundary
    <3>1. leg = 1
      BY <1>a, <1>12, <2>1, MovesOnce DEF Drained, Boundary, LegEnds, Caught, SpeakAfter
    <3> QED BY <1>c, <1>12, <2>1, <3>1 DEF Drained, Boundary
  <2>2. CASE ~Boundary
    BY <1>b, <2>2, <1>12 DEF Drained, LegEnds, SpeakAfter, Caught, kept
  <2> QED BY <2>1, <2>2
<1>13. CASE Recapped
  BY <1>b, <1>13 DEF Recapped, kept, asked
<1>14. CASE Stored
  <2>1. CASE Boundary
    <3>1. leg = 1
      BY <1>a, <1>14, <2>1, MovesOnce DEF Stored, Boundary, LegEnds, Caught, SpeakAfter
    <3> QED BY <1>c, <1>14, <2>1, <3>1 DEF Stored, Boundary
  <2>2. CASE ~Boundary
    BY <1>b, <2>2, <1>14 DEF Stored, LegEnds, SpeakAfter, Caught, kept
  <2> QED BY <2>1, <2>2
<1>15. CASE Excuse
  BY <1>b, <1>15 DEF Excuse, speech, kept, asked
<1>16. CASE Settled
  <2>1. \A l \in Legs : history'[l].rounds = history[l].rounds
    BY <1>a, <1>16, KeepSpeechSaid DEF Settled
  <2> QED BY <1>b, <1>16, <2>1 DEF Settled, asked
<1>17. ASSUME NEW c \in Calls, Answer(c) \/ MoveGranted(c) PROVE CallsKept'
  <2>1. /\ c \in InRound(Calls) /\ call[c] = "reserved" /\ pc = "tools"
        /\ UNCHANGED <<pc, leg, slots, issued, history>>
        /\ \/ call' = [call EXCEPT ![c] = "answered"]
           \/ call' = [call EXCEPT ![c] = "moved"] /\ c \in Moves
    BY <1>17 DEF Answer, MoveGranted, Turn, place, kept
  <2>2. c \in Calls /\ Open(leg, c) /\ IssuedOn(leg, c)
    BY <1>a, <2>1 DEF Open, CallsIssued, InRound
  <2>3. \A d \in Calls \ {c} : call'[d] = call[d]
    BY <1>a, <2>1
  <2>4. call'[c] # "none" /\ (call'[c] = "moved" => c \in Moves)
    BY <1>a, <2>1, <2>2
  <2>5. CallsIssued'
    BY <1>a, <2>1, <2>2, <2>3, <2>4 DEF CallsIssued, IssuedOn, InRound
  <2>6. CallsWithRounds'
    <3>1. ASSUME NEW l \in Legs, NEW d \in Calls
          PROVE  With(l, d)' <=> call'[d] = "answered" /\ IssuedOn(l, d)' /\ ~Open(l, d)'
      <4>1. /\ With(l, d)' <=> With(l, d)
            /\ IssuedOn(l, d)' <=> IssuedOn(l, d)
            /\ Open(l, d)' <=> Open(l, d)
        BY <2>1 DEF With, IssuedOn, Open, InRound
      <4>2. With(l, d) <=> call[d] = "answered" /\ IssuedOn(l, d) /\ ~Open(l, d)
        BY <1>a DEF CallsWithRounds
      <4>3. CASE d = c
        <5>1. IssuedOn(l, d) => l = leg
          BY <1>a, <2>2, <4>3 DEF CallsIssued
        <5> QED BY <2>1, <2>2, <4>1, <4>2, <4>3, <5>1
      <4>4. CASE d # c
        BY <2>3, <4>1, <4>2, <4>4
      <4> QED BY <4>3, <4>4
    <3> QED BY <1>a, <2>1, <3>1 DEF CallsWithRounds
  <2> QED BY <2>5, <2>6 DEF CallsKept
<1>18. CASE ClipStep
  BY <1>b, <1>18 DEF ClipStep, place, speech, kept, asked
<1>19. ASSUME NEW s \in Sentences, SynthesisStep(s) PROVE CallsKept'
  BY <1>b, <1>19 DEF SynthesisStep, ChunkGiven, RoomMade, StreamOver, place, kept, asked, Pulling
<1>20. ASSUME NEW s \in Sentences, VoiceStarts(s) \/ Announced(s) PROVE CallsKept'
  BY <1>b, <1>20 DEF VoiceStarts, Announced, place, kept, asked
<1>21. ASSUME NEW s \in Sentences, ChunkTaken(s) PROVE CallsKept'
  BY <1>b, <1>21 DEF ChunkTaken, place, kept, asked
<1>22. ASSUME NEW s \in Sentences, ChunkSent(s) PROVE CallsKept'
  BY <1>b, <1>22 DEF ChunkSent, Dropped, place, kept, asked
<1>23. ASSUME NEW s \in Sentences, Spoken(s) PROVE CallsKept'
  BY <1>b, <1>23 DEF Spoken, place, asked
<1>24. ASSUME NEW s \in Sentences, VoiceEnds(s) PROVE CallsKept'
  BY <1>b, <1>24 DEF VoiceEnds, place, kept, asked
<1>25. ASSUME CutHere, Cut PROVE CallsKept'
  <2>1. CASE ToolsEnd("cancel") /\ pc = "tools"
    <3>1. KeepRound /\ pc' = "settling" /\ slots' = slots
      BY <2>1 DEF ToolsEnd, Caught
    <3> QED BY <1>a, <1>25, <2>1, <3>1, RoundKept DEF Cut
  <2>2. CASE /\ UNCHANGED <<history, slots>> /\ pc # "tools"
             /\ pc' \in {"cleanup", "excusing", "settling"}
    BY <1>b, <1>25, <2>2 DEF Cut
  <2> QED BY <1>25, <2>1, <2>2 DEF CutHere, Unwind, Caught
<1>26. ASSUME CutVoice, Cut PROVE CallsKept'
  <2>1. /\ UNCHANGED <<leg, slots, call, issued, history>> /\ pc # "tools"
        /\ pc' = pc \/ pc' \in {"dropping", "cleanup"}
    BY <1>26 DEF Cut, CutVoice, Queueing
  <2> QED BY <1>b, <2>1
<1>27. ASSUME CutSwallowed, Cut PROVE CallsKept'
  BY <1>b, <1>27 DEF CutSwallowed, Cut
<1>28. ASSUME CutSettling, Cut PROVE CallsKept'
  BY <1>b, <1>28 DEF CutSettling, Cut
<1>29. CASE UNCHANGED vars
  BY <1>b, <1>29 DEF vars, place, speech, kept, asked
<1> QED
  BY <1>1, <1>2, <1>3, <1>4, <1>5, <1>6, <1>7, <1>8, <1>9, <1>10, <1>11, <1>12, <1>13, <1>14,
     <1>15, <1>16, <1>17, <1>18, <1>19, <1>20, <1>21, <1>22, <1>23, <1>24, <1>25, <1>26, <1>27,
     <1>28, <1>29
  DEF Next, ModelStep, ReplyStep, TaskStep, VoiceStep, Cut

LEMMA ToldStep ==
  ASSUME PassInv, [Next]_vars
  PROVE  Told'
<1>a. /\ TypeOK /\ FirstLeg /\ InOrder /\ Told /\ OneVoice /\ Queue
      /\ leg \in {1, 2} /\ Legs = {1, 2}
      /\ pass \in [spoke : BOOLEAN, withheld : BOOLEAN, kept : 0..Len(spoken)]
      /\ aired \in [Legs -> Seq(Sentences)]
  <2>1. /\ leg \in {1, 2} /\ Legs = {1, 2}
        /\ pass \in [spoke : BOOLEAN, withheld : BOOLEAN, kept : 0..Len(spoken)]
        /\ aired \in [Legs -> Seq(Sentences)]
    BY DEF PassInv, TypeOK, Legs
  <2> QED BY <2>1 DEF PassInv, OneBehindAnother
<1> DEFINE Said == UNCHANGED <<leg, aired, phrase>>
                   /\ pass'.spoke = pass.spoke /\ pass'.withheld = pass.withheld
\* Before a reply ends nothing is said of silence, and its errors unwind it.
<1>b. ASSUME Said, pc \notin Ending, pc' \notin Ending,
             thrown' # "none" <=> pc' \in {"dropping", "cleanup"}
      PROVE  Told'
  BY <1>a, <1>b DEF Told, Ending, AllSilent
\* What ends with an error is told of that, or is cut.
<1>c. ASSUME Said, pc \notin {"settling", "over"},
             thrown' # "none", pc' = "settling" \/ (pc' = "excusing" /\ thrown' = "failed")
      PROVE  Told'
  BY <1>a, <1>c DEF Told, Ending, AllSilent
<1>d. ASSUME Said, UNCHANGED <<pc, thrown>>
      PROVE  Told'
  BY <1>a, <1>d DEF Told, Ending, AllSilent
<1>e. ASSUME Boundary, UNCHANGED <<aired, phrase, thrown>>, pc \in {"draining", "storing"}, leg = 1
      PROVE  Told'
  <2>1. /\ pass'.spoke = Heard /\ leg' = 2 /\ pc' = "asking" /\ thrown' = "none" /\ phrase' = "none"
    BY <1>a, <1>e DEF Boundary, Told, Ending
  <2>2. Heard <=> aired[1] # <<>>
    BY <1>a, <1>e DEF Heard, Told, InOrder
  <2> QED BY <1>a, <1>e, <2>1, <2>2 DEF Told, Ending
<1>1. CASE FirstEvent
  BY <1>a, <1>b, <1>1 DEF FirstEvent, speech, kept, asked, Told, Ending, Queueing, VoiceOver
<1>2. CASE Sentence
  BY <1>a, <1>b, <1>2
     DEF Sentence, SpeakAfter, Ahead, kept, asked, Told, Ending, Queueing, VoiceOver
<1>3. CASE Withheld
  BY <1>a, <1>3 DEF Withheld, Told, Ending, AllSilent, place, speech, asked
<1>4. CASE StreamFails
  <2>1. CASE speaking = 0
    BY <1>c, <1>4, <2>1 DEF StreamFails, Unwind, Caught, kept
  <2>2. CASE speaking # 0
    BY <1>b, <1>4, <2>2 DEF StreamFails, Unwind, Ending, kept
  <2> QED BY <2>1, <2>2
<1>5. CASE ModelDone
  BY <1>a, <1>b, <1>5
     DEF ModelDone, SpeakAfter, Ahead, RoundOver, kept, Told, Ending, Queueing, VoiceOver
<1>6. CASE Stalled
  <2>1. CASE attempt = 1
    BY <1>d, <1>6, <2>1 DEF Stalled, kept
  <2>2. CASE attempt # 1
    BY <1>c, <1>6, <2>2 DEF Stalled, Caught, kept
  <2> QED BY <2>1, <2>2
<1>7. CASE Queued
  BY <1>a, <1>b, <1>7 DEF Queued, Dropped, kept, asked, Told, Ending, Queueing, VoiceOver
<1>8. CASE SeenDown
  BY <1>a, <1>b, <1>8 DEF SeenDown, speech, kept, asked, Told, Ending, Queueing, VoiceOver
<1>9. CASE CleanedUp
  <2>1. thrown # "none"
    BY <1>a, <1>9 DEF CleanedUp, Told, Ending
  <2> QED BY <1>c, <1>9, <2>1 DEF CleanedUp, Caught, kept
<1>10. CASE SpokenOut
  BY <1>a, <1>b, <1>10 DEF SpokenOut, RoundOver, kept, asked, Told, Ending, Queueing, VoiceOver
<1>11. CASE ToolsOver
  <2>1. KeepRound /\ UNCHANGED <<leg, spoken, aired, phrase>>
    BY <1>11 DEF ToolsOver, ToolsEnd
  <2>2. Said
    BY <1>a, <2>1, KeepRoundSaid
  <2>3. CASE pc' \in {"draining", "asking"} /\ UNCHANGED thrown
    BY <1>a, <1>b, <1>11, <2>2, <2>3 DEF ToolsOver, Told, Ending
  <2>4. CASE pc' = "excusing" /\ thrown' = "failed"
    BY <1>c, <1>11, <2>2, <2>4 DEF ToolsOver
  <2> QED BY <1>11, <2>3, <2>4 DEF ToolsOver, ToolsEnd, Caught
<1>12. CASE Drained
  <2>1. CASE Boundary /\ UNCHANGED thrown
    <3>1. leg = 1
      BY <1>a, <1>12, <2>1, MovesOnce DEF Drained, Boundary, LegEnds, Caught, SpeakAfter
    <3> QED BY <1>e, <1>12, <2>1, <3>1 DEF Drained, Boundary, kept
  <2>2. CASE LegEnds /\ UNCHANGED <<thrown, kept>>
    <3>1. thrown = "none" /\ phrase = "none" /\ UNCHANGED <<leg, phrase>>
      BY <1>a, <1>12, <2>2 DEF Drained, Told, Ending, LegEnds, Boundary
    <3>2. ~Heard <=> AllSilent
      BY <1>a DEF Heard, Told, InOrder, AllSilent
    <3>3. CASE pass.withheld /\ ~Heard
      BY <1>a, <2>2, <3>1, <3>2, <3>3 DEF LegEnds, Told, Ending, AllSilent, kept
    <3>4. CASE ~(pass.withheld /\ ~Heard)
      BY <1>a, <2>2, <3>1, <3>2, <3>4 DEF LegEnds, Told, Ending, AllSilent, kept
    <3> QED BY <3>3, <3>4
  <2>3. CASE SpeakAfter("queueing", "recapping") /\ UNCHANGED <<leg, kept>>
    <3>1. pc' = "recapping" /\ thrown' = "none" /\ pc = "draining" /\ UNCHANGED phrase
      BY <1>a, <1>12, <2>3 DEF Drained, SpeakAfter, Told, Ending, Queue
    <3> QED BY <1>a, <1>b, <2>3, <3>1 DEF Ending, kept
  <2>4. CASE Caught("gone") /\ UNCHANGED <<leg, kept>>
    BY <1>c, <1>12, <2>4 DEF Drained, Caught, kept
  <2> QED BY <1>12, <2>1, <2>2, <2>3, <2>4 DEF Drained
<1>13. CASE Recapped
  BY <1>a, <1>b, <1>13 DEF Recapped, kept, asked, Told, Ending, Queueing, VoiceOver
<1>14. CASE Stored
  <2>1. CASE Boundary /\ UNCHANGED thrown
    <3>1. leg = 1
      BY <1>a, <1>14, <2>1, MovesOnce DEF Stored
    <3> QED BY <1>e, <1>14, <2>1, <3>1 DEF Stored, Boundary, Caught, kept
  <2>2. CASE Caught("gone") /\ UNCHANGED <<leg, kept>>
    BY <1>c, <1>14, <2>2 DEF Stored, Caught, kept
  <2> QED BY <1>14, <2>1, <2>2 DEF Stored, kept
<1>15. CASE Excuse
  BY <1>a, <1>15 DEF Excuse, Told, Ending, AllSilent, kept
<1>16. CASE Settled
  BY <1>a, <1>16 DEF Settled, Told, Ending, AllSilent
<1>17. ASSUME NEW c \in Calls, Answer(c) \/ MoveGranted(c) PROVE Told'
  BY <1>d, <1>17 DEF Answer, MoveGranted, place, speech, kept
<1>18. CASE ClipStep
  BY <1>d, <1>18 DEF ClipStep, place, speech, kept, asked
<1>19. ASSUME NEW s \in Sentences, SynthesisStep(s) PROVE Told'
  BY <1>d, <1>19 DEF SynthesisStep, ChunkGiven, RoomMade, StreamOver, place, kept, asked, Pulling
<1>20. ASSUME NEW s \in Sentences, VoiceStarts(s) \/ Announced(s) PROVE Told'
  BY <1>d, <1>20 DEF VoiceStarts, Announced, place, kept, asked
<1>21. ASSUME NEW s \in Sentences, ChunkTaken(s) PROVE Told'
  BY <1>d, <1>21 DEF ChunkTaken, place, kept, asked
<1>22. ASSUME NEW s \in Sentences, ChunkSent(s) PROVE Told'
  BY <1>d, <1>22 DEF ChunkSent, Dropped, place, kept, asked
<1>23. ASSUME NEW s \in Sentences, Spoken(s) PROVE Told'
  <2>1. UNCHANGED <<pc, thrown, leg, pass, phrase>> /\ pc \notin Ending
    <3>1. Live(s)
      BY <1>23 DEF Spoken, Live, VoiceOver
    <3>2. speaking # 0
      BY <1>a, <3>1 DEF OneVoice, Sentences
    <3> QED BY <1>a, <1>23, <3>2 DEF Spoken, Queue, place
  <2>2. leg = 2 => aired'[1] = aired[1]
    BY <1>a, <1>23 DEF Spoken
  <2> QED BY <1>a, <2>1, <2>2 DEF Told, Ending
<1>24. ASSUME NEW s \in Sentences, VoiceEnds(s) PROVE Told'
  BY <1>d, <1>24 DEF VoiceEnds, place, kept, asked
<1>25. ASSUME CutHere, Cut PROVE Told'
  <2>1. CASE ToolsEnd("cancel") /\ pc = "tools"
    <3>1. KeepRound /\ thrown' = "cancel" /\ pc' = "settling" /\ UNCHANGED <<leg, spoken, aired, phrase>>
      BY <1>25, <2>1 DEF Cut, ToolsEnd, Caught
    <3>2. Said
      BY <1>a, <3>1, KeepRoundSaid
    <3> QED BY <1>c, <2>1, <3>1, <3>2
  <2>2. CASE /\ Caught("cancel") /\ UNCHANGED pass /\ pc \notin {"settling", "over"}
    BY <1>c, <1>25, <2>2 DEF Cut, Caught
  <2>3. CASE /\ pc' = "cleanup" /\ thrown' = "cancel" /\ UNCHANGED pass /\ pc \notin Ending
    BY <1>b, <1>25, <2>3 DEF Cut, Ending
  <2> QED BY <1>25, <2>1, <2>2, <2>3 DEF CutHere, Unwind, Ending
<1>26. ASSUME CutVoice, Cut PROVE Told'
  <2>1. CASE pc' \in {"dropping", "cleanup"}
    BY <1>b, <1>26, <2>1 DEF Cut, CutVoice, Queueing, Ending
  <2>2. CASE UNCHANGED <<pc, thrown>>
    BY <1>d, <1>26, <2>2 DEF Cut, CutVoice
  <2> QED BY <1>26, <2>1, <2>2 DEF CutVoice
<1>27. ASSUME CutSwallowed, Cut PROVE Told'
  BY <1>d, <1>27 DEF CutSwallowed, Cut
<1>28. ASSUME CutSettling, Cut PROVE Told'
  BY <1>a, <1>28 DEF Cut, CutSettling, Told, Ending, AllSilent
<1>29. CASE UNCHANGED vars
  BY <1>d, <1>29 DEF vars, place, speech, kept, asked
<1> QED
  BY <1>1, <1>2, <1>3, <1>4, <1>5, <1>6, <1>7, <1>8, <1>9, <1>10, <1>11, <1>12, <1>13, <1>14,
     <1>15, <1>16, <1>17, <1>18, <1>19, <1>20, <1>21, <1>22, <1>23, <1>24, <1>25, <1>26, <1>27,
     <1>28, <1>29
  DEF Next, ModelStep, ReplyStep, TaskStep, VoiceStep, Cut

LEMMA PassInit == Init => PassInv
<1> SUFFICES ASSUME Init PROVE PassInv
  OBVIOUS
<1>a. /\ leg = 1 /\ speaking = 0 /\ last = 0 /\ pc = "asking" /\ thrown = "none" /\ phrase = "none"
      /\ slots = <<>> /\ spoken = <<>> /\ pass = [spoke |-> FALSE, withheld |-> FALSE, kept |-> 0]
      /\ aired[1] = <<>> /\ aired[2] = <<>> /\ issued[1] = <<>> /\ issued[2] = <<>> /\ tools = issued
      /\ history[1] = Unheard /\ history[2] = Unheard /\ stored[1] = Unsaid /\ stored[2] = Unsaid
      /\ \A s \in Sentences : voice[s] = "none" /\ synth[s] = "none" /\ ready[s] = 0 /\ given[s] = 0
      /\ \A c \in Calls : call[c] = "none"
  BY DEF Init, Legs
<1>1. TypeOK
  BY TypeInit
<1>2. FirstLeg /\ InOrder
  BY <1>a DEF FirstLeg, InOrder
<1>3. OneBehindAnother
  <2>1. Count = 0
    BY <1>a DEF Count
  <2> QED BY <1>a, <2>1 DEF OneBehindAnother, OneVoice, Queue, Live, Queueing, Ending
<1>4. Unbegun /\ Untaken
  BY <1>a DEF Unbegun, Untaken, UntakenOf, Pulling
<1>5. ClipOverKept
  BY <1>a DEF ClipOverKept
<1>6. Kept
  <2>1. SubSeq(aired[1], 1, 0) = <<>>
    <3>1. 0 \in Int /\ 1 \in Int /\ 0 < 1
      OBVIOUS
    <3> QED BY <3>1, SubSeqEmpty
  <2> QED BY <1>a, <2>1 DEF Kept, Unheard
<1>7. CallsKept
  <2>1. \A l \in Legs : history[l].rounds = <<>> /\ issued[l] = <<>>
    BY <1>a DEF Legs, Unheard
  <2>2. CallsWithRounds
    BY <1>a, <2>1 DEF CallsWithRounds, With
  <2>3. CallsIssued
    BY <1>a DEF CallsIssued, IssuedOn, InRound
  <2> QED BY <2>2, <2>3 DEF CallsKept
<1>8. Told
  BY <1>a DEF Told, Ending
<1> QED BY <1>1, <1>2, <1>3, <1>4, <1>5, <1>6, <1>7, <1>8 DEF PassInv

\* The invariant: types, the order of what is heard, and what is kept of it.
THEOREM PassAlways == Spec => []PassInv
<1>1. Init => PassInv
  BY PassInit
<1>2. PassInv /\ [Next]_vars => PassInv'
  <2> SUFFICES ASSUME PassInv, [Next]_vars PROVE PassInv'
    OBVIOUS
  <2>1. TypeOK' /\ FirstLeg'
    BY TypeStep, FirstLegStep DEF PassInv
  <2>2. InOrder' /\ OneBehindAnother' /\ Unbegun' /\ Untaken'
    BY InOrderStep, OneBehindAnotherStep, UnbegunStep, UntakenStep
  <2>3. ClipOverKept' /\ Kept' /\ CallsKept' /\ Told'
    BY ClipOverKeptStep, KeptStep, CallsKeptStep, ToldStep
  <2> QED BY <2>1, <2>2, <2>3 DEF PassInv
<1> QED BY <1>1, <1>2, PTL DEF Spec

-----------------------------------------------------------------------------
(* What a user, a thread and an operator are promised.                     *)

\* What was heard is what was written, in its order, and is in the history and
\* the record of the leg it was heard on, wherever the reply was cut.
THEOREM HeardOnce == Spec => []HeardKeptOnce
<1>1. PassInv => HeardKeptOnce
  <2> SUFFICES ASSUME PassInv PROVE HeardKeptOnce
    OBVIOUS
  <2>a. /\ InOrder /\ Kept /\ leg \in {1, 2} /\ Legs = {1, 2}
        /\ aired[1] \in Seq(Sentences) /\ aired[2] \in Seq(Sentences)
        /\ aired[leg] \in Seq(Sentences) /\ spoken = aired[leg] /\ pass.kept \in 0..Len(spoken)
    BY DEF PassInv, TypeOK, Legs, InOrder
  <2>1. \A i \in DOMAIN (aired[1] \o aired[2]) : (aired[1] \o aired[2])[i] = i
    <3> DEFINE a == aired[1]
               b == aired[2]
               all == a \o b
    <3>1. a \in Seq(Sentences) /\ b \in Seq(Sentences)
      BY <2>a
    <3>2. \A i \in DOMAIN a : a[i] = i
      BY <2>a DEF InOrder
    <3>3. \A i \in DOMAIN b : b[i] = Len(a) + i
      BY <2>a DEF InOrder
    <3> HIDE DEF a, b
    <3>4. /\ all \in Seq(Sentences) /\ Len(all) = Len(a) + Len(b)
          /\ \A i \in 1 .. Len(a) + Len(b) :
               all[i] = IF i <= Len(a) THEN a[i] ELSE b[i - Len(a)]
      BY <3>1, ConcatProperties
    <3> HIDE DEF all
    <3>5. /\ Len(a) \in Nat /\ DOMAIN a = 1 .. Len(a)
          /\ Len(b) \in Nat /\ DOMAIN b = 1 .. Len(b)
          /\ DOMAIN all = 1 .. Len(a) + Len(b)
      BY <3>1, <3>4
    <3>6. \A i \in DOMAIN all : all[i] = i
      BY <3>2, <3>3, <3>4, <3>5
    <3> QED BY <3>6 DEF all, a, b
  <2>2. ASSUME NEW l \in Legs PROVE Prefix(history[l].said, aired[l])
    <3>1. Prefix(aired[l], aired[l]) /\ Prefix(<<>>, aired[l])
      BY <2>a, SubSeqFull, SubSeqEmpty DEF Prefix
    <3>2. pc # "over" => Prefix(history[leg].said, aired[leg])
      <4>1. Len(SubSeq(aired[leg], 1, pass.kept)) = pass.kept
        BY <2>a, SplitAt
      <4> QED BY <2>a, <4>1 DEF Kept, Prefix
    <3>3. CASE l = leg
      BY <2>a, <3>2, <3>3 DEF Kept
    <3>4. CASE l # leg
      BY <2>a, <3>1, <3>4 DEF Kept, Unheard
    <3> QED BY <3>3, <3>4
  <2>3. ASSUME NEW l \in Legs, pc = "over"
        PROVE  stored[l].said = aired[l] /\ (cuts < 2 /\ Sounded => history[l].said = aired[l])
    BY <2>a, <2>3 DEF Kept, InOrder, Unheard, Unsaid
  <2> QED BY <2>1, <2>2, <2>3 DEF HeardKeptOnce
<1> QED BY <1>1, PassAlways, PTL

\* A call that was issued is on its leg's record, and with one round of its
\* history where it was answered.
THEOREM CallsKeptTrue == Spec => []CallsAccounted
<1>1. PassInv => CallsAccounted
  <2> SUFFICES ASSUME PassInv, NEW l \in Legs, l < leg \/ pc = "over"
               PROVE  LET rounds == history[l].rounds
                      IN  /\ stored[l].calls = issued[l]
                          /\ UNION {rounds[i] : i \in DOMAIN rounds}
                               = {c \in Calls : call[c] = "answered" /\ IssuedOn(l, c)}
                          /\ \A i, j \in DOMAIN rounds : i # j => rounds[i] \cap rounds[j] = {}
    BY DEF CallsAccounted, IssuedOn
  <2>a. leg \in {1, 2} /\ l \in {1, 2} /\ history[l].rounds \in Seq(SUBSET Calls)
    <3>1. TypeOK
      BY DEF PassInv
    <3>2. leg \in Legs /\ \A k \in Legs : history[k].rounds \in Seq(SUBSET Calls)
      BY ONLY <3>1, SMT DEF TypeOK, Legs
    <3> QED
      BY ONLY <3>2, l \in Legs DEF Legs
  <2>1. stored[l].calls = issued[l]
    BY <2>a DEF PassInv, Kept, Unsaid
  <2>2. \A c \in Calls : ~Open(l, c)
    BY <2>a DEF Open
  <2>3. \A c \in Calls : With(l, c) <=> call[c] = "answered" /\ IssuedOn(l, c)
    BY <2>2 DEF PassInv, CallsKept, CallsWithRounds
  <2>4. \A i \in DOMAIN history[l].rounds : history[l].rounds[i] \subseteq Calls
    BY <2>a
  <2> QED BY <2>1, <2>3, <2>4 DEF PassInv, CallsKept, CallsWithRounds, With
<1> QED BY <1>1, PassAlways, PTL

\* Silence is told, and told only of silence.
THEOREM SilenceTold == Spec => []ToldWhenNothingHeard
<1>1. PassInv => ToldWhenNothingHeard
  <2> SUFFICES ASSUME PassInv PROVE ToldWhenNothingHeard
    OBVIOUS
  <2>1. aired = [l \in Legs |-> <<>>] <=> AllSilent
    BY DEF PassInv, TypeOK, AllSilent, Legs
  <2> QED BY <2>1 DEF PassInv, Told, ToldWhenNothingHeard
<1> QED BY <1>1, PassAlways, PTL
=============================================================================
