--------------------------- MODULE Record_proofs ---------------------------
(***************************************************************************)
(* Proofs about Record, for any sessions, threads and turns, any fault,       *)
(* deletion and crash: its types, that rows are held together and what was  *)
(* deleted stays deleted, that handles tell the truth, that losses are      *)
(* told, and the allowance.                                                 *)
(***************************************************************************)
EXTENDS Record, FiniteSetTheorems, SequenceTheorems, TLAPS

USE RecordConstants

-----------------------------------------------------------------------------
(* Types.                                                                  *)

ProducerTypes ==
  /\ queue \in Seq(Records) /\ stopped \in BOOLEAN /\ inFlight \in Int
  /\ dropped \in [Sessions -> Nat]
  /\ session \in [Sessions -> {"away", "recording", "closed"}]
  /\ holds \in [Sessions -> SUBSET Threads]
  /\ answer \in [Handles -> {"none", "waiting", "landed", "refused", "gone"}]
ThreadTypes ==
  /\ writer \in {"running", "pruning", "flushing", "ended"}
  /\ marker \in Marker \cup {<<>>}
  /\ batches \subseteq Sessions /\ held \in [Sessions -> Nat]
  /\ lost \in [Sessions -> Nat]
  /\ incomplete \subseteq Threads /\ written \subseteq Threads
  /\ dead \subseteq Threads
DatabaseTypes ==
  /\ spine \in [Sessions -> {"none", "open", "closed"}] /\ tally \in [Sessions -> Nat]
  /\ tracks \subseteq Sessions /\ rows \subseteq Turns
  /\ listed \subseteq Threads /\ flagged \subseteq Threads
RestTypes ==
  /\ published \subseteq Threads
  /\ erasing \in {<<gone>> : gone \in SUBSET Threads} \cup {<<>>}
  /\ keeping \subseteq Threads /\ graves \subseteq Threads
SeenTypes == seen \in Seen

LEMMA TypeGroups ==
  TypeOK <=> ProducerTypes /\ ThreadTypes /\ DatabaseTypes /\ RestTypes /\ SeenTypes
BY DEF TypeOK, ProducerTypes, ThreadTypes, DatabaseTypes, RestTypes, SeenTypes

\* What the helpers make is of the types their arguments are of.
LEMMA QueueTyped ==
  ASSUME ProducerTypes, NEW r \in Records, Queue(r)
  PROVE  queue' \in Seq(Records)
BY DEF ProducerTypes, Queue

LEMMA RecordsTyped ==
  /\ \A s \in Sessions : /\ [kind |-> "open", of |-> s] \in Records
                         /\ [kind |-> "event", of |-> s] \in Records
                         /\ [kind |-> "close", of |-> s] \in Records
  /\ \A t \in Turns : [kind |-> "turn", of |-> t] \in Records
  /\ [kind |-> "stop"] \in Records
BY DEF Records

LEMMA RecordKinds ==
  ASSUME NEW r \in Records
  PROVE  /\ r.kind \in {"open", "event", "close"} => r.of \in Sessions
         /\ r.kind = "turn" => r.of \in Turns
BY DEF Records

LEMMA ItemTyped ==
  ASSUME ProducerTypes, Ready
  PROVE  /\ Item \in Records /\ Tail(queue) \in Seq(Records)
         /\ Item.kind \in {"open", "event", "close"} => Item.of \in Sessions
         /\ Item.kind = "turn" => Item.of \in Turns
<1>1. Item \in Records /\ Tail(queue) \in Seq(Records)
  BY DEF ProducerTypes, Ready, Item
<1> QED BY <1>1, RecordKinds

LEMMA AnsweredTyped ==
  ASSUME ProducerTypes, NEW hs, NEW how \in {"waiting", "landed", "refused"}
  PROVE  Answered(hs, how) \in
           [Handles -> {"none", "waiting", "landed", "refused", "gone"}]
BY DEF ProducerTypes, Answered

LEMMA NoneTyped == None \in [Sessions -> Nat]
BY DEF None

LEMMA AddTyped ==
  ASSUME NEW count \in [Sessions -> Nat], NEW s \in Sessions, NEW n \in Nat
  PROVE  Add(count, s, n) \in [Sessions -> Nat]
BY DEF Add

Steps == {"durable", "answer", "events", "late", "end"}

LEMMA MarkerTyped ==
  ASSUME ThreadTypes, marker # <<>>
  PROVE  /\ marker \in Marker
         /\ marker.of \in Sessions /\ marker.turns \subseteq Turns
         /\ marker.kind \in {"open", "turn", "close", "flush"}
         /\ marker.step \in Steps /\ marker.attempt \in 1 .. MaxAttempts
         /\ marker.landed \in BOOLEAN
         /\ marker = [kind |-> marker.kind, of |-> marker.of, turns |-> marker.turns,
                      step |-> marker.step, attempt |-> marker.attempt,
                      landed |-> marker.landed]
BY DEF ThreadTypes, Marker, Steps

LEMMA BeginTyped ==
  ASSUME NEW kind \in {"open", "turn", "close", "flush"}, NEW s \in Sessions,
         NEW ts \in SUBSET Turns, Begin(kind, s, ts)
  PROVE  marker' \in Marker
<1>1. 1 \in 1 .. MaxAttempts
  OBVIOUS
<1> QED BY <1>1 DEF Begin, Marker

LEMMA MarkerMoves ==
  ASSUME NEW m \in Marker, NEW ts \in SUBSET Turns, NEW step \in Steps
  PROVE  /\ [m EXCEPT !.step = step] \in Marker
         /\ [m EXCEPT !.turns = ts, !.step = step] \in Marker
         /\ [m EXCEPT !.turns = ts, !.step = step, !.landed = TRUE] \in Marker
BY DEF Marker, Steps

LEMMA DecidedTyped == \A ts : Decided(ts) \in {"answer", "events", "end"}
BY DEF Decided, Afterwards

LEMMA AliveTyped == Alive \subseteq marker.turns
BY DEF Alive

LEMMA CardinalityTyped ==
  ASSUME NEW ts \in SUBSET Turns
  PROVE  Cardinality(ts) \in Nat
BY FS_Subset, FS_CardinalityType

LEMMA ThreadsTyped ==
  ASSUME NEW ts \in SUBSET Turns
  PROVE  ThreadsOf(ts) \subseteq Threads
BY DEF ThreadsOf

\* What happened is of its type after every way it is added to.
LEMMA SeenMoves ==
  ASSUME SeenTypes
  PROVE  /\ \A n \in 0 .. MaxEvents : [seen EXCEPT !.emitted = n] \in Seen
         /\ \A n \in 0 .. MaxEvents, s \in Sessions, k \in Nat :
              [seen EXCEPT !.emitted = n, !.missing[s] = k] \in Seen
         /\ \A s \in Sessions, k \in Nat : [seen EXCEPT !.missing[s] = k] \in Seen
         /\ \A s \in Sessions, k \in Nat : [seen EXCEPT !.uncounted[s] = k] \in Seen
         /\ \A cs \in SUBSET Threads : /\ [seen EXCEPT !.ours = cs] \in Seen
                                       /\ [seen EXCEPT !.told = cs] \in Seen
         /\ \A n \in 0 .. MaxCrashes, cs \in SUBSET Threads :
              [seen EXCEPT !.ours = {}, !.forgotten = cs, !.crashes = n] \in Seen
         /\ \A h, to, f \in SUBSET Threads :
              [seen EXCEPT !.holes = h, !.told = to, !.forgotten = f] \in Seen
BY DEF SeenTypes, Seen

LEMMA SeenFields ==
  ASSUME SeenTypes
  PROVE  /\ seen.erased \subseteq Threads /\ seen.scrubbed \subseteq Turns
         /\ seen.strangers \subseteq Threads /\ seen.ours \subseteq Threads
         /\ seen.holes \subseteq Threads
         /\ seen.told \subseteq Threads /\ seen.forgotten \subseteq Threads
         /\ seen.missing \in [Sessions -> Nat] /\ seen.uncounted \in [Sessions -> Nat]
         /\ seen.emitted \in 0 .. MaxEvents /\ seen.erasures \in 0 .. MaxErasures
         /\ seen.crashes \in 0 .. MaxCrashes
BY DEF SeenTypes, Seen

LEMMA RemoveTyped ==
  ASSUME DatabaseTypes, RestTypes, SeenTypes, seen.erasures < MaxErasures,
         NEW ts \in SUBSET Turns, NEW gone \in SUBSET Threads, NEW ss \in SUBSET Sessions,
         Remove(ts, gone, ss)
  PROVE  /\ rows' \subseteq Turns /\ listed' \subseteq Threads /\ flagged' \subseteq Threads
         /\ spine' \in [Sessions -> {"none", "open", "closed"}]
         /\ tally' \in [Sessions -> Nat] /\ keeping' \subseteq Threads
         /\ seen' \in Seen
<1>1. /\ rows' \subseteq Turns /\ listed' \subseteq Threads /\ flagged' \subseteq Threads
      /\ keeping' \subseteq Threads
  BY DEF Remove, DatabaseTypes, RestTypes
<1>2. spine' \in [Sessions -> {"none", "open", "closed"}] /\ tally' \in [Sessions -> Nat]
  BY DEF Remove, DatabaseTypes
<1>3. ASSUME NEW e \in SUBSET Threads, NEW sc \in SUBSET Turns, NEW str \in SUBSET Threads,
             NEW o \in SUBSET Threads, NEW h \in SUBSET Threads, NEW to \in SUBSET Threads,
             NEW f \in SUBSET Threads, NEW n \in 0 .. MaxErasures
      PROVE  [seen EXCEPT !.erased = e, !.scrubbed = sc, !.strangers = str, !.ours = o,
                          !.holes = h, !.told = to, !.forgotten = f, !.erasures = n] \in Seen
  <2>1. [seen EXCEPT !.erased = e, !.scrubbed = sc, !.strangers = str] \in Seen
    BY DEF SeenTypes, Seen
  <2>2. \A x \in Seen :
          [x EXCEPT !.ours = o, !.holes = h, !.told = to, !.forgotten = f] \in Seen
    BY DEF Seen
  <2>3. \A x \in Seen : [x EXCEPT !.erasures = n] \in Seen
    BY DEF Seen
  <2> QED BY ZenonT(60), <2>1, <2>2, <2>3
<1>4. /\ seen.erased \cup gone \in SUBSET Threads /\ seen.scrubbed \cup ts \in SUBSET Turns
      /\ seen.strangers \cup (gone \ seen.ours) \in SUBSET Threads
      /\ seen.ours \ gone \in SUBSET Threads /\ seen.holes \ gone \in SUBSET Threads
      /\ seen.told \ gone \in SUBSET Threads /\ seen.forgotten \ gone \in SUBSET Threads
      /\ seen.erasures + 1 \in 0 .. MaxErasures
  BY SeenFields
<1>5. seen' = [seen EXCEPT !.erased = seen.erased \cup gone,
                           !.scrubbed = seen.scrubbed \cup ts,
                           !.strangers = seen.strangers \cup (gone \ seen.ours),
                           !.ours = seen.ours \ gone, !.holes = seen.holes \ gone,
                           !.told = seen.told \ gone, !.forgotten = seen.forgotten \ gone,
                           !.erasures = seen.erasures + 1]
  BY DEF Remove
<1>6. seen' \in Seen
  BY ZenonT(60), <1>3, <1>4, <1>5
<1> QED BY <1>1, <1>2, <1>6

LEMMA EraseSessionGone ==
  ASSUME NEW s \in Sessions
  PROVE  LET ts == {t \in rows : SessionOf[t] = s}
         IN ThreadsOf(ts) \ ThreadsOf(rows \ ts) \subseteq ThreadsOf(rows)
BY DEF ThreadsOf

LEMMA ProducerStep ==
  ASSUME TypeOK, [Next]_vars
  PROVE  ProducerTypes'
<1>0. ProducerTypes /\ ThreadTypes
  BY TypeGroups
<1>1. ASSUME NEW s \in Sessions, OpenSession(s)
      PROVE  ProducerTypes'
  <2>1. queue' \in Seq(Records)
    <3>1. CASE UNCHANGED queue
      BY <1>0, <3>1 DEF ProducerTypes
    <3>2. CASE Queue([kind |-> "open", of |-> s])
      BY <1>0, <3>2, RecordsTyped, QueueTyped
    <3> QED BY <1>1, <3>1, <3>2 DEF OpenSession
  <2>2. session' \in [Sessions -> {"away", "recording", "closed"}]
    BY <1>1, <1>0 DEF OpenSession, ProducerTypes
  <2> QED BY <1>1, <1>0, <2>1, <2>2 DEF OpenSession, ProducerTypes
<1>2. ASSUME NEW s \in Sessions, RecordEvent(s)
      PROVE  ProducerTypes'
  <2>1. queue' \in Seq(Records)
    <3>1. CASE UNCHANGED queue
      BY <1>0, <3>1 DEF ProducerTypes
    <3>2. CASE Queue([kind |-> "event", of |-> s])
      BY <1>0, <3>2, RecordsTyped, QueueTyped
    <3> QED BY <1>2, <3>1, <3>2 DEF RecordEvent
  <2>2. dropped' \in [Sessions -> Nat] /\ inFlight' \in Int
    <3>1. Add(dropped, s, 1) \in [Sessions -> Nat]
      BY <1>0, AddTyped DEF ProducerTypes
    <3> QED BY <1>2, <1>0, <3>1 DEF RecordEvent, ProducerTypes
  <2> QED BY <1>2, <1>0, <2>1, <2>2 DEF RecordEvent, ProducerTypes
<1>3. ASSUME NEW s \in Sessions, CloseSession(s)
      PROVE  ProducerTypes'
  <2>1. queue' \in Seq(Records)
    <3>1. CASE UNCHANGED queue
      BY <1>0, <3>1 DEF ProducerTypes
    <3>2. CASE Queue([kind |-> "close", of |-> s])
      BY <1>0, <3>2, RecordsTyped, QueueTyped
    <3> QED BY <1>3, <3>1, <3>2 DEF CloseSession
  <2>2. session' \in [Sessions -> {"away", "recording", "closed"}]
    BY <1>3, <1>0 DEF CloseSession, ProducerTypes
  <2>3. answer' \in [Handles -> {"none", "waiting", "landed", "refused", "gone"}]
    BY <1>3, <1>0, AnsweredTyped DEF CloseSession
  <2> QED BY <1>3, <1>0, <2>1, <2>2, <2>3 DEF CloseSession, ProducerTypes
<1>4. ASSUME NEW s \in Sessions, NEW c \in Threads, Resume(s, c)
      PROVE  ProducerTypes'
  BY <1>4, <1>0 DEF Resume, ProducerTypes, ThreadTypes, Handles, producers, thread,
     Records, Marker
<1>5. ASSUME NEW s \in Sessions, NEW c \in Threads, Keep(s, c)
      PROVE  ProducerTypes'
  BY <1>5, <1>0 DEF Keep, ProducerTypes, ThreadTypes, Handles, producers, thread, Records,
     Marker
<1>6. ASSUME NEW t \in Turns, RecordTurn(t)
      PROVE  ProducerTypes'
  <2>1. queue' \in Seq(Records)
    <3>1. CASE UNCHANGED queue
      BY <1>0, <3>1 DEF ProducerTypes
    <3>2. CASE Queue([kind |-> "turn", of |-> t])
      BY <1>0, <3>2, RecordsTyped, QueueTyped
    <3> QED BY <1>6, <3>1, <3>2 DEF RecordTurn
  <2>2. answer' \in [Handles -> {"none", "waiting", "landed", "refused", "gone"}]
    BY <1>6, <1>0, AnsweredTyped DEF RecordTurn
  <2> QED BY <1>6, <1>0, <2>1, <2>2 DEF RecordTurn, ProducerTypes
<1>7. CASE TakeEvent
  BY <1>7, <1>0 DEF TakeEvent, Add, Ready, Item, ProducerTypes, ThreadTypes, Handles,
     producers, thread, Records, Marker
<1>8. CASE TakeOpen
  BY <1>8, <1>0 DEF TakeOpen, Ready, Item, Begin, ProducerTypes, ThreadTypes, Handles,
     producers, thread, Records, Marker
<1>9. CASE TakeTurn
  <2>1. queue' \in Seq(Records)
    BY <1>9, <1>0, ItemTyped DEF TakeTurn
  <2>2. answer' \in [Handles -> {"none", "waiting", "landed", "refused", "gone"}]
    BY <1>9, <1>0, AnsweredTyped DEF TakeTurn, ProducerTypes
  <2> QED BY <1>9, <1>0, <2>1, <2>2 DEF TakeTurn, ProducerTypes
<1>10. CASE TakeClose
  BY <1>10, <1>0 DEF TakeClose, Answered, Ready, Item, Begin, ProducerTypes, ThreadTypes,
     Handles, producers, thread, Records, Marker
<1>11. CASE TakeStop
  BY <1>11, <1>0 DEF TakeStop, Ready, Item, ProducerTypes, ThreadTypes, Handles,
     producers, thread, Records, Marker
<1>12. CASE DurableLands
  BY <1>12, <1>0 DEF DurableLands, Add, Answered, Attempting, Alive, ThreadsOf, Decided,
     Discard, Commits, Fresh, Afterwards, ProducerTypes, ThreadTypes, Handles, producers,
     thread, Records, Marker
<1>13. CASE Tombstoned
  BY SMTT(30), <1>13, <1>0 DEF Tombstoned, Answered, Attempting, Fresh, Alive, Discard,
     ProducerTypes, ThreadTypes, Handles, producers, thread, Records, Marker
<1>14. ASSUME NEW read \in BOOLEAN, NEW busy \in BOOLEAN, DurableFails(read, busy)
      PROVE  ProducerTypes'
  BY <1>14, <1>0 DEF DurableFails, Answered, Attempting, Fresh, Alive, Discard, Failed,
     Add, ThreadsOf, Decided, Afterwards, ProducerTypes, ThreadTypes, Handles, producers,
     thread, Records, Marker
<1>15. CASE AnswerTurns
  BY <1>15, <1>0 DEF AnswerTurns, Answered, ThreadsOf, Afterwards, At, ProducerTypes,
     ThreadTypes, Handles, producers, thread, Records, Marker
<1>16. CASE EventsWritten
  BY <1>16, <1>0 DEF EventsWritten, At, ProducerTypes, ThreadTypes, Handles, producers,
     thread, Records, Marker
<1>17. CASE EventsLost
  BY <1>17, <1>0 DEF EventsLost, Add, At, ProducerTypes, ThreadTypes, Handles, producers,
     thread, Records, Marker
<1>18. ASSUME NEW ok \in BOOLEAN, CountLate(ok)
      PROVE  ProducerTypes'
  BY <1>18, <1>0 DEF CountLate, Add, At, ProducerTypes, ThreadTypes, Handles, producers,
     thread, Records, Marker
<1>19. CASE EndMarker
  <2>1. marker.of \in Sessions
    BY <1>19, <1>0 DEF EndMarker, At, ThreadTypes, Marker
  <2>2. inFlight' \in Int
    BY <1>19, <1>0, <2>1 DEF EndMarker, ProducerTypes, ThreadTypes
  <2>3. answer' \in [Handles -> {"none", "waiting", "landed", "refused", "gone"}]
    <3>1. \A how \in {"landed", "refused"} : Answered({marker.of}, how) \in
            [Handles -> {"none", "waiting", "landed", "refused", "gone"}]
      BY <1>0, AnsweredTyped
    <3> QED BY <1>19, <1>0, <3>1 DEF EndMarker, ProducerTypes
  <2>4. UNCHANGED <<queue, stopped, dropped, session, holds>>
    BY <1>19 DEF EndMarker
  <2> QED BY <1>0, <2>2, <2>3, <2>4 DEF ProducerTypes
<1>20. CASE Prune
  BY <1>20, <1>0 DEF Prune, Remove, ProducerTypes, ThreadTypes, Handles, producers,
     thread, Records, Marker
<1>21. CASE WriterEnds
  BY <1>21, <1>0 DEF WriterEnds, Answered, ProducerTypes, ThreadTypes, Handles, producers,
     thread, Records, Marker
<1>22. ASSUME NEW s \in Sessions, Flush(s)
      PROVE  ProducerTypes'
  BY <1>22, <1>0 DEF Flush, Begin, ProducerTypes, ThreadTypes, Handles, producers, thread,
     Records, Marker
<1>23. ASSUME NEW s \in Sessions, EraseSession(s)
      PROVE  ProducerTypes'
  BY <1>23, <1>0 DEF EraseSession, ThreadsOf, Remove, MayErase, ProducerTypes,
     ThreadTypes, Handles, producers, thread, Records, Marker
<1>24. ASSUME NEW c \in Threads, EraseThread(c)
      PROVE  ProducerTypes'
  BY <1>24, <1>0 DEF EraseThread, Remove, MayErase, ProducerTypes, ThreadTypes, Handles,
     producers, thread, Records, Marker
<1>25. CASE Announce
  BY <1>25, <1>0 DEF Announce, ProducerTypes, ThreadTypes, Handles, producers, thread,
     Records, Marker
<1>26. CASE Stop
  BY <1>26, <1>0 DEF Stop, Queue, ProducerTypes, ThreadTypes, Handles, producers, thread,
     Records, Marker
<1>27. CASE Crash
  <2>1. queue' \in Seq(Records)
    BY <1>27 DEF Crash
  <2>2. session' \in [Sessions -> {"away", "recording", "closed"}]
    BY <1>27, <1>0 DEF Crash, ProducerTypes
  <2>3. answer' \in [Handles -> {"none", "waiting", "landed", "refused", "gone"}]
    BY <1>27, <1>0 DEF Crash, ProducerTypes
  <2>7. stopped' \in BOOLEAN
    BY <1>27 DEF Crash
  <2>4. inFlight' \in Int
    BY <1>27 DEF Crash
  <2>5. dropped' \in [Sessions -> Nat]
    BY <1>27, NoneTyped DEF Crash
  <2>6. holds' \in [Sessions -> SUBSET Threads]
    BY <1>27, <1>0 DEF Crash, ProducerTypes
  <2> QED BY <2>1, <2>2, <2>3, <2>4, <2>5, <2>6, <2>7 DEF ProducerTypes
<1>28. CASE UNCHANGED vars
  BY <1>28, <1>0 DEF vars, ProducerTypes, ThreadTypes, Handles, producers, thread,
     Records, Marker
<1> QED BY <1>1, <1>2, <1>3, <1>4, <1>5, <1>6, <1>7, <1>8, <1>9, <1>10, <1>11, <1>12,
   <1>13, <1>14, <1>15, <1>16, <1>17, <1>18, <1>19, <1>20, <1>21, <1>22, <1>23, <1>24,
   <1>25, <1>26, <1>27, <1>28
   DEF Next, Sessioning, Writing, Erasing

LEMMA ThreadStep ==
  ASSUME TypeOK, [Next]_vars
  PROVE  ThreadTypes'
<1>0. ProducerTypes /\ ThreadTypes /\ RestTypes
  BY TypeGroups
<1>1. ASSUME NEW s \in Sessions, OpenSession(s)
      PROVE  ThreadTypes'
  BY <1>1, <1>0 DEF OpenSession, Queue, ProducerTypes, ThreadTypes, RestTypes, Records,
     Marker, producers, thread
<1>2. ASSUME NEW s \in Sessions, RecordEvent(s)
      PROVE  ThreadTypes'
  BY <1>2, <1>0 DEF RecordEvent, Queue, Add, ProducerTypes, ThreadTypes, RestTypes,
     Records, Marker, producers, thread
<1>3. ASSUME NEW s \in Sessions, CloseSession(s)
      PROVE  ThreadTypes'
  BY <1>3, <1>0 DEF CloseSession, Queue, Answered, ProducerTypes, ThreadTypes, RestTypes,
     Records, Marker, producers, thread
<1>4. ASSUME NEW s \in Sessions, NEW c \in Threads, Resume(s, c)
      PROVE  ThreadTypes'
  BY <1>4, <1>0 DEF Resume, ProducerTypes, ThreadTypes, RestTypes, Records, Marker,
     producers, thread
<1>5. ASSUME NEW s \in Sessions, NEW c \in Threads, Keep(s, c)
      PROVE  ThreadTypes'
  BY <1>5, <1>0 DEF Keep, ProducerTypes, ThreadTypes, RestTypes, Records, Marker,
     producers, thread
<1>6. ASSUME NEW t \in Turns, RecordTurn(t)
      PROVE  ThreadTypes'
  BY <1>6, <1>0 DEF RecordTurn, Queue, Answered, Speaks, ProducerTypes, ThreadTypes,
     RestTypes, Records, Marker, producers, thread
<1>7. CASE TakeEvent
  <2>1. Item.of \in Sessions
    BY <1>7, <1>0, ItemTyped DEF TakeEvent
  <2>2. held' \in [Sessions -> Nat]
    <3>1. Add(held, Item.of, 1) \in [Sessions -> Nat]
      BY <1>0, <2>1, AddTyped DEF ThreadTypes
    <3> QED BY <1>7, <1>0, <3>1 DEF TakeEvent, ThreadTypes
  <2> QED BY <1>7, <1>0, <2>2 DEF TakeEvent, ThreadTypes
<1>8. CASE TakeOpen
  <2>1. marker' \in Marker \cup {<<>>}
    <3>1. Item.of \in Sessions
      BY <1>8, <1>0, ItemTyped DEF TakeOpen
    <3>2. CASE Begin("open", Item.of, {})
      BY <3>1, <3>2, BeginTyped
    <3>3. CASE UNCHANGED marker
      BY <1>0, <3>3 DEF ThreadTypes
    <3> QED BY <1>8, <3>2, <3>3 DEF TakeOpen
  <2>2. batches' \subseteq Sessions
    BY <1>8, <1>0, ItemTyped DEF TakeOpen, ThreadTypes
  <2> QED BY <1>8, <1>0, <2>1, <2>2 DEF TakeOpen, ThreadTypes
<1>9. CASE TakeTurn
  <2>1. marker' \in Marker \cup {<<>>}
    <3>1. Item.of \in Turns /\ SessionOf[Item.of] \in Sessions
      BY <1>9, <1>0, ItemTyped DEF TakeTurn
    <3>2. CASE Begin("turn", SessionOf[Item.of], {Item.of})
      BY <3>1, <3>2, BeginTyped
    <3>3. CASE UNCHANGED marker
      BY <1>0, <3>3 DEF ThreadTypes
    <3> QED BY <1>9, <3>2, <3>3 DEF TakeTurn
  <2> QED BY <1>9, <1>0, <2>1 DEF TakeTurn, ThreadTypes
<1>10. CASE TakeClose
  <2>1. marker' \in Marker \cup {<<>>}
    <3>1. Item.of \in Sessions
      BY <1>10, <1>0, ItemTyped DEF TakeClose
    <3>2. CASE Begin("close", Item.of, {})
      BY <3>1, <3>2, BeginTyped
    <3>3. CASE UNCHANGED marker
      BY <1>0, <3>3 DEF ThreadTypes
    <3> QED BY <1>10, <3>2, <3>3 DEF TakeClose
  <2> QED BY <1>10, <1>0, <2>1 DEF TakeClose, ThreadTypes
<1>11. CASE TakeStop
  BY <1>11, <1>0 DEF TakeStop, Ready, Item, ProducerTypes, ThreadTypes, RestTypes,
     Records, Marker, producers, thread
<1>12. CASE DurableLands
  <2>1. marker # <<>> /\ marker \in Marker /\ marker.of \in Sessions
    BY <1>12, <1>0, MarkerTyped DEF DurableLands, Attempting
  <2>2. marker' \in Marker
    <3>1. Alive \in SUBSET Turns /\ Decided(Alive) \in Steps
      BY <1>0, <2>1, AliveTyped, DecidedTyped, MarkerTyped DEF Steps
    <3> QED BY <1>12, <2>1, <3>1, MarkerMoves DEF DurableLands
  <2>3. dead' \subseteq Threads /\ incomplete' \subseteq Threads
    BY <1>12, <1>0 DEF DurableLands, Discard, Commits, Fresh, ThreadTypes, RestTypes
  <2> QED BY <1>12, <1>0, <2>2, <2>3 DEF DurableLands, ThreadTypes
<1>13. CASE Tombstoned
  <2>1. marker.of \in Sessions
    BY <1>13, <1>0, MarkerTyped DEF Tombstoned, Attempting
  <2>2. dead' \subseteq Threads /\ incomplete' \subseteq Threads
    BY <1>13, <1>0 DEF Tombstoned, Discard, Fresh, ThreadTypes, RestTypes
  <2>3. held' \in [Sessions -> Nat] /\ lost' \in [Sessions -> Nat]
    <3>1. held' = [held EXCEPT ![marker.of] = 0]
      BY <1>13 DEF Tombstoned
    <3>2. lost' = [lost EXCEPT ![marker.of] = 0] \/ lost' = lost
      BY <1>13 DEF Tombstoned
    <3>3. /\ \A s \in Sessions : held[s] \in Nat /\ lost[s] \in Nat
          /\ [held EXCEPT ![marker.of] = 0] \in [Sessions -> Nat]
          /\ [lost EXCEPT ![marker.of] = 0] \in [Sessions -> Nat]
      BY <1>0 DEF ThreadTypes
    <3> QED BY <1>0, <3>1, <3>2, <3>3 DEF ThreadTypes
  <2>4. batches' \subseteq Sessions /\ marker' = <<>> /\ written' = written
    BY <1>13, <1>0 DEF Tombstoned, ThreadTypes
  <2>5. writer' \in {"running", "pruning", "flushing", "ended"}
    BY <1>13, <1>0 DEF Tombstoned, ThreadTypes
  <2> QED BY <1>0, <2>2, <2>3, <2>4, <2>5 DEF ThreadTypes
<1>14. ASSUME NEW read \in BOOLEAN, NEW busy \in BOOLEAN, DurableFails(read, busy)
      PROVE  ThreadTypes'
  <2> DEFINE ts == IF read THEN Alive ELSE marker.turns
             owed == IF read THEN incomplete \ Fresh ELSE incomplete
  <2>1. marker # <<>> /\ marker \in Marker /\ marker.of \in Sessions
        /\ marker.attempt \in 1 .. MaxAttempts
    BY <1>14, <1>0, MarkerTyped DEF DurableFails, Attempting
  <2>2. ts \in SUBSET Turns /\ owed \in SUBSET Threads
    BY <1>0, <2>1, AliveTyped, MarkerTyped DEF ThreadTypes
  <2>3. dead' \subseteq Threads
    BY <1>14, <1>0 DEF DurableFails, Discard, Fresh, ThreadTypes, RestTypes
  <2>4. CASE busy /\ marker.attempt < MaxAttempts
    <3>1. /\ marker' = [marker EXCEPT !.turns = ts, !.attempt = marker.attempt + 1]
          /\ incomplete' = owed /\ UNCHANGED lost
      BY <1>14, <2>4 DEF DurableFails
    <3>2. marker.attempt + 1 \in 1 .. MaxAttempts
      BY <2>1, <2>4
    <3>3. marker' \in Marker
      BY <2>1, <2>2, <3>1, <3>2 DEF Marker
    <3> HIDE DEF ts, owed
    <3> QED BY <1>14, <1>0, <2>2, <2>3, <3>1, <3>3 DEF DurableFails, ThreadTypes
  <2>5. CASE ~(busy /\ marker.attempt < MaxAttempts)
    <3>1. Failed(ts, owed)
      BY <1>14, <2>5 DEF DurableFails
    <3>2. marker' \in Marker
      <4>1. Decided(ts) \in Steps
        BY DecidedTyped DEF Steps
      <4> HIDE DEF ts, owed
      <4> QED BY <2>1, <2>2, <3>1, <4>1, MarkerMoves DEF Failed
    <3>3. lost' \in [Sessions -> Nat] /\ incomplete' \subseteq Threads
      <4> HIDE DEF ts, owed
      <4> QED BY <1>0, <2>1, <2>2, <3>1, AddTyped, CardinalityTyped, ThreadsTyped
              DEF Failed, ThreadTypes
    <3> HIDE DEF ts, owed
    <3> QED BY <1>14, <1>0, <2>3, <3>2, <3>3 DEF DurableFails, ThreadTypes
  <2> QED BY <2>4, <2>5
<1>15. CASE AnswerTurns
  <2>1. marker # <<>> /\ marker \in Marker /\ marker.turns \in SUBSET Turns
    BY <1>15, <1>0, MarkerTyped DEF AnswerTurns, At
  <2>2. marker' \in Marker
    <3>1. Afterwards \in Steps
      BY DEF Afterwards, Steps
    <3> QED BY <1>15, <2>1, <3>1, MarkerMoves DEF AnswerTurns
  <2>3. written' \subseteq Threads
    BY <1>15, <1>0, <2>1, ThreadsTyped DEF AnswerTurns, ThreadTypes
  <2> QED BY <1>15, <1>0, <2>2, <2>3 DEF AnswerTurns, ThreadTypes
<1>16. CASE EventsWritten
  BY <1>16, <1>0 DEF EventsWritten, At, ProducerTypes, ThreadTypes, RestTypes, Records,
     Marker, producers, thread
<1>17. CASE EventsLost
  <2>1. marker # <<>> /\ marker \in Marker /\ marker.of \in Sessions
    BY <1>17, <1>0, MarkerTyped DEF EventsLost, At
  <2>2. marker' \in Marker
    BY <1>17, <2>1, MarkerMoves DEF EventsLost, Steps
  <2>3. lost' \in [Sessions -> Nat]
    BY <1>17, <1>0, <2>1, AddTyped DEF EventsLost, ThreadTypes
  <2> QED BY <1>17, <1>0, <2>2, <2>3 DEF EventsLost, ThreadTypes
<1>18. ASSUME NEW ok \in BOOLEAN, CountLate(ok)
      PROVE  ThreadTypes'
  BY <1>18, <1>0 DEF CountLate, Add, At, ProducerTypes, ThreadTypes, RestTypes, Records,
     Marker, producers, thread
<1>19. CASE EndMarker
  <2>1. held' \in [Sessions -> Nat] /\ lost' \in [Sessions -> Nat]
    <3>1. held' = [held EXCEPT ![marker.of] = 0]
      BY <1>19 DEF EndMarker
    <3>2. lost' = [lost EXCEPT ![marker.of] = 0] \/ lost' = lost
      BY <1>19 DEF EndMarker
    <3>3. /\ \A s \in Sessions : held[s] \in Nat /\ lost[s] \in Nat
          /\ [held EXCEPT ![marker.of] = 0] \in [Sessions -> Nat]
          /\ [lost EXCEPT ![marker.of] = 0] \in [Sessions -> Nat]
      BY <1>0 DEF ThreadTypes
    <3> QED BY <1>0, <3>1, <3>2, <3>3 DEF ThreadTypes
  <2>2. batches' \subseteq Sessions
    BY <1>19, <1>0 DEF EndMarker, ThreadTypes
  <2>3. writer' \in {"running", "pruning", "flushing", "ended"}
    BY <1>19, <1>0 DEF EndMarker, ThreadTypes
  <2> QED BY <1>19, <1>0, <2>1, <2>2, <2>3 DEF EndMarker, ThreadTypes
<1>20. CASE Prune
  BY <1>20, <1>0 DEF Prune, Remove, ProducerTypes, ThreadTypes, RestTypes, Records,
     Marker, producers, thread
<1>21. CASE WriterEnds
  BY <1>21, <1>0 DEF WriterEnds, Answered, ProducerTypes, ThreadTypes, RestTypes, Records,
     Marker, producers, thread
<1>22. ASSUME NEW s \in Sessions, Flush(s)
      PROVE  ThreadTypes'
  <2>1. marker' \in Marker \cup {<<>>}
    <3>1. s \in Sessions
      BY <1>22, <1>0, ItemTyped DEF Flush
    <3>2. CASE Begin("flush", s, {})
      BY <3>1, <3>2, BeginTyped
    <3>3. CASE UNCHANGED marker
      BY <1>0, <3>3 DEF ThreadTypes
    <3> QED BY <1>22, <3>2, <3>3 DEF Flush
  <2>2. batches' \subseteq Sessions
    BY <1>22, <1>0 DEF Flush, ThreadTypes
  <2> QED BY <1>22, <1>0, <2>1, <2>2 DEF Flush, ThreadTypes
<1>23. ASSUME NEW s \in Sessions, EraseSession(s)
      PROVE  ThreadTypes'
  BY <1>23, <1>0 DEF EraseSession, ThreadsOf, Remove, MayErase, ProducerTypes,
     ThreadTypes, RestTypes, Records, Marker, producers, thread
<1>24. ASSUME NEW c \in Threads, EraseThread(c)
      PROVE  ThreadTypes'
  BY <1>24, <1>0 DEF EraseThread, Remove, MayErase, ProducerTypes, ThreadTypes, RestTypes,
     Records, Marker, producers, thread
<1>25. CASE Announce
  BY <1>25, <1>0 DEF Announce, ProducerTypes, ThreadTypes, RestTypes, Records, Marker,
     producers, thread
<1>26. CASE Stop
  BY <1>26, <1>0 DEF Stop, Queue, ProducerTypes, ThreadTypes, RestTypes, Records, Marker,
     producers, thread
<1>27. CASE Crash
  BY <1>27, <1>0 DEF Crash, None, ProducerTypes, ThreadTypes, RestTypes, Records, Marker,
     producers, thread
<1>28. CASE UNCHANGED vars
  BY <1>28, <1>0 DEF vars, ProducerTypes, ThreadTypes, RestTypes, Records, Marker,
     producers, thread
<1> QED BY <1>1, <1>2, <1>3, <1>4, <1>5, <1>6, <1>7, <1>8, <1>9, <1>10, <1>11, <1>12,
   <1>13, <1>14, <1>15, <1>16, <1>17, <1>18, <1>19, <1>20, <1>21, <1>22, <1>23, <1>24,
   <1>25, <1>26, <1>27, <1>28
   DEF Next, Sessioning, Writing, Erasing

LEMMA DatabaseStep ==
  ASSUME TypeOK, [Next]_vars
  PROVE  DatabaseTypes'
<1>0. ProducerTypes /\ ThreadTypes /\ RestTypes /\ DatabaseTypes /\ SeenTypes
  BY TypeGroups
<1>1. ASSUME NEW s \in Sessions, OpenSession(s)
      PROVE  DatabaseTypes'
  BY <1>1, <1>0 DEF OpenSession, Queue, ProducerTypes, ThreadTypes, RestTypes,
     DatabaseTypes, Marker, database
<1>2. ASSUME NEW s \in Sessions, RecordEvent(s)
      PROVE  DatabaseTypes'
  BY <1>2, <1>0 DEF RecordEvent, Queue, Add, ProducerTypes, ThreadTypes, RestTypes,
     DatabaseTypes, Marker, database
<1>3. ASSUME NEW s \in Sessions, CloseSession(s)
      PROVE  DatabaseTypes'
  BY <1>3, <1>0 DEF CloseSession, Queue, Answered, ProducerTypes, ThreadTypes, RestTypes,
     DatabaseTypes, Marker, database
<1>4. ASSUME NEW s \in Sessions, NEW c \in Threads, Resume(s, c)
      PROVE  DatabaseTypes'
  BY <1>4, <1>0 DEF Resume, ProducerTypes, ThreadTypes, RestTypes, DatabaseTypes, Marker,
     database
<1>5. ASSUME NEW s \in Sessions, NEW c \in Threads, Keep(s, c)
      PROVE  DatabaseTypes'
  BY <1>5, <1>0 DEF Keep, ProducerTypes, ThreadTypes, RestTypes, DatabaseTypes, Marker,
     database
<1>6. ASSUME NEW t \in Turns, RecordTurn(t)
      PROVE  DatabaseTypes'
  BY <1>6, <1>0 DEF RecordTurn, Queue, Answered, Speaks, ProducerTypes, ThreadTypes,
     RestTypes, DatabaseTypes, Marker, database
<1>7. CASE TakeEvent
  BY <1>7, <1>0 DEF TakeEvent, Add, Ready, Item, ProducerTypes, ThreadTypes, RestTypes,
     DatabaseTypes, Marker, database
<1>8. CASE TakeOpen
  BY <1>8, <1>0 DEF TakeOpen, Ready, Item, Begin, ProducerTypes, ThreadTypes, RestTypes,
     DatabaseTypes, Marker, database
<1>9. CASE TakeTurn
  BY <1>9, <1>0 DEF TakeTurn, Answered, Ready, Item, Begin, ProducerTypes,
     ThreadTypes, RestTypes, DatabaseTypes, Marker, database
<1>10. CASE TakeClose
  BY <1>10, <1>0 DEF TakeClose, Answered, Ready, Item, Begin, ProducerTypes, ThreadTypes,
     RestTypes, DatabaseTypes, Marker, database
<1>11. CASE TakeStop
  BY <1>11, <1>0 DEF TakeStop, Ready, Item, ProducerTypes, ThreadTypes, RestTypes,
     DatabaseTypes, Marker, database
<1>12. CASE DurableLands
  <2>1. marker.of \in Sessions /\ Alive \in SUBSET Turns
    BY <1>12, <1>0, MarkerTyped, AliveTyped DEF DurableLands, Attempting
  <2>2. rows' \subseteq Turns /\ listed' \subseteq Threads /\ flagged' \subseteq Threads
    BY <1>12, <1>0, <2>1, ThreadsTyped DEF DurableLands, Commits, DatabaseTypes
  <2>3. spine' \in [Sessions -> {"none", "open", "closed"}]
    BY <1>12, <1>0, <2>1 DEF DurableLands, DatabaseTypes
  <2>4. tally' \in [Sessions -> Nat]
    <3>1. dropped[marker.of] + lost[marker.of] \in Nat
      BY <1>0, <2>1 DEF ProducerTypes, ThreadTypes
    <3> QED BY <1>12, <1>0, <2>1, <3>1, AddTyped DEF DurableLands, DatabaseTypes
  <2> QED BY <1>12, <1>0, <2>2, <2>3, <2>4 DEF DurableLands, DatabaseTypes
<1>13. CASE Tombstoned
  BY <1>13, <1>0 DEF Tombstoned, Answered, Attempting, Fresh, Alive, Discard,
     ProducerTypes, ThreadTypes, RestTypes, DatabaseTypes, Marker, database
<1>14. ASSUME NEW read \in BOOLEAN, NEW busy \in BOOLEAN, DurableFails(read, busy)
      PROVE  DatabaseTypes'
  BY <1>14, <1>0 DEF DurableFails, Answered, Attempting, Fresh, Alive, Discard, Failed,
     Add, ThreadsOf, Decided, Afterwards, ProducerTypes, ThreadTypes, RestTypes,
     DatabaseTypes, Marker, database
<1>15. CASE AnswerTurns
  BY <1>15, <1>0 DEF AnswerTurns, Answered, ThreadsOf, Afterwards, At, ProducerTypes,
     ThreadTypes, RestTypes, DatabaseTypes, Marker, database
<1>16. CASE EventsWritten
  BY <1>16, <1>0 DEF EventsWritten, At, ProducerTypes, ThreadTypes, RestTypes,
     DatabaseTypes, Marker, database
<1>17. CASE EventsLost
  BY <1>17, <1>0 DEF EventsLost, Add, At, ProducerTypes, ThreadTypes, RestTypes,
     DatabaseTypes, Marker, database
<1>18. ASSUME NEW ok \in BOOLEAN, CountLate(ok)
      PROVE  DatabaseTypes'
  <2>1. marker.of \in Sessions
    BY <1>18, <1>0, MarkerTyped DEF CountLate, At
  <2>2. Add(tally, marker.of, held[marker.of]) \in [Sessions -> Nat]
    BY <1>0, <2>1, AddTyped DEF DatabaseTypes, ThreadTypes
  <2>3. tally' \in [Sessions -> Nat]
    BY <1>18, <1>0, <2>2 DEF CountLate, DatabaseTypes
  <2> QED BY <1>18, <1>0, <2>3 DEF CountLate, DatabaseTypes
<1>19. CASE EndMarker
  BY <1>19, <1>0 DEF EndMarker, Answered, At, ProducerTypes, ThreadTypes, RestTypes,
     DatabaseTypes, Marker, database
<1>20. CASE Prune
  <2>1. CASE UNCHANGED database
    BY <1>0, <2>1 DEF DatabaseTypes, database
  <2>2. CASE ~UNCHANGED database
    <3>1. PICK gone \in SUBSET listed,
               aged \in SUBSET {s \in Sessions : spine[s] # "none"} :
            LET ts == {t \in rows : ThreadOf[t] \in gone}
                named == {SessionOf[t] : t \in rows \ ts}
            IN Remove(ts, gone, aged \ named) /\ tracks' = tracks \ aged
      BY <1>20, <2>2 DEF Prune
    <3> DEFINE ts == {t \in rows : ThreadOf[t] \in gone}
               named == {SessionOf[t] : t \in rows \ ts}
    <3>2. Remove(ts, gone, aged \ named) /\ tracks' = tracks \ aged
      BY <3>1
    <3>3. ts \in SUBSET Turns /\ gone \in SUBSET Threads /\ aged \ named \in SUBSET Sessions
      BY <1>0 DEF DatabaseTypes
    <3>4. seen.erasures < MaxErasures
      BY <1>20, <2>2 DEF Prune
    <3> HIDE DEF ts, named
    <3> QED BY <1>0, <3>2, <3>3, <3>4, RemoveTyped DEF DatabaseTypes
  <2> QED BY <2>1, <2>2
<1>21. CASE WriterEnds
  BY <1>21, <1>0 DEF WriterEnds, Answered, ProducerTypes, ThreadTypes, RestTypes,
     DatabaseTypes, Marker, database
<1>22. ASSUME NEW s \in Sessions, Flush(s)
      PROVE  DatabaseTypes'
  BY <1>22, <1>0 DEF Flush, Begin, ProducerTypes, ThreadTypes, RestTypes, DatabaseTypes,
     Marker, database
<1>23. ASSUME NEW s \in Sessions, EraseSession(s)
      PROVE  DatabaseTypes'
  <2> DEFINE ts == {t \in rows : SessionOf[t] = s}
             gone == ThreadsOf(ts) \ ThreadsOf(rows \ ts)
  <2>1. ts \in SUBSET Turns /\ gone \in SUBSET Threads
    BY <1>0, ThreadsTyped DEF DatabaseTypes
  <2>2. Remove(ts, gone, {s}) /\ tracks' = tracks \ {s} /\ seen.erasures < MaxErasures
    BY <1>23 DEF EraseSession, MayErase
  <2> HIDE DEF ts, gone
  <2> QED BY <1>0, <2>1, <2>2, RemoveTyped DEF DatabaseTypes
<1>24. ASSUME NEW c \in Threads, EraseThread(c)
      PROVE  DatabaseTypes'
  <2> DEFINE ts == {t \in rows : ThreadOf[t] = c}
  <2>1. ts \in SUBSET Turns /\ {c} \in SUBSET Threads
    BY <1>0 DEF DatabaseTypes
  <2>2. Remove(ts, {c}, {}) /\ tracks' = tracks /\ seen.erasures < MaxErasures
    BY <1>24 DEF EraseThread, MayErase
  <2> HIDE DEF ts
  <2> QED BY <1>0, <2>1, <2>2, RemoveTyped DEF DatabaseTypes
<1>25. CASE Announce
  BY <1>25, <1>0 DEF Announce, ProducerTypes, ThreadTypes, RestTypes, DatabaseTypes,
     Marker, database
<1>26. CASE Stop
  BY <1>26, <1>0 DEF Stop, Queue, ProducerTypes, ThreadTypes, RestTypes, DatabaseTypes,
     Marker, database
<1>27. CASE Crash
  BY <1>27, <1>0 DEF Crash, None, ProducerTypes, ThreadTypes, RestTypes, DatabaseTypes,
     Marker, database
<1>28. CASE UNCHANGED vars
  BY <1>28, <1>0 DEF vars, ProducerTypes, ThreadTypes, RestTypes, DatabaseTypes, Marker,
     database
<1> QED BY <1>1, <1>2, <1>3, <1>4, <1>5, <1>6, <1>7, <1>8, <1>9, <1>10, <1>11, <1>12,
   <1>13, <1>14, <1>15, <1>16, <1>17, <1>18, <1>19, <1>20, <1>21, <1>22, <1>23, <1>24,
   <1>25, <1>26, <1>27, <1>28
   DEF Next, Sessioning, Writing, Erasing

LEMMA RestStep ==
  ASSUME TypeOK, [Next]_vars
  PROVE  RestTypes'
<1>0. ProducerTypes /\ ThreadTypes /\ RestTypes /\ DatabaseTypes /\ SeenTypes
  BY TypeGroups
<1>1. ASSUME NEW s \in Sessions, OpenSession(s)
      PROVE  RestTypes'
  BY <1>1, <1>0 DEF OpenSession, Queue, ThreadTypes, RestTypes, DatabaseTypes, memory
<1>2. ASSUME NEW s \in Sessions, RecordEvent(s)
      PROVE  RestTypes'
  BY <1>2, <1>0 DEF RecordEvent, Queue, Add, ThreadTypes, RestTypes, DatabaseTypes, memory
<1>3. ASSUME NEW s \in Sessions, CloseSession(s)
      PROVE  RestTypes'
  BY <1>3, <1>0 DEF CloseSession, Queue, Answered, ThreadTypes, RestTypes, DatabaseTypes,
     memory
<1>4. ASSUME NEW s \in Sessions, NEW c \in Threads, Resume(s, c)
      PROVE  RestTypes'
  BY <1>4, <1>0 DEF Resume, ThreadTypes, RestTypes, DatabaseTypes, memory
<1>5. ASSUME NEW s \in Sessions, NEW c \in Threads, Keep(s, c)
      PROVE  RestTypes'
  BY <1>5, <1>0 DEF Keep, ThreadTypes, RestTypes, DatabaseTypes, memory
<1>6. ASSUME NEW t \in Turns, RecordTurn(t)
      PROVE  RestTypes'
  BY <1>6, <1>0 DEF RecordTurn, Queue, Answered, Speaks, ThreadTypes, RestTypes,
     DatabaseTypes, memory
<1>7. CASE TakeEvent
  BY <1>7, <1>0 DEF TakeEvent, Add, Ready, Item, ThreadTypes, RestTypes, DatabaseTypes,
     memory
<1>8. CASE TakeOpen
  BY <1>8, <1>0 DEF TakeOpen, Ready, Item, Begin, ThreadTypes, RestTypes, DatabaseTypes,
     memory
<1>9. CASE TakeTurn
  BY <1>9, <1>0 DEF TakeTurn, Answered, Ready, Item, Begin, ThreadTypes,
     RestTypes, DatabaseTypes, memory
<1>10. CASE TakeClose
  BY <1>10, <1>0 DEF TakeClose, Answered, Ready, Item, Begin, ThreadTypes, RestTypes,
     DatabaseTypes, memory
<1>11. CASE TakeStop
  BY <1>11, <1>0 DEF TakeStop, Ready, Item, ThreadTypes, RestTypes, DatabaseTypes, memory
<1>12. CASE DurableLands
  BY <1>12, <1>0 DEF DurableLands, Add, Answered, Attempting, Alive, ThreadsOf, Decided,
     Discard, Commits, Fresh, Afterwards, ThreadTypes, RestTypes, DatabaseTypes, memory
<1>13. CASE Tombstoned
  BY <1>13, <1>0 DEF Tombstoned, Answered, Attempting, Fresh, Alive, Discard,
     ThreadTypes, RestTypes, DatabaseTypes, memory
<1>14. ASSUME NEW read \in BOOLEAN, NEW busy \in BOOLEAN, DurableFails(read, busy)
      PROVE  RestTypes'
  BY <1>14, <1>0 DEF DurableFails, Answered, Attempting, Fresh, Alive, Discard, Failed,
     Add, ThreadsOf, Decided, Afterwards, ThreadTypes, RestTypes, DatabaseTypes, memory
<1>15. CASE AnswerTurns
  BY <1>15, <1>0 DEF AnswerTurns, Answered, ThreadsOf, Afterwards, At, ThreadTypes,
     RestTypes, DatabaseTypes, memory
<1>16. CASE EventsWritten
  BY <1>16, <1>0 DEF EventsWritten, At, ThreadTypes, RestTypes, DatabaseTypes, memory
<1>17. CASE EventsLost
  BY <1>17, <1>0 DEF EventsLost, Add, At, ThreadTypes, RestTypes, DatabaseTypes, memory
<1>18. ASSUME NEW ok \in BOOLEAN, CountLate(ok)
      PROVE  RestTypes'
  BY <1>18, <1>0 DEF CountLate, Add, At, ThreadTypes, RestTypes, DatabaseTypes, memory
<1>19. CASE EndMarker
  BY <1>19, <1>0 DEF EndMarker, Answered, At, ThreadTypes, RestTypes, DatabaseTypes, memory
<1>20. CASE Prune
  BY <1>20, <1>0 DEF Prune, Remove, ThreadTypes, RestTypes, DatabaseTypes, memory
<1>21. CASE WriterEnds
  BY <1>21, <1>0 DEF WriterEnds, Answered, ThreadTypes, RestTypes, DatabaseTypes, memory
<1>22. ASSUME NEW s \in Sessions, Flush(s)
      PROVE  RestTypes'
  BY <1>22, <1>0 DEF Flush, Begin, ThreadTypes, RestTypes, DatabaseTypes, memory
<1>23. ASSUME NEW s \in Sessions, EraseSession(s)
      PROVE  RestTypes'
  <2> DEFINE ts == {t \in rows : SessionOf[t] = s}
             gone == ThreadsOf(ts) \ ThreadsOf(rows \ ts)
  <2>1. gone \in SUBSET Threads
    BY <1>0, ThreadsTyped DEF DatabaseTypes
  <2>2. /\ keeping' = keeping \ gone /\ erasing' \in {<<>>, <<gone>>}
        /\ UNCHANGED <<published, graves>>
    BY <1>23 DEF EraseSession, Remove
  <2> HIDE DEF gone
  <2> QED BY <1>0, <2>1, <2>2 DEF RestTypes
<1>24. ASSUME NEW c \in Threads, EraseThread(c)
      PROVE  RestTypes'
  BY <1>24, <1>0 DEF EraseThread, Remove, MayErase, ThreadTypes, RestTypes, DatabaseTypes,
     memory
<1>25. CASE Announce
  BY <1>25, <1>0 DEF Announce, ThreadTypes, RestTypes, DatabaseTypes, memory
<1>26. CASE Stop
  BY <1>26, <1>0 DEF Stop, Queue, ThreadTypes, RestTypes, DatabaseTypes, memory
<1>27. CASE Crash
  BY <1>27, <1>0 DEF Crash, None, ThreadTypes, RestTypes, DatabaseTypes, memory
<1>28. CASE UNCHANGED vars
  BY <1>28, <1>0 DEF vars, ThreadTypes, RestTypes, DatabaseTypes, memory
<1> QED BY <1>1, <1>2, <1>3, <1>4, <1>5, <1>6, <1>7, <1>8, <1>9, <1>10, <1>11, <1>12,
   <1>13, <1>14, <1>15, <1>16, <1>17, <1>18, <1>19, <1>20, <1>21, <1>22, <1>23, <1>24,
   <1>25, <1>26, <1>27, <1>28
   DEF Next, Sessioning, Writing, Erasing

LEMMA SeenStep ==
  ASSUME TypeOK, [Next]_vars
  PROVE  SeenTypes'
<1>0. ProducerTypes /\ ThreadTypes /\ RestTypes /\ DatabaseTypes /\ SeenTypes
  BY TypeGroups
<1>1. ASSUME NEW s \in Sessions, OpenSession(s)
      PROVE  SeenTypes'
  BY <1>1, <1>0 DEF OpenSession, Queue, ThreadTypes, RestTypes, DatabaseTypes, SeenTypes,
     Seen, memory
<1>2. ASSUME NEW s \in Sessions, RecordEvent(s)
      PROVE  SeenTypes'
  <2>1. seen.emitted + 1 \in 0 .. MaxEvents /\ seen.missing[s] + 1 \in Nat
    BY <1>2, <1>0, SeenFields DEF RecordEvent
  <2>2. seen' = [seen EXCEPT !.emitted = seen.emitted + 1] \/
        seen' = [seen EXCEPT !.emitted = seen.emitted + 1, !.missing[s] = seen.missing[s]
           + 1]
    BY <1>2 DEF RecordEvent
  <2>3. CASE seen' = [seen EXCEPT !.emitted = seen.emitted + 1]
    BY <1>0, <2>1, <2>3, SeenMoves DEF SeenTypes
  <2>4. CASE seen' = [seen EXCEPT !.emitted = seen.emitted + 1, !.missing[s] =
     seen.missing[s] + 1]
    <3>1. \A n \in 0 .. MaxEvents, r \in Sessions, k \in Nat :
            [seen EXCEPT !.emitted = n, !.missing[r] = k] \in Seen
      BY <1>0, SeenMoves
    <3> QED BY <2>1, <2>4, <3>1 DEF SeenTypes
  <2> QED BY <2>2, <2>3, <2>4
<1>3. ASSUME NEW s \in Sessions, CloseSession(s)
      PROVE  SeenTypes'
  BY <1>3, <1>0 DEF CloseSession, Queue, Answered, ThreadTypes, RestTypes, DatabaseTypes,
     SeenTypes, Seen, memory
<1>4. ASSUME NEW s \in Sessions, NEW c \in Threads, Resume(s, c)
      PROVE  SeenTypes'
  BY <1>4, <1>0 DEF Resume, ThreadTypes, RestTypes, DatabaseTypes, SeenTypes, Seen, memory
<1>5. ASSUME NEW s \in Sessions, NEW c \in Threads, Keep(s, c)
      PROVE  SeenTypes'
  BY <1>5, <1>0 DEF Keep, ThreadTypes, RestTypes, DatabaseTypes, SeenTypes, Seen, memory
<1>6. ASSUME NEW t \in Turns, RecordTurn(t)
      PROVE  SeenTypes'
  BY <1>6, <1>0 DEF RecordTurn, Queue, Answered, Speaks, ThreadTypes, RestTypes,
     DatabaseTypes, SeenTypes, Seen, memory
<1>7. CASE TakeEvent
  BY <1>7, <1>0 DEF TakeEvent, Add, Ready, Item, ThreadTypes, RestTypes, DatabaseTypes,
     SeenTypes, Seen, memory
<1>8. CASE TakeOpen
  BY <1>8, <1>0 DEF TakeOpen, Ready, Item, Begin, ThreadTypes, RestTypes, DatabaseTypes,
     SeenTypes, Seen, memory
<1>9. CASE TakeTurn
  BY <1>9, <1>0 DEF TakeTurn, SeenTypes
<1>10. CASE TakeClose
  BY <1>10, <1>0 DEF TakeClose, Answered, Ready, Item, Begin, ThreadTypes, RestTypes,
     DatabaseTypes, SeenTypes, Seen, memory
<1>11. CASE TakeStop
  BY <1>11, <1>0 DEF TakeStop, Ready, Item, ThreadTypes, RestTypes, DatabaseTypes,
     SeenTypes, Seen, memory
<1>12. CASE DurableLands
  <2>1. Alive \in SUBSET Turns
    BY <1>12, <1>0, MarkerTyped, AliveTyped DEF DurableLands, Attempting
  <2>2. seen.ours \cup ThreadsOf(Alive) \in SUBSET Threads
    BY <1>0, <2>1, ThreadsTyped, SeenFields
  <2> QED BY <1>12, <1>0, <2>2, SeenMoves DEF DurableLands, SeenTypes
<1>13. CASE Tombstoned
  BY <1>13, <1>0 DEF Tombstoned, SeenTypes
<1>14. ASSUME NEW read \in BOOLEAN, NEW busy \in BOOLEAN, DurableFails(read, busy)
      PROVE  SeenTypes'
  <2> DEFINE ts == IF read THEN Alive ELSE marker.turns
  <2>1. marker.of \in Sessions /\ ts \in SUBSET Turns
    BY <1>14, <1>0, MarkerTyped, AliveTyped DEF DurableFails, Attempting
  <2>2. seen.missing[marker.of] + Cardinality(ts) \in Nat
    BY <1>0, <2>1, CardinalityTyped, SeenFields
  <2>3. CASE UNCHANGED seen
    BY <1>0, <2>3 DEF SeenTypes
  <2>4. CASE seen' = [seen EXCEPT !.missing[marker.of] = seen.missing[marker.of] +
     Cardinality(ts)]
    <3> HIDE DEF ts
    <3> QED BY <1>0, <2>1, <2>2, <2>4, SeenMoves DEF SeenTypes
  <2> QED BY <1>14, <2>3, <2>4 DEF DurableFails, Failed
<1>15. CASE AnswerTurns
  <2>1. marker.turns \in SUBSET Turns
    BY <1>15, <1>0, MarkerTyped DEF AnswerTurns, At
  <2>2. /\ seen.told \cup (ThreadsOf(marker.turns) \cap seen.holes) \in SUBSET Threads
        /\ seen.holes \cup ThreadsOf(marker.turns) \in SUBSET Threads
        /\ seen.told \ ThreadsOf(marker.turns) \in SUBSET Threads
        /\ seen.forgotten \ ThreadsOf(marker.turns) \in SUBSET Threads
    BY <1>0, <2>1, ThreadsTyped, SeenFields
  <2> QED BY <1>15, <1>0, <2>2, SeenMoves DEF AnswerTurns, SeenTypes
<1>16. CASE EventsWritten
  BY <1>16, <1>0 DEF EventsWritten, At, ThreadTypes, RestTypes, DatabaseTypes, SeenTypes,
     Seen, memory
<1>17. CASE EventsLost
  <2>1. marker.of \in Sessions
    BY <1>17, <1>0, MarkerTyped DEF EventsLost, At
  <2>2. seen.missing[marker.of] + held[marker.of] \in Nat
    BY <1>0, <2>1, SeenFields DEF ThreadTypes
  <2> QED BY <1>17, <1>0, <2>1, <2>2, SeenMoves DEF EventsLost, SeenTypes
<1>18. ASSUME NEW ok \in BOOLEAN, CountLate(ok)
      PROVE  SeenTypes'
  <2>1. marker.of \in Sessions
    BY <1>18, <1>0, MarkerTyped DEF CountLate, At
  <2>2. seen.uncounted[marker.of] + held[marker.of] \in Nat
    BY <1>0, <2>1, SeenFields DEF ThreadTypes
  <2> QED BY <1>18, <1>0, <2>1, <2>2, SeenMoves DEF CountLate, SeenTypes
<1>19. CASE EndMarker
  BY <1>19, <1>0 DEF EndMarker, Answered, At, ThreadTypes, RestTypes, DatabaseTypes,
     SeenTypes, Seen, memory
<1>20. CASE Prune
  <2>1. CASE UNCHANGED seen
    BY <1>0, <2>1 DEF SeenTypes
  <2>2. CASE ~UNCHANGED seen
    <3>1. PICK gone \in SUBSET listed,
               aged \in SUBSET {s \in Sessions : spine[s] # "none"} :
            LET ts == {t \in rows : ThreadOf[t] \in gone}
                named == {SessionOf[t] : t \in rows \ ts}
            IN Remove(ts, gone, aged \ named) /\ tracks' = tracks \ aged
      BY <1>20, <2>2 DEF Prune
    <3> DEFINE ts == {t \in rows : ThreadOf[t] \in gone}
               named == {SessionOf[t] : t \in rows \ ts}
    <3>2. Remove(ts, gone, aged \ named) /\ tracks' = tracks \ aged
      BY <3>1
    <3>3. ts \in SUBSET Turns /\ gone \in SUBSET Threads /\ aged \ named \in SUBSET Sessions
      BY <1>0 DEF DatabaseTypes
    <3>4. seen.erasures < MaxErasures
      BY <1>20, <2>2 DEF Prune
    <3> HIDE DEF ts, named
    <3> QED BY <1>0, <3>2, <3>3, <3>4, RemoveTyped DEF SeenTypes
  <2> QED BY <2>1, <2>2
<1>21. CASE WriterEnds
  BY <1>21, <1>0 DEF WriterEnds, Answered, ThreadTypes, RestTypes, DatabaseTypes,
     SeenTypes, Seen, memory
<1>22. ASSUME NEW s \in Sessions, Flush(s)
      PROVE  SeenTypes'
  BY <1>22, <1>0 DEF Flush, Begin, ThreadTypes, RestTypes, DatabaseTypes, SeenTypes, Seen,
     memory
<1>23. ASSUME NEW s \in Sessions, EraseSession(s)
      PROVE  SeenTypes'
  <2> DEFINE ts == {t \in rows : SessionOf[t] = s}
             gone == ThreadsOf(ts) \ ThreadsOf(rows \ ts)
  <2>1. ts \in SUBSET Turns /\ gone \in SUBSET Threads
    BY <1>0, ThreadsTyped DEF DatabaseTypes
  <2>2. Remove(ts, gone, {s}) /\ tracks' = tracks \ {s} /\ seen.erasures < MaxErasures
    BY <1>23 DEF EraseSession, MayErase
  <2> HIDE DEF ts, gone
  <2> QED BY <1>0, <2>1, <2>2, RemoveTyped DEF SeenTypes
<1>24. ASSUME NEW c \in Threads, EraseThread(c)
      PROVE  SeenTypes'
  <2> DEFINE ts == {t \in rows : ThreadOf[t] = c}
  <2>1. ts \in SUBSET Turns /\ {c} \in SUBSET Threads
    BY <1>0 DEF DatabaseTypes
  <2>2. Remove(ts, {c}, {}) /\ tracks' = tracks /\ seen.erasures < MaxErasures
    BY <1>24 DEF EraseThread, MayErase
  <2> HIDE DEF ts
  <2> QED BY <1>0, <2>1, <2>2, RemoveTyped DEF SeenTypes
<1>25. CASE Announce
  BY <1>25, <1>0 DEF Announce, ThreadTypes, RestTypes, DatabaseTypes, SeenTypes, Seen,
     memory
<1>26. CASE Stop
  BY <1>26, <1>0 DEF Stop, Queue, ThreadTypes, RestTypes, DatabaseTypes, SeenTypes, Seen,
     memory
<1>27. CASE Crash
  <2>1. seen.crashes + 1 \in 0 .. MaxCrashes
    BY <1>27, <1>0, SeenFields DEF Crash
  <2>2. seen.forgotten \cup (seen.holes \ flagged) \in SUBSET Threads
    BY <1>0, SeenFields
  <2> QED BY <1>27, <1>0, <2>1, <2>2, SeenMoves DEF Crash, SeenTypes
<1>28. CASE UNCHANGED vars
  BY <1>28, <1>0 DEF vars, ThreadTypes, RestTypes, DatabaseTypes, SeenTypes, Seen, memory
<1> QED BY <1>1, <1>2, <1>3, <1>4, <1>5, <1>6, <1>7, <1>8, <1>9, <1>10, <1>11, <1>12,
   <1>13, <1>14, <1>15, <1>16, <1>17, <1>18, <1>19, <1>20, <1>21, <1>22, <1>23, <1>24,
   <1>25, <1>26, <1>27, <1>28
   DEF Next, Sessioning, Writing, Erasing

LEMMA TypeInit ==
  ASSUME Init
  PROVE  TypeOK
<1>1. ProducerTypes
  <2>1. /\ [h \in Handles |-> "none"]
             \in [Handles -> {"none", "waiting", "landed", "refused", "gone"}]
        /\ [s \in Sessions |-> "away"] \in [Sessions -> {"away", "recording", "closed"}]
        /\ [s \in Sessions |-> {c \in Threads : MintedBy[c] = s}]
             \in [Sessions -> SUBSET Threads]
        /\ <<>> \in Seq(Records)
    OBVIOUS
  <2>2. queue \in Seq(Records) /\ inFlight \in Int
    BY <2>1 DEF Init
  <2>7. stopped \in BOOLEAN
    BY Zenon DEF Init
  <2>3. dropped \in [Sessions -> Nat]
    BY NoneTyped DEF Init
  <2>4. session \in [Sessions -> {"away", "recording", "closed"}]
    BY <2>1 DEF Init
  <2>5. holds \in [Sessions -> SUBSET Threads]
    BY <2>1 DEF Init
  <2>6. answer \in [Handles -> {"none", "waiting", "landed", "refused", "gone"}]
    BY <2>1 DEF Init
  <2> QED BY <2>2, <2>3, <2>4, <2>5, <2>6, <2>7 DEF ProducerTypes
<1>2. ThreadTypes
  BY NoneTyped DEF Init, ThreadTypes
<1>3. DatabaseTypes
  BY NoneTyped DEF Init, DatabaseTypes
<1>4. RestTypes
  BY DEF Init, RestTypes
<1>5. SeenTypes
  BY NoneTyped DEF Init, SeenTypes, Seen
<1> QED BY <1>1, <1>2, <1>3, <1>4, <1>5, TypeGroups

LEMMA TypeStep ==
  ASSUME TypeOK, [Next]_vars
  PROVE  TypeOK'
<1>1. ProducerTypes' /\ ThreadTypes' /\ DatabaseTypes' /\ RestTypes' /\ SeenTypes'
  BY ProducerStep, ThreadStep, DatabaseStep, RestStep, SeenStep
<1> QED BY <1>1 DEF TypeOK, ProducerTypes, ThreadTypes, DatabaseTypes, RestTypes, SeenTypes

\* The variables hold values of their types, for any number of sessions, threads
\* and turns, any faults, deletions and crashes.
THEOREM TypeCorrect == Spec => []TypeOK
<1>1. Init => TypeOK
  BY TypeInit
<1>2. TypeOK /\ [Next]_vars => TypeOK'
  BY TypeStep
<1> QED BY <1>1, <1>2, PTL DEF Spec

-----------------------------------------------------------------------------
(* The queue.                                                               *)

TurnAt(i) == queue[i].kind = "turn"
CloseAt(i) == queue[i].kind = "close"
About(i, s) == IF TurnAt(i) THEN SessionOf[queue[i].of] = s
               ELSE queue[i].kind \in {"open", "event", "close"} /\ queue[i].of = s
Quiet(s) == \A i \in DOMAIN queue : ~About(i, s)
Queued == {queue[i].of : i \in {j \in DOMAIN queue : TurnAt(j)}}
Closes == {queue[i].of : i \in {j \in DOMAIN queue : CloseAt(j)}}

\* Which session a record is about.
Concerns(r, s) == IF r.kind = "turn" THEN SessionOf[r.of] = s
                  ELSE r.kind \in {"open", "event", "close"} /\ r.of = s

LEMMA AppendAt ==
  ASSUME ProducerTypes, NEW r \in Records, Queue(r)
  PROVE  /\ Len(queue) \in Nat /\ DOMAIN queue = 1 .. Len(queue)
         /\ DOMAIN queue' = 1 .. Len(queue) + 1 /\ Len(queue') = Len(queue) + 1
         /\ \A i \in DOMAIN queue : queue'[i] = queue[i]
         /\ queue'[Len(queue) + 1] = r
BY DEF ProducerTypes, Queue

LEMMA TailAt ==
  ASSUME ProducerTypes, queue # <<>>, queue' = Tail(queue)
  PROVE  /\ Len(queue) \in Nat \ {0} /\ DOMAIN queue = 1 .. Len(queue)
         /\ DOMAIN queue' = 1 .. Len(queue) - 1 /\ Len(queue') = Len(queue) - 1
         /\ \A i \in DOMAIN queue' : i + 1 \in DOMAIN queue /\ queue'[i] = queue[i + 1]
         /\ Item = queue[1] /\ 1 \in DOMAIN queue
<1>1. /\ queue \in Seq(Records) /\ queue' \in Seq(Records) /\ Len(queue') = Len(queue) - 1
      /\ \A i \in 1 .. Len(queue') : queue'[i] = queue[i + 1]
  BY HeadTailProperties DEF ProducerTypes
<1>2. Len(queue) \in Nat \ {0} /\ DOMAIN queue = 1 .. Len(queue)
      /\ DOMAIN queue' = 1 .. Len(queue')
  BY <1>1, EmptySeq, LenProperties DEF ProducerTypes
<1>3. Item = queue[1]
  BY <1>1 DEF Item
<1> QED BY <1>1, <1>2, <1>3

\* What a record handed over adds, and what one taken leaves.
LEMMA AppendViews ==
  ASSUME ProducerTypes, NEW r \in Records, Queue(r)
  PROVE  /\ Queued' = Queued \cup (IF r.kind = "turn" THEN {r.of} ELSE {})
         /\ Closes' = Closes \cup (IF r.kind = "close" THEN {r.of} ELSE {})
         /\ \A s : Quiet(s)' <=> Quiet(s) /\ ~Concerns(r, s)
<1> DEFINE n == Len(queue) + 1
<1>1. /\ DOMAIN queue' = DOMAIN queue \cup {n} /\ n \notin DOMAIN queue
      /\ \A i \in DOMAIN queue : queue'[i] = queue[i]
      /\ queue'[n] = r
  <2>1. \A k \in Nat : 1 .. k + 1 = (1 .. k) \cup {k + 1} /\ k + 1 \notin 1 .. k
    OBVIOUS
  <2> QED BY <2>1, AppendAt
<1> HIDE DEF n
<1>2. Queued' = Queued \cup (IF r.kind = "turn" THEN {r.of} ELSE {})
  BY <1>1 DEF Queued, TurnAt
<1>3. Closes' = Closes \cup (IF r.kind = "close" THEN {r.of} ELSE {})
  BY <1>1 DEF Closes, CloseAt
<1>4. \A s : Quiet(s)' <=> Quiet(s) /\ ~Concerns(r, s)
  BY <1>1 DEF Quiet, About, TurnAt, Concerns
<1> QED BY <1>2, <1>3, <1>4

LEMMA TailViews ==
  ASSUME ProducerTypes, queue # <<>>, queue' = Tail(queue)
  PROVE  /\ Queued = Queued' \cup (IF Item.kind = "turn" THEN {Item.of} ELSE {})
         /\ Closes = Closes' \cup (IF Item.kind = "close" THEN {Item.of} ELSE {})
         /\ \A s : Quiet(s) <=> Quiet(s)' /\ ~Concerns(Item, s)
<1>1. /\ DOMAIN queue = {1} \cup {i + 1 : i \in DOMAIN queue'}
      /\ \A i \in DOMAIN queue' : queue'[i] = queue[i + 1]
      /\ Item = queue[1]
  <2>1. \A k \in Nat \ {0} : 1 .. k = {1} \cup {i + 1 : i \in 1 .. k - 1}
    <3> SUFFICES ASSUME NEW k \in Nat \ {0}
                 PROVE  1 .. k = {1} \cup {i + 1 : i \in 1 .. k - 1}
      OBVIOUS
    <3>1. ASSUME NEW j \in 1 .. k, j # 1
          PROVE  j \in {i + 1 : i \in 1 .. k - 1}
      <4>1. j - 1 \in 1 .. k - 1 /\ j = (j - 1) + 1
        BY <3>1
      <4> QED BY <4>1
    <3> QED BY <3>1
  <2>2. /\ Len(queue) \in Nat \ {0} /\ DOMAIN queue = 1 .. Len(queue)
        /\ DOMAIN queue' = 1 .. Len(queue) - 1 /\ Item = queue[1]
        /\ \A i \in DOMAIN queue' : queue'[i] = queue[i + 1]
    BY TailAt
  <2> QED BY <2>1, <2>2
<1>2. Queued = Queued' \cup (IF Item.kind = "turn" THEN {Item.of} ELSE {})
  BY <1>1 DEF Queued, TurnAt
<1>3. Closes = Closes' \cup (IF Item.kind = "close" THEN {Item.of} ELSE {})
  BY <1>1 DEF Closes, CloseAt
<1>4. \A s : Quiet(s) <=> Quiet(s)' /\ ~Concerns(Item, s)
  BY <1>1 DEF Quiet, About, TurnAt, Concerns
<1> QED BY <1>2, <1>3, <1>4

LEMMA SameViews ==
  ASSUME queue' = queue
  PROVE  Queued' = Queued /\ Closes' = Closes /\ \A s : Quiet(s)' <=> Quiet(s)
BY DEF Queued, Closes, Quiet, About, TurnAt, CloseAt

LEMMA EmptyViews ==
  ASSUME queue' = <<>>
  PROVE  Queued' = {} /\ Closes' = {} /\ \A s : Quiet(s)'
BY DEF Queued, Closes, Quiet, About, TurnAt, CloseAt

LEMMA QueuedTyped ==
  ASSUME ProducerTypes
  PROVE  Queued \subseteq Turns /\ Closes \subseteq Sessions
<1>1. \A i \in DOMAIN queue : queue[i] \in Records
  BY DEF ProducerTypes
<1>2. \A i \in DOMAIN queue : /\ queue[i].kind = "turn" => queue[i].of \in Turns
                              /\ queue[i].kind = "close" => queue[i].of \in Sessions
  BY <1>1, RecordKinds
<1> QED BY <1>2 DEF Queued, Closes, TurnAt, CloseAt

LEMMA MarkerFrame ==
  ASSUME [Next]_vars
  PROVE  \/ UNCHANGED marker
         \/ TakeOpen \/ TakeTurn \/ TakeClose \/ DurableLands \/ Tombstoned
         \/ \E read, busy \in BOOLEAN : DurableFails(read, busy)
         \/ AnswerTurns \/ EventsWritten \/ EventsLost
         \/ \E ok \in BOOLEAN : CountLate(ok)
         \/ EndMarker \/ \E s \in Sessions : Flush(s)
         \/ Crash
BY DEF Next, Sessioning, Writing, Erasing, vars, producers, thread, OpenSession, RecordEvent,
   CloseSession, Resume, Keep, RecordTurn, TakeEvent, TakeStop, Prune, WriterEnds,
   EraseSession, EraseThread, Announce, Stop

LEMMA DataFrame ==
  ASSUME [Next]_vars
  PROVE  \/ UNCHANGED <<rows, listed, spine, tracks>>
         \/ DurableLands \/ EventsWritten \/ Prune
         \/ \E s \in Sessions : EraseSession(s)
         \/ \E c \in Threads : EraseThread(c)
BY DEF Next, Sessioning, Writing, Erasing, vars, producers, thread, database, OpenSession,
   RecordEvent, CloseSession, Resume, Keep, RecordTurn, TakeEvent, TakeStop, WriterEnds, Announce, Stop,
   TakeOpen, TakeTurn, TakeClose, Tombstoned, DurableFails, AnswerTurns, EventsLost,
   CountLate, EndMarker, Flush, Crash

-----------------------------------------------------------------------------
(* The marker.                                                              *)

Busy == marker # <<>>
Closing(s) == Busy /\ marker.kind = "close" /\ marker.of = s

\* A marker carries turns of its own session, and answers them before it goes on.
MarkerShape == Busy =>
  /\ \A t \in marker.turns : SessionOf[t] = marker.of
  /\ marker.kind # "turn" => marker.turns = {}
  /\ marker.step = "durable" => ~marker.landed
  /\ marker.step = "answer" => marker.turns # {}
  /\ marker.step \in {"events", "late", "end"} => marker.turns = {}
  /\ marker.step = "late" => marker.kind = "close"

LEMMA BeginMakes ==
  ASSUME NEW kind \in {"open", "turn", "close", "flush"}, NEW s \in Sessions,
         NEW ts \in SUBSET Turns, Begin(kind, s, ts)
  PROVE  /\ Busy' /\ marker'.kind = kind /\ marker'.of = s /\ marker'.turns = ts
         /\ marker'.step = "durable" /\ ~marker'.landed
BY DEF Begin, Busy

LEMMA MarkerDomain ==
  ASSUME NEW m \in Marker
  PROVE  DOMAIN m = {"kind", "of", "turns", "step", "attempt", "landed"}
BY DEF Marker

LEMMA HasFields ==
  \A x : DOMAIN x = {"kind", "of", "turns", "step", "attempt", "landed"} => x # <<>>
OBVIOUS

\* What each step of the writer makes of the marker it has in hand.
LEMMA MarkerStep ==
  ASSUME TypeOK, Busy
  PROVE  /\ marker.of \in Sessions /\ marker.turns \subseteq Turns /\ marker \in Marker
         /\ DurableLands =>
              /\ Busy' /\ marker'.kind = marker.kind /\ marker'.of = marker.of
              /\ marker'.turns = Alive /\ marker'.step = Decided(Alive) /\ marker'.landed
         /\ \A read, busy \in BOOLEAN : DurableFails(read, busy) =>
              /\ Busy' /\ marker'.kind = marker.kind /\ marker'.of = marker.of
              /\ marker'.turns = (IF read THEN Alive ELSE marker.turns)
              /\ marker'.step \in {"durable", Decided(marker'.turns)}
              /\ marker'.landed = marker.landed
         /\ AnswerTurns =>
              /\ Busy' /\ marker'.kind = marker.kind /\ marker'.of = marker.of
              /\ marker'.turns = {} /\ marker'.step = Afterwards
              /\ marker'.landed = marker.landed
         /\ EventsWritten =>
              /\ Busy' /\ marker'.kind = marker.kind /\ marker'.of = marker.of
              /\ marker'.turns = marker.turns /\ marker'.step = "end"
              /\ marker'.landed = marker.landed
         /\ EventsLost =>
              /\ Busy' /\ marker'.kind = marker.kind /\ marker'.of = marker.of
              /\ marker'.turns = marker.turns
              /\ marker'.step = (IF marker.kind = "close" THEN "late" ELSE "end")
              /\ marker'.landed = marker.landed
         /\ \A ok \in BOOLEAN : CountLate(ok) =>
              /\ Busy' /\ marker'.kind = marker.kind /\ marker'.of = marker.of
              /\ marker'.turns = marker.turns /\ marker'.step = "end"
              /\ marker'.landed = marker.landed
<1>1. marker \in Marker /\ marker.of \in Sessions /\ marker.turns \subseteq Turns
  BY TypeGroups, MarkerTyped DEF Busy
<1>2. ASSUME DurableLands
      PROVE  /\ Busy' /\ marker'.kind = marker.kind /\ marker'.of = marker.of
             /\ marker'.turns = Alive /\ marker'.step = Decided(Alive) /\ marker'.landed
  BY <1>1, <1>2, MarkerDomain, HasFields DEF DurableLands, Busy
<1>3. ASSUME NEW read \in BOOLEAN, NEW busy \in BOOLEAN, DurableFails(read, busy)
      PROVE  /\ Busy' /\ marker'.kind = marker.kind /\ marker'.of = marker.of
             /\ marker'.turns = (IF read THEN Alive ELSE marker.turns)
             /\ marker'.step \in {"durable", Decided(marker'.turns)}
             /\ marker'.landed = marker.landed
  <2> DEFINE ts == IF read THEN Alive ELSE marker.turns
  <2>1. \/ marker' = [marker EXCEPT !.turns = ts, !.attempt = marker.attempt + 1]
        \/ marker' = [marker EXCEPT !.turns = ts, !.step = Decided(ts)]
    BY <1>3 DEF DurableFails, Failed
  <2>2. marker.step = "durable"
    BY <1>3 DEF DurableFails, Attempting
  <2> HIDE DEF ts
  <2>3. /\ Busy' /\ marker'.kind = marker.kind /\ marker'.of = marker.of
        /\ marker'.turns = ts
        /\ marker'.step \in {"durable", Decided(ts)}
        /\ marker'.landed = marker.landed
    BY <1>1, <2>1, <2>2, MarkerDomain, HasFields DEF Busy
  <2> QED BY <2>3 DEF ts
<1>4. ASSUME AnswerTurns
      PROVE  /\ Busy' /\ marker'.kind = marker.kind /\ marker'.of = marker.of
             /\ marker'.turns = {} /\ marker'.step = Afterwards
             /\ marker'.landed = marker.landed
  BY <1>1, <1>4, MarkerDomain, HasFields DEF AnswerTurns, Busy
<1>5. ASSUME EventsWritten
      PROVE  /\ Busy' /\ marker'.kind = marker.kind /\ marker'.of = marker.of
             /\ marker'.turns = marker.turns /\ marker'.step = "end"
             /\ marker'.landed = marker.landed
  BY <1>1, <1>5, MarkerDomain, HasFields DEF EventsWritten, Busy
<1>6. ASSUME EventsLost
      PROVE  /\ Busy' /\ marker'.kind = marker.kind /\ marker'.of = marker.of
             /\ marker'.turns = marker.turns
             /\ marker'.step = (IF marker.kind = "close" THEN "late" ELSE "end")
             /\ marker'.landed = marker.landed
  BY <1>1, <1>6, MarkerDomain, HasFields DEF EventsLost, Busy
<1>7. ASSUME NEW ok \in BOOLEAN, CountLate(ok)
      PROVE  /\ Busy' /\ marker'.kind = marker.kind /\ marker'.of = marker.of
             /\ marker'.turns = marker.turns /\ marker'.step = "end"
             /\ marker'.landed = marker.landed
  BY <1>1, <1>7, MarkerDomain, HasFields DEF CountLate, Busy
<1> QED BY <1>1, <1>2, <1>3, <1>4, <1>5, <1>6, <1>7

\* What taking a record makes of the marker.
LEMMA TakeStep ==
  ASSUME TypeOK
  PROVE  /\ TakeOpen \/ TakeTurn \/ TakeClose \/ TakeEvent \/ TakeStop =>
              /\ ~Busy /\ Item \in Records /\ queue # <<>> /\ queue' = Tail(queue)
         /\ TakeOpen => /\ Busy' /\ marker'.kind = "open" /\ marker'.of = Item.of
                        /\ marker'.turns = {} /\ marker'.step = "durable" /\ ~marker'.landed
                        /\ Item.of \in Sessions
         /\ TakeTurn => /\ Item.of \in Turns
                        /\ \/ ~Busy' /\ SessionOf[Item.of] \notin batches
                           \/ /\ Busy' /\ marker'.kind = "turn"
                              /\ marker'.of = SessionOf[Item.of]
                              /\ marker'.turns = {Item.of} /\ marker'.step = "durable"
                              /\ ~marker'.landed /\ SessionOf[Item.of] \in batches
         /\ TakeClose => /\ Item.of \in Sessions
                         /\ \/ ~Busy' /\ Item.of \notin batches
                            \/ /\ Busy' /\ marker'.kind = "close" /\ marker'.of = Item.of
                               /\ marker'.turns = {} /\ marker'.step = "durable"
                               /\ ~marker'.landed /\ Item.of \in batches
<1>1. ProducerTypes
  BY TypeGroups
<1>2. Ready => /\ ~Busy /\ Item \in Records /\ queue # <<>>
               /\ Item.kind \in {"open", "event", "close"} => Item.of \in Sessions
               /\ Item.kind = "turn" => Item.of \in Turns
  BY <1>1, ItemTyped DEF Ready, Busy
<1>3. ASSUME TakeOpen
      PROVE  /\ Busy' /\ marker'.kind = "open" /\ marker'.of = Item.of
             /\ marker'.turns = {} /\ marker'.step = "durable" /\ ~marker'.landed
             /\ Item.of \in Sessions
  BY <1>2, <1>3, BeginMakes DEF TakeOpen
<1>4. ASSUME TakeTurn
      PROVE  /\ Item.of \in Turns
             /\ \/ ~Busy' /\ SessionOf[Item.of] \notin batches
                \/ /\ Busy' /\ marker'.kind = "turn" /\ marker'.of = SessionOf[Item.of]
                   /\ marker'.turns = {Item.of} /\ marker'.step = "durable"
                   /\ ~marker'.landed /\ SessionOf[Item.of] \in batches
  <2>1. Item.of \in Turns /\ SessionOf[Item.of] \in Sessions /\ {Item.of} \in SUBSET Turns
    BY <1>2, <1>4 DEF TakeTurn
  <2>2. CASE SessionOf[Item.of] \in batches
    BY <1>4, <2>1, <2>2, BeginMakes DEF TakeTurn
  <2>3. CASE SessionOf[Item.of] \notin batches
    BY <1>2, <1>4, <2>1, <2>3 DEF TakeTurn, Busy
  <2> QED BY <2>2, <2>3
<1>5. ASSUME TakeClose
      PROVE  /\ Item.of \in Sessions
             /\ \/ ~Busy' /\ Item.of \notin batches
                \/ /\ Busy' /\ marker'.kind = "close" /\ marker'.of = Item.of
                   /\ marker'.turns = {} /\ marker'.step = "durable"
                   /\ ~marker'.landed /\ Item.of \in batches
  <2>1. Item.of \in Sessions
    BY <1>2, <1>5 DEF TakeClose
  <2>2. CASE Item.of \in batches
    BY <1>5, <2>1, <2>2, BeginMakes DEF TakeClose
  <2>3. CASE Item.of \notin batches
    BY <1>2, <1>5, <2>1, <2>3 DEF TakeClose, Busy
  <2> QED BY <2>2, <2>3
<1>6. TakeOpen \/ TakeTurn \/ TakeClose \/ TakeEvent \/ TakeStop =>
        /\ ~Busy /\ Item \in Records /\ queue # <<>> /\ queue' = Tail(queue)
  BY <1>2 DEF TakeOpen, TakeTurn, TakeClose, TakeEvent, TakeStop
<1> QED BY <1>3, <1>4, <1>5, <1>6

\* What else becomes of it.
LEMMA FlushStep ==
  ASSUME NEW s \in Sessions, Flush(s)
  PROVE  /\ ~Busy
         /\ \/ /\ ~Busy' /\ held[s] = 0 /\ batches' = batches \ {s}
            \/ /\ Busy' /\ marker'.kind = "flush" /\ marker'.of = s /\ marker'.turns = {}
               /\ marker'.step = "durable" /\ ~marker'.landed /\ batches' = batches
<1>1. CASE held[s] = 0
  BY <1>1 DEF Flush, Busy
<1>2. CASE held[s] # 0
  BY <1>2, BeginMakes DEF Flush, Busy
<1> QED BY <1>1, <1>2

LEMMA NoMarker ==
  Tombstoned \/ EndMarker \/ Crash => ~Busy'
BY DEF Tombstoned, EndMarker, Crash, Busy

LEMMA StepNeeds ==
  /\ DurableLands \/ Tombstoned \/ (\E read, busy \in BOOLEAN : DurableFails(read, busy)) =>
       Busy /\ marker.step = "durable" /\ erasing = <<>>
  /\ AnswerTurns => Busy /\ marker.step = "answer"
  /\ EventsWritten \/ EventsLost => Busy /\ marker.step = "events"
  /\ (\E ok \in BOOLEAN : CountLate(ok)) => Busy /\ marker.step = "late"
  /\ EndMarker => Busy /\ marker.step = "end"
BY DEF DurableLands, Tombstoned, DurableFails, Attempting, AnswerTurns, EventsWritten,
   EventsLost, CountLate, EndMarker, At, Busy

LEMMA DecidedTells ==
  \A ts : /\ Decided(ts) = "answer" => ts # {}
          /\ Decided(ts) # "answer" => ts = {}
          /\ Decided(ts) \in {"answer", "events", "end"}
          /\ Afterwards \in {"events", "end"}
BY DEF Decided, Afterwards

LEMMA ShapeStep ==
  ASSUME TypeOK, MarkerShape, [Next]_vars
  PROVE  MarkerShape'
<1>1. CASE UNCHANGED marker
  BY <1>1 DEF MarkerShape, Busy
<1>2. CASE TakeOpen
  BY <1>2, TakeStep DEF MarkerShape
<1>3. CASE TakeTurn
  BY <1>3, TakeStep DEF MarkerShape
<1>4. CASE TakeClose
  BY <1>4, TakeStep DEF MarkerShape
<1>5. CASE DurableLands
  BY <1>5, StepNeeds, MarkerStep, AliveTyped, DecidedTells DEF MarkerShape
<1>6. CASE Tombstoned \/ EndMarker \/ Crash
  BY <1>6, NoMarker DEF MarkerShape
<1>7. ASSUME NEW read \in BOOLEAN, NEW busy \in BOOLEAN, DurableFails(read, busy)
      PROVE  MarkerShape'
  BY <1>7, StepNeeds, MarkerStep, AliveTyped, DecidedTells DEF MarkerShape
<1>8. CASE AnswerTurns
  BY <1>8, StepNeeds, MarkerStep, DecidedTells DEF MarkerShape
<1>9. CASE EventsWritten
  BY <1>9, StepNeeds, MarkerStep DEF MarkerShape
<1>10. CASE EventsLost
  BY <1>10, StepNeeds, MarkerStep DEF MarkerShape
<1>11. ASSUME NEW ok \in BOOLEAN, CountLate(ok)
       PROVE  MarkerShape'
  BY <1>11, StepNeeds, MarkerStep DEF MarkerShape
<1>12. ASSUME NEW s \in Sessions, Flush(s)
       PROVE  MarkerShape'
  BY <1>12, FlushStep DEF MarkerShape
<1> QED BY <1>1, <1>2, <1>3, <1>4, <1>5, <1>6, <1>7, <1>8, <1>9, <1>10, <1>11, <1>12,
   MarkerFrame

-----------------------------------------------------------------------------
(* No orphans.                                                              *)

LEMMA OrphansStep ==
  ASSUME TypeOK, MarkerShape, NoOrphans, [Next]_vars
  PROVE  NoOrphans'
<1>0. DatabaseTypes /\ ThreadTypes
  BY TypeGroups
<1>1. CASE UNCHANGED <<rows, listed, spine, tracks>>
  BY <1>1 DEF NoOrphans
<1>2. CASE DurableLands
  <2> DEFINE s == marker.of
  <2>1. Busy /\ marker.step = "durable" /\ s \in Sessions
    BY <1>2, StepNeeds, MarkerStep
  <2>2. \A t \in Alive : SessionOf[t] = s /\ ThreadOf[t] \in ThreadsOf(Alive)
    BY <2>1, AliveTyped DEF MarkerShape, ThreadsOf
  <2>3. /\ rows' = rows \cup Alive /\ listed' = listed \cup ThreadsOf(Alive)
        /\ tracks' = tracks
    BY <1>2 DEF DurableLands, Commits
  <2>4. \A r \in Sessions : r = s \/ spine[r] # "none" => spine'[r] # "none"
    BY <1>2, <1>0, <2>1 DEF DurableLands, DatabaseTypes
  <2> HIDE DEF s
  <2> QED BY <1>0, <2>1, <2>2, <2>3, <2>4 DEF NoOrphans, DatabaseTypes
<1>3. CASE EventsWritten
  <2>1. marker.of \in Sessions
    BY <1>3, StepNeeds, MarkerStep
  <2> QED BY <1>3, <2>1 DEF EventsWritten, NoOrphans
<1>4. CASE Prune
  <2>1. CASE UNCHANGED database
    BY <2>1 DEF NoOrphans, database
  <2>2. CASE ~UNCHANGED database
    <3>1. PICK gone \in SUBSET listed,
               aged \in SUBSET {s \in Sessions : spine[s] # "none"} :
            LET ts == {t \in rows : ThreadOf[t] \in gone}
                named == {SessionOf[t] : t \in rows \ ts}
            IN Remove(ts, gone, aged \ named) /\ tracks' = tracks \ aged
      BY <1>4, <2>2 DEF Prune
    <3>2. rows' = rows \ {t \in rows : ThreadOf[t] \in gone} /\ listed' = listed \ gone
          /\ tracks' = tracks \ aged
      BY <3>1 DEF Remove
    <3>3. \A s \in Sessions : s \notin aged \/ (\E t \in rows' : SessionOf[t] = s) =>
            spine'[s] = spine[s]
      BY <3>1 DEF Remove
    <3> QED BY <1>0, <3>2, <3>3 DEF NoOrphans, DatabaseTypes
  <2> QED BY <2>1, <2>2
<1>5. ASSUME NEW s \in Sessions, EraseSession(s)
      PROVE  NoOrphans'
  <2>1. /\ rows' = rows \ {t \in rows : SessionOf[t] = s} /\ tracks' = tracks \ {s}
        /\ \A r \in Sessions : r # s => spine'[r] = spine[r]
    BY <1>5 DEF EraseSession, Remove
  <2>2. \A t \in rows' : ThreadOf[t] \in listed => ThreadOf[t] \in listed'
    BY <1>5, <2>1 DEF EraseSession, Remove, ThreadsOf
  <2> QED BY <1>0, <2>1, <2>2 DEF NoOrphans, DatabaseTypes
<1>6. ASSUME NEW c \in Threads, EraseThread(c)
      PROVE  NoOrphans'
  BY <1>6, <1>0 DEF EraseThread, Remove, NoOrphans, DatabaseTypes
<1> QED BY <1>1, <1>2, <1>3, <1>4, <1>5, <1>6, DataFrame

-----------------------------------------------------------------------------
(* What is on its way to the database.                                      *)

Carried == Queued \cup (IF Busy THEN marker.turns ELSE {})

LEMMA CarriedTyped ==
  ASSUME TypeOK
  PROVE  Carried \subseteq Turns
BY TypeGroups, QueuedTyped, MarkerStep DEF Carried

LEMMA QueueFrame ==
  ASSUME [Next]_vars
  PROVE  \/ UNCHANGED queue
         \/ \E s \in Sessions : OpenSession(s)
         \/ \E s \in Sessions : RecordEvent(s)
         \/ \E s \in Sessions : CloseSession(s)
         \/ \E t \in Turns : RecordTurn(t)
         \/ Stop
         \/ TakeEvent \/ TakeOpen \/ TakeTurn \/ TakeClose \/ TakeStop
         \/ WriterEnds \/ Crash
BY DEF Next, Sessioning, Writing, Erasing, vars, producers, thread, Resume, Keep,
   DurableLands, Tombstoned, DurableFails, AnswerTurns, EventsWritten, EventsLost,
   CountLate, EndMarker, Prune, Flush, EraseSession, EraseThread, Announce

\* What each step does to the records queued: nothing, one more, one less, or none left.
LEMMA QueueStep ==
  ASSUME TypeOK, [Next]_vars
  PROVE  \/ UNCHANGED queue
         \/ \E s \in Sessions : OpenSession(s) /\ ~stopped /\ Queue([kind |-> "open", of |-> s])
         \/ \E s \in Sessions : RecordEvent(s) /\ ~stopped /\ Queue([kind |-> "event", of |-> s])
         \/ \E s \in Sessions : CloseSession(s) /\ ~stopped /\ Queue([kind |-> "close", of |-> s])
         \/ \E t \in Turns : RecordTurn(t) /\ ~stopped /\ Queue([kind |-> "turn", of |-> t])
         \/ Stop /\ ~stopped /\ Queue([kind |-> "stop"])
         \/ /\ TakeEvent \/ TakeOpen \/ TakeTurn \/ TakeClose \/ TakeStop
            /\ ~Busy /\ Item \in Records /\ queue # <<>> /\ queue' = Tail(queue)
         \/ (WriterEnds \/ Crash) /\ queue' = <<>>
BY ZenonT(60), QueueFrame, TakeStep DEF OpenSession, RecordEvent, CloseSession, RecordTurn, Stop,
   WriterEnds, Crash

\* Only `record_turn` puts a turn on its way.
LEMMA QueuedGrows ==
  ASSUME TypeOK, [Next]_vars, NEW t \in Queued'
  PROVE  t \in Queued \/ (t \in Turns /\ RecordTurn(t) /\ ~stopped)
<1>0. ProducerTypes
  BY TypeGroups
<1>1. CASE UNCHANGED queue
  BY <1>1, SameViews
<1>2. ASSUME NEW s \in Sessions, \/ Queue([kind |-> "open", of |-> s])
                                 \/ Queue([kind |-> "event", of |-> s])
                                 \/ Queue([kind |-> "close", of |-> s])
      PROVE  t \in Queued
  BY <1>0, <1>2, AppendViews, RecordsTyped
<1>3. ASSUME NEW u \in Turns, RecordTurn(u), ~stopped, Queue([kind |-> "turn", of |-> u])
      PROVE  t \in Queued \/ (t \in Turns /\ RecordTurn(t) /\ ~stopped)
  BY <1>0, <1>3, AppendViews, RecordsTyped
<1>4. CASE Queue([kind |-> "stop"])
  BY <1>0, <1>4, AppendViews, RecordsTyped
<1>5. CASE queue # <<>> /\ queue' = Tail(queue)
  BY <1>0, <1>5, TailViews
<1>6. CASE queue' = <<>>
  BY <1>6, EmptyViews
<1> QED BY <1>1, <1>2, <1>3, <1>4, <1>5, <1>6, QueueStep

LEMMA CarriedGrows ==
  ASSUME TypeOK, [Next]_vars, NEW t \in Carried'
  PROVE  t \in Carried \/ (t \in Turns /\ RecordTurn(t) /\ ~stopped)
<1>0. ProducerTypes
  BY TypeGroups
<1>1. CASE t \in Queued'
  BY <1>1, QueuedGrows DEF Carried
<1>2. CASE Busy' /\ t \in marker'.turns
  <2>1. CASE UNCHANGED marker
    BY <1>2, <2>1 DEF Carried, Busy
  <2>2. CASE TakeTurn
    BY <1>0, <1>2, <2>2, TakeStep, TailViews DEF Carried, TakeTurn
  <2>3. CASE TakeOpen \/ TakeClose
    BY <1>2, <2>3, TakeStep
  <2>4. CASE DurableLands
    BY <1>2, <2>4, StepNeeds, MarkerStep, AliveTyped DEF Carried
  <2>5. CASE Tombstoned \/ EndMarker \/ Crash
    BY <1>2, <2>5, NoMarker
  <2>6. ASSUME NEW read \in BOOLEAN, NEW busy \in BOOLEAN, DurableFails(read, busy)
        PROVE  t \in Carried
    BY <1>2, <2>6, StepNeeds, MarkerStep, AliveTyped DEF Carried
  <2>7. CASE AnswerTurns
    BY <1>2, <2>7, StepNeeds, MarkerStep
  <2>8. CASE EventsWritten \/ EventsLost
    BY <1>2, <2>8, StepNeeds, MarkerStep DEF Carried
  <2>9. ASSUME NEW ok \in BOOLEAN, CountLate(ok)
        PROVE  t \in Carried
    BY <1>2, <2>9, StepNeeds, MarkerStep DEF Carried
  <2>10. ASSUME NEW s \in Sessions, Flush(s)
         PROVE  t \in Carried
    BY <1>2, <2>10, FlushStep
  <2> QED BY <2>1, <2>2, <2>3, <2>4, <2>5, <2>6, <2>7, <2>8, <2>9, <2>10, MarkerFrame
<1> QED BY <1>1, <1>2 DEF Carried

-----------------------------------------------------------------------------
(* Sessions and the threads they speak on.                                  *)

LEMMA SessionFrame ==
  ASSUME [Next]_vars
  PROVE  \/ UNCHANGED session
         \/ \E s \in Sessions : OpenSession(s)
         \/ \E s \in Sessions : CloseSession(s)
         \/ Crash
BY DEF Next, Sessioning, Writing, Erasing, vars, producers, thread, Resume, Keep, RecordEvent,
   RecordTurn, TakeEvent, TakeOpen, TakeTurn, TakeClose, TakeStop, WriterEnds, Stop,
   DurableLands, Tombstoned, DurableFails, AnswerTurns, EventsWritten, EventsLost,
   CountLate, EndMarker, Prune, Flush, EraseSession, EraseThread, Announce

\* A session begins once, and is never taken up again.
LEMMA SessionsGoOn ==
  ASSUME TypeOK, [Next]_vars, NEW s \in Sessions
  PROVE  /\ session[s] # "away" => session'[s] # "away"
         /\ session[s] = "closed" => session'[s] = "closed"
<1>0. session \in [Sessions -> {"away", "recording", "closed"}]
  BY TypeGroups DEF ProducerTypes
<1>1. ASSUME NEW r \in Sessions, OpenSession(r)
      PROVE  /\ session[s] # "away" => session'[s] # "away"
             /\ session[s] = "closed" => session'[s] = "closed"
  BY <1>0, <1>1 DEF OpenSession
<1>2. ASSUME NEW r \in Sessions, CloseSession(r)
      PROVE  /\ session[s] # "away" => session'[s] # "away"
             /\ session[s] = "closed" => session'[s] = "closed"
  BY <1>0, <1>2 DEF CloseSession
<1>3. CASE Crash
  BY <1>0, <1>3 DEF Crash
<1> QED BY <1>1, <1>2, <1>3, SessionFrame

LEMMA HoldsFrame ==
  ASSUME [Next]_vars
  PROVE  UNCHANGED holds \/ \E s \in Sessions, c \in Threads : Resume(s, c)
BY DEF Next, Sessioning, Writing, Erasing, vars, producers, thread, Keep, RecordEvent,
   OpenSession, CloseSession, Crash,
   RecordTurn, TakeEvent, TakeOpen, TakeTurn, TakeClose, TakeStop, WriterEnds, Stop,
   DurableLands, Tombstoned, DurableFails, AnswerTurns, EventsWritten, EventsLost,
   CountLate, EndMarker, Prune, Flush, EraseSession, EraseThread, Announce

LEMMA SeenDomain ==
  ASSUME TypeOK
  PROVE  DOMAIN seen = {"erased", "scrubbed", "strangers", "ours", "holes", "told",
                        "forgotten", "missing", "uncounted", "emitted", "erasures", "crashes"}
BY TypeGroups DEF SeenTypes, Seen

\* What a step can do to what was deleted and by whom it was written.
LEMMA SeenFrame ==
  ASSUME TypeOK, [Next]_vars
  PROVE  \/ /\ seen'.erased = seen.erased /\ seen'.strangers = seen.strangers
            /\ seen'.scrubbed = seen.scrubbed
            /\ \/ seen'.ours = seen.ours
               \/ DurableLands /\ seen'.ours = seen.ours \cup ThreadsOf(Alive)
               \/ Crash /\ seen'.ours = {}
         \/ Prune
         \/ \E s \in Sessions : EraseSession(s)
         \/ \E c \in Threads : EraseThread(c)
<1>0. DOMAIN seen = {"erased", "scrubbed", "strangers", "ours", "holes", "told",
                     "forgotten", "missing", "uncounted", "emitted", "erasures", "crashes"}
  BY SeenDomain
<1>1. CASE UNCHANGED seen
  BY <1>1
<1>2. ASSUME NEW s \in Sessions, RecordEvent(s)
      PROVE  /\ seen'.erased = seen.erased /\ seen'.strangers = seen.strangers
             /\ seen'.scrubbed = seen.scrubbed /\ seen'.ours = seen.ours
  BY <1>0, <1>2 DEF RecordEvent
<1>3. CASE DurableLands
  BY <1>0, <1>3 DEF DurableLands
<1>4. ASSUME NEW read \in BOOLEAN, NEW busy \in BOOLEAN, DurableFails(read, busy)
      PROVE  /\ seen'.erased = seen.erased /\ seen'.strangers = seen.strangers
             /\ seen'.scrubbed = seen.scrubbed /\ seen'.ours = seen.ours
  <2>1. UNCHANGED seen \/ \E k : seen' = [seen EXCEPT !.missing[marker.of] = k]
    BY <1>4 DEF DurableFails, Failed
  <2> QED BY <1>0, <2>1
<1>5. CASE AnswerTurns
  BY <1>0, <1>5 DEF AnswerTurns
<1>6. CASE EventsLost
  BY <1>0, <1>6 DEF EventsLost
<1>7. ASSUME NEW ok \in BOOLEAN, CountLate(ok)
      PROVE  /\ seen'.erased = seen.erased /\ seen'.strangers = seen.strangers
             /\ seen'.scrubbed = seen.scrubbed /\ seen'.ours = seen.ours
  BY <1>0, <1>7 DEF CountLate
<1>8. CASE Crash
  BY <1>0, <1>8 DEF Crash
<1> QED BY <1>1, <1>2, <1>3, <1>4, <1>5, <1>6, <1>7, <1>8
   DEF Next, Sessioning, Writing, Erasing, vars, producers, thread, Resume, Keep,
   OpenSession, CloseSession,
   RecordTurn, TakeEvent, TakeOpen, TakeTurn, TakeClose, TakeStop, WriterEnds, Stop,
   Tombstoned, EventsWritten, EndMarker, Flush, Announce

\* What a deletion leaves of what was seen.
LEMMA RemoveSeen ==
  ASSUME TypeOK, NEW ts, NEW gone, NEW ss, Remove(ts, gone, ss)
  PROVE  /\ seen'.erased = seen.erased \cup gone /\ seen'.scrubbed = seen.scrubbed \cup ts
         /\ seen'.strangers = seen.strangers \cup (gone \ seen.ours)
         /\ seen'.ours = seen.ours \ gone /\ seen'.holes = seen.holes \ gone
         /\ seen'.told = seen.told \ gone /\ seen'.forgotten = seen.forgotten \ gone
         /\ seen'.missing = seen.missing
         /\ seen'.uncounted = seen.uncounted
BY SeenDomain DEF Remove

\* A deletion is one of the three, of turns on record and of threads listed.
LEMMA Deletion ==
  ASSUME TypeOK, NoOrphans, Prune \/ (\E s \in Sessions : EraseSession(s))
                            \/ (\E c \in Threads : EraseThread(c))
  PROVE  \/ Prune /\ UNCHANGED <<published, database, memory, seen>>
         \/ \E ts \in SUBSET rows, gone \in SUBSET listed, ss \in SUBSET Sessions :
              /\ Remove(ts, gone, ss)
              /\ erasing = <<>>
              /\ UNCHANGED <<queue, stopped, inFlight, dropped, session, holds, answer, marker,
                             batches, held, lost, incomplete, written, dead>>
              /\ \/ Prune /\ published' = published \cup gone /\ graves' = graves \cup gone
                    /\ UNCHANGED erasing
                 \/ /\ erasing' = IF gone = {} THEN <<>> ELSE <<gone>>
                    /\ UNCHANGED <<writer, published, graves>>
<1>0. DatabaseTypes
  BY TypeGroups
<1>1. ASSUME Prune, ~UNCHANGED <<published, database, memory, seen>>
      PROVE  \E ts \in SUBSET rows, gone \in SUBSET listed, ss \in SUBSET Sessions :
               /\ Remove(ts, gone, ss)
               /\ published' = published \cup gone /\ graves' = graves \cup gone
  <2>1. PICK gone \in SUBSET listed,
             aged \in SUBSET {s \in Sessions : spine[s] # "none"} :
          LET ts == {t \in rows : ThreadOf[t] \in gone}
              named == {SessionOf[t] : t \in rows \ ts}
          IN Remove(ts, gone, aged \ named)
             /\ published' = published \cup gone /\ graves' = graves \cup gone
    BY <1>1 DEF Prune
  <2> DEFINE ts == {t \in rows : ThreadOf[t] \in gone}
             ss == aged \ {SessionOf[t] : t \in rows \ ts}
  <2>2. Remove(ts, gone, ss) /\ published' = published \cup gone
        /\ graves' = graves \cup gone
    BY <2>1
  <2>3. ts \in SUBSET rows /\ ss \in SUBSET Sessions
    OBVIOUS
  <2> HIDE DEF ts, ss
  <2> QED BY <2>2, <2>3
<1>2. ASSUME NEW s \in Sessions, EraseSession(s)
      PROVE  \E ts \in SUBSET rows, gone \in SUBSET listed, ss \in SUBSET Sessions :
               /\ Remove(ts, gone, ss)
               /\ erasing' = IF gone = {} THEN <<>> ELSE <<gone>>
  <2> DEFINE ts == {t \in rows : SessionOf[t] = s}
             gone == ThreadsOf(ts) \ ThreadsOf(rows \ ts)
  <2>1. ts \in SUBSET rows /\ gone \in SUBSET listed /\ {s} \in SUBSET Sessions
    BY DEF NoOrphans, ThreadsOf
  <2>2. Remove(ts, gone, {s}) /\ erasing' = IF gone = {} THEN <<>> ELSE <<gone>>
    BY <1>2 DEF EraseSession
  <2> HIDE DEF ts, gone
  <2> QED BY <2>1, <2>2
<1>3. ASSUME NEW c \in Threads, EraseThread(c)
      PROVE  \E ts \in SUBSET rows, gone \in SUBSET listed, ss \in SUBSET Sessions :
               /\ Remove(ts, gone, ss)
               /\ erasing' = IF gone = {} THEN <<>> ELSE <<gone>>
  <2> DEFINE ts == {t \in rows : ThreadOf[t] = c}
  <2>1. ts \in SUBSET rows /\ {c} \in SUBSET listed /\ {} \in SUBSET Sessions /\ {c} # {}
    BY <1>3 DEF EraseThread
  <2>2. Remove(ts, {c}, {}) /\ erasing' = <<{c}>>
    BY <1>3 DEF EraseThread
  <2> HIDE DEF ts
  <2> QED BY <2>1, <2>2
<1>4. Prune => /\ erasing = <<>>
               /\ UNCHANGED <<queue, stopped, inFlight, dropped, session, holds, answer, marker,
                              batches, held, lost, incomplete, written, dead, erasing>>
  BY DEF Prune, producers
<1>5. \A s \in Sessions : EraseSession(s) =>
        /\ erasing = <<>>
        /\ UNCHANGED <<queue, stopped, inFlight, dropped, session, holds, answer, marker,
                       batches, held, lost, incomplete, written, dead, writer, published,
                       graves>>
  BY DEF EraseSession, MayErase, producers, thread
<1>6. \A c \in Threads : EraseThread(c) =>
        /\ erasing = <<>>
        /\ UNCHANGED <<queue, stopped, inFlight, dropped, session, holds, answer, marker,
                       batches, held, lost, incomplete, written, dead, writer, published,
                       graves>>
  BY DEF EraseThread, MayErase, producers, thread
<1>7. CASE Prune
  BY <1>1, <1>4, <1>7
<1>8. ASSUME NEW s \in Sessions, EraseSession(s)
      PROVE  \E ts \in SUBSET rows, gone \in SUBSET listed, ss \in SUBSET Sessions :
              /\ Remove(ts, gone, ss)
              /\ erasing = <<>>
              /\ UNCHANGED <<queue, stopped, inFlight, dropped, session, holds, answer, marker,
                             batches, held, lost, incomplete, written, dead>>
              /\ erasing' = IF gone = {} THEN <<>> ELSE <<gone>>
              /\ UNCHANGED <<writer, published, graves>>
  BY <1>2, <1>5, <1>8
<1>9. ASSUME NEW c \in Threads, EraseThread(c)
      PROVE  \E ts \in SUBSET rows, gone \in SUBSET listed, ss \in SUBSET Sessions :
              /\ Remove(ts, gone, ss)
              /\ erasing = <<>>
              /\ UNCHANGED <<queue, stopped, inFlight, dropped, session, holds, answer, marker,
                             batches, held, lost, incomplete, written, dead>>
              /\ erasing' = IF gone = {} THEN <<>> ELSE <<gone>>
              /\ UNCHANGED <<writer, published, graves>>
  BY <1>3, <1>6, <1>9
<1> QED BY <1>7, <1>8, <1>9

-----------------------------------------------------------------------------
(* Deleted conversations.                                                   *)

\* A session is on its own threads or on a thread that began in one that was opened;
\* and what is on record, was deleted or is on its way began in one that was.
HoldersBegan ==
  /\ \A s \in Sessions : \A c \in holds[s] :
       MintedBy[c] = s \/ (session[s] # "away" /\ session[MintedBy[c]] # "away")
  /\ \A c \in listed \cup seen.erased \cup ThreadsOf(Carried) : session[MintedBy[c]] # "away"

Unheld(c) == \A s \in Sessions : c \in holds[s] => session[s] = "closed"
Answering == IF At("answer") /\ marker.landed THEN ThreadsOf(marker.turns) ELSE {}
Announcing == IF erasing = <<>> THEN {} ELSE erasing[1]

\* The threads this process put on record are those its writer knows it wrote, or
\* is about to say so of.
OursWritten == seen.ours \subseteq written \cup Answering

\* Why a deleted thread does not come back: the writer knows it is dead, or wrote
\* it and will learn so; or nothing is on its way to it and nobody speaks on it.
Barred(c) ==
  \/ c \in dead
  \/ c \in written \cup Answering /\ c \in published \cup Announcing
  \/ c \notin ThreadsOf(Carried) /\ Unheld(c)
ErasedBarred == \A c \in seen.erased \ seen.strangers : c \notin listed /\ Barred(c)

\* And why nothing is kept for it.
MemoryBarred ==
  \A c \in seen.erased \ listed :
    c \notin keeping /\ (c \in graves \/ c \in Announcing \/ Unheld(c))

ThreadsInv == HoldersBegan /\ OursWritten /\ ErasedBarred /\ MemoryBarred

LEMMA BeganStep ==
  ASSUME TypeOK, MarkerShape, NoOrphans, HoldersBegan, [Next]_vars
  PROVE  HoldersBegan'
<1>0. /\ holds \in [Sessions -> SUBSET Threads] /\ listed \subseteq Threads
      /\ seen.erased \subseteq Threads /\ Carried \subseteq Turns
  BY TypeGroups, SeenFields, CarriedTyped DEF ProducerTypes, DatabaseTypes
<1>1. \A s \in Sessions : session[s] # "away" => session'[s] # "away"
  BY SessionsGoOn
<1>2. \A s \in Sessions : \A c \in holds'[s] :
        MintedBy[c] = s \/ (session'[s] # "away" /\ session'[MintedBy[c]] # "away")
  <2>1. \A s \in Sessions : \A c \in holds'[s] : c \in Threads
    <3>1. holds' \in [Sessions -> SUBSET Threads]
      BY ProducerStep DEF ProducerTypes
    <3> QED BY <3>1
  <2>2. \A s \in Sessions : \A c \in holds'[s] :
          c \in holds[s] \/ (c \in listed /\ session[s] # "away")
    <3>1. ASSUME NEW r \in Sessions, NEW d \in Threads, Resume(r, d)
          PROVE  \A s \in Sessions : \A c \in holds'[s] :
                   c \in holds[s] \/ (c \in listed /\ session[s] # "away")
      BY <1>0, <3>1 DEF Resume
    <3> QED BY <3>1, HoldsFrame
  <2>3. \A s \in Sessions : \A c \in holds'[s] : MintedBy[c] \in Sessions
    BY <2>1
  <2> QED BY <1>1, <2>2, <2>3 DEF HoldersBegan
<1>3. ASSUME NEW c \in listed' \cup seen'.erased
      PROVE  c \in listed \cup seen.erased \cup ThreadsOf(Carried)
  <2>1. CASE Prune \/ (\E s \in Sessions : EraseSession(s)) \/ (\E d \in Threads : EraseThread(d))
    <3>1. CASE UNCHANGED <<database, seen>>
      BY <3>1 DEF database
    <3>2. ASSUME NEW ts \in SUBSET rows, NEW gone \in SUBSET listed, NEW ss \in SUBSET Sessions,
                 Remove(ts, gone, ss)
          PROVE  c \in listed \cup seen.erased \cup ThreadsOf(Carried)
      <4>1. listed' = listed \ gone
        BY <3>2 DEF Remove
      <4>2. seen'.erased = seen.erased \cup gone
        BY <3>2, RemoveSeen
      <4> QED BY <4>1, <4>2
    <3> QED BY <2>1, <3>1, <3>2, Deletion
  <2>2. CASE seen'.erased = seen.erased /\ UNCHANGED listed
    BY <2>2
  <2>3. CASE DurableLands
    <3>1. listed' = listed \cup ThreadsOf(Alive) /\ seen'.erased = seen.erased
      BY <2>3, SeenDomain DEF DurableLands, Commits
    <3>2. Alive \subseteq Carried
      BY <2>3, StepNeeds, AliveTyped DEF Carried
    <3> QED BY <3>1, <3>2 DEF ThreadsOf
  <2>4. CASE EventsWritten
    BY <2>4 DEF EventsWritten
  <2> QED BY <2>1, <2>2, <2>3, <2>4, DataFrame, SeenFrame
<1>4. ASSUME NEW c \in ThreadsOf(Carried')
      PROVE  session'[MintedBy[c]] # "away"
  <2>1. PICK t \in Carried' : c = ThreadOf[t]
    BY <1>4 DEF ThreadsOf
  <2>2. CASE t \in Carried
    <3>1. c \in ThreadsOf(Carried) /\ MintedBy[c] \in Sessions
      BY <1>0, <2>1, <2>2 DEF ThreadsOf
    <3> QED BY <1>1, <3>1 DEF HoldersBegan
  <2>3. CASE t \in Turns /\ RecordTurn(t)
    <3>1. session[SessionOf[t]] = "recording" /\ c \in holds[SessionOf[t]]
      BY <2>1, <2>3 DEF RecordTurn, Speaks
    <3>2. c \in Threads /\ SessionOf[t] \in Sessions /\ MintedBy[c] \in Sessions
      BY <2>1, <2>3
    <3>3. session[MintedBy[c]] # "away"
      BY <3>1, <3>2 DEF HoldersBegan
    <3> QED BY <1>1, <3>2, <3>3
  <2> QED BY <2>1, <2>2, <2>3, CarriedGrows
<1>5. \A c \in listed' \cup seen'.erased : session'[MintedBy[c]] # "away"
  <2>1. \A c \in listed \cup seen.erased \cup ThreadsOf(Carried) :
          c \in Threads /\ session[MintedBy[c]] # "away"
    BY <1>0, ThreadsTyped DEF HoldersBegan
  <2>2. \A c \in Threads : MintedBy[c] \in Sessions
    OBVIOUS
  <2> QED BY <1>1, <1>3, <2>1, <2>2
<1>6. ThreadsOf(Carried)' = ThreadsOf(Carried')
  BY DEF ThreadsOf
<1> QED BY <1>2, <1>4, <1>5, <1>6 DEF HoldersBegan

\* A thread nobody is on stays so, unless somebody moves onto it on record.
LEMMA UnheldStays ==
  ASSUME TypeOK, [Next]_vars, NEW c \in Threads, c \notin listed, Unheld(c)
  PROVE  Unheld(c)'
<1>0. holds \in [Sessions -> SUBSET Threads]
  BY TypeGroups DEF ProducerTypes
<1>1. \A s \in Sessions : c \in holds'[s] => c \in holds[s]
  <2>1. ASSUME NEW r \in Sessions, NEW d \in Threads, Resume(r, d)
        PROVE  \A s \in Sessions : c \in holds'[s] => c \in holds[s]
    BY <1>0, <2>1 DEF Resume
  <2> QED BY <2>1, HoldsFrame
<1> QED BY <1>1, SessionsGoOn DEF Unheld

\* A deleted thread is held by nobody in a process that was just started.
LEMMA UnheldAnew ==
  ASSUME TypeOK, HoldersBegan, Crash, NEW c \in seen.erased
  PROVE  Unheld(c)'
<1>1. session \in [Sessions -> {"away", "recording", "closed"}] /\ c \in Threads
  BY TypeGroups, SeenFields DEF ProducerTypes
<1>2. session[MintedBy[c]] # "away" /\ MintedBy[c] \in Sessions
  BY <1>1 DEF HoldersBegan
<1>3. \A s \in Sessions : c \in holds[s] => session[s] # "away"
  BY <1>2 DEF HoldersBegan
<1>4. \A s \in Sessions : session[s] # "away" => session'[s] = "closed"
  BY <1>1 DEF Crash
<1> QED BY <1>3, <1>4 DEF Unheld, Crash

LEMMA WrittenFrame ==
  ASSUME [Next]_vars
  PROVE  UNCHANGED written \/ AnswerTurns \/ Crash
BY DEF Next, Sessioning, Writing, Erasing, vars, producers, thread, Keep, RecordEvent,
   OpenSession, CloseSession, Resume,
   RecordTurn, TakeEvent, TakeOpen, TakeTurn, TakeClose, TakeStop, WriterEnds, Stop,
   DurableLands, Tombstoned, DurableFails, EventsWritten, EventsLost,
   CountLate, EndMarker, Prune, Flush, EraseSession, EraseThread, Announce

LEMMA OrderFrame ==
  ASSUME [Next]_vars
  PROVE  \/ UNCHANGED <<published, erasing, dead>>
         \/ Discard /\ erasing = <<>> /\ UNCHANGED erasing /\ Busy /\ marker.step = "durable"
         \/ Prune \/ (\E s \in Sessions : EraseSession(s)) \/ (\E c \in Threads : EraseThread(c))
         \/ Announce \/ Crash
BY DEF Next, Sessioning, Writing, Erasing, vars, producers, thread, Keep, RecordEvent,
   OpenSession, CloseSession, Resume, Attempting, Busy,
   RecordTurn, TakeEvent, TakeOpen, TakeTurn, TakeClose, TakeStop, WriterEnds, Stop,
   DurableLands, Tombstoned, DurableFails, AnswerTurns, EventsWritten, EventsLost,
   CountLate, EndMarker, Flush

\* What the writer wrote, and says it wrote, only grows while the process lives.
LEMMA WrittenGrows ==
  ASSUME TypeOK, MarkerShape, [Next]_vars, ~Crash
  PROVE  /\ written \cup Answering \subseteq written' \cup Answering'
         /\ DurableLands => ThreadsOf(Alive) \subseteq Answering'
<1>1. written \subseteq written'
  <2>1. AnswerTurns => written \subseteq written'
    BY DEF AnswerTurns
  <2> QED BY <2>1, WrittenFrame
<1>2. Answering \subseteq written' \cup Answering'
  <2>1. CASE UNCHANGED marker
    BY <2>1 DEF Answering, At, ThreadsOf
  <2>2. CASE AnswerTurns
    BY <2>2 DEF AnswerTurns, Answering
  <2>3. CASE ~Busy \/ marker.step # "answer"
    BY <2>3 DEF Answering, At, Busy
  <2> QED BY <2>1, <2>2, <2>3, MarkerFrame, StepNeeds, TakeStep, FlushStep
<1>3. ASSUME DurableLands
      PROVE  ThreadsOf(Alive) \subseteq Answering'
  <2>1. Busy' /\ marker'.turns = Alive /\ marker'.step = Decided(Alive) /\ marker'.landed
    BY <1>3, StepNeeds, MarkerStep
  <2>2. CASE Alive = {}
    BY <2>2 DEF ThreadsOf
  <2>3. CASE Alive # {}
    <3>1. At("answer")'
      BY <2>1, <2>3, DecidedTells DEF At, Busy
    <3>2. Answering' = ThreadsOf(marker.turns)'
      BY <2>1, <3>1 DEF Answering
    <3>3. ThreadsOf(marker.turns)' = ThreadsOf(Alive)
      BY <2>1 DEF ThreadsOf
    <3> QED BY <3>2, <3>3
  <2> QED BY <2>2, <2>3
<1> QED BY <1>1, <1>2, <1>3

LEMMA OursStep ==
  ASSUME TypeOK, MarkerShape, NoOrphans, OursWritten, [Next]_vars
  PROVE  OursWritten'
<1>1. CASE Crash
  BY <1>1, SeenDomain DEF OursWritten, Crash
<1>2. CASE ~Crash
  <2>1. CASE seen'.ours = seen.ours
    BY <1>2, <2>1, WrittenGrows DEF OursWritten
  <2>2. CASE DurableLands /\ seen'.ours = seen.ours \cup ThreadsOf(Alive)
    BY <1>2, <2>2, WrittenGrows DEF OursWritten
  <2>3. CASE Prune \/ (\E s \in Sessions : EraseSession(s)) \/ (\E c \in Threads : EraseThread(c))
    <3>1. ASSUME NEW ts, NEW gone, NEW ss, Remove(ts, gone, ss)
          PROVE  seen'.ours \subseteq seen.ours
      BY <3>1, RemoveSeen
    <3>2. seen'.ours \subseteq seen.ours
      BY <2>3, <3>1, Deletion
    <3> QED BY <1>2, <3>2, WrittenGrows DEF OursWritten
  <2> QED BY <1>2, <2>1, <2>2, <2>3, SeenFrame
<1> QED BY <1>1, <1>2

\* What bars a deleted thread goes on barring it.
LEMMA BarredStays ==
  ASSUME TypeOK, MarkerShape, NoOrphans, HoldersBegan, [Next]_vars, ~Crash,
         NEW c \in Threads, c \notin listed, Barred(c)
  PROVE  Barred(c)'
<1>0. DatabaseTypes /\ RestTypes
  BY TypeGroups
<1>1. dead \subseteq dead'
  <2>1. Discard => dead \subseteq dead'
    BY DEF Discard
  <2>2. Announce => dead' = dead
    BY DEF Announce, thread
  <2>3. Prune \/ (\E s \in Sessions : EraseSession(s)) \/ (\E d \in Threads : EraseThread(d))
          => dead' = dead
    BY DEF Prune, EraseSession, EraseThread, thread
  <2> QED BY <2>1, <2>2, <2>3, OrderFrame
<1>2. CASE c \in dead
  BY <1>1, <1>2 DEF Barred
<1>3. CASE c \in written \cup Answering /\ c \in published \cup Announcing
  <2>1. c \in written' \cup Answering'
    BY <1>3, WrittenGrows
  <2>2. CASE c \in published' \cup Announcing'
    BY <2>1, <2>2 DEF Barred
  <2>3. CASE Discard /\ erasing = <<>> /\ Busy /\ marker.step = "durable"
    <3>1. c \in written /\ c \in published
      BY <1>3, <2>3 DEF Announcing, Answering, At
    <3>2. c \in dead'
      BY <2>3, <3>1 DEF Discard, Fresh
    <3> QED BY <3>2 DEF Barred
  <2>4. CASE UNCHANGED <<published, erasing, dead>>
    BY <1>3, <2>2, <2>4 DEF Announcing
  <2>5. CASE Announce
    BY <1>3, <2>2, <2>5 DEF Announce, Announcing
  <2>6. CASE Prune \/ (\E s \in Sessions : EraseSession(s)) \/ (\E d \in Threads : EraseThread(d))
    <3>1. erasing = <<>>
      BY <2>6 DEF Prune, EraseSession, EraseThread, MayErase
    <3>2. published \subseteq published'
      BY <2>6 DEF Prune, EraseSession, EraseThread
    <3> QED BY <1>3, <2>2, <3>1, <3>2 DEF Announcing
  <2> QED BY <2>2, <2>3, <2>4, <2>5, <2>6, OrderFrame
<1>4. CASE c \notin ThreadsOf(Carried) /\ Unheld(c)
  <2>1. Unheld(c)'
    BY <1>4, UnheldStays
  <2>2. ASSUME NEW t \in Carried', ThreadOf[t] = c
        PROVE  FALSE
    <3>1. CASE t \in Carried
      BY <1>4, <2>2, <3>1 DEF ThreadsOf
    <3>2. CASE t \in Turns /\ RecordTurn(t)
      <4>1. session[SessionOf[t]] = "recording" /\ c \in holds[SessionOf[t]]
            /\ SessionOf[t] \in Sessions
        BY <2>2, <3>2 DEF RecordTurn, Speaks
      <4> QED BY <1>4, <4>1 DEF Unheld
    <3> QED BY <2>2, <3>1, <3>2, CarriedGrows
  <2>3. c \notin ThreadsOf(Carried')
    BY <2>2 DEF ThreadsOf
  <2>4. ThreadsOf(Carried)' = ThreadsOf(Carried')
    BY DEF ThreadsOf
  <2> QED BY <2>1, <2>3, <2>4 DEF Barred
<1> QED BY <1>2, <1>3, <1>4 DEF Barred

\* What is barred is not put on record.
LEMMA BarredOut ==
  ASSUME TypeOK, MarkerShape, [Next]_vars, NEW c \in Threads, c \notin listed, Barred(c)
  PROVE  c \notin listed'
<1>1. CASE UNCHANGED listed \/ EventsWritten
  BY <1>1 DEF EventsWritten
<1>2. CASE DurableLands
  <2>1. Busy /\ marker.step = "durable" /\ erasing = <<>>
    BY <1>2, StepNeeds
  <2>2. c \notin ThreadsOf(Alive)
    <3>1. ASSUME NEW t \in Alive, ThreadOf[t] = c
          PROVE  FALSE
      <4>1. c \notin dead \cup Fresh /\ t \in Carried
        BY <2>1, <3>1 DEF Alive, Carried
      <4>2. c \in ThreadsOf(Carried)
        BY <3>1, <4>1 DEF ThreadsOf
      <4>3. c \in written /\ c \in published
        BY <2>1, <4>1, <4>2 DEF Barred, Answering, Announcing, At
      <4> QED BY <4>1, <4>3 DEF Fresh
    <3> QED BY <3>1 DEF ThreadsOf
  <2> QED BY <1>2, <2>2 DEF DurableLands, Commits
<1>3. CASE Prune \/ (\E s \in Sessions : EraseSession(s)) \/ (\E d \in Threads : EraseThread(d))
  <2>1. listed' \subseteq listed
    BY <1>3 DEF Prune, EraseSession, EraseThread, Remove, database
  <2> QED BY <2>1
<1> QED BY <1>1, <1>2, <1>3, DataFrame

LEMMA ErasedStep ==
  ASSUME TypeOK, MarkerShape, NoOrphans, HoldersBegan, OursWritten, ErasedBarred, [Next]_vars
  PROVE  ErasedBarred'
<1>0. seen.erased \subseteq Threads /\ listed \subseteq Threads
  BY TypeGroups, SeenFields DEF DatabaseTypes
<1>1. \A c \in seen.erased \ seen.strangers : c \in Threads /\ c \notin listed /\ c \notin listed'
  BY <1>0, BarredOut DEF ErasedBarred
<1>2. CASE Crash
  <2>1. seen'.erased = seen.erased /\ seen'.strangers = seen.strangers
    BY <1>2, SeenDomain DEF Crash
  <2>2. \A c \in seen.erased : Unheld(c)'
    BY <1>2, UnheldAnew
  <2>3. Carried' = {} /\ ThreadsOf(Carried)' = {}
    BY <1>2, EmptyViews DEF Crash, Carried, Busy, ThreadsOf
  <2> QED BY <1>1, <2>1, <2>2, <2>3 DEF ErasedBarred, Barred
<1>3. CASE ~Crash
  <2>1. \A c \in seen.erased \ seen.strangers : Barred(c)'
    BY <1>0, <1>3, BarredStays DEF ErasedBarred
  <2>2. CASE seen'.erased = seen.erased /\ seen'.strangers = seen.strangers
    BY <1>1, <2>1, <2>2 DEF ErasedBarred
  <2>3. CASE Prune \/ (\E s \in Sessions : EraseSession(s)) \/ (\E d \in Threads : EraseThread(d))
    <3>1. CASE UNCHANGED seen
      BY <2>2, <3>1
    <3>2. ASSUME NEW ts \in SUBSET rows, NEW gone \in SUBSET listed, NEW ss \in SUBSET Sessions,
                 Remove(ts, gone, ss), UNCHANGED <<written, marker>>,
                 gone \subseteq published' \cup Announcing'
          PROVE  ErasedBarred'
      <4>1. /\ seen'.erased = seen.erased \cup gone
            /\ seen'.strangers = seen.strangers \cup (gone \ seen.ours)
        BY <3>2, RemoveSeen
      <4>2. listed' = listed \ gone
        BY <3>2 DEF Remove
      <4>3. ASSUME NEW c \in gone, c \in seen.ours
            PROVE  Barred(c)'
        <5>1. c \in written \cup Answering
          BY <4>3 DEF OursWritten
        <5>2. c \in written' \cup Answering'
          BY <1>3, <5>1, WrittenGrows
        <5> QED BY <3>2, <5>2 DEF Barred
      <4>4. \A c \in seen'.erased \ seen'.strangers : c \notin listed' /\ Barred(c)'
        BY <1>1, <2>1, <4>1, <4>2, <4>3
      <4> QED BY <4>4 DEF ErasedBarred
    <3>3. ASSUME NEW gone, erasing = <<>>,
                 \/ published' = published \cup gone
                 \/ erasing' = IF gone = {} THEN <<>> ELSE <<gone>>
          PROVE  gone \subseteq published' \cup Announcing'
      BY <3>3 DEF Announcing
    <3> QED BY <2>3, <3>1, <3>2, <3>3, Deletion
  <2> QED BY <1>3, <2>2, <2>3, SeenFrame
<1> QED BY <1>2, <1>3

LEMMA MemoryFrame ==
  ASSUME [Next]_vars
  PROVE  \/ UNCHANGED <<keeping, graves, erasing>>
         \/ \E s \in Sessions, c \in Threads : Keep(s, c)
         \/ Prune \/ (\E s \in Sessions : EraseSession(s)) \/ (\E c \in Threads : EraseThread(c))
         \/ Announce \/ Crash
BY DEF Next, Sessioning, Writing, Erasing, vars, producers, thread, memory, RecordEvent,
   OpenSession, CloseSession, Resume,
   RecordTurn, TakeEvent, TakeOpen, TakeTurn, TakeClose, TakeStop, WriterEnds, Stop,
   DurableLands, Tombstoned, DurableFails, AnswerTurns, EventsWritten, EventsLost,
   CountLate, EndMarker, Flush

LEMMA MemoryStep ==
  ASSUME TypeOK, NoOrphans, HoldersBegan, MemoryBarred, [Next]_vars
  PROVE  MemoryBarred'
<1>0. seen.erased \subseteq Threads /\ listed \subseteq Threads
  BY TypeGroups, SeenFields DEF DatabaseTypes
<1>1. CASE Prune \/ (\E s \in Sessions : EraseSession(s)) \/ (\E d \in Threads : EraseThread(d))
  <2>1. CASE Prune /\ UNCHANGED <<published, database, memory, seen>>
    <3>1. UNCHANGED <<session, holds, erasing, listed, keeping, graves, seen>>
      BY <2>1 DEF Prune, producers, database, memory
    <3> QED BY <3>1 DEF MemoryBarred, Unheld, Announcing
  <2>2. ASSUME NEW ts \in SUBSET rows, NEW gone \in SUBSET listed, NEW ss \in SUBSET Sessions,
               Remove(ts, gone, ss), UNCHANGED <<session, holds>>, erasing = <<>>,
               gone \subseteq graves' \cup Announcing', graves \subseteq graves'
        PROVE  MemoryBarred'
    <3>1. seen'.erased = seen.erased \cup gone
      BY <2>2, RemoveSeen
    <3>2. listed' = listed \ gone /\ keeping' = keeping \ gone
      BY <2>2 DEF Remove
    <3>3. \A c : Unheld(c)' <=> Unheld(c)
      BY <2>2 DEF Unheld
    <3>4. Announcing = {}
      BY <2>2 DEF Announcing
    <3> QED BY <2>2, <3>1, <3>2, <3>3, <3>4 DEF MemoryBarred
  <2>3. ASSUME NEW gone, \/ graves' = graves \cup gone
                         \/ erasing' = (IF gone = {} THEN <<>> ELSE <<gone>>) /\ UNCHANGED graves
        PROVE  gone \subseteq graves' \cup Announcing' /\ graves \subseteq graves'
    BY <2>3 DEF Announcing
  <2> QED BY <1>1, <2>1, <2>2, <2>3, Deletion
<1>2. CASE ~(Prune \/ (\E s \in Sessions : EraseSession(s)) \/ (\E d \in Threads : EraseThread(d)))
  <2>1. seen'.erased = seen.erased
    BY <1>2, SeenFrame
  <2>2. listed \subseteq listed'
    <3>1. DurableLands \/ EventsWritten => listed \subseteq listed'
      BY DEF DurableLands, Commits, EventsWritten
    <3> QED BY <1>2, <3>1, DataFrame
  <2>3. \A c \in seen.erased \ listed : Unheld(c) => Unheld(c)'
    BY <1>0, UnheldStays
  <2>4. CASE UNCHANGED <<keeping, graves, erasing>>
    BY <2>1, <2>2, <2>3, <2>4 DEF MemoryBarred, Announcing
  <2>5. ASSUME NEW s \in Sessions, NEW d \in Threads, Keep(s, d)
        PROVE  MemoryBarred'
    <3>1. /\ session[s] = "recording" /\ d \in holds[s] /\ erasing = <<>> /\ d \notin graves
          /\ keeping' = keeping \cup {d} /\ UNCHANGED <<graves, erasing>>
      BY <2>5 DEF Keep
    <3>2. ~Unheld(d) /\ d \notin Announcing
      BY <3>1 DEF Unheld, Announcing
    <3> QED BY <2>1, <2>2, <2>3, <3>1, <3>2 DEF MemoryBarred, Announcing
  <2>6. CASE Announce
    BY <2>1, <2>2, <2>3, <2>6 DEF MemoryBarred, Announce, Announcing
  <2>7. CASE Crash
    <3>1. \A c \in seen.erased : Unheld(c)'
      BY <2>7, UnheldAnew
    <3> QED BY <2>1, <2>2, <2>7, <3>1 DEF MemoryBarred, Crash
  <2> QED BY <1>2, <2>4, <2>5, <2>6, <2>7, MemoryFrame
<1> QED BY <1>1, <1>2

LEMMA ThreadsInvStep ==
  ASSUME TypeOK, MarkerShape, NoOrphans, ThreadsInv, [Next]_vars
  PROVE  ThreadsInv'
BY BeganStep, OursStep, ErasedStep, MemoryStep DEF ThreadsInv

-----------------------------------------------------------------------------
(* The writer and its sentinel.                                             *)

\* The sentinel is the last record there is, and behind it the writer has nothing.
StopLast == \A i \in DOMAIN queue : queue[i].kind = "stop" => i = Len(queue) /\ stopped
WriterStops ==
  /\ writer \in {"flushing", "ended"} => stopped /\ queue = <<>>
  /\ writer = "flushing" /\ Busy => marker.kind = "flush"
  /\ writer = "ended" => ~Busy

LEMMA StoppedFrame ==
  ASSUME [Next]_vars
  PROVE  UNCHANGED stopped \/ (Stop /\ stopped') \/ Crash
BY DEF Next, Sessioning, Writing, Erasing, vars, producers, thread, Keep, RecordEvent,
   OpenSession, CloseSession, Resume, Stop,
   RecordTurn, TakeEvent, TakeOpen, TakeTurn, TakeClose, TakeStop, WriterEnds,
   DurableLands, Tombstoned, DurableFails, AnswerTurns, EventsWritten, EventsLost,
   CountLate, EndMarker, Prune, Flush, EraseSession, EraseThread, Announce

\* A record is handed over while the store has not stopped, and about a session that
\* is not closed.
LEMMA HandedOver ==
  ASSUME TypeOK, [Next]_vars, queue' # queue
  PROVE  \/ ~stopped /\ \E r \in Records :
              /\ Queue(r)
              /\ \A s \in Sessions : Concerns(r, s) => session[s] # "closed"
              /\ r.kind = "stop" => stopped'
              /\ r.kind = "close" => session'[r.of] = "closed"
              /\ r.kind # "close" => UNCHANGED session \/ r.kind = "open"
              /\ r.kind = "turn" => r.of \in Turns /\ RecordTurn(r.of)
         \/ ~Busy /\ Item \in Records /\ queue # <<>> /\ queue' = Tail(queue)
            /\ (TakeEvent \/ TakeOpen \/ TakeTurn \/ TakeClose \/ TakeStop)
         \/ (WriterEnds \/ Crash) /\ queue' = <<>>
<1>0. session \in [Sessions -> {"away", "recording", "closed"}]
  BY TypeGroups DEF ProducerTypes
<1>1. ASSUME NEW s \in Sessions, OpenSession(s), ~stopped, Queue([kind |-> "open", of |-> s])
      PROVE  \E r \in Records :
              /\ Queue(r)
              /\ \A q \in Sessions : Concerns(r, q) => session[q] # "closed"
              /\ r.kind = "stop" => stopped'
              /\ r.kind = "close" => session'[r.of] = "closed"
              /\ r.kind # "close" => UNCHANGED session \/ r.kind = "open"
              /\ r.kind = "turn" => r.of \in Turns /\ RecordTurn(r.of)
  <2> DEFINE r == [kind |-> "open", of |-> s]
  <2>1. r \in Records /\ r.kind = "open" /\ r.of = s
    BY RecordsTyped
  <2>2. \A q \in Sessions : Concerns(r, q) => session[q] # "closed"
    BY <1>1, <2>1 DEF Concerns, OpenSession
  <2> HIDE DEF r
  <2> QED BY <1>1, <2>1, <2>2 DEF r
<1>2. ASSUME NEW s \in Sessions, RecordEvent(s), ~stopped, Queue([kind |-> "event", of |-> s])
      PROVE  \E r \in Records :
              /\ Queue(r)
              /\ \A q \in Sessions : Concerns(r, q) => session[q] # "closed"
              /\ r.kind = "stop" => stopped'
              /\ r.kind = "close" => session'[r.of] = "closed"
              /\ r.kind # "close" => UNCHANGED session \/ r.kind = "open"
              /\ r.kind = "turn" => r.of \in Turns /\ RecordTurn(r.of)
  <2> DEFINE r == [kind |-> "event", of |-> s]
  <2>1. r \in Records /\ r.kind = "event" /\ r.of = s
    BY RecordsTyped
  <2>2. \A q \in Sessions : Concerns(r, q) => session[q] # "closed"
    BY <1>2, <2>1 DEF Concerns, RecordEvent
  <2>3. UNCHANGED session
    BY <1>2 DEF RecordEvent
  <2> HIDE DEF r
  <2> QED BY <1>2, <2>1, <2>2, <2>3 DEF r
<1>3. ASSUME NEW s \in Sessions, CloseSession(s), ~stopped, Queue([kind |-> "close", of |-> s])
      PROVE  \E r \in Records :
              /\ Queue(r)
              /\ \A q \in Sessions : Concerns(r, q) => session[q] # "closed"
              /\ r.kind = "stop" => stopped'
              /\ r.kind = "close" => session'[r.of] = "closed"
              /\ r.kind # "close" => UNCHANGED session \/ r.kind = "open"
              /\ r.kind = "turn" => r.of \in Turns /\ RecordTurn(r.of)
  <2> DEFINE r == [kind |-> "close", of |-> s]
  <2>1. r \in Records /\ r.kind = "close" /\ r.of = s
    BY RecordsTyped
  <2>2. \A q \in Sessions : Concerns(r, q) => session[q] # "closed"
    BY <1>3, <2>1 DEF Concerns, CloseSession
  <2>3. session'[s] = "closed"
    BY <1>0, <1>3 DEF CloseSession
  <2> HIDE DEF r
  <2> QED BY <1>3, <2>1, <2>2, <2>3 DEF r
<1>4. ASSUME NEW t \in Turns, RecordTurn(t), ~stopped, Queue([kind |-> "turn", of |-> t])
      PROVE  \E r \in Records :
              /\ Queue(r)
              /\ \A q \in Sessions : Concerns(r, q) => session[q] # "closed"
              /\ r.kind = "stop" => stopped'
              /\ r.kind = "close" => session'[r.of] = "closed"
              /\ r.kind # "close" => UNCHANGED session \/ r.kind = "open"
              /\ r.kind = "turn" => r.of \in Turns /\ RecordTurn(r.of)
  <2> DEFINE r == [kind |-> "turn", of |-> t]
  <2>1. r \in Records /\ r.kind = "turn" /\ r.of = t
    BY RecordsTyped
  <2>2. \A q \in Sessions : Concerns(r, q) => session[q] # "closed"
    BY <1>4, <2>1 DEF Concerns, RecordTurn, Speaks
  <2>3. UNCHANGED session
    BY <1>4 DEF RecordTurn
  <2> HIDE DEF r
  <2> QED BY <1>4, <2>1, <2>2, <2>3 DEF r
<1>5. ASSUME Stop, Queue([kind |-> "stop"])
      PROVE  \E r \in Records :
              /\ Queue(r)
              /\ \A q \in Sessions : Concerns(r, q) => session[q] # "closed"
              /\ r.kind = "stop" => stopped'
              /\ r.kind = "close" => session'[r.of] = "closed"
              /\ r.kind # "close" => UNCHANGED session \/ r.kind = "open"
              /\ r.kind = "turn" => r.of \in Turns /\ RecordTurn(r.of)
  <2> DEFINE r == [kind |-> "stop"]
  <2>1. r \in Records /\ r.kind = "stop"
    BY RecordsTyped
  <2>2. \A q \in Sessions : ~Concerns(r, q)
    BY <2>1 DEF Concerns
  <2>3. UNCHANGED session /\ stopped'
    BY <1>5 DEF Stop
  <2> HIDE DEF r
  <2> QED BY <1>5, <2>1, <2>2, <2>3 DEF r
<1> QED BY <1>1, <1>2, <1>3, <1>4, <1>5, QueueStep

LEMMA StopLastStep ==
  ASSUME TypeOK, StopLast, [Next]_vars
  PROVE  StopLast'
<1>0. ProducerTypes
  BY TypeGroups
<1>1. CASE queue' = queue
  <2>1. CASE Crash
    BY <2>1 DEF Crash, StopLast
  <2>2. CASE ~Crash
    <3>1. stopped => stopped'
      BY <2>2, StoppedFrame
    <3> QED BY <1>1, <3>1 DEF StopLast
  <2> QED BY <2>1, <2>2
<1>2. ASSUME NEW r \in Records, Queue(r), ~stopped, r.kind = "stop" => stopped'
      PROVE  StopLast'
  <2>1. \A i \in DOMAIN queue : queue[i].kind # "stop"
    BY <1>2 DEF StopLast
  <2> QED BY <1>0, <1>2, <2>1, AppendAt DEF StopLast
<1>3. CASE queue # <<>> /\ queue' = Tail(queue)
           /\ (TakeEvent \/ TakeOpen \/ TakeTurn \/ TakeClose \/ TakeStop)
  <2>1. stopped' = stopped
    BY <1>3 DEF TakeEvent, TakeOpen, TakeTurn, TakeClose, TakeStop
  <2> QED BY <1>0, <1>3, <2>1, TailAt DEF StopLast
<1>4. CASE queue' = <<>>
  BY <1>4 DEF StopLast
<1> QED BY <1>1, <1>2, <1>3, <1>4, HandedOver

LEMMA WriterFrame ==
  ASSUME [Next]_vars
  PROVE  \/ UNCHANGED writer
         \/ writer' \in {"running", "pruning"}
         \/ TakeStop \/ WriterEnds
BY DEF Next, Sessioning, Writing, Erasing, vars, producers, thread, Keep, RecordEvent,
   OpenSession, CloseSession, Resume, Stop,
   RecordTurn, TakeEvent, TakeOpen, TakeTurn, TakeClose,
   DurableLands, Tombstoned, DurableFails, AnswerTurns, EventsWritten, EventsLost,
   CountLate, EndMarker, Prune, Flush, EraseSession, EraseThread, Announce, Crash

LEMMA StopsStep ==
  ASSUME TypeOK, StopLast, WriterStops, [Next]_vars
  PROVE  WriterStops'
<1>0. ProducerTypes
  BY TypeGroups
<1>1. CASE writer' \in {"running", "pruning"}
  BY <1>1 DEF WriterStops
<1>2. CASE TakeStop
  <2>1. queue # <<>> /\ Item.kind = "stop" /\ queue' = Tail(queue) /\ ~Busy
        /\ UNCHANGED <<stopped, marker>>
    BY <1>2 DEF TakeStop, Ready, Busy
  <2>2. stopped /\ Len(queue') = 0 /\ queue' \in Seq(Records)
    <3>1. queue' \in Seq(Records)
      BY ProducerStep DEF ProducerTypes
    <3> QED BY <1>0, <2>1, <3>1, TailAt DEF StopLast
  <2>3. queue' = <<>>
    BY <2>2, EmptySeq
  <2> QED BY <2>1, <2>2, <2>3, <1>2 DEF WriterStops, Busy, TakeStop
<1>3. CASE WriterEnds
  BY <1>3 DEF WriterEnds, WriterStops, Busy
<1>4. CASE UNCHANGED writer /\ writer \in {"flushing", "ended"}
  <2>1. ~Crash /\ ~Prune
    BY <1>4 DEF Crash, Prune
  <2>2. ~TakeEvent /\ ~TakeOpen /\ ~TakeTurn /\ ~TakeClose /\ ~TakeStop
    BY <1>4 DEF TakeEvent, TakeOpen, TakeTurn, TakeClose, TakeStop, Ready
  <2>3. stopped /\ queue = <<>>
    BY <1>4 DEF WriterStops
  <2>4. stopped'
    BY <2>1, <2>3, StoppedFrame
  <2>5. queue' = <<>>
    BY <2>1, <2>2, <2>3, HandedOver
  <2>6. CASE UNCHANGED marker
    BY <1>4, <2>4, <2>5, <2>6 DEF WriterStops, Busy
  <2>7. CASE Tombstoned \/ EndMarker
    BY <1>4, <2>4, <2>5, <2>7, NoMarker DEF WriterStops
  <2>8. ASSUME NEW s \in Sessions, Flush(s)
        PROVE  WriterStops'
    <3>1. writer = "flushing"
      BY <2>8 DEF Flush
    <3> QED BY <1>4, <2>4, <2>5, <2>8, <3>1, FlushStep DEF WriterStops
  <2>9. CASE Busy /\ Busy' /\ marker'.kind = marker.kind
    BY <1>4, <2>4, <2>5, <2>9 DEF WriterStops
  <2> QED BY <2>1, <2>2, <2>6, <2>7, <2>8, <2>9, MarkerFrame, StepNeeds, MarkerStep
<1> QED BY <1>1, <1>2, <1>3, <1>4, WriterFrame, TypeGroups DEF ThreadTypes

-----------------------------------------------------------------------------
(* Closes.                                                                  *)

\* A close is the last record about its session, and nothing is behind it.
ClosedLast ==
  /\ \A i \in DOMAIN queue : CloseAt(i) =>
       /\ session[queue[i].of] = "closed"
       /\ \A j \in DOMAIN queue : j > i => ~About(j, queue[i].of)
  /\ \A s \in Sessions : Closing(s) => session[s] = "closed" /\ Quiet(s)

\* A handle of a close that is not answered has its record, or its marker.
ClosesWait == \A s \in Sessions : answer[s] = "waiting" => Closing(s) \/ s \in Closes

Settled(s) == answer[s] = "landed" \/ (answer[s] = "refused" /\ ~stopped)
SettledQuiet == \A s \in Sessions :
  /\ answer[s] # "none" => session[s] = "closed"
  /\ Settled(s) => s \notin batches /\ (Busy => marker.of # s) /\ Quiet(s)
HeldBatches == \A s \in Sessions : held[s] > 0 => s \in batches

\* A closed session hands over nothing more.
LEMMA QuietStays ==
  ASSUME TypeOK, [Next]_vars, NEW s \in Sessions, session[s] = "closed", Quiet(s)
  PROVE  Quiet(s)'
<1>0. ProducerTypes
  BY TypeGroups
<1>1. ASSUME NEW r \in Records, Queue(r),
             \A q \in Sessions : Concerns(r, q) => session[q] # "closed"
      PROVE  Quiet(s)'
  BY <1>0, <1>1, AppendViews
<1> QED BY <1>0, <1>1, HandedOver, SameViews, TailViews, EmptyViews

\* The close in hand stays in hand, or is answered.
LEMMA ClosingStays ==
  ASSUME TypeOK, [Next]_vars, NEW s \in Sessions, Closing(s)
  PROVE  Closing(s)' \/ Tombstoned \/ EndMarker \/ Crash
<1>1. CASE UNCHANGED marker
  BY <1>1 DEF Closing, Busy
<1>2. Busy
  BY DEF Closing
<1> QED BY <1>1, <1>2, MarkerFrame, StepNeeds, MarkerStep, TakeStep, FlushStep DEF Closing

LEMMA ClosingBegins ==
  ASSUME TypeOK, [Next]_vars, NEW s \in Sessions, Closing(s)'
  PROVE  Closing(s) \/ (TakeClose /\ Item.of = s /\ s \in batches)
<1>1. CASE UNCHANGED marker
  BY <1>1 DEF Closing, Busy
<1>2. CASE ~UNCHANGED marker
  <2>1. \A r \in Sessions : ~Flush(r)
    BY FlushStep DEF Closing
  <2>2. ~TakeOpen /\ ~TakeTurn
    BY TakeStep DEF Closing
  <2>3. ~Tombstoned /\ ~EndMarker /\ ~Crash
    BY NoMarker DEF Closing
  <2>4. TakeClose => Item.of = s /\ s \in batches
    BY TakeStep DEF Closing
  <2> QED BY <1>2, <2>1, <2>2, <2>3, <2>4, MarkerFrame, StepNeeds, MarkerStep DEF Closing
<1> QED BY <1>1, <1>2

LEMMA ClosedLastStep ==
  ASSUME TypeOK, ClosedLast, [Next]_vars
  PROVE  ClosedLast'
<1>0. ProducerTypes
  BY TypeGroups
<1>1. \A s \in Sessions : session[s] = "closed" => session'[s] = "closed"
  BY SessionsGoOn
<1>2. \A i \in DOMAIN queue : queue[i] \in Records /\ (CloseAt(i) => queue[i].of \in Sessions)
  <2>1. \A i \in DOMAIN queue : queue[i] \in Records
    BY <1>0 DEF ProducerTypes
  <2> QED BY <2>1, RecordKinds DEF CloseAt
<1>3. \A i \in DOMAIN queue' : CloseAt(i)' =>
        /\ session'[queue'[i].of] = "closed"
        /\ \A j \in DOMAIN queue' : j > i => ~About(j, queue[i].of)'
  <2>1. CASE queue' = queue
    BY <1>1, <1>2, <2>1 DEF ClosedLast, CloseAt, About, TurnAt
  <2>2. ASSUME NEW r \in Records, Queue(r),
               \A q \in Sessions : Concerns(r, q) => session[q] # "closed",
               r.kind = "close" => session'[r.of] = "closed"
        PROVE  \A i \in DOMAIN queue' : CloseAt(i)' =>
                 /\ session'[queue'[i].of] = "closed"
                 /\ \A j \in DOMAIN queue' : j > i => ~About(j, queue[i].of)'
    <3> DEFINE n == Len(queue) + 1
    <3>1. /\ Len(queue) \in Nat /\ DOMAIN queue = 1 .. Len(queue) /\ DOMAIN queue' = 1 .. n
          /\ \A i \in DOMAIN queue : queue'[i] = queue[i]
          /\ queue'[n] = r
      BY <1>0, <2>2, AppendAt
    <3>2. ASSUME NEW i \in DOMAIN queue', CloseAt(i)', i = n
          PROVE  /\ session'[queue'[i].of] = "closed"
                 /\ \A j \in DOMAIN queue' : j > i => ~About(j, queue[i].of)'
      BY <2>2, <3>1, <3>2 DEF CloseAt
    <3>3. ASSUME NEW i \in DOMAIN queue', CloseAt(i)', i # n
          PROVE  /\ session'[queue'[i].of] = "closed"
                 /\ \A j \in DOMAIN queue' : j > i => ~About(j, queue[i].of)'
      <4>1. i \in DOMAIN queue /\ CloseAt(i) /\ queue'[i] = queue[i]
        BY <3>1, <3>3 DEF CloseAt
      <4>2. queue[i].of \in Sessions /\ session[queue[i].of] = "closed"
            /\ \A j \in DOMAIN queue : j > i => ~About(j, queue[i].of)
        BY <1>2, <4>1 DEF ClosedLast
      <4>3. ~Concerns(r, queue[i].of)
        BY <2>2, <4>2
      <4>4. \A j \in DOMAIN queue' : j = n \/ j \in DOMAIN queue
        BY <3>1
      <4>5. \A j \in DOMAIN queue' : j > i => ~About(j, queue[i].of)'
        BY <3>1, <4>1, <4>2, <4>3, <4>4 DEF About, TurnAt, Concerns
      <4> QED BY <1>1, <4>1, <4>2, <4>5
    <3> QED BY <3>2, <3>3
  <2>3. CASE queue # <<>> /\ queue' = Tail(queue)
    <3>1. /\ DOMAIN queue' \subseteq Int
          /\ \A i \in DOMAIN queue' : i + 1 \in DOMAIN queue /\ queue'[i] = queue[i + 1]
      BY <1>0, <2>3, TailAt
    <3>2. \A i \in DOMAIN queue' : CloseAt(i)' => /\ session[queue'[i].of] = "closed"
                                                  /\ queue'[i].of \in Sessions
      BY <1>2, <3>1 DEF ClosedLast, CloseAt
    <3>3. ASSUME NEW i \in DOMAIN queue', CloseAt(i)', NEW j \in DOMAIN queue', j > i
          PROVE  ~About(j, queue[i].of)'
      <4>1. i + 1 \in DOMAIN queue /\ j + 1 \in DOMAIN queue /\ j + 1 > i + 1
            /\ queue'[i] = queue[i + 1] /\ queue'[j] = queue[j + 1] /\ CloseAt(i + 1)
        BY <3>1, <3>3 DEF CloseAt
      <4>2. ~About(j + 1, queue[i + 1].of)
        BY <4>1 DEF ClosedLast
      <4> QED BY <4>1, <4>2 DEF About, TurnAt
    <3> QED BY <1>1, <3>2, <3>3
  <2>4. CASE queue' = <<>>
    BY <2>4
  <2> QED BY <2>1, <2>2, <2>3, <2>4, HandedOver
<1>4. ASSUME NEW s \in Sessions, Closing(s)'
      PROVE  session'[s] = "closed" /\ Quiet(s)'
  <2>1. CASE Closing(s)
    BY <1>1, <2>1, QuietStays DEF ClosedLast
  <2>2. CASE TakeClose /\ Item.of = s
    <3>1. queue # <<>> /\ queue' = Tail(queue) /\ Item.kind = "close"
      BY <2>2, TakeStep DEF TakeClose
    <3>2. 1 \in DOMAIN queue /\ Item = queue[1]
      BY <1>0, <3>1, TailAt
    <3>3. session[s] = "closed" /\ \A j \in DOMAIN queue : j > 1 => ~About(j, s)
      BY <2>2, <3>1, <3>2 DEF ClosedLast, CloseAt
    <3>4. \A i \in DOMAIN queue' : /\ i + 1 \in DOMAIN queue /\ i + 1 > 1
                                   /\ queue'[i] = queue[i + 1]
      BY <1>0, <3>1, TailAt
    <3>5. Quiet(s)'
      BY <3>3, <3>4 DEF Quiet, About, TurnAt
    <3> QED BY <1>1, <3>3, <3>5
  <2> QED BY <1>4, <2>1, <2>2, ClosingBegins
<1> QED BY <1>3, <1>4 DEF ClosedLast

-----------------------------------------------------------------------------
(* What a close's handle says.                                              *)

LEMMA AnswerFrame ==
  ASSUME [Next]_vars
  PROVE  \/ UNCHANGED answer
         \/ \E s \in Sessions : CloseSession(s)
         \/ \E t \in Turns : RecordTurn(t)
         \/ TakeTurn \/ TakeClose \/ DurableLands \/ Tombstoned
         \/ \E read, busy \in BOOLEAN : DurableFails(read, busy)
         \/ AnswerTurns \/ EndMarker \/ WriterEnds \/ Crash
BY DEF Next, Sessioning, Writing, Erasing, vars, producers, thread, Keep, RecordEvent,
   OpenSession, Resume, Stop, TakeEvent, TakeOpen, TakeStop, EventsWritten, EventsLost,
   CountLate, Prune, Flush, EraseSession, EraseThread, Announce

\* Who answers a close.
LEMMA CloseAnswered ==
  ASSUME TypeOK, WriterStops, [Next]_vars, NEW s \in Sessions, answer'[s] # answer[s]
  PROVE  \/ CloseSession(s) /\ answer'[s] = (IF stopped THEN "refused" ELSE "waiting")
         \/ TakeClose /\ Item.of = s /\ s \notin batches /\ answer'[s] = "refused"
         \/ Tombstoned /\ Closing(s) /\ answer'[s] = "refused"
         \/ EndMarker /\ Closing(s) /\ answer'[s] = (IF marker.landed THEN "landed" ELSE "refused")
         \/ Crash /\ answer[s] = "waiting" /\ answer'[s] = "gone"
<1>0. s \in Handles /\ s \notin Turns /\ marker \in Marker \cup {<<>>}
  BY TypeGroups DEF Handles, ThreadTypes
<1>1. \A ts \in SUBSET Turns : s \notin ts
  BY <1>0
<1>2. ASSUME NEW r \in Sessions, CloseSession(r)
      PROVE  CloseSession(s) /\ answer'[s] = (IF stopped THEN "refused" ELSE "waiting")
  BY <1>0, <1>2 DEF CloseSession, Answered
<1>3. ASSUME NEW t \in Turns, RecordTurn(t)
      PROVE  FALSE
  BY <1>0, <1>3 DEF RecordTurn, Answered
<1>4. CASE TakeTurn
  <2>1. Item.of \in Turns
    BY <1>4, TakeStep
  <2> QED BY <1>0, <1>4, <2>1 DEF TakeTurn, Answered
<1>5. CASE TakeClose
  BY <1>0, <1>5 DEF TakeClose, Answered
<1>6. CASE DurableLands \/ AnswerTurns
  <2>1. marker.turns \subseteq Turns
    BY <1>6, StepNeeds, MarkerStep
  <2> QED BY <1>0, <1>6, <2>1 DEF DurableLands, AnswerTurns, Answered
<1>7. CASE Tombstoned
  <2>1. Busy /\ marker.turns \subseteq Turns
    BY <1>7, StepNeeds, MarkerStep
  <2> QED BY <1>0, <1>7, <2>1 DEF Tombstoned, Answered, Closing
<1>8. ASSUME NEW read \in BOOLEAN, NEW busy \in BOOLEAN, DurableFails(read, busy)
      PROVE  FALSE
  <2>1. marker.turns \subseteq Turns
    BY <1>8, StepNeeds, MarkerStep
  <2>2. \E ts : answer' = Answered(marker.turns \ ts, "refused")
    BY <1>8 DEF DurableFails
  <2> QED BY <1>0, <2>1, <2>2 DEF Answered
<1>9. CASE EndMarker
  <2>1. Busy
    BY <1>9, StepNeeds
  <2>2. marker.kind = "close" /\
        answer' = Answered({marker.of}, IF marker.landed THEN "landed" ELSE "refused")
    BY <1>9 DEF EndMarker
  <2> QED BY <1>0, <1>9, <2>1, <2>2 DEF Answered, Closing
<1>10. CASE WriterEnds
  <2>1. queue = <<>>
    BY <1>10 DEF WriterEnds, WriterStops
  <2> QED BY <1>0, <1>10, <2>1 DEF WriterEnds, Answered
<1>11. CASE Crash
  BY <1>0, <1>11 DEF Crash
<1> QED BY <1>2, <1>3, <1>4, <1>5, <1>6, <1>7, <1>8, <1>9, <1>10, <1>11, AnswerFrame

LEMMA ClosesWaitStep ==
  ASSUME TypeOK, WriterStops, ClosesWait, [Next]_vars
  PROVE  ClosesWait'
<1>0. ProducerTypes
  BY TypeGroups
<1>1. ASSUME NEW s \in Sessions, s \in Closes
      PROVE  \/ s \in Closes' \/ Closing(s)' \/ answer'[s] # "waiting"
  <2>1. CASE queue' = queue
    BY <1>1, <2>1, SameViews
  <2>2. ASSUME NEW r \in Records, Queue(r)
        PROVE  s \in Closes'
    BY <1>0, <1>1, <2>2, AppendViews
  <2>3. CASE queue # <<>> /\ queue' = Tail(queue)
             /\ (TakeEvent \/ TakeOpen \/ TakeTurn \/ TakeClose \/ TakeStop)
    <3>1. s \in Closes' \/ (Item.kind = "close" /\ Item.of = s)
      BY <1>0, <1>1, <2>3, TailViews
    <3>2. CASE Item.kind = "close" /\ Item.of = s
      <4>1. TakeClose
        BY <2>3, <3>2 DEF TakeEvent, TakeOpen, TakeTurn, TakeStop
      <4>2. CASE s \in batches
        BY <3>2, <4>1, <4>2, TakeStep DEF Closing
      <4>3. CASE s \notin batches
        BY <3>2, <4>1, <4>3 DEF TakeClose, Answered, Handles
      <4> QED BY <4>2, <4>3
    <3> QED BY <3>1, <3>2
  <2>4. CASE WriterEnds
    <3>1. queue = <<>>
      BY <2>4 DEF WriterEnds, WriterStops
    <3> QED BY <1>1, <3>1 DEF Closes
  <2>5. CASE Crash
    BY <2>5 DEF Crash, Handles
  <2> QED BY <2>1, <2>2, <2>3, <2>4, <2>5, HandedOver
<1>2. ASSUME NEW s \in Sessions, Closing(s)
      PROVE  Closing(s)' \/ answer'[s] # "waiting"
  <2>1. CASE Tombstoned
    BY <1>2, <2>1 DEF Tombstoned, Answered, Handles, Closing
  <2>2. CASE EndMarker
    BY <1>2, <2>2 DEF EndMarker, Answered, Handles, Closing
  <2>3. CASE Crash
    BY <2>3 DEF Crash, Handles
  <2> QED BY <1>2, <2>1, <2>2, <2>3, ClosingStays
<1>3. ASSUME NEW s \in Sessions, answer'[s] = "waiting", answer[s] # "waiting"
      PROVE  s \in Closes'
  <2>1. CloseSession(s) /\ ~stopped
    BY <1>3, CloseAnswered
  <2>2. Queue([kind |-> "close", of |-> s]) /\ [kind |-> "close", of |-> s] \in Records
    BY <2>1, RecordsTyped DEF CloseSession
  <2> QED BY <1>0, <2>2, AppendViews
<1> QED BY <1>1, <1>2, <1>3 DEF ClosesWait

LEMMA BatchesGrow ==
  ASSUME [Next]_vars, NEW s \in batches', s \notin batches
  PROVE  TakeOpen /\ Item.of = s
BY DEF Next, Sessioning, Writing, Erasing, vars, producers, thread, Keep, RecordEvent,
   OpenSession, CloseSession, Resume, Stop,
   RecordTurn, TakeEvent, TakeOpen, TakeTurn, TakeClose, TakeStop, WriterEnds,
   DurableLands, Tombstoned, DurableFails, AnswerTurns, EventsWritten, EventsLost,
   CountLate, EndMarker, Prune, Flush, EraseSession, EraseThread, Announce, Crash

\* A marker is begun for a session with a batch, of a record about it or to flush it.
LEMMA MarkerBegins ==
  ASSUME TypeOK, [Next]_vars, NEW s \in Sessions, Busy', marker'.of = s
  PROVE  \/ Busy /\ marker.of = s
         \/ s \in batches \/ ~Quiet(s)
<1>0. ProducerTypes
  BY TypeGroups
<1>1. CASE UNCHANGED marker
  BY <1>1 DEF Busy
<1>2. CASE TakeOpen
  <2>1. Item.of = s /\ Item.kind = "open" /\ queue # <<>> /\ queue' = Tail(queue)
    BY <1>2, TakeStep DEF TakeOpen
  <2>2. ~Quiet(s)
    BY <1>0, <2>1, TailViews DEF Concerns
  <2> QED BY <2>2
<1>3. CASE TakeTurn \/ TakeClose
  BY <1>3, TakeStep
<1>4. ASSUME NEW r \in Sessions, Flush(r)
      PROVE  s \in batches
  <2>1. r = s
    BY <1>4, FlushStep
  <2> QED BY <1>4, <2>1 DEF Flush
<1>5. ~Tombstoned /\ ~EndMarker /\ ~Crash
  BY NoMarker
<1> QED BY <1>1, <1>2, <1>3, <1>4, <1>5, MarkerFrame, StepNeeds, MarkerStep

LEMMA HeldFrame ==
  ASSUME [Next]_vars
  PROVE  \/ UNCHANGED held
         \/ TakeEvent /\ Item.of \in batches /\ held' = Add(held, Item.of, 1)
         \/ Tombstoned \/ EndMarker \/ Crash
BY DEF Next, Sessioning, Writing, Erasing, vars, producers, thread, Keep, RecordEvent,
   OpenSession, CloseSession, Resume, Stop,
   RecordTurn, TakeEvent, TakeOpen, TakeTurn, TakeClose, TakeStop, WriterEnds,
   DurableLands, DurableFails, AnswerTurns, EventsWritten, EventsLost,
   CountLate, Prune, Flush, EraseSession, EraseThread, Announce

LEMMA BatchesFrame ==
  ASSUME [Next]_vars
  PROVE  \/ batches \subseteq batches'
         \/ Tombstoned \/ EndMarker \/ Crash
         \/ \E s \in Sessions : Flush(s)
BY DEF Next, Sessioning, Writing, Erasing, vars, producers, thread, Keep, RecordEvent,
   OpenSession, CloseSession, Resume, Stop,
   RecordTurn, TakeEvent, TakeOpen, TakeTurn, TakeClose, TakeStop, WriterEnds,
   DurableLands, DurableFails, AnswerTurns, EventsWritten, EventsLost,
   CountLate, Prune, EraseSession, EraseThread, Announce

LEMMA HeldStep ==
  ASSUME TypeOK, HeldBatches, [Next]_vars
  PROVE  HeldBatches'
<1>0. held \in [Sessions -> Nat] /\ held' \in [Sessions -> Nat]
  BY TypeGroups, ThreadStep DEF ThreadTypes
<1>1. CASE Tombstoned
  <2>1. \A r \in Sessions : held'[r] > 0 => held[r] > 0 /\ r # marker.of
    BY <1>0, <1>1, StepNeeds, MarkerStep DEF Tombstoned
  <2>2. batches' = batches \ {marker.of}
    BY <1>1 DEF Tombstoned
  <2> QED BY <2>1, <2>2 DEF HeldBatches
<1>2. CASE EndMarker
  <2>1. \A r \in Sessions : held'[r] > 0 => held[r] > 0 /\ r # marker.of
    BY <1>0, <1>2, StepNeeds, MarkerStep DEF EndMarker
  <2>2. batches \ {marker.of} \subseteq batches'
    BY <1>2 DEF EndMarker
  <2> QED BY <2>1, <2>2 DEF HeldBatches
<1>3. CASE Crash
  BY <1>3 DEF Crash, None, HeldBatches
<1>4. ASSUME NEW s \in Sessions, Flush(s)
      PROVE  HeldBatches'
  <2>1. UNCHANGED held /\ (batches' = batches \/ (held[s] = 0 /\ batches' = batches \ {s}))
    BY <1>4 DEF Flush
  <2> QED BY <1>0, <2>1 DEF HeldBatches
<1>5. CASE batches \subseteq batches' /\ UNCHANGED held
  BY <1>5 DEF HeldBatches
<1>6. CASE batches \subseteq batches' /\ Item.of \in batches /\ held' = Add(held, Item.of, 1)
  BY <1>0, <1>6 DEF HeldBatches, Add
<1> QED BY <1>1, <1>2, <1>3, <1>4, <1>5, <1>6, HeldFrame, BatchesFrame

LEMMA SettledStep ==
  ASSUME TypeOK, WriterStops, ClosedLast, HeldBatches, SettledQuiet, [Next]_vars
  PROVE  SettledQuiet'
<1>0. ProducerTypes
  BY TypeGroups
<1>1. ASSUME NEW s \in Sessions, answer'[s] # "none"
      PROVE  session'[s] = "closed"
  <2>1. CASE answer[s] # "none"
    BY <2>1, SessionsGoOn DEF SettledQuiet
  <2>2. CASE CloseSession(s)
    BY <1>0, <2>2 DEF CloseSession, ProducerTypes
  <2>3. CASE TakeClose /\ Item.of = s
    <3>1. 1 \in DOMAIN queue /\ CloseAt(1) /\ queue[1].of = s
      BY <1>0, <2>3, TakeStep, TailAt DEF TakeClose, CloseAt
    <3> QED BY <3>1, SessionsGoOn DEF ClosedLast
  <2>4. CASE Closing(s)
    BY <2>4, SessionsGoOn DEF ClosedLast
  <2> QED BY <1>1, <2>1, <2>2, <2>3, <2>4, CloseAnswered
<1>2. ASSUME NEW s \in Sessions, Settled(s)'
      PROVE  s \notin batches' /\ (Busy' => marker'.of # s) /\ Quiet(s)'
  <2>1. CASE Crash
    BY <2>1, EmptyViews, NoMarker DEF Crash
  <2>2. CASE ~Crash /\ Settled(s)
    <3>1. s \notin batches /\ (Busy => marker.of # s) /\ Quiet(s) /\ session[s] = "closed"
      BY <2>2 DEF SettledQuiet, Settled
    <3>2. Busy' => marker'.of # s
      BY <3>1, MarkerBegins
    <3>3. s \notin batches'
      <4>1. ASSUME TakeOpen, Item.of = s
            PROVE  FALSE
        <5>1. queue # <<>> /\ queue' = Tail(queue) /\ Item.kind = "open"
          BY <4>1, TakeStep DEF TakeOpen
        <5> QED BY <1>0, <3>1, <4>1, <5>1, TailViews DEF Concerns
      <4> QED BY <3>1, <4>1, BatchesGrow
    <3> QED BY <3>1, <3>2, <3>3, QuietStays
  <2>3. CASE ~Crash /\ ~Settled(s)
    <3>1. answer'[s] # answer[s] \/ (stopped /\ ~stopped')
      BY <1>2, <2>3 DEF Settled
    <3>2. answer'[s] # answer[s]
      BY <2>3, <3>1, StoppedFrame
    <3>3. CASE CloseSession(s) /\ answer'[s] = (IF stopped THEN "refused" ELSE "waiting")
      <4>1. stopped' = stopped
        BY <3>3 DEF CloseSession
      <4> QED BY <1>2, <3>3, <4>1 DEF Settled
    <3>4. CASE TakeClose /\ Item.of = s /\ s \notin batches
      <4>1. 1 \in DOMAIN queue /\ CloseAt(1) /\ queue[1].of = s /\ queue' = Tail(queue)
            /\ queue # <<>>
        BY <1>0, <3>4, TakeStep, TailAt DEF TakeClose, CloseAt
      <4>2. \A i \in DOMAIN queue' : /\ i + 1 \in DOMAIN queue /\ i + 1 > 1
                                     /\ queue'[i] = queue[i + 1]
        BY <1>0, <4>1, TailAt
      <4>3. Quiet(s)'
        BY <4>1, <4>2 DEF ClosedLast, Quiet, About, TurnAt
      <4>4. batches' = batches /\ ~Busy'
        BY <3>4, TakeStep DEF TakeClose
      <4> QED BY <3>4, <4>3, <4>4
    <3>5. CASE (Tombstoned \/ EndMarker) /\ Closing(s)
      <4>1. Quiet(s) /\ session[s] = "closed"
        BY <3>5 DEF ClosedLast
      <4>2. batches' = batches \ {s}
        BY <3>5 DEF Tombstoned, EndMarker, Closing
      <4> QED BY <3>5, <4>1, <4>2, QuietStays, NoMarker
    <3> QED BY <2>3, <3>2, <3>3, <3>4, <3>5, CloseAnswered
  <2> QED BY <2>1, <2>2, <2>3
<1> QED BY <1>1, <1>2 DEF SettledQuiet

-----------------------------------------------------------------------------
(* What a turn's handle says.                                               *)

Stored == rows \cup seen.scrubbed

TurnsOnce ==
  /\ \A i, j \in DOMAIN queue :
       TurnAt(i) /\ TurnAt(j) /\ queue[i].of = queue[j].of => i = j
  /\ Busy => Queued \cap marker.turns = {}
CarriedWait == \A t \in Turns : answer[t] = "waiting" <=> t \in Carried
StoredTrue ==
  /\ \A t \in Turns : /\ answer[t] \in {"none", "refused"} => t \notin Stored
                      /\ answer[t] = "landed" => t \in Stored
  /\ Queued \cap Stored = {}
  /\ Busy => IF marker.landed THEN marker.turns \subseteq Stored
                              ELSE marker.turns \cap Stored = {}

\* The turn taken is on its way no more, but in the writer's hand.
LEMMA TakenOnce ==
  ASSUME TypeOK, TurnsOnce, TakeTurn
  PROVE  Item.of \in Queued /\ Queued' = Queued \ {Item.of}
<1>0. ProducerTypes
  BY TypeGroups
<1>1. queue # <<>> /\ queue' = Tail(queue) /\ Item.kind = "turn"
  BY TakeStep DEF TakeTurn
<1>2. Queued = Queued' \cup {Item.of}
  BY <1>0, <1>1, TailViews
<1>3. /\ DOMAIN queue' \subseteq Nat \ {0} /\ 1 \in DOMAIN queue /\ Item = queue[1]
      /\ \A i \in DOMAIN queue' : i + 1 \in DOMAIN queue /\ queue'[i] = queue[i + 1]
  BY <1>0, <1>1, TailAt
<1>4. ASSUME NEW i \in DOMAIN queue', TurnAt(i)', queue'[i].of = Item.of
      PROVE  FALSE
  <2>1. i + 1 \in DOMAIN queue /\ TurnAt(i + 1) /\ queue[i + 1].of = queue[1].of /\ TurnAt(1)
    BY <1>1, <1>3, <1>4 DEF TurnAt
  <2>2. i + 1 = 1
    BY <1>3, <2>1 DEF TurnsOnce
  <2> QED BY <1>3, <2>2
<1>5. Item.of \notin Queued'
  BY <1>4 DEF Queued, TurnAt
<1> QED BY <1>2, <1>5

\* Whatever takes turns out of the writer's hand leaves the others on their way.
LEMMA CarriedTaken ==
  ASSUME TypeOK, TurnsOnce
  PROVE  /\ DurableLands => /\ Queued' = Queued /\ Carried' = Carried \ (marker.turns \ Alive)
                            /\ Busy /\ marker.turns \subseteq Carried
         /\ Tombstoned => /\ Queued' = Queued /\ Carried' = Carried \ marker.turns
                          /\ Busy /\ marker.turns \subseteq Carried
         /\ \A read, busy \in BOOLEAN : DurableFails(read, busy) =>
              /\ Queued' = Queued
              /\ Carried' = Carried \ (marker.turns \ (IF read THEN Alive ELSE marker.turns))
              /\ Busy /\ marker.turns \subseteq Carried
         /\ AnswerTurns => /\ Queued' = Queued /\ Carried' = Carried \ marker.turns
                           /\ Busy /\ marker.turns \subseteq Carried
<1>1. UNCHANGED queue => Queued' = Queued
  BY SameViews
<1>2. Busy => Queued \cap marker.turns = {} /\ marker.turns \subseteq Carried
  BY DEF TurnsOnce, Carried
<1>3. ASSUME DurableLands
      PROVE  /\ Queued' = Queued /\ Carried' = Carried \ (marker.turns \ Alive)
             /\ Busy /\ marker.turns \subseteq Carried
  <2>1. /\ Busy /\ Busy' /\ marker'.turns = Alive /\ Alive \subseteq marker.turns
        /\ UNCHANGED queue
    BY <1>3, StepNeeds, MarkerStep, AliveTyped DEF DurableLands
  <2> QED BY <1>1, <1>2, <2>1 DEF Carried
<1>4. ASSUME Tombstoned
      PROVE  /\ Queued' = Queued /\ Carried' = Carried \ marker.turns
             /\ Busy /\ marker.turns \subseteq Carried
  <2>1. Busy /\ ~Busy' /\ UNCHANGED queue
    BY <1>4, StepNeeds, NoMarker DEF Tombstoned
  <2> QED BY <1>1, <1>2, <2>1 DEF Carried
<1>5. ASSUME NEW read \in BOOLEAN, NEW busy \in BOOLEAN, DurableFails(read, busy)
      PROVE  /\ Queued' = Queued
             /\ Carried' = Carried \ (marker.turns \ (IF read THEN Alive ELSE marker.turns))
             /\ Busy /\ marker.turns \subseteq Carried
  <2>1. /\ Busy /\ Busy' /\ marker'.turns = (IF read THEN Alive ELSE marker.turns)
        /\ Alive \subseteq marker.turns /\ UNCHANGED queue
    BY <1>5, StepNeeds, MarkerStep, AliveTyped DEF DurableFails
  <2> QED BY <1>1, <1>2, <2>1 DEF Carried
<1>6. ASSUME AnswerTurns
      PROVE  /\ Queued' = Queued /\ Carried' = Carried \ marker.turns
             /\ Busy /\ marker.turns \subseteq Carried
  <2>1. Busy /\ Busy' /\ marker'.turns = {} /\ UNCHANGED queue
    BY <1>6, StepNeeds, MarkerStep DEF AnswerTurns
  <2> QED BY <1>1, <1>2, <2>1 DEF Carried
<1> QED BY <1>3, <1>4, <1>5, <1>6

\* What a step makes of the turns that are on their way.
LEMMA CarriedStep ==
  ASSUME TypeOK, MarkerShape, TurnsOnce, CarriedWait, [Next]_vars
  PROVE  \/ Carried' = Carried /\ Queued' = Queued /\ ~Crash
         \/ \E t \in Turns : /\ RecordTurn(t) /\ ~stopped /\ t \notin Carried
                             /\ Carried' = Carried \cup {t} /\ Queued' = Queued \cup {t}
                             /\ UNCHANGED marker
         \/ /\ TakeTurn /\ Queued' = Queued \ {Item.of} /\ ~Busy /\ Item.of \in Queued
            /\ \/ Busy' /\ Carried' = Carried /\ UNCHANGED answer
                  /\ marker'.turns = {Item.of} /\ ~marker'.landed
               \/ ~Busy' /\ Carried' = Carried \ {Item.of}
                  /\ answer' = Answered({Item.of}, "refused")
         \/ /\ Queued' = Queued /\ Busy /\ marker.turns \subseteq Carried
            /\ \/ DurableLands /\ Carried' = Carried \ (marker.turns \ Alive)
               \/ Tombstoned /\ Carried' = Carried \ marker.turns
               \/ \E read, busy \in BOOLEAN :
                    DurableFails(read, busy)
                    /\ Carried' = Carried \ (marker.turns \ (IF read THEN Alive ELSE marker.turns))
               \/ AnswerTurns /\ Carried' = Carried \ marker.turns
         \/ (WriterEnds \/ Crash) /\ Queued' = {} /\ Carried' \subseteq (Carried \ Queued)
            /\ (Crash => Carried' = {}) /\ (WriterEnds => ~Busy /\ ~Busy' /\ Carried' = {})
<1>0. ProducerTypes
  BY TypeGroups
<1>1. ASSUME NEW t \in Turns, RecordTurn(t), ~stopped
      PROVE  /\ t \notin Carried
             /\ Carried' = Carried \cup {t} /\ Queued' = Queued \cup {t}
             /\ UNCHANGED marker
  <2>1. Queue([kind |-> "turn", of |-> t]) /\ [kind |-> "turn", of |-> t] \in Records
        /\ UNCHANGED marker /\ answer[t] = "none"
    BY <1>1, RecordsTyped DEF RecordTurn, Speaks, thread
  <2>2. t \notin Carried
    BY <2>1 DEF CarriedWait
  <2>3. Queued' = Queued \cup {t}
    BY <1>0, <2>1, AppendViews
  <2> QED BY <2>1, <2>2, <2>3 DEF Carried, Busy
<1>2. CASE TakeTurn
  <2>1. Item.of \in Queued /\ Queued' = Queued \ {Item.of} /\ ~Busy
    BY <1>2, TakenOnce, TakeStep
  <2>2. CASE SessionOf[Item.of] \in batches
    <3>1. Busy' /\ UNCHANGED answer /\ marker'.turns = {Item.of} /\ ~marker'.landed
      BY <1>2, <2>2, TakeStep DEF TakeTurn
    <3>2. Carried' = Carried
      BY <2>1, <3>1 DEF Carried
    <3> QED BY <1>2, <2>1, <3>1, <3>2
  <2>3. CASE SessionOf[Item.of] \notin batches
    <3>1. ~Busy' /\ answer' = Answered({Item.of}, "refused")
      BY <1>2, <2>3, TakeStep DEF TakeTurn
    <3>2. Carried' = Carried \ {Item.of}
      BY <2>1, <3>1 DEF Carried
    <3> QED BY <1>2, <2>1, <3>1, <3>2
  <2> QED BY <2>2, <2>3
<1>3. CASE TakeEvent \/ TakeOpen \/ TakeClose \/ TakeStop
  <2>1. Item.kind # "turn" /\ queue # <<>> /\ queue' = Tail(queue) /\ ~Busy
    BY <1>3, TakeStep DEF TakeEvent, TakeOpen, TakeClose, TakeStop
  <2>2. Queued' = Queued
    BY <1>0, <2>1, TailViews
  <2>3. Busy' => marker'.turns = {}
    BY <1>3, <2>1, TakeStep DEF TakeEvent, TakeStop, Busy
  <2>4. Carried' = Carried
    BY <2>1, <2>2, <2>3 DEF Carried
  <2>5. ~Crash
    BY <1>3, TakeStep DEF Crash, TakeEvent, TakeOpen, TakeClose, TakeStop, Ready
  <2> QED BY <2>2, <2>4, <2>5
<1>4. CASE WriterEnds
  <2>1. queue' = <<>> /\ ~Busy /\ ~Busy'
    BY <1>4 DEF WriterEnds, Busy
  <2> QED BY <1>4, <2>1, EmptyViews DEF Carried
<1>5. CASE Crash
  <2>1. queue' = <<>> /\ ~Busy'
    BY <1>5 DEF Crash, Busy
  <2>2. Queued' = {} /\ Carried' = {}
    BY <2>1, EmptyViews DEF Carried
  <2>3. WriterEnds => ~Busy
    BY DEF WriterEnds, Busy
  <2> QED BY <1>5, <2>1, <2>2, <2>3
<1>6. CASE ~Crash /\ Queued' = Queued /\ UNCHANGED marker
  BY <1>6 DEF Carried, Busy
<1>7. CASE UNCHANGED queue /\ ~Crash /\ ~UNCHANGED marker
  <2>1. Queued' = Queued
    BY <1>7, SameViews
  <2>2. ~TakeOpen /\ ~TakeTurn /\ ~TakeClose
    <3>1. queue # <<>> => Tail(queue) # queue
      BY <1>0, HeadTailProperties, LenProperties DEF ProducerTypes
    <3> QED BY <1>7, <3>1, TakeStep
  <2>3. CASE DurableLands \/ Tombstoned \/ AnswerTurns
    BY <2>3, CarriedTaken
  <2>4. CASE \E read, busy \in BOOLEAN : DurableFails(read, busy)
    BY <2>4, CarriedTaken
  <2>7. CASE EventsWritten \/ EventsLost \/ \E ok \in BOOLEAN : CountLate(ok)
    BY <1>7, <2>1, <2>7, StepNeeds, MarkerStep DEF Carried
  <2>8. CASE EndMarker
    <3>1. Busy /\ marker.turns = {} /\ ~Busy'
      BY <2>8, StepNeeds, NoMarker DEF MarkerShape
    <3> QED BY <1>7, <2>1, <3>1 DEF Carried
  <2>9. ASSUME NEW s \in Sessions, Flush(s)
        PROVE  Carried' = Carried
    BY <2>1, <2>9, FlushStep DEF Carried
  <2> QED BY <1>7, <2>1, <2>2, <2>3, <2>4, <2>7, <2>8, <2>9, MarkerFrame
<1>8. ASSUME NEW r \in Records, Queue(r), r.kind # "turn"
      PROVE  Queued' = Queued
  BY <1>0, <1>8, AppendViews
<1>9. CASE \/ \E s \in Sessions : OpenSession(s) /\ Queue([kind |-> "open", of |-> s])
           \/ \E s \in Sessions : RecordEvent(s) /\ Queue([kind |-> "event", of |-> s])
           \/ \E s \in Sessions : CloseSession(s) /\ Queue([kind |-> "close", of |-> s])
           \/ Stop /\ Queue([kind |-> "stop"])
  <2>1. Queued' = Queued
    BY <1>8, <1>9, RecordsTyped
  <2>2. UNCHANGED marker
    BY <1>9 DEF OpenSession, RecordEvent, CloseSession, Stop, thread
  <2>3. queue' # <<>>
    <3>1. \A r \in Records : Queue(r) => queue' # <<>>
      BY <1>0, AppendAt
    <3> QED BY <1>9, <3>1, RecordsTyped
  <2>4. ~Crash
    BY <2>3 DEF Crash
  <2> QED BY <1>6, <2>1, <2>2, <2>4
<1>10. CASE UNCHANGED queue /\ ~Crash /\ UNCHANGED marker
  BY <1>6, <1>10, SameViews
<1> QED BY <1>1, <1>2, <1>3, <1>4, <1>5, <1>7, <1>9, <1>10, QueueStep

LEMMA TurnsOnceStep ==
  ASSUME TypeOK, MarkerShape, TurnsOnce, CarriedWait, [Next]_vars
  PROVE  TurnsOnce'
<1>0. ProducerTypes
  BY TypeGroups
<1>1. \A i, j \in DOMAIN queue' :
        TurnAt(i)' /\ TurnAt(j)' /\ queue'[i].of = queue'[j].of => i = j
  <2>1. CASE queue' = queue
    BY <2>1 DEF TurnsOnce, TurnAt
  <2>2. ASSUME NEW r \in Records, Queue(r),
               r.kind = "turn" => r.of \in Turns /\ RecordTurn(r.of)
        PROVE  \A i, j \in DOMAIN queue' :
                 TurnAt(i)' /\ TurnAt(j)' /\ queue'[i].of = queue'[j].of => i = j
    <3> DEFINE n == Len(queue) + 1
    <3>1. /\ \A i \in DOMAIN queue' : i \in DOMAIN queue \/ i = n
          /\ \A i \in DOMAIN queue : queue'[i] = queue[i]
          /\ queue'[n] = r
      BY <1>0, <2>2, AppendAt
    <3>2. r.kind = "turn" => r.of \notin Queued
      BY <2>2 DEF RecordTurn, Speaks, CarriedWait, Carried
    <3>3. \A i \in DOMAIN queue : TurnAt(i) => queue[i].of \in Queued
      BY DEF Queued
    <3> HIDE DEF n
    <3> QED BY <3>1, <3>2, <3>3 DEF TurnsOnce, TurnAt
  <2>3. CASE queue # <<>> /\ queue' = Tail(queue)
    <3>1. /\ DOMAIN queue' \subseteq Nat
          /\ \A i \in DOMAIN queue' : i + 1 \in DOMAIN queue /\ queue'[i] = queue[i + 1]
      BY <1>0, <2>3, TailAt
    <3>2. ASSUME NEW i \in DOMAIN queue', NEW j \in DOMAIN queue',
                 TurnAt(i)', TurnAt(j)', queue'[i].of = queue'[j].of
          PROVE  i = j
      <4>1. i + 1 = j + 1
        BY <3>1, <3>2 DEF TurnsOnce, TurnAt
      <4> QED BY <3>1, <4>1
    <3> QED BY <3>2
  <2>4. CASE queue' = <<>>
    BY <2>4
  <2> QED BY <2>1, <2>2, <2>3, <2>4, HandedOver
<1>2. ASSUME Busy'
      PROVE  Queued' \cap marker'.turns = {}
  <2>1. ASSUME NEW t \in Turns, RecordTurn(t), t \notin Carried, Queued' = Queued \cup {t},
               UNCHANGED marker
        PROVE  Queued' \cap marker'.turns = {}
    BY <1>2, <2>1 DEF TurnsOnce, Busy, Carried
  <2>2. CASE TakeTurn
    BY <1>2, <2>2, TakeStep, TakenOnce
  <2>3. CASE TakeOpen \/ TakeClose
    BY <1>2, <2>3, TakeStep
  <2>4. ASSUME NEW s \in Sessions, Flush(s)
        PROVE  Queued' \cap marker'.turns = {}
    BY <1>2, <2>4, FlushStep
  <2>5. ~Tombstoned /\ ~EndMarker /\ ~Crash
    BY <1>2, NoMarker
  <2>6. CASE Queued' \subseteq Queued /\ Busy /\ marker'.turns \subseteq marker.turns
    BY <2>6 DEF TurnsOnce
  <2>7. Queued' \subseteq Queued \/
        \E t \in Turns : /\ RecordTurn(t) /\ t \notin Carried /\ Queued' = Queued \cup {t}
                         /\ UNCHANGED marker
    BY CarriedStep
  <2>8. CASE UNCHANGED marker
    BY <1>2, <2>1, <2>6, <2>7, <2>8 DEF Busy
  <2>9. CASE \/ DurableLands \/ (\E read, busy \in BOOLEAN : DurableFails(read, busy))
             \/ AnswerTurns \/ EventsWritten \/ EventsLost \/ (\E ok \in BOOLEAN : CountLate(ok))
    <3>1. Busy /\ marker'.turns \subseteq marker.turns
      BY <2>9, StepNeeds, MarkerStep, AliveTyped
    <3> QED BY <2>1, <2>6, <2>7, <3>1
  <2> QED BY <2>2, <2>3, <2>4, <2>5, <2>8, <2>9, MarkerFrame
<1> QED BY <1>1, <1>2 DEF TurnsOnce

\* Who answers a turn.
LEMMA TurnAnswered ==
  ASSUME TypeOK, MarkerShape, WriterStops, [Next]_vars, NEW t \in Turns, answer'[t] # answer[t]
  PROVE  \/ RecordTurn(t) /\ answer[t] = "none"
            /\ answer'[t] = (IF stopped THEN "refused" ELSE "waiting")
         \/ TakeTurn /\ Item.of = t /\ SessionOf[t] \notin batches /\ answer'[t] = "refused"
         \/ DurableLands /\ t \in marker.turns \ Alive /\ answer'[t] = "refused"
         \/ Tombstoned /\ t \in marker.turns /\ answer'[t] = "refused"
         \/ \E busy \in BOOLEAN : DurableFails(TRUE, busy) /\ t \in marker.turns \ Alive
                                  /\ answer'[t] = "refused"
         \/ AnswerTurns /\ t \in marker.turns
            /\ answer'[t] = (IF marker.landed THEN "landed" ELSE "refused")
         \/ Crash /\ answer[t] = "waiting" /\ answer'[t] = "gone"
<1>0. t \in Handles /\ t \notin Sessions
  BY DEF Handles
<1>2. ASSUME NEW r \in Sessions, CloseSession(r)
      PROVE  FALSE
  BY <1>0, <1>2 DEF CloseSession, Answered
<1>3. ASSUME NEW u \in Turns, RecordTurn(u)
      PROVE  RecordTurn(t) /\ answer[t] = "none"
             /\ answer'[t] = (IF stopped THEN "refused" ELSE "waiting")
  <2>1. u = t
    BY <1>0, <1>3 DEF RecordTurn, Answered
  <2> QED BY <1>0, <1>3, <2>1 DEF RecordTurn, Speaks, Answered
<1>4. CASE TakeTurn
  BY <1>0, <1>4 DEF TakeTurn, Answered
<1>5. CASE TakeClose
  <2>1. Item.of \in Sessions
    BY <1>5, TakeStep
  <2> QED BY <1>0, <1>5, <2>1 DEF TakeClose, Answered
<1>6. CASE DurableLands
  BY <1>0, <1>6 DEF DurableLands, Answered
<1>7. CASE Tombstoned
  <2>1. marker.of \in Sessions
    BY <1>7, StepNeeds, MarkerStep
  <2> QED BY <1>0, <1>7, <2>1 DEF Tombstoned, Answered
<1>8. ASSUME NEW read \in BOOLEAN, NEW busy \in BOOLEAN, DurableFails(read, busy)
      PROVE  read = TRUE /\ t \in marker.turns \ Alive /\ answer'[t] = "refused"
  <2>1. answer' = Answered(marker.turns \ (IF read THEN Alive ELSE marker.turns), "refused")
    BY <1>8 DEF DurableFails
  <2> QED BY <1>0, <2>1 DEF Answered
<1>9. CASE AnswerTurns
  BY <1>0, <1>9 DEF AnswerTurns, Answered
<1>10. CASE EndMarker
  <2>1. marker.of \in Sessions
    BY <1>10, StepNeeds, MarkerStep
  <2> QED BY <1>0, <1>10, <2>1 DEF EndMarker, Answered
<1>11. CASE WriterEnds
  <2>1. queue = <<>>
    BY <1>11 DEF WriterEnds, WriterStops
  <2> QED BY <1>0, <1>11, <2>1 DEF WriterEnds, Answered
<1>12. CASE Crash
  BY <1>0, <1>12 DEF Crash
<1> QED BY <1>2, <1>3, <1>4, <1>5, <1>6, <1>7, <1>8, <1>9, <1>10, <1>11, <1>12, AnswerFrame

LEMMA CarriedWaitStep ==
  ASSUME TypeOK, MarkerShape, WriterStops, TurnsOnce, CarriedWait, [Next]_vars
  PROVE  CarriedWait'
<1>0. \A t \in Turns : t \in Handles
  BY DEF Handles
<1>1. ASSUME NEW t \in Turns, answer'[t] = "waiting", answer[t] = "waiting"
      PROVE  t \in Carried'
  <2>1. t \in Carried
    BY <1>1 DEF CarriedWait
  <2>2. CASE TakeTurn /\ answer' = Answered({Item.of}, "refused")
             /\ Carried' = Carried \ {Item.of}
    BY <1>0, <1>1, <2>1, <2>2 DEF Answered
  <2>3. CASE DurableLands
    BY <1>0, <1>1, <2>1, <2>3, CarriedTaken DEF DurableLands, Answered
  <2>4. CASE Tombstoned
    BY <1>0, <1>1, <2>1, <2>4, CarriedTaken DEF Tombstoned, Answered
  <2>5. ASSUME NEW read \in BOOLEAN, NEW busy \in BOOLEAN, DurableFails(read, busy)
        PROVE  t \in Carried'
    BY <1>0, <1>1, <2>1, <2>5, CarriedTaken DEF DurableFails, Answered
  <2>6. CASE AnswerTurns
    BY <1>0, <1>1, <2>1, <2>6, CarriedTaken DEF AnswerTurns, Answered
  <2>7. CASE WriterEnds
    BY <2>1, <2>7 DEF WriterEnds, WriterStops, Carried, Queued, Busy
  <2>8. CASE Crash
    BY <1>0, <1>1, <2>8 DEF Crash
  <2>9. CASE Carried \subseteq Carried'
    BY <2>1, <2>9
  <2> QED BY <2>2, <2>3, <2>4, <2>5, <2>6, <2>7, <2>8, <2>9, CarriedStep
<1>2. ASSUME NEW t \in Turns, RecordTurn(t), ~stopped
      PROVE  t \in Carried' /\ answer'[t] = "waiting"
  <2>1. Queue([kind |-> "turn", of |-> t]) /\ [kind |-> "turn", of |-> t] \in Records
        /\ answer' = Answered({t}, "waiting")
    BY <1>2, RecordsTyped DEF RecordTurn
  <2>2. t \in Queued'
    BY <2>1, AppendViews, TypeGroups
  <2> QED BY <1>0, <2>1, <2>2 DEF Carried, Answered
<1>3. ASSUME NEW t \in Turns, t \in Carried', t \in Carried
      PROVE  answer'[t] = "waiting"
  <2>1. answer[t] = "waiting"
    BY <1>3 DEF CarriedWait
  <2>2. ASSUME TakeTurn, Item.of = t, SessionOf[t] \notin batches
        PROVE  FALSE
    <3>1. Queued' = Queued \ {t} /\ ~Busy'
      BY <2>2, TakenOnce, TakeStep
    <3> QED BY <1>3, <3>1 DEF Carried
  <2>3. ASSUME Crash
        PROVE  FALSE
    BY <1>3, <2>3, EmptyViews, NoMarker DEF Crash, Carried
  <2>4. ASSUME DurableLands, t \in marker.turns \ Alive
        PROVE  FALSE
    BY <1>3, <2>4, CarriedTaken
  <2>5. ASSUME Tombstoned \/ AnswerTurns, t \in marker.turns
        PROVE  FALSE
    BY <1>3, <2>5, CarriedTaken
  <2>6. ASSUME NEW busy \in BOOLEAN, DurableFails(TRUE, busy), t \in marker.turns \ Alive
        PROVE  FALSE
    BY <1>3, <2>6, CarriedTaken
  <2> QED BY <2>1, <2>2, <2>3, <2>4, <2>5, <2>6, TurnAnswered
<1>4. ASSUME NEW t \in Turns, answer'[t] = "waiting", answer[t] # "waiting"
      PROVE  t \in Carried'
  <2>1. RecordTurn(t) /\ ~stopped
    BY <1>4, TurnAnswered
  <2> QED BY <1>2, <2>1
<1> QED BY <1>1, <1>2, <1>3, <1>4, CarriedGrows DEF CarriedWait

\* What is stored once stays counted as stored, and only the transaction adds to it.
LEMMA StoredMoves ==
  ASSUME TypeOK, NoOrphans, [Next]_vars
  PROVE  Stored' = Stored \/ (DurableLands /\ Stored' = Stored \cup Alive)
<1>1. CASE Prune \/ (\E s \in Sessions : EraseSession(s)) \/ (\E c \in Threads : EraseThread(c))
  <2>1. CASE UNCHANGED <<database, seen>>
    BY <2>1 DEF Stored, database
  <2>2. ASSUME NEW ts \in SUBSET rows, NEW gone, NEW ss, Remove(ts, gone, ss)
        PROVE  Stored' = Stored
    <3>1. rows' = rows \ ts
      BY <2>2 DEF Remove
    <3>2. seen'.scrubbed = seen.scrubbed \cup ts
      BY <2>2, RemoveSeen
    <3> QED BY <3>1, <3>2 DEF Stored
  <2> QED BY <1>1, <2>1, <2>2, Deletion
<1>2. CASE DurableLands
  <2>1. rows' = rows \cup Alive
    BY <1>2 DEF DurableLands, Commits
  <2>2. seen'.scrubbed = seen.scrubbed
    BY <1>2, SeenDomain DEF DurableLands
  <2> QED BY <1>2, <2>1, <2>2 DEF Stored
<1>3. CASE UNCHANGED rows /\ seen'.scrubbed = seen.scrubbed
  BY <1>3 DEF Stored
<1>4. EventsWritten => UNCHANGED rows
  BY DEF EventsWritten
<1> QED BY <1>1, <1>2, <1>3, <1>4, SeenFrame, DataFrame

LEMMA StoredStep ==
  ASSUME TypeOK, MarkerShape, NoOrphans, WriterStops, TurnsOnce, CarriedWait, StoredTrue,
         [Next]_vars
  PROVE  StoredTrue'
<1>0. Queued \subseteq Turns
  BY TypeGroups, QueuedTyped
<1>1. \A t \in Stored : t \in Stored'
  BY StoredMoves
<1>2. ASSUME NEW t \in Stored', t \notin Stored
      PROVE  /\ DurableLands /\ t \in Alive /\ t \in marker.turns /\ t \in Carried
             /\ Busy /\ marker.step = "durable" /\ Busy' /\ marker'.landed
  <2>1. DurableLands /\ t \in Alive
    BY <1>2, StoredMoves
  <2> QED BY <2>1, StepNeeds, MarkerStep, AliveTyped DEF Carried
<1>3. Busy /\ marker.step = "durable" => marker.turns \cap Stored = {}
  BY DEF MarkerShape, StoredTrue
<1>4. ASSUME NEW t \in Turns
      PROVE  /\ answer'[t] \in {"none", "refused"} => t \notin Stored'
             /\ answer'[t] = "landed" => t \in Stored'
  <2>1. CASE answer'[t] = answer[t]
    BY <1>1, <1>2, <2>1 DEF StoredTrue, CarriedWait
  <2>2. CASE RecordTurn(t) /\ answer[t] = "none" /\ answer'[t] \in {"refused", "waiting"}
    BY <1>2, <2>2 DEF StoredTrue, CarriedWait
  <2>3. CASE TakeTurn /\ Item.of = t /\ answer'[t] = "refused"
    BY <1>2, <2>3, TakenOnce, TakeStep DEF StoredTrue
  <2>4. CASE DurableLands /\ t \in marker.turns \ Alive /\ answer'[t] = "refused"
    BY <1>2, <1>3, <2>4, StepNeeds
  <2>5. CASE Tombstoned /\ t \in marker.turns /\ answer'[t] = "refused"
    BY <1>2, <1>3, <2>5, StepNeeds, NoMarker
  <2>6. ASSUME NEW busy \in BOOLEAN, DurableFails(TRUE, busy), t \in marker.turns \ Alive,
               answer'[t] = "refused"
        PROVE  t \notin Stored'
    BY <1>2, <1>3, <2>6, StepNeeds
  <2>7. CASE AnswerTurns /\ t \in marker.turns
             /\ answer'[t] = (IF marker.landed THEN "landed" ELSE "refused")
    BY <1>1, <1>2, <2>7, StepNeeds DEF StoredTrue
  <2> QED BY <2>1, <2>2, <2>3, <2>4, <2>5, <2>6, <2>7, TurnAnswered
<1>5. ASSUME NEW t \in Queued'
      PROVE  t \notin Stored'
  <2>1. CASE t \in Queued
    BY <1>2, <2>1 DEF StoredTrue, TurnsOnce
  <2>2. CASE t \in Turns /\ RecordTurn(t)
    <3>1. answer[t] = "none"
      BY <2>2 DEF RecordTurn, Speaks
    <3> QED BY <1>2, <2>2, <3>1 DEF StoredTrue, CarriedWait
  <2> QED BY <2>1, <2>2, QueuedGrows
<1>6. ASSUME Busy'
      PROVE  IF marker'.landed THEN marker'.turns \subseteq Stored'
                               ELSE marker'.turns \cap Stored' = {}
  <2>1. CASE UNCHANGED marker
    BY <1>1, <1>2, <1>6, <2>1 DEF StoredTrue, Busy
  <2>2. CASE TakeTurn
    BY <1>2, <1>6, <2>2, TakeStep, TakenOnce DEF StoredTrue
  <2>3. CASE marker'.turns = {}
    BY <2>3
  <2>4. CASE DurableLands
    <3>1. Alive \subseteq rows'
      BY <2>4 DEF DurableLands, Commits
    <3> QED BY <2>4, <3>1, StepNeeds, MarkerStep DEF Stored
  <2>5. ASSUME NEW read \in BOOLEAN, NEW busy \in BOOLEAN, DurableFails(read, busy)
        PROVE  IF marker'.landed THEN marker'.turns \subseteq Stored'
                                 ELSE marker'.turns \cap Stored' = {}
    <3>1. Busy /\ marker.step = "durable" /\ ~marker.landed /\ ~marker'.landed
          /\ marker'.turns \subseteq marker.turns
      BY <2>5, StepNeeds, MarkerStep, AliveTyped DEF MarkerShape
    <3> QED BY <1>2, <1>3, <3>1
  <2>6. CASE EventsWritten \/ EventsLost \/ \E ok \in BOOLEAN : CountLate(ok)
    BY <2>3, <2>6, StepNeeds, MarkerStep DEF MarkerShape
  <2>7. ~Tombstoned /\ ~EndMarker /\ ~Crash
    BY <1>6, NoMarker
  <2>8. ASSUME NEW s \in Sessions, Flush(s)
        PROVE  marker'.turns = {}
    BY <1>6, <2>8, FlushStep
  <2>9. TakeOpen \/ TakeClose => UNCHANGED marker \/ marker'.turns = {}
    BY <1>6, TakeStep
  <2>10. AnswerTurns => marker'.turns = {}
    BY StepNeeds, MarkerStep
  <2> QED BY <2>1, <2>2, <2>3, <2>4, <2>5, <2>6, <2>7, <2>8, <2>9, <2>10, MarkerFrame
<1>7. Queued' \cap Stored' = {}
  BY <1>5
<1> QED BY <1>4, <1>6, <1>7 DEF StoredTrue

\* The invariant of the handles, and what it says of them.
HandlesInv ==
  /\ StopLast /\ WriterStops /\ ClosedLast /\ ClosesWait /\ HeldBatches /\ SettledQuiet
  /\ TurnsOnce /\ CarriedWait /\ StoredTrue

LEMMA HandlesInvStep ==
  ASSUME TypeOK, MarkerShape, NoOrphans, HandlesInv, [Next]_vars
  PROVE  HandlesInv'
BY StopLastStep, StopsStep, ClosedLastStep, ClosesWaitStep, HeldStep, SettledStep,
   TurnsOnceStep, CarriedWaitStep, StoredStep DEF HandlesInv

LEMMA HandlesTell ==
  ASSUME TypeOK, MarkerShape, HandlesInv
  PROVE  HandlesTrue
<1>1. \A t \in Turns : /\ answer[t] = "landed" => t \in rows \cup seen.scrubbed
                       /\ answer[t] = "refused" => t \notin rows \cup seen.scrubbed
  BY DEF HandlesInv, StoredTrue, Stored
<1>2. ASSUME writer = "ended", NEW h \in Handles
      PROVE  answer[h] # "waiting"
  <2>1. Queued = {} /\ Closes = {} /\ ~Busy
    BY <1>2 DEF HandlesInv, WriterStops, Queued, Closes
  <2>2. Carried = {}
    BY <2>1 DEF Carried
  <2>3. \A s \in Sessions : answer[s] # "waiting"
    BY <2>1 DEF HandlesInv, ClosesWait, Closing
  <2>4. \A t \in Turns : answer[t] # "waiting"
    BY <2>2 DEF HandlesInv, CarriedWait
  <2> QED BY <2>3, <2>4 DEF Handles
<1>3. CloseIsBarrier
  <2> SUFFICES ASSUME NEW s \in Sessions, answer[s] \in {"landed", "refused"}, ~stopped
               PROVE  /\ ~Pending(s)
                      /\ \A t \in Turns : SessionOf[t] = s => answer[t] # "waiting"
    BY DEF CloseIsBarrier
  <2>1. s \notin batches /\ (Busy => marker.of # s) /\ Quiet(s)
    BY DEF HandlesInv, SettledQuiet, Settled
  <2>2. ~(held[s] > 0)
    BY <2>1 DEF HandlesInv, HeldBatches
  <2>3. ~Pending(s)
    BY <2>1, <2>2 DEF Pending, Busy, Quiet, About, TurnAt
  <2>4. ASSUME NEW t \in Turns, SessionOf[t] = s, answer[t] = "waiting"
        PROVE  FALSE
    <3>1. t \in Carried
      BY <2>4 DEF HandlesInv, CarriedWait
    <3>2. t \notin Queued
      BY <2>1, <2>4 DEF Quiet, About, TurnAt, Queued
    <3>3. Busy /\ t \in marker.turns
      BY <3>1, <3>2 DEF Carried
    <3> QED BY <2>1, <2>4, <3>3 DEF MarkerShape
  <2> QED BY <2>3, <2>4
<1> QED BY <1>1, <1>2, <1>3 DEF HandlesTrue

-----------------------------------------------------------------------------
(* What is lost, and who is told.                                           *)

\* A thread a turn was lost of is owed its mark, has it, is dead to the writer, or was
\* owed it by a process that died; a turn about to be answered as landed is on a thread
\* that is owed nothing; and whoever was told so is on a thread that has the mark, or
\* was to have it from a process that died.
Owed ==
  /\ seen.holes \subseteq incomplete \cup flagged \cup dead \cup seen.forgotten
  /\ At("answer") => IF marker.landed
                       THEN ThreadsOf(marker.turns) \cap (incomplete \cup dead) = {}
                       ELSE ThreadsOf(marker.turns) \subseteq incomplete
  /\ seen.told \subseteq flagged \cup seen.forgotten

\* A step that leaves alone what a failed transaction lost, who was told, and what
\* a process that died still owed.
SameMarks ==
  seen'.holes = seen.holes /\ seen'.told = seen.told /\ seen'.forgotten = seen.forgotten

LEMMA LossesFrame ==
  ASSUME TypeOK, [Next]_vars
  PROVE  /\ \/ SameMarks
            \/ AnswerTurns \/ Crash
            \/ Prune \/ (\E s \in Sessions : EraseSession(s))
            \/ (\E c \in Threads : EraseThread(c))
         /\ \/ seen'.missing = seen.missing
            \/ \E s \in Sessions : RecordEvent(s)
            \/ \E read, busy \in BOOLEAN : DurableFails(read, busy)
            \/ EventsLost
            \/ Prune \/ (\E s \in Sessions : EraseSession(s))
            \/ (\E c \in Threads : EraseThread(c))
         /\ \/ seen'.uncounted = seen.uncounted
            \/ \E ok \in BOOLEAN : CountLate(ok)
            \/ Prune \/ (\E s \in Sessions : EraseSession(s))
            \/ (\E c \in Threads : EraseThread(c))
<1> USE DEF SameMarks
<1>0. DOMAIN seen = {"erased", "scrubbed", "strangers", "ours", "holes", "told",
                     "forgotten", "missing", "uncounted", "emitted", "erasures", "crashes"}
  BY SeenDomain
<1>1. CASE UNCHANGED seen
  BY <1>1
<1>2. ASSUME NEW s \in Sessions, RecordEvent(s)
      PROVE  /\ SameMarks
             /\ seen'.uncounted = seen.uncounted
  BY <1>0, <1>2 DEF RecordEvent
<1>3. DurableLands => /\ SameMarks
                      /\ seen'.missing = seen.missing /\ seen'.uncounted = seen.uncounted
  BY <1>0 DEF DurableLands
<1>4. ASSUME NEW read \in BOOLEAN, NEW busy \in BOOLEAN, DurableFails(read, busy)
      PROVE  /\ SameMarks
             /\ seen'.uncounted = seen.uncounted
  <2>1. UNCHANGED seen \/ \E k : seen' = [seen EXCEPT !.missing[marker.of] = k]
    BY <1>4 DEF DurableFails, Failed
  <2> QED BY <1>0, <2>1
<1>5. AnswerTurns => seen'.missing = seen.missing /\ seen'.uncounted = seen.uncounted
  BY <1>0 DEF AnswerTurns
<1>6. EventsLost => /\ SameMarks
                    /\ seen'.uncounted = seen.uncounted
  BY <1>0 DEF EventsLost
<1>7. ASSUME NEW ok \in BOOLEAN, CountLate(ok)
      PROVE  /\ SameMarks
             /\ seen'.missing = seen.missing
  BY <1>0, <1>7 DEF CountLate
<1>8. Crash => seen'.missing = seen.missing /\ seen'.uncounted = seen.uncounted
  BY <1>0 DEF Crash
<1>9. \/ UNCHANGED seen
      \/ \E s \in Sessions : RecordEvent(s)
      \/ DurableLands \/ \E read, busy \in BOOLEAN : DurableFails(read, busy)
      \/ AnswerTurns \/ EventsLost \/ \E ok \in BOOLEAN : CountLate(ok)
      \/ Prune \/ (\E s \in Sessions : EraseSession(s))
      \/ (\E c \in Threads : EraseThread(c))
      \/ Crash
  BY DEF Next, Sessioning, Writing, Erasing, vars, producers, thread, Resume, Keep,
   OpenSession, CloseSession,
   RecordTurn, TakeEvent, TakeOpen, TakeTurn, TakeClose, TakeStop, WriterEnds, Stop,
   Tombstoned, EventsWritten, EndMarker, Flush, Announce
<1> QED BY <1>1, <1>2, <1>3, <1>4, <1>5, <1>6, <1>7, <1>8, <1>9

LEMMA MarksFrame ==
  ASSUME [Next]_vars
  PROVE  \/ UNCHANGED <<incomplete, dead, flagged>>
         \/ DurableLands \/ Tombstoned
         \/ \E read, busy \in BOOLEAN : DurableFails(read, busy)
         \/ Prune \/ (\E s \in Sessions : EraseSession(s))
         \/ (\E c \in Threads : EraseThread(c))
         \/ Crash
BY DEF Next, Sessioning, Writing, Erasing, vars, producers, thread, database, Keep, RecordEvent,
   OpenSession, CloseSession, Resume, Stop,
   RecordTurn, TakeEvent, TakeOpen, TakeTurn, TakeClose, TakeStop, WriterEnds,
   AnswerTurns, EventsWritten, EventsLost, CountLate, EndMarker, Flush, Announce

\* A marker comes to its answer from its transaction.
LEMMA AnswerBegins ==
  ASSUME TypeOK, [Next]_vars, At("answer")', ~DurableLands,
         \A read, busy \in BOOLEAN : ~DurableFails(read, busy)
  PROVE  UNCHANGED marker /\ At("answer")
<1>1. CASE UNCHANGED marker
  BY <1>1 DEF At
<1>2. ~Tombstoned /\ ~EndMarker /\ ~Crash
  BY NoMarker DEF At, Busy
<1>3. (~TakeOpen /\ ~TakeTurn /\ ~TakeClose) \/ UNCHANGED marker
  <2>1. TakeOpen \/ TakeTurn \/ TakeClose => marker'.step = "durable"
    BY TakeStep DEF At, Busy
  <2> QED BY <2>1 DEF At
<1>4. ~AnswerTurns
  BY StepNeeds, MarkerStep, DecidedTells DEF At
<1>5. ~EventsWritten /\ ~EventsLost /\ \A ok \in BOOLEAN : ~CountLate(ok)
  BY StepNeeds, MarkerStep DEF At
<1>6. \A s \in Sessions : ~Flush(s)
  BY FlushStep DEF At, Busy
<1> QED BY <1>1, <1>2, <1>3, <1>4, <1>5, <1>6, MarkerFrame

LEMMA OwedStep ==
  ASSUME TypeOK, MarkerShape, NoOrphans, Owed, [Next]_vars
  PROVE  Owed'
<1> USE DEF SameMarks
<1>0. /\ marker.turns \in SUBSET Turns \/ ~Busy
      /\ DOMAIN seen = {"erased", "scrubbed", "strangers", "ours", "holes", "told",
                        "forgotten", "missing", "uncounted", "emitted", "erasures", "crashes"}
  BY SeenDomain, MarkerStep
<1>1. CASE DurableLands
  <2>1. /\ dead' = dead \cup Fresh
        /\ flagged' = flagged \cup ((incomplete \ Fresh) \cap (listed \cup ThreadsOf(Alive)))
        /\ incomplete' = (incomplete \ Fresh) \ (listed \cup ThreadsOf(Alive))
    BY <1>1 DEF DurableLands, Discard, Commits
  <2>2. SameMarks
    BY <1>0, <1>1 DEF DurableLands
  <2>3. marker'.turns = Alive /\ marker'.landed
    BY <1>1, StepNeeds, MarkerStep
  <2>4. ThreadsOf(Alive) \cap (dead \cup Fresh) = {}
    BY DEF ThreadsOf, Alive
  <2>5. ThreadsOf(marker.turns)' = ThreadsOf(Alive)
    BY <2>3 DEF ThreadsOf
  <2> QED BY <2>1, <2>2, <2>3, <2>4, <2>5 DEF Owed
<1>2. ASSUME NEW read \in BOOLEAN, NEW busy \in BOOLEAN, DurableFails(read, busy)
      PROVE  Owed'
  <2> DEFINE ts == IF read THEN Alive ELSE marker.turns
             owed == IF read THEN incomplete \ Fresh ELSE incomplete
  <2>1. /\ incomplete \cup dead \subseteq owed \cup dead'
        /\ flagged' = flagged
    BY <1>2 DEF DurableFails, Discard, database
  <2>2. SameMarks
    BY <1>0, <1>2 DEF DurableFails, Failed
  <2>3. marker'.turns = ts /\ ~marker'.landed
    BY <1>2, StepNeeds, MarkerStep DEF MarkerShape
  <2>4. \/ incomplete' = owed /\ marker' = [marker EXCEPT !.turns = ts, !.attempt = @ + 1]
        \/ incomplete' = owed \cup ThreadsOf(ts)
    BY <1>2 DEF DurableFails, Failed
  <2>5. At("answer")' => incomplete' = owed \cup ThreadsOf(ts)
    <3>1. Busy /\ marker.step = "durable" /\ marker \in Marker
      BY <1>2, StepNeeds, MarkerStep
    <3> HIDE DEF ts
    <3>2. marker' = [marker EXCEPT !.turns = ts, !.attempt = @ + 1] =>
            marker'.step = "durable"
      BY <3>1, MarkerDomain
    <3> QED BY <2>4, <3>2 DEF At
  <2>6. ThreadsOf(marker.turns)' = ThreadsOf(ts)
    BY <2>3 DEF ThreadsOf
  <2> HIDE DEF ts, owed
  <2>7. seen'.holes \subseteq incomplete' \cup flagged' \cup dead' \cup seen'.forgotten
    BY <2>1, <2>2, <2>4 DEF Owed
  <2> QED BY <2>1, <2>2, <2>3, <2>5, <2>6, <2>7 DEF Owed
<1>3. CASE Tombstoned
  <2>1. dead' = dead \cup Fresh /\ incomplete' = incomplete \ Fresh /\ flagged' = flagged
        /\ seen' = seen
    BY <1>3 DEF Tombstoned, Discard, database
  <2>2. ~At("answer")'
    BY <1>3, NoMarker DEF At, Busy
  <2> QED BY <2>1, <2>2 DEF Owed
<1>4. CASE AnswerTurns
  <2>1. UNCHANGED <<incomplete, dead, flagged>>
    BY <1>4 DEF AnswerTurns, database
  <2>2. ~At("answer")'
    BY <1>4, StepNeeds, MarkerStep, DecidedTells DEF At
  <2>3. At("answer")
    BY <1>4 DEF AnswerTurns
  <2>4. CASE marker.landed
    <3>1. /\ seen'.holes = seen.holes /\ seen'.forgotten = seen.forgotten
          /\ seen'.told = seen.told \cup (ThreadsOf(marker.turns) \cap seen.holes)
      BY <1>0, <1>4, <2>4 DEF AnswerTurns
    <3> QED BY <2>1, <2>2, <2>3, <2>4, <3>1 DEF Owed
  <2>5. CASE ~marker.landed
    <3>1. /\ seen'.holes = seen.holes \cup ThreadsOf(marker.turns)
          /\ seen'.told = seen.told \ ThreadsOf(marker.turns)
          /\ seen'.forgotten = seen.forgotten \ ThreadsOf(marker.turns)
      BY <1>0, <1>4, <2>5 DEF AnswerTurns
    <3> QED BY <2>1, <2>2, <2>3, <2>5, <3>1 DEF Owed
  <2> QED BY <2>4, <2>5
<1>5. CASE Prune \/ (\E s \in Sessions : EraseSession(s)) \/ (\E c \in Threads : EraseThread(c))
  <2>1. CASE UNCHANGED <<published, database, memory, seen>> /\ Prune
    <3>1. UNCHANGED <<incomplete, dead, flagged, marker, seen>>
      BY <2>1 DEF Prune, database
    <3> QED BY <3>1 DEF Owed, At, ThreadsOf
  <2>2. ASSUME NEW ts \in SUBSET rows, NEW gone \in SUBSET listed, NEW ss \in SUBSET Sessions,
               Remove(ts, gone, ss), UNCHANGED <<marker, incomplete, dead>>
        PROVE  Owed'
    <3>1. /\ seen'.holes = seen.holes \ gone /\ seen'.told = seen.told \ gone
          /\ seen'.forgotten = seen.forgotten \ gone
      BY <2>2, RemoveSeen
    <3>2. flagged' = flagged \ gone
      BY <2>2 DEF Remove
    <3>3. At("answer")' = At("answer") /\ ThreadsOf(marker.turns)' = ThreadsOf(marker.turns)
      BY <2>2 DEF At, ThreadsOf
    <3> QED BY <2>2, <3>1, <3>2, <3>3 DEF Owed
  <2> QED BY <1>5, <2>1, <2>2, Deletion
<1>6. CASE Crash
  <2>1. /\ seen'.holes = seen.holes /\ seen'.told = seen.told /\ flagged' = flagged
        /\ seen'.forgotten = seen.forgotten \cup (seen.holes \ flagged)
    BY <1>0, <1>6 DEF Crash, database
  <2>2. ~At("answer")'
    BY <1>6, NoMarker DEF At, Busy
  <2> QED BY <2>1, <2>2 DEF Owed
<1>7. ASSUME UNCHANGED <<incomplete, dead, flagged>>,
             SameMarks,
             ~DurableLands, \A read, busy \in BOOLEAN : ~DurableFails(read, busy)
      PROVE  Owed'
  <2>1. At("answer")' => UNCHANGED marker /\ At("answer")
    BY <1>7, AnswerBegins
  <2> QED BY <1>7, <2>1 DEF Owed, ThreadsOf
<1> QED BY <1>1, <1>2, <1>3, <1>4, <1>5, <1>6, <1>7, MarksFrame, LossesFrame

-----------------------------------------------------------------------------
(* What was lost of a session, counted.                                     *)

\* A session the writer has to do with was opened.
Begun == \A s \in Sessions :
  s \in batches \/ (Busy /\ marker.of = s) \/ ~Quiet(s) => session[s] # "away"

\* A close that was handed over is not answered before it is written.
Awaited == \A s \in Sessions : s \in Closes \/ Closing(s) => answer[s] = "waiting"

\* The losses of a session are counted in the process until its close is written,
\* and in its row from then on.
Counting(s) == \/ session[s] # "closed"
               \/ answer[s] = "waiting" /\ ~(Closing(s) /\ marker.step # "durable")
RowTells(s) ==
  Closing(s) /\ marker.landed /\ spine[s] = "closed" =>
    /\ marker.step \in {"events", "late"} => seen.uncounted[s] = 0
    /\ marker.step = "events" => tally[s] = seen.missing[s]
    /\ marker.step = "late" => tally[s] + held[s] = seen.missing[s]
    /\ marker.step = "end" => tally[s] + seen.uncounted[s] = seen.missing[s]
CountsOf(s) ==
  /\ session[s] = "away" => seen.missing[s] = 0
  /\ Counting(s) => /\ tally[s] = 0 /\ seen.uncounted[s] = 0
                    /\ dropped[s] + lost[s] = seen.missing[s]
  /\ RowTells(s)
  /\ spine[s] = "closed" /\ answer[s] = "landed" =>
       tally[s] + seen.uncounted[s] = seen.missing[s]
Counts == \A s \in Sessions : CountsOf(s)

LEMMA BegunStep ==
  ASSUME TypeOK, Begun, [Next]_vars
  PROVE  Begun'
<1>0. ProducerTypes
  BY TypeGroups
<1>1. ASSUME NEW s \in Sessions, s \in batches'
      PROVE  session'[s] # "away"
  <2>1. CASE TakeOpen /\ Item.of = s
    <3>1. ~Quiet(s)
      BY <1>0, <2>1, TakeStep, TailViews DEF Concerns, TakeOpen
    <3> QED BY <3>1, SessionsGoOn DEF Begun
  <2> QED BY <1>1, <2>1, BatchesGrow, SessionsGoOn DEF Begun
<1>2. ASSUME NEW s \in Sessions, Busy', marker'.of = s
      PROVE  session'[s] # "away"
  BY <1>2, MarkerBegins, SessionsGoOn DEF Begun
<1>3. ASSUME NEW s \in Sessions, ~Quiet(s)', Quiet(s)
      PROVE  session'[s] # "away"
  <2>1. ASSUME NEW r \in Sessions, NEW k \in {"open", "event", "close"},
               Queue([kind |-> k, of |-> r]), session'[r] # "away"
        PROVE  session'[s] # "away"
    <3>1. [kind |-> k, of |-> r] \in Records
      BY <2>1, RecordsTyped
    <3>2. Concerns([kind |-> k, of |-> r], s) => r = s
      BY <2>1 DEF Concerns
    <3> QED BY <1>0, <1>3, <2>1, <3>1, <3>2, AppendViews
  <2>2. ASSUME NEW t \in Turns, RecordTurn(t), Queue([kind |-> "turn", of |-> t])
        PROVE  session'[s] # "away"
    <3>1. [kind |-> "turn", of |-> t] \in Records
      BY RecordsTyped
    <3>2. Concerns([kind |-> "turn", of |-> t], s) => SessionOf[t] = s
      BY DEF Concerns
    <3>3. session'[SessionOf[t]] # "away"
      BY <2>2 DEF RecordTurn, Speaks
    <3> QED BY <1>0, <1>3, <2>2, <3>1, <3>2, <3>3, AppendViews
  <2>3. CASE Queue([kind |-> "stop"])
    <3>1. [kind |-> "stop"] \in Records /\ ~Concerns([kind |-> "stop"], s)
      BY RecordsTyped DEF Concerns
    <3> QED BY <1>0, <1>3, <2>3, <3>1, AppendViews
  <2>4. \A r \in Sessions : OpenSession(r) /\ ~stopped => session'[r] # "away"
    BY <1>0 DEF OpenSession, ProducerTypes
  <2>5. \A r \in Sessions : RecordEvent(r) \/ CloseSession(r) => session'[r] # "away"
    BY <1>0 DEF RecordEvent, CloseSession, ProducerTypes
  <2>6. ~UNCHANGED queue /\ queue' # <<>> /\ ~(queue # <<>> /\ queue' = Tail(queue))
    BY <1>0, <1>3, SameViews, EmptyViews, TailViews
  <2> QED BY <2>1, <2>2, <2>3, <2>4, <2>5, <2>6, QueueStep
<1> QED BY <1>1, <1>2, <1>3, SessionsGoOn DEF Begun

LEMMA AwaitedStep ==
  ASSUME TypeOK, WriterStops, ClosedLast, Awaited, [Next]_vars
  PROVE  Awaited'
<1>0. ProducerTypes /\ ProducerTypes'
  BY TypeGroups, ProducerStep
<1> SUFFICES ASSUME NEW s \in Sessions, s \in Closes' \/ Closing(s)'
             PROVE  answer'[s] = "waiting"
  BY DEF Awaited
<1>1. s \in Closes' => s \in Closes \/ (CloseSession(s) /\ ~stopped)
  <2>1. ASSUME NEW r \in Sessions, NEW k \in {"open", "event"},
               Queue([kind |-> k, of |-> r])
        PROVE  Closes' = Closes
    <3>1. [kind |-> k, of |-> r] \in Records
      BY <2>1, RecordsTyped
    <3> QED BY <1>0, <2>1, <3>1, AppendViews
  <2>2. ASSUME NEW t \in Turns, Queue([kind |-> "turn", of |-> t])
        PROVE  Closes' = Closes
    BY <1>0, <2>2, RecordsTyped, AppendViews
  <2>3. Queue([kind |-> "stop"]) => Closes' = Closes
    BY <1>0, RecordsTyped, AppendViews
  <2>4. ASSUME NEW r \in Sessions, Queue([kind |-> "close", of |-> r])
        PROVE  Closes' = Closes \cup {r}
    BY <1>0, <2>4, RecordsTyped, AppendViews
  <2>5. queue # <<>> /\ queue' = Tail(queue) => Closes' \subseteq Closes
    BY <1>0, TailViews
  <2> QED BY <2>1, <2>2, <2>3, <2>4, <2>5, QueueStep, SameViews, EmptyViews
<1>2. CASE CloseSession(s) /\ ~stopped
  BY <1>2 DEF CloseSession, Answered, Handles
<1>3. CASE ~CloseSession(s)
  <2>1. answer[s] = "waiting"
    <3>1. CASE s \in Closes' \/ Closing(s)
      BY <1>1, <1>3, <3>1 DEF Awaited
    <3>2. CASE TakeClose /\ Item.of = s
      <4>1. s \in Closes
        BY <1>0, <3>2, TakeStep, TailViews DEF TakeClose
      <4> QED BY <4>1 DEF Awaited
    <3> QED BY <3>1, <3>2, ClosingBegins
  <2>2. ASSUME TakeClose, Item.of = s, s \notin batches
        PROVE  FALSE
    <3>1. 1 \in DOMAIN queue /\ CloseAt(1) /\ queue[1].of = s /\ queue' = Tail(queue)
          /\ queue # <<>> /\ ~Busy
      BY <1>0, <2>2, TakeStep, TailAt DEF TakeClose, CloseAt
    <3>2. \A i \in DOMAIN queue' : /\ i + 1 \in DOMAIN queue /\ i + 1 > 1
                                   /\ queue'[i] = queue[i + 1]
      BY <1>0, <3>1, TailAt
    <3>3. s \notin Closes'
      BY <3>1, <3>2 DEF ClosedLast, Closes, CloseAt, About, TurnAt
    <3>4. ~Closing(s)'
      BY <2>2, <3>1, ClosingBegins DEF Closing
    <3> QED BY <3>3, <3>4
  <2>3. ASSUME Tombstoned \/ EndMarker, Closing(s)
        PROVE  FALSE
    <3>1. ~Closing(s)' /\ Quiet(s)' /\ session[s] = "closed"
      BY <2>3, NoMarker, QuietStays DEF Closing, ClosedLast
    <3>2. s \notin Closes'
      BY <3>1 DEF Quiet, Closes, About, TurnAt, CloseAt
    <3> QED BY <3>1, <3>2
  <2>4. ~Crash
    BY EmptyViews, NoMarker DEF Crash, Closing
  <2> QED BY <1>3, <2>1, <2>2, <2>3, <2>4, CloseAnswered
<1>4. CASE CloseSession(s) /\ stopped
  <2>1. s \notin Closes /\ ~Closing(s)
    <3>1. session[s] # "closed"
      BY <1>4 DEF CloseSession
    <3> QED BY <3>1 DEF ClosedLast, Closes, CloseAt
  <2>2. queue' = queue /\ marker' = marker
    BY <1>4 DEF CloseSession, thread
  <2> QED BY <2>1, <2>2, SameViews DEF Closing, Busy
<1> QED BY <1>2, <1>3, <1>4

LEMMA TallyFrame ==
  ASSUME [Next]_vars
  PROVE  /\ \/ UNCHANGED <<dropped, lost>>
            \/ \E s \in Sessions : RecordEvent(s)
            \/ \E read, busy \in BOOLEAN : DurableFails(read, busy)
            \/ EventsLost \/ Tombstoned \/ EndMarker \/ Crash
         /\ \/ UNCHANGED <<tally, spine>>
            \/ DurableLands \/ \E ok \in BOOLEAN : CountLate(ok)
            \/ Prune \/ (\E s \in Sessions : EraseSession(s))
            \/ (\E c \in Threads : EraseThread(c))
<1>1. \/ UNCHANGED <<dropped, lost>>
      \/ \E s \in Sessions : RecordEvent(s)
      \/ \E read, busy \in BOOLEAN : DurableFails(read, busy)
      \/ EventsLost \/ Tombstoned \/ EndMarker \/ Crash
  BY DEF Next, Sessioning, Writing, Erasing, vars, producers, thread, Keep, OpenSession,
   CloseSession, Resume, Stop, RecordTurn, TakeEvent, TakeOpen, TakeTurn, TakeClose, TakeStop,
   WriterEnds, DurableLands, AnswerTurns, EventsWritten, CountLate, Prune, Flush,
   EraseSession, EraseThread, Announce
<1>2. \/ UNCHANGED <<tally, spine>>
      \/ DurableLands \/ \E ok \in BOOLEAN : CountLate(ok)
      \/ Prune \/ (\E s \in Sessions : EraseSession(s))
      \/ (\E c \in Threads : EraseThread(c))
  BY DEF Next, Sessioning, Writing, Erasing, vars, database, Keep, RecordEvent,
   OpenSession, CloseSession, Resume, Stop, RecordTurn, TakeEvent, TakeOpen, TakeTurn,
   TakeClose, TakeStop, WriterEnds, Tombstoned, DurableFails, AnswerTurns, EventsWritten,
   EventsLost, EndMarker, Flush, Announce, Crash
<1> QED BY <1>1, <1>2

\* The counters of a session.
Same(s) == /\ dropped'[s] = dropped[s] /\ lost'[s] = lost[s]
           /\ tally'[s] = tally[s] /\ spine'[s] = spine[s]
           /\ seen'.missing[s] = seen.missing[s] /\ seen'.uncounted[s] = seen.uncounted[s]

\* What a step does to them.
LEMMA CountersStep ==
  ASSUME TypeOK, MarkerShape, NoOrphans, [Next]_vars, NEW s \in Sessions
  PROVE  \/ Same(s)
         \/ /\ RecordEvent(s)
            /\ dropped'[s] + lost'[s] - seen'.missing[s] = dropped[s] + lost[s] - seen.missing[s]
            /\ tally'[s] = tally[s] /\ spine'[s] = spine[s]
            /\ seen'.uncounted[s] = seen.uncounted[s]
         \/ /\ Busy /\ marker.of = s /\ marker.step = "durable" /\ DurableLands
            /\ dropped'[s] = dropped[s] /\ lost'[s] = lost[s]
            /\ seen'.missing[s] = seen.missing[s] /\ seen'.uncounted[s] = seen.uncounted[s]
            /\ IF marker.kind = "close"
                 THEN spine'[s] = "closed" /\ tally'[s] = tally[s] + dropped[s] + lost[s]
                 ELSE tally'[s] = tally[s] /\ (spine'[s] = "closed" => spine[s] = "closed")
         \/ /\ Busy /\ marker.of = s /\ ~marker.landed
            /\ \E read, busy \in BOOLEAN : DurableFails(read, busy)
            /\ dropped'[s] + lost'[s] - seen'.missing[s] = dropped[s] + lost[s] - seen.missing[s]
            /\ tally'[s] = tally[s] /\ spine'[s] = spine[s]
            /\ seen'.uncounted[s] = seen.uncounted[s]
         \/ /\ Busy /\ marker.of = s /\ marker.step = "events" /\ EventsLost
            /\ dropped'[s] = dropped[s] /\ lost'[s] = lost[s] + held[s]
            /\ seen'.missing[s] = seen.missing[s] + held[s]
            /\ tally'[s] = tally[s] /\ spine'[s] = spine[s]
            /\ seen'.uncounted[s] = seen.uncounted[s]
         \/ /\ Busy /\ marker.of = s /\ marker.step = "late" /\ \E ok \in BOOLEAN : CountLate(ok)
            /\ dropped'[s] = dropped[s] /\ lost'[s] = lost[s]
            /\ seen'.missing[s] = seen.missing[s] /\ spine'[s] = spine[s]
            /\ spine[s] = "closed" =>
                 tally'[s] + seen'.uncounted[s] = tally[s] + seen.uncounted[s] + held[s]
         \/ /\ (Tombstoned \/ EndMarker) /\ Closing(s)
            /\ dropped'[s] = dropped[s]
            /\ tally'[s] = tally[s] /\ spine'[s] = spine[s]
            /\ seen'.missing[s] = seen.missing[s] /\ seen'.uncounted[s] = seen.uncounted[s]
         \/ /\ Crash /\ dropped'[s] = 0 /\ lost'[s] = 0
            /\ tally'[s] = tally[s] /\ spine'[s] = spine[s]
            /\ seen'.missing[s] = seen.missing[s] /\ seen'.uncounted[s] = seen.uncounted[s]
         \/ /\ UNCHANGED <<session, answer, marker, held>>
            /\ dropped'[s] = dropped[s] /\ lost'[s] = lost[s]
            /\ seen'.missing[s] = seen.missing[s] /\ seen'.uncounted[s] = seen.uncounted[s]
            /\ tally'[s] = 0 /\ spine'[s] = "none"
<1>0. /\ dropped \in [Sessions -> Nat] /\ lost \in [Sessions -> Nat] /\ held \in [Sessions -> Nat]
      /\ tally \in [Sessions -> Nat] /\ spine \in [Sessions -> {"none", "open", "closed"}]
      /\ seen.missing \in [Sessions -> Nat] /\ seen.uncounted \in [Sessions -> Nat]
      /\ DOMAIN seen = {"erased", "scrubbed", "strangers", "ours", "holes", "told",
                        "forgotten", "missing", "uncounted", "emitted", "erasures", "crashes"}
  BY TypeGroups, SeenDomain DEF ProducerTypes, ThreadTypes, DatabaseTypes, SeenTypes, Seen
<1>1. ASSUME NEW r \in Sessions, RecordEvent(r)
      PROVE  \/ Same(s)
             \/ /\ r = s
                /\ dropped'[s] + lost'[s] - seen'.missing[s] =
                     dropped[s] + lost[s] - seen.missing[s]
                /\ tally'[s] = tally[s] /\ spine'[s] = spine[s]
                /\ seen'.uncounted[s] = seen.uncounted[s]
  <2>1. UNCHANGED <<lost, tally, spine>>
    BY <1>1 DEF RecordEvent, thread, database
  <2>2. \/ dropped' = dropped /\ seen'.missing = seen.missing
           /\ seen'.uncounted = seen.uncounted
        \/ /\ dropped' = [dropped EXCEPT ![r] = @ + 1]
           /\ seen'.missing = [seen.missing EXCEPT ![r] = @ + 1]
           /\ seen'.uncounted = seen.uncounted
    BY <1>0, <1>1 DEF RecordEvent, Add
  <2> QED BY <1>0, <2>1, <2>2 DEF Same
<1>2. ASSUME DurableLands
      PROVE  \/ Same(s)
             \/ /\ Busy /\ marker.of = s /\ marker.step = "durable"
                /\ dropped'[s] = dropped[s] /\ lost'[s] = lost[s]
                /\ seen'.missing[s] = seen.missing[s] /\ seen'.uncounted[s] = seen.uncounted[s]
                /\ IF marker.kind = "close"
                     THEN spine'[s] = "closed" /\ tally'[s] = tally[s] + dropped[s] + lost[s]
                     ELSE tally'[s] = tally[s] /\ (spine'[s] = "closed" => spine[s] = "closed")
  <2>1. Busy /\ marker.step = "durable" /\ marker.of \in Sessions
    BY <1>2, StepNeeds, MarkerStep
  <2>2. UNCHANGED <<dropped, lost>> /\ seen'.missing = seen.missing
        /\ seen'.uncounted = seen.uncounted
    BY <1>0, <1>2 DEF DurableLands
  <2>3. /\ tally' = IF marker.kind = "close"
                      THEN [tally EXCEPT ![marker.of] = @ + (dropped[marker.of] + lost[marker.of])]
                      ELSE tally
        /\ \/ marker.kind = "open" /\ spine' = [spine EXCEPT ![marker.of] = "open"]
           \/ marker.kind = "close" /\ spine' = [spine EXCEPT ![marker.of] = "closed"]
           \/ marker.kind \notin {"open", "close"}
              /\ spine' = [spine EXCEPT ![marker.of] = spine[marker.of]]
    BY <1>0, <1>2 DEF DurableLands, Add
  <2> QED BY <1>0, <2>1, <2>2, <2>3 DEF Same
<1>3. ASSUME NEW read \in BOOLEAN, NEW busy \in BOOLEAN, DurableFails(read, busy)
      PROVE  \/ Same(s)
             \/ /\ Busy /\ marker.of = s /\ ~marker.landed
                /\ dropped'[s] + lost'[s] - seen'.missing[s] =
                     dropped[s] + lost[s] - seen.missing[s]
                /\ tally'[s] = tally[s] /\ spine'[s] = spine[s]
                /\ seen'.uncounted[s] = seen.uncounted[s]
  <2> DEFINE ts == IF read THEN Alive ELSE marker.turns
  <2>1. Busy /\ ~marker.landed /\ marker.of \in Sessions /\ marker.turns \subseteq Turns
        /\ Alive \subseteq Turns
    BY <1>3, StepNeeds, MarkerStep, AliveTyped DEF MarkerShape
  <2>2. UNCHANGED <<dropped, tally, spine>>
    BY <1>3 DEF DurableFails, database
  <2>3. \/ lost' = lost /\ seen' = seen
        \/ /\ lost' = [lost EXCEPT ![marker.of] = @ + Cardinality(ts)]
           /\ seen' = [seen EXCEPT !.missing[marker.of] = @ + Cardinality(ts)]
    BY <1>3 DEF DurableFails, Failed, Add
  <2>4. Cardinality(ts) \in Nat
    BY <2>1, CardinalityTyped
  <2> HIDE DEF ts
  <2>5. \/ lost' = lost /\ seen'.missing = seen.missing /\ seen'.uncounted = seen.uncounted
        \/ /\ lost' = [lost EXCEPT ![marker.of] = @ + Cardinality(ts)]
           /\ seen'.missing = [seen.missing EXCEPT ![marker.of] = @ + Cardinality(ts)]
           /\ seen'.uncounted = seen.uncounted
    BY <1>0, <2>3
  <2> QED BY <1>0, <2>1, <2>2, <2>4, <2>5 DEF Same
<1>4. ASSUME EventsLost
      PROVE  \/ Same(s)
             \/ /\ Busy /\ marker.of = s /\ marker.step = "events"
                /\ dropped'[s] = dropped[s] /\ lost'[s] = lost[s] + held[s]
                /\ seen'.missing[s] = seen.missing[s] + held[s]
                /\ tally'[s] = tally[s] /\ spine'[s] = spine[s]
                /\ seen'.uncounted[s] = seen.uncounted[s]
  <2>1. Busy /\ marker.step = "events" /\ marker.of \in Sessions
    BY <1>4, StepNeeds, MarkerStep
  <2>2. UNCHANGED <<dropped, tally, spine>>
    BY <1>4 DEF EventsLost, producers, database
  <2>3. /\ lost' = [lost EXCEPT ![marker.of] = @ + held[marker.of]]
        /\ seen'.missing = [seen.missing EXCEPT ![marker.of] = @ + held[marker.of]]
        /\ seen'.uncounted = seen.uncounted
    BY <1>0, <1>4 DEF EventsLost, Add
  <2> QED BY <1>0, <2>1, <2>2, <2>3 DEF Same
<1>5. ASSUME NEW ok \in BOOLEAN, CountLate(ok)
      PROVE  \/ Same(s)
             \/ /\ Busy /\ marker.of = s /\ marker.step = "late"
                /\ dropped'[s] = dropped[s] /\ lost'[s] = lost[s]
                /\ seen'.missing[s] = seen.missing[s] /\ spine'[s] = spine[s]
                /\ spine[s] = "closed" =>
                     tally'[s] + seen'.uncounted[s] = tally[s] + seen.uncounted[s] + held[s]
  <2>1. Busy /\ marker.step = "late" /\ marker.of \in Sessions
    BY <1>5, StepNeeds, MarkerStep
  <2>2. UNCHANGED <<dropped, lost, spine>> /\ seen'.missing = seen.missing
    BY <1>0, <1>5 DEF CountLate, producers
  <2>3. CASE ok
    <3>1. /\ tally' = IF spine[marker.of] # "none"
                        THEN [tally EXCEPT ![marker.of] = @ + held[marker.of]] ELSE tally
          /\ seen'.uncounted = seen.uncounted
      BY <1>5, <2>3 DEF CountLate, Add
    <3> QED BY <1>0, <2>1, <2>2, <3>1 DEF Same
  <2>4. CASE ~ok
    <3>1. /\ tally' = tally
          /\ seen'.uncounted = [seen.uncounted EXCEPT ![marker.of] = @ + held[marker.of]]
      BY <1>0, <1>5, <2>4 DEF CountLate, Add
    <3> QED BY <1>0, <2>1, <2>2, <3>1 DEF Same
  <2> QED BY <2>3, <2>4
<1>6. ASSUME Tombstoned \/ EndMarker
      PROVE  \/ Same(s)
             \/ /\ Closing(s) /\ dropped'[s] = dropped[s]
                /\ tally'[s] = tally[s] /\ spine'[s] = spine[s]
                /\ seen'.missing[s] = seen.missing[s] /\ seen'.uncounted[s] = seen.uncounted[s]
  <2>1. Busy /\ marker.of \in Sessions
    BY <1>6, StepNeeds, MarkerStep
  <2>2. UNCHANGED <<dropped, tally, spine, seen>>
    BY <1>6 DEF Tombstoned, EndMarker, database
  <2>3. lost' = IF marker.kind = "close" THEN [lost EXCEPT ![marker.of] = 0] ELSE lost
    BY <1>6 DEF Tombstoned, EndMarker
  <2> QED BY <1>0, <2>1, <2>2, <2>3 DEF Same, Closing
<1>7. ASSUME Crash
      PROVE  /\ dropped'[s] = 0 /\ lost'[s] = 0
             /\ tally'[s] = tally[s] /\ spine'[s] = spine[s]
             /\ seen'.missing[s] = seen.missing[s] /\ seen'.uncounted[s] = seen.uncounted[s]
  BY <1>0, <1>7 DEF Crash, None, database
<1>8. ASSUME Prune \/ (\E r \in Sessions : EraseSession(r)) \/ (\E c \in Threads : EraseThread(c))
      PROVE  \/ Same(s)
             \/ /\ UNCHANGED <<session, answer, marker, held>>
                /\ dropped'[s] = dropped[s] /\ lost'[s] = lost[s]
                /\ seen'.missing[s] = seen.missing[s] /\ seen'.uncounted[s] = seen.uncounted[s]
                /\ tally'[s] = 0 /\ spine'[s] = "none"
  <2>1. CASE Prune /\ UNCHANGED <<published, database, memory, seen>>
    BY <2>1 DEF Same, Prune, producers, database
  <2>2. ASSUME NEW ts \in SUBSET rows, NEW gone \in SUBSET listed, NEW ss \in SUBSET Sessions,
               Remove(ts, gone, ss),
               UNCHANGED <<queue, stopped, inFlight, dropped, session, holds, answer, marker,
                           batches, held, lost, incomplete, written, dead>>
        PROVE  \/ Same(s)
               \/ /\ UNCHANGED <<session, answer, marker, held>>
                  /\ dropped'[s] = dropped[s] /\ lost'[s] = lost[s]
                  /\ seen'.missing[s] = seen.missing[s]
                  /\ seen'.uncounted[s] = seen.uncounted[s]
                  /\ tally'[s] = 0 /\ spine'[s] = "none"
    <3>1. seen'.missing = seen.missing /\ seen'.uncounted = seen.uncounted
      BY <2>2, RemoveSeen
    <3>2. /\ spine'[s] = IF s \in ss THEN "none" ELSE spine[s]
          /\ tally'[s] = IF s \in ss THEN 0 ELSE tally[s]
      BY <2>2 DEF Remove
    <3> QED BY <2>2, <3>1, <3>2 DEF Same
  <2> QED BY <1>8, <2>1, <2>2, Deletion
<1>9. ASSUME UNCHANGED <<dropped, lost, tally, spine>>, seen'.missing = seen.missing,
             seen'.uncounted = seen.uncounted
      PROVE  Same(s)
  BY <1>9 DEF Same
<1> QED BY <1>1, <1>2, <1>3, <1>4, <1>5, <1>6, <1>7, <1>8, <1>9, TallyFrame, LossesFrame

\* A session that counts in the process did so before.
LEMMA CountingBefore ==
  ASSUME TypeOK, MarkerShape, WriterStops, ClosedLast, [Next]_vars, NEW s \in Sessions,
         Counting(s)'
  PROVE  Counting(s)
<1>1. CASE session'[s] # "closed"
  BY <1>1, SessionsGoOn DEF Counting
<1>2. CASE session[s] # "closed"
  BY <1>2 DEF Counting
<1>3. CASE session[s] = "closed" /\ session'[s] = "closed"
  <2>1. answer'[s] = "waiting" /\ ~(Closing(s)' /\ marker'.step # "durable")
    BY <1>3 DEF Counting
  <2>2. answer[s] = "waiting"
    BY <1>3, <2>1, CloseAnswered DEF CloseSession
  <2>3. ASSUME Closing(s), marker.step # "durable"
        PROVE  FALSE
    <3>1. ~Tombstoned /\ ~EndMarker /\ ~Crash
      BY <2>1, <2>2, <2>3, StepNeeds DEF EndMarker, Closing, Crash, Answered, Handles
    <3>2. Closing(s)'
      BY <2>3, <3>1, ClosingStays
    <3>3. marker'.step = "durable"
      BY <2>1, <3>2
    <3>4. ~UNCHANGED marker
      BY <2>3, <3>3
    <3>5. ~DurableLands /\ \A read, busy \in BOOLEAN : ~DurableFails(read, busy)
      BY <2>3, StepNeeds
    <3>6. Busy
      BY <2>3 DEF Closing
    <3>7. ~AnswerTurns
      BY <3>3, <3>6, MarkerStep, DecidedTells
    <3>8. ~EventsWritten /\ ~EventsLost /\ \A ok \in BOOLEAN : ~CountLate(ok)
      BY <3>3, <3>6, MarkerStep
    <3>9. ~TakeOpen /\ ~TakeTurn /\ ~TakeClose /\ \A r \in Sessions : ~Flush(r)
      BY <3>6, TakeStep, FlushStep
    <3> QED BY <3>1, <3>4, <3>5, <3>7, <3>8, <3>9, MarkerFrame
  <2> QED BY <2>2, <2>3 DEF Counting
<1> QED BY <1>1, <1>2, <1>3

LEMMA CountersTyped ==
  ASSUME TypeOK, NEW s \in Sessions
  PROVE  /\ dropped[s] \in Nat /\ lost[s] \in Nat /\ held[s] \in Nat /\ tally[s] \in Nat
         /\ seen.missing[s] \in Nat /\ seen.uncounted[s] \in Nat
BY TypeGroups DEF ProducerTypes, ThreadTypes, DatabaseTypes, SeenTypes, Seen

\* What the steps of a close in hand do to the counters of its session.
LEMMA ClosingStep ==
  ASSUME TypeOK, MarkerShape, NEW s \in Sessions, Closing(s)
  PROVE  /\ DurableLands =>
              /\ dropped'[s] = dropped[s] /\ lost'[s] = lost[s]
              /\ seen'.missing[s] = seen.missing[s] /\ seen'.uncounted[s] = seen.uncounted[s]
              /\ tally'[s] = tally[s] + dropped[s] + lost[s]
         /\ EventsWritten => Same(s)
         /\ EventsLost =>
              /\ seen'.missing[s] = seen.missing[s] + held[s]
              /\ seen'.uncounted[s] = seen.uncounted[s]
              /\ tally'[s] = tally[s] /\ held' = held
         /\ \A ok \in BOOLEAN : CountLate(ok) =>
              /\ seen'.missing[s] = seen.missing[s] /\ spine'[s] = spine[s]
              /\ spine[s] = "closed" =>
                   tally'[s] + seen'.uncounted[s] = tally[s] + seen.uncounted[s] + held[s]
<1>0. /\ dropped \in [Sessions -> Nat] /\ lost \in [Sessions -> Nat] /\ held \in [Sessions -> Nat]
      /\ tally \in [Sessions -> Nat]
      /\ seen.missing \in [Sessions -> Nat] /\ seen.uncounted \in [Sessions -> Nat]
      /\ DOMAIN seen = {"erased", "scrubbed", "strangers", "ours", "holes", "told",
                        "forgotten", "missing", "uncounted", "emitted", "erasures", "crashes"}
      /\ marker.kind = "close" /\ marker.of = s
  BY TypeGroups, SeenDomain DEF ProducerTypes, ThreadTypes, DatabaseTypes, SeenTypes, Seen,
     Closing
<1>1. ASSUME DurableLands
      PROVE  /\ dropped'[s] = dropped[s] /\ lost'[s] = lost[s]
             /\ seen'.missing[s] = seen.missing[s] /\ seen'.uncounted[s] = seen.uncounted[s]
             /\ tally'[s] = tally[s] + dropped[s] + lost[s]
  <2>1. UNCHANGED <<dropped, lost>> /\ seen'.missing = seen.missing
        /\ seen'.uncounted = seen.uncounted
    BY <1>0, <1>1 DEF DurableLands
  <2>2. tally' = [tally EXCEPT ![s] = @ + (dropped[s] + lost[s])]
    BY <1>0, <1>1 DEF DurableLands, Add
  <2> QED BY <1>0, <2>1, <2>2
<1>2. EventsWritten => Same(s)
  BY DEF EventsWritten, producers, Same
<1>3. ASSUME EventsLost
      PROVE  /\ seen'.missing[s] = seen.missing[s] + held[s]
             /\ seen'.uncounted[s] = seen.uncounted[s]
             /\ tally'[s] = tally[s] /\ held' = held
  <2>1. /\ seen'.missing = [seen.missing EXCEPT ![s] = @ + held[s]]
        /\ seen'.uncounted = seen.uncounted
    BY <1>0, <1>3 DEF EventsLost
  <2>2. UNCHANGED <<tally, held>>
    BY <1>3 DEF EventsLost, database
  <2> QED BY <1>0, <2>1, <2>2
<1>4. ASSUME NEW ok \in BOOLEAN, CountLate(ok)
      PROVE  /\ seen'.missing[s] = seen.missing[s] /\ spine'[s] = spine[s]
             /\ spine[s] = "closed" =>
                  tally'[s] + seen'.uncounted[s] = tally[s] + seen.uncounted[s] + held[s]
  <2>1. UNCHANGED spine /\ seen'.missing = seen.missing
    BY <1>0, <1>4 DEF CountLate
  <2>2. CASE ok
    <3>1. /\ tally' = IF spine[s] # "none" THEN [tally EXCEPT ![s] = @ + held[s]] ELSE tally
          /\ seen'.uncounted = seen.uncounted
      BY <1>0, <1>4, <2>2 DEF CountLate, Add
    <3> QED BY <1>0, <2>1, <3>1
  <2>3. CASE ~ok
    <3>1. tally' = tally /\ seen'.uncounted = [seen.uncounted EXCEPT ![s] = @ + held[s]]
      BY <1>0, <1>4, <2>3 DEF CountLate
    <3> QED BY <1>0, <2>1, <3>1
  <2> QED BY <2>2, <2>3
<1> QED BY <1>1, <1>2, <1>3, <1>4

\* A session that counts in the process goes on counting right.
LEMMA CountingStep ==
  ASSUME TypeOK, MarkerShape, NoOrphans, WriterStops, ClosedLast, Begun, [Next]_vars,
         NEW s \in Sessions, CountsOf(s), Counting(s)'
  PROVE  tally'[s] = 0 /\ seen'.uncounted[s] = 0 /\ dropped'[s] + lost'[s] = seen'.missing[s]
<1>0. /\ tally[s] = 0 /\ seen.uncounted[s] = 0 /\ dropped[s] + lost[s] = seen.missing[s]
      /\ Counting(s)
  BY CountingBefore DEF CountsOf
<1>1. TypeOK'
  BY TypeStep
<1>2. /\ dropped'[s] \in Nat /\ lost'[s] \in Nat /\ seen'.missing[s] \in Nat
      /\ tally'[s] \in Nat /\ seen'.uncounted[s] \in Nat
  BY <1>1 DEF TypeOK, Seen
<1>3. Closing(s) => marker.step = "durable"
  BY <1>0 DEF Counting, ClosedLast
<1>4. ASSUME Busy, marker.of = s, marker.step = "durable", DurableLands, marker.kind = "close"
      PROVE  FALSE
  <2>1. Closing(s)' /\ marker'.step # "durable"
    BY <1>4, MarkerStep, DecidedTells DEF Closing
  <2>2. session'[s] = "closed"
    BY <1>4, SessionsGoOn DEF ClosedLast, Closing
  <2> QED BY <2>1, <2>2 DEF Counting
<1>5. ASSUME Tombstoned \/ EndMarker, Closing(s)
      PROVE  FALSE
  <2>1. session'[s] = "closed"
    BY <1>5, SessionsGoOn DEF ClosedLast
  <2>2. Tombstoned
    BY <1>3, <1>5, StepNeeds
  <2>3. answer'[s] # "waiting"
    BY <1>5, <2>2 DEF Tombstoned, Closing, Answered, Handles
  <2> QED BY <2>1, <2>3 DEF Counting
<1>6. ASSUME Crash
      PROVE  seen.missing[s] = 0
  <2>1. answer'[s] # "waiting"
    BY <1>6 DEF Crash, Handles
  <2>2. session'[s] # "closed"
    BY <2>1 DEF Counting
  <2>3. session[s] = "away"
    BY <1>6, <2>2, TypeGroups DEF Crash, ProducerTypes
  <2> QED BY <2>3 DEF CountsOf
<1>7. ~(Busy /\ marker.of = s /\ marker.step = "late")
  BY <1>3 DEF MarkerShape, Closing
<1>8. /\ dropped[s] \in Nat /\ lost[s] \in Nat /\ seen.missing[s] \in Nat
      /\ tally[s] \in Nat /\ seen.uncounted[s] \in Nat /\ held[s] \in Nat
  BY CountersTyped
<1>9. /\ DurableLands /\ Busy /\ marker.of = s /\ marker.step = "durable" =>
           marker.kind # "close"
      /\ ~((Tombstoned \/ EndMarker) /\ Closing(s))
      /\ Crash => seen.missing[s] = 0
  BY <1>4, <1>5, <1>6
<1>10. tally'[s] = 0 /\ seen'.uncounted[s] = 0
  <2>1. \/ tally'[s] = tally[s] /\ seen'.uncounted[s] = seen.uncounted[s]
        \/ tally'[s] = 0 /\ seen'.uncounted[s] = seen.uncounted[s]
    BY <1>7, <1>9, CountersStep DEF Same
  <2> QED BY <1>0, <2>1
<1>11. \/ dropped'[s] + lost'[s] - seen'.missing[s] = dropped[s] + lost[s] - seen.missing[s]
       \/ dropped'[s] = 0 /\ lost'[s] = 0 /\ seen'.missing[s] = 0
  BY <1>7, <1>8, <1>9, CountersStep, SMTT(30) DEF Same
<1>12. dropped[s] + lost[s] = seen.missing[s]
  BY <1>0
<1>13. dropped'[s] + lost'[s] = seen'.missing[s]
  BY ONLY <1>2, <1>8, <1>11, <1>12, SMTT(30)
<1> QED BY <1>10, <1>13

LEMMA RowStep ==
  ASSUME TypeOK, MarkerShape, NoOrphans, ClosedLast, Awaited, [Next]_vars,
         NEW s \in Sessions, CountsOf(s)
  PROVE  RowTells(s)'
<1> SUFFICES ASSUME Closing(s)', marker'.landed, spine'[s] = "closed"
             PROVE  /\ marker'.step \in {"events", "late"} => seen'.uncounted[s] = 0
                    /\ marker'.step = "events" => tally'[s] = seen'.missing[s]
                    /\ marker'.step = "late" => tally'[s] + held'[s] = seen'.missing[s]
                    /\ marker'.step = "end" => tally'[s] + seen'.uncounted[s] = seen'.missing[s]
  BY DEF RowTells
<1>0. /\ dropped[s] \in Nat /\ lost[s] \in Nat /\ seen.missing[s] \in Nat
      /\ tally[s] \in Nat /\ seen.uncounted[s] \in Nat /\ held[s] \in Nat
  BY CountersTyped
<1>1. Closing(s) /\ Busy
  <2>1. ~TakeClose
    BY TakeStep DEF Closing
  <2> QED BY <2>1, ClosingBegins DEF Closing
<1>2. session[s] = "closed" /\ answer[s] = "waiting"
  BY <1>1 DEF ClosedLast, Awaited
<1>3. ~Tombstoned /\ ~EndMarker /\ ~Crash
  BY NoMarker DEF Closing
<1>4. CASE UNCHANGED marker
  <2>1. marker.landed /\ marker.step # "durable"
    BY <1>1, <1>4 DEF MarkerShape
  <2>2. /\ ~DurableLands /\ ~EventsLost /\ (\A ok \in BOOLEAN : ~CountLate(ok))
        /\ \A read, busy \in BOOLEAN : ~DurableFails(read, busy)
    BY <1>1, <1>4, <2>1, StepNeeds, MarkerStep
  <2>3. ~RecordEvent(s)
    BY <1>2 DEF RecordEvent
  <2>4. Same(s)
    BY <1>3, <2>2, <2>3, CountersStep
  <2>5. held' = held
    <3>1. ~TakeEvent
      BY <1>1, TakeStep
    <3> QED BY <1>3, <3>1, HeldFrame
  <2>6. RowTells(s) /\ spine[s] = "closed"
    BY <2>4 DEF CountsOf, Same
  <2> QED BY <1>1, <1>4, <2>1, <2>4, <2>5, <2>6 DEF RowTells, Same
<1>5. CASE DurableLands
  <2>1. tally[s] = 0 /\ seen.uncounted[s] = 0 /\ dropped[s] + lost[s] = seen.missing[s]
    <3>1. Counting(s)
      BY <1>2, <1>5, StepNeeds DEF Counting
    <3> QED BY <3>1 DEF CountsOf
  <2>2. tally'[s] = seen'.missing[s] /\ seen'.uncounted[s] = 0
    BY <1>0, <1>1, <1>5, <2>1, ClosingStep
  <2>3. marker'.step \in {"answer", "events", "end"}
    BY <1>1, <1>5, MarkerStep, DecidedTells
  <2> QED BY <1>0, <1>1, <1>5, <2>1, <2>2, <2>3, ClosingStep
<1>6. CASE EventsWritten
  <2>1. /\ Same(s) /\ marker.step = "events" /\ marker'.step = "end" /\ marker.landed
    BY <1>1, <1>6, StepNeeds, MarkerStep, ClosingStep
  <2>2. RowTells(s) /\ spine[s] = "closed"
    BY <2>1 DEF CountsOf, Same
  <2> QED BY <1>0, <1>1, <2>1, <2>2 DEF RowTells, Same
<1>7. CASE EventsLost
  <2>1. /\ marker.step = "events" /\ marker'.step = "late" /\ marker.landed
        /\ spine[s] = "closed"
    BY <1>1, <1>7, StepNeeds, MarkerStep DEF Closing, EventsLost, database
  <2>2. seen.uncounted[s] = 0 /\ tally[s] = seen.missing[s]
    BY <1>1, <2>1 DEF CountsOf, RowTells
  <2> QED BY <1>0, <1>1, <1>7, <2>1, <2>2, ClosingStep
<1>8. ASSUME NEW ok \in BOOLEAN, CountLate(ok)
      PROVE  marker'.step = "end" /\ tally'[s] + seen'.uncounted[s] = seen'.missing[s]
  <2>1. /\ marker.step = "late" /\ marker'.step = "end" /\ marker.landed
        /\ spine'[s] = spine[s] /\ seen'.missing[s] = seen.missing[s]
    BY <1>1, <1>8, StepNeeds, MarkerStep, ClosingStep
  <2>2. seen.uncounted[s] = 0 /\ tally[s] + held[s] = seen.missing[s]
    BY <1>1, <2>1 DEF CountsOf, RowTells
  <2>3. tally'[s] + seen'.uncounted[s] = tally[s] + seen.uncounted[s] + held[s]
    BY <1>1, <1>8, <2>1, ClosingStep
  <2> QED BY <1>0, <2>1, <2>2, <2>3
<1>9. ~AnswerTurns
  BY <1>1, StepNeeds DEF MarkerShape, Closing
<1>10. \A read, busy \in BOOLEAN : ~DurableFails(read, busy)
  BY <1>1, StepNeeds, MarkerStep DEF MarkerShape
<1>11. ~TakeOpen /\ ~TakeTurn /\ ~TakeClose /\ \A r \in Sessions : ~Flush(r)
  BY <1>1, TakeStep, FlushStep
<1> QED BY <1>3, <1>4, <1>5, <1>6, <1>7, <1>8, <1>9, <1>10, <1>11, MarkerFrame

LEMMA ToldStep ==
  ASSUME TypeOK, MarkerShape, NoOrphans, WriterStops, ClosedLast, SettledQuiet, [Next]_vars,
         NEW s \in Sessions, CountsOf(s), spine'[s] = "closed", answer'[s] = "landed"
  PROVE  tally'[s] + seen'.uncounted[s] = seen'.missing[s]
<1>1. CASE answer[s] = "landed"
  <2>1. (Busy => marker.of # s) /\ session[s] = "closed"
    BY <1>1 DEF SettledQuiet, Settled
  <2>2. tally'[s] = tally[s] /\ spine'[s] = spine[s] /\ seen'.missing[s] = seen.missing[s]
        /\ seen'.uncounted[s] = seen.uncounted[s]
    BY <2>1, CountersStep DEF Same, RecordEvent, Closing
  <2> QED BY <1>1, <2>2 DEF CountsOf
<1>2. CASE answer[s] # "landed"
  <2>1. EndMarker /\ Closing(s) /\ marker.landed
    <3>1. EndMarker /\ Closing(s) /\ answer'[s] = (IF marker.landed THEN "landed" ELSE "refused")
      BY <1>2, CloseAnswered
    <3> QED BY <3>1
  <2>2. UNCHANGED <<tally, spine, seen>> /\ marker.step = "end"
    BY <2>1, StepNeeds DEF EndMarker, database
  <2> QED BY <2>1, <2>2 DEF CountsOf, RowTells
<1> QED BY <1>1, <1>2

LEMMA CountsStep ==
  ASSUME TypeOK, MarkerShape, NoOrphans, HandlesInv, Begun, Awaited, Counts, [Next]_vars
  PROVE  Counts'
<1> SUFFICES ASSUME NEW s \in Sessions
             PROVE  CountsOf(s)'
  BY DEF Counts
<1>1. WriterStops /\ ClosedLast /\ SettledQuiet /\ CountsOf(s)
  BY DEF HandlesInv, Counts
<1>2. session'[s] = "away" => seen'.missing[s] = 0
  <2> SUFFICES ASSUME session'[s] = "away"
               PROVE  seen'.missing[s] = 0
    OBVIOUS
  <2>1. session[s] = "away" /\ seen.missing[s] = 0
    BY <1>1, SessionsGoOn DEF CountsOf
  <2>2. ~(Busy /\ marker.of = s) /\ ~RecordEvent(s) /\ ~Closing(s)
    BY <2>1 DEF Begun, RecordEvent, Closing
  <2> QED BY <2>1, <2>2, CountersStep DEF Same
<1>3. Counting(s)' => /\ tally'[s] = 0 /\ seen'.uncounted[s] = 0
                      /\ dropped'[s] + lost'[s] = seen'.missing[s]
  BY <1>1, CountingStep
<1>4. RowTells(s)'
  BY <1>1, RowStep
<1>5. spine'[s] = "closed" /\ answer'[s] = "landed" =>
        tally'[s] + seen'.uncounted[s] = seen'.missing[s]
  BY <1>1, ToldStep
<1> QED BY <1>2, <1>3, <1>4, <1>5 DEF CountsOf

\* What was lost and told, and what it says.
LossesInv == Owed /\ Begun /\ Awaited /\ Counts

LEMMA LossesInvStep ==
  ASSUME TypeOK, MarkerShape, NoOrphans, HandlesInv, LossesInv, [Next]_vars
  PROVE  LossesInv'
BY OwedStep, BegunStep, AwaitedStep, CountsStep DEF LossesInv, HandlesInv

LEMMA LossesTell ==
  ASSUME LossesInv
  PROVE  LossesTold
BY DEF LossesInv, LossesTold, Owed, Counts, CountsOf

-----------------------------------------------------------------------------
(* The allowance.                                                           *)

QueuedEvents == {i \in DOMAIN queue : queue[i].kind = "event"}
HeldBy(h) == UNION {{s} \X (1 .. h[s]) : s \in Sessions}

LEMMA QueuedEventsFinite ==
  ASSUME ProducerTypes
  PROVE  IsFiniteSet(QueuedEvents) /\ Cardinality(QueuedEvents) \in Nat
<1>1. DOMAIN queue = 1 .. Len(queue) /\ Len(queue) \in Nat
  BY DEF ProducerTypes
<1>2. IsFiniteSet(1 .. Len(queue))
  BY <1>1, FS_Interval
<1> QED BY <1>1, <1>2, FS_Subset, FS_CardinalityType DEF QueuedEvents

\* A record handed over is one more where it is an event.
LEMMA EventAppended ==
  ASSUME ProducerTypes, NEW r \in Records, Queue(r)
  PROVE  Cardinality(QueuedEvents') =
           Cardinality(QueuedEvents) + (IF r.kind = "event" THEN 1 ELSE 0)
<1> DEFINE n == Len(queue) + 1
<1>1. /\ DOMAIN queue' = DOMAIN queue \cup {n} /\ n \notin DOMAIN queue
      /\ \A i \in DOMAIN queue : queue'[i] = queue[i]
      /\ queue'[n] = r
  <2>1. \A k \in Nat : 1 .. k + 1 = (1 .. k) \cup {k + 1} /\ k + 1 \notin 1 .. k
    OBVIOUS
  <2> QED BY <2>1, AppendAt
<1> HIDE DEF n
<1>2. QueuedEvents' = IF r.kind = "event" THEN QueuedEvents \cup {n} ELSE QueuedEvents
  BY <1>1 DEF QueuedEvents
<1>3. n \notin QueuedEvents
  BY <1>1 DEF QueuedEvents
<1>4. IsFiniteSet(QueuedEvents) /\ Cardinality(QueuedEvents) \in Nat
  BY QueuedEventsFinite
<1>5. Cardinality(QueuedEvents \cup {n}) = Cardinality(QueuedEvents) + 1
  BY <1>3, <1>4, FS_AddElement
<1> QED BY <1>2, <1>4, <1>5

\* A record taken is one less.
LEMMA EventTaken ==
  ASSUME ProducerTypes, queue # <<>>, queue' = Tail(queue)
  PROVE  Cardinality(QueuedEvents') =
           Cardinality(QueuedEvents) - (IF Item.kind = "event" THEN 1 ELSE 0)
<1> DEFINE S == QueuedEvents \ {1}
           f == [i \in QueuedEvents' |-> i + 1]
<1>1. /\ DOMAIN queue = 1 .. Len(queue) /\ DOMAIN queue' = 1 .. Len(queue) - 1
      /\ Len(queue) \in Nat
      /\ \A i \in DOMAIN queue' : i + 1 \in DOMAIN queue /\ queue'[i] = queue[i + 1]
      /\ Item = queue[1] /\ 1 \in DOMAIN queue
  BY TailAt
<1>2. IsFiniteSet(QueuedEvents) /\ Cardinality(QueuedEvents) \in Nat
  BY QueuedEventsFinite
<1>3. QueuedEvents' \subseteq Int /\ \A i \in QueuedEvents' : i + 1 \in S
  BY <1>1 DEF QueuedEvents
<1>4. \A j \in S : j - 1 \in QueuedEvents' /\ (j - 1) + 1 = j
  <2> SUFFICES ASSUME NEW j \in S
               PROVE  j - 1 \in QueuedEvents' /\ (j - 1) + 1 = j
    OBVIOUS
  <2>1. j \in 2 .. Len(queue) /\ queue[j].kind = "event"
    BY <1>1 DEF QueuedEvents
  <2>2. j - 1 \in DOMAIN queue' /\ (j - 1) + 1 = j
    BY <1>1, <2>1
  <2>3. queue'[j - 1] = queue[j]
    BY <1>1, <2>2
  <2> QED BY <2>1, <2>2, <2>3 DEF QueuedEvents
<1>5. f \in Bijection(QueuedEvents', S)
  <2>1. f \in [QueuedEvents' -> S]
    BY <1>3
  <2>2. \A a, b \in QueuedEvents' : f[a] = f[b] => a = b
    BY <1>3
  <2>3. \A j \in S : \E i \in QueuedEvents' : f[i] = j
    <3> SUFFICES ASSUME NEW j \in S
                 PROVE  \E i \in QueuedEvents' : f[i] = j
      OBVIOUS
    <3>1. j - 1 \in QueuedEvents' /\ f[j - 1] = j
      BY <1>4
    <3> QED BY <3>1
  <2> QED BY <2>1, <2>2, <2>3 DEF Bijection, Injection, Surjection, IsInjective
<1>6. IsFiniteSet(S)
  BY <1>2, FS_RemoveElement
<1>7. IsFiniteSet(QueuedEvents') /\ Cardinality(QueuedEvents') \in Nat
  <2>1. queue' \in Seq(Records)
    BY HeadTailProperties DEF ProducerTypes
  <2>2. DOMAIN queue' = 1 .. Len(queue') /\ Len(queue') \in Nat
    BY <2>1, LenProperties
  <2>3. IsFiniteSet(1 .. Len(queue'))
    BY <2>2, FS_Interval
  <2> QED BY <2>2, <2>3, FS_Subset, FS_CardinalityType DEF QueuedEvents
<1>8. Cardinality(S) = Cardinality(QueuedEvents')
  BY <1>5, <1>7, FS_Bijection DEF ExistsBijection
<1>9. Cardinality(S) = IF 1 \in QueuedEvents THEN Cardinality(QueuedEvents) - 1
                                             ELSE Cardinality(QueuedEvents)
  BY <1>2, FS_RemoveElement
<1>10. 1 \in QueuedEvents <=> Item.kind = "event"
  BY <1>1 DEF QueuedEvents
<1> HIDE DEF S, f
<1> QED BY <1>2, <1>8, <1>9, <1>10

\* What the batches hold.
LEMMA HeldFinite ==
  ASSUME NEW h \in [Sessions -> Nat]
  PROVE  /\ IsFiniteSet(HeldBy(h)) /\ Cardinality(HeldBy(h)) \in Nat
         /\ \A p : p \in HeldBy(h) <=> \E s \in Sessions : \E k \in 1 .. h[s] : p = <<s, k>>
<1> DEFINE f == [s \in Sessions |-> {s} \X (1 .. h[s])]
           parts == {f[s] : s \in Sessions}
<1>1. f \in Surjection(Sessions, parts)
  <2>1. f \in [Sessions -> parts] /\ \A p \in parts : \E s \in Sessions : f[s] = p
    OBVIOUS
  <2> QED BY <2>1 DEF Surjection
<1>2. IsFiniteSet(parts)
  BY <1>1, FS_Surjection
<1>3. \A p \in parts : IsFiniteSet(p)
  <2> SUFFICES ASSUME NEW s \in Sessions
               PROVE  IsFiniteSet({s} \X (1 .. h[s]))
    OBVIOUS
  <2>0. 1 \in Int /\ h[s] \in Int
    OBVIOUS
  <2>1. IsFiniteSet({s}) /\ IsFiniteSet(1 .. h[s])
    BY <2>0, FS_Singleton, FS_Interval
  <2> QED BY <2>1, FS_Product
<1>4. HeldBy(h) = UNION parts
  BY DEF HeldBy
<1>5. IsFiniteSet(HeldBy(h))
  BY <1>2, <1>3, <1>4, FS_UNION
<1>6. \A p : p \in HeldBy(h) <=> \E s \in Sessions : \E k \in 1 .. h[s] : p = <<s, k>>
  BY DEF HeldBy
<1> QED BY <1>5, <1>6, FS_CardinalityType

\* One event more in a batch.
LEMMA HeldMore ==
  ASSUME NEW h \in [Sessions -> Nat], NEW r \in Sessions
  PROVE  Cardinality(HeldBy(Add(h, r, 1))) = Cardinality(HeldBy(h)) + 1
<1> DEFINE g == Add(h, r, 1)
           x == <<r, h[r] + 1>>
<1>1. g \in [Sessions -> Nat] /\ g[r] = h[r] + 1 /\ \A s \in Sessions \ {r} : g[s] = h[s]
  BY DEF Add
<1> HIDE DEF g
<1>2. HeldBy(g) = HeldBy(h) \cup {x}
  <2>1. ASSUME NEW s \in Sessions, NEW k \in 1 .. g[s]
        PROVE  <<s, k>> \in HeldBy(h) \cup {x}
    <3>1. CASE s = r /\ k = h[r] + 1
      BY <3>1
    <3>2. CASE ~(s = r /\ k = h[r] + 1)
      <4>1. k \in 1 .. h[s]
        BY <1>1, <2>1, <3>2
      <4> QED BY <4>1, HeldFinite
    <3> QED BY <3>1, <3>2
  <2>2. ASSUME NEW s \in Sessions, NEW k \in 1 .. h[s]
        PROVE  <<s, k>> \in HeldBy(g)
    <3>1. k \in 1 .. g[s]
      BY <1>1, <2>2
    <3> QED BY <1>1, <3>1, HeldFinite
  <2>3. x \in HeldBy(g)
    <3>1. h[r] + 1 \in 1 .. g[r]
      BY <1>1
    <3> QED BY <1>1, <3>1, HeldFinite
  <2>4. HeldBy(g) \subseteq HeldBy(h) \cup {x}
    <3> SUFFICES ASSUME NEW p \in HeldBy(g)
                 PROVE  p \in HeldBy(h) \cup {x}
      OBVIOUS
    <3>0. PICK s \in Sessions : \E k \in 1 .. g[s] : p = <<s, k>>
      BY <1>1, HeldFinite
    <3>1. PICK k \in 1 .. g[s] : p = <<s, k>>
      BY <3>0
    <3> HIDE DEF x
    <3> QED BY <2>1, <3>1
  <2>5. HeldBy(h) \subseteq HeldBy(g)
    <3> SUFFICES ASSUME NEW p \in HeldBy(h)
                 PROVE  p \in HeldBy(g)
      OBVIOUS
    <3>0. PICK s \in Sessions : \E k \in 1 .. h[s] : p = <<s, k>>
      BY HeldFinite
    <3>1. PICK k \in 1 .. h[s] : p = <<s, k>>
      BY <3>0
    <3> QED BY <2>2, <3>1
  <2> QED BY <2>3, <2>4, <2>5
<1>3. x \notin HeldBy(h)
  <2>1. \A s \in Sessions : \A k \in 1 .. h[s] : x # <<s, k>>
    OBVIOUS
  <2> QED BY <2>1, HeldFinite
<1> HIDE DEF x
<1>4. Cardinality(HeldBy(g)) = Cardinality(HeldBy(h)) + 1
  BY <1>2, <1>3, HeldFinite, FS_AddElement
<1> QED BY <1>4 DEF g

\* A batch written off.
LEMMA HeldLess ==
  ASSUME NEW h \in [Sessions -> Nat], NEW r \in Sessions
  PROVE  Cardinality(HeldBy([h EXCEPT ![r] = 0])) = Cardinality(HeldBy(h)) - h[r]
<1> DEFINE g == [h EXCEPT ![r] = 0]
           x == {r} \X (1 .. h[r])
<1>1. g \in [Sessions -> Nat] /\ g[r] = 0 /\ \A s \in Sessions \ {r} : g[s] = h[s]
  OBVIOUS
<1> HIDE DEF g
<1>2. \A p : p \in x <=> \E k \in 1 .. h[r] : p = <<r, k>>
  OBVIOUS
<1>3. Cardinality(x) = h[r]
  <2>1. IsFiniteSet({r}) /\ Cardinality({r}) = 1
    BY FS_Singleton
  <2>2. IsFiniteSet(1 .. h[r]) /\ Cardinality(1 .. h[r]) = h[r]
    <3>1. 0 \in Int /\ 1 \in Int /\ h[r] \in Int /\ h[r] \in Nat
      OBVIOUS
    <3>2. /\ IsFiniteSet(1 .. h[r])
          /\ Cardinality(1 .. h[r]) = IF 1 > h[r] THEN 0 ELSE h[r] - 1 + 1
      BY <3>1, FS_Interval
    <3> QED BY <3>1, <3>2
  <2>3. Cardinality(x) = 1 * h[r]
    BY <2>1, <2>2, FS_Product
  <2> QED BY <2>3
<1> HIDE DEF x
<1>4. x \subseteq HeldBy(h)
  <2> SUFFICES ASSUME NEW p \in x
               PROVE  p \in HeldBy(h)
    OBVIOUS
  <2>1. PICK k \in 1 .. h[r] : p = <<r, k>>
    BY <1>2
  <2> QED BY <2>1, HeldFinite
<1>5. HeldBy(g) = HeldBy(h) \ x
  <2>1. ASSUME NEW p \in HeldBy(g)
        PROVE  p \in HeldBy(h) \ x
    <3>0. PICK s \in Sessions : \E k \in 1 .. g[s] : p = <<s, k>>
      BY <1>1, <2>1, HeldFinite
    <3>1. PICK k \in 1 .. g[s] : p = <<s, k>>
      BY <3>0
    <3>2. s # r /\ k \in 1 .. h[s]
      BY <1>1, <3>1
    <3>3. p \in HeldBy(h)
      BY <3>1, <3>2, HeldFinite
    <3>4. p \notin x
      BY <1>2, <3>1, <3>2
    <3> QED BY <3>3, <3>4
  <2>2. ASSUME NEW p \in HeldBy(h), p \notin x
        PROVE  p \in HeldBy(g)
    <3>0. PICK s \in Sessions : \E k \in 1 .. h[s] : p = <<s, k>>
      BY <2>2, HeldFinite
    <3>1. PICK k \in 1 .. h[s] : p = <<s, k>>
      BY <3>0
    <3>2. s # r
      BY <1>2, <2>2, <3>1
    <3>3. k \in 1 .. g[s]
      BY <1>1, <3>1, <3>2
    <3> QED BY <1>1, <3>1, <3>3, HeldFinite
  <2> QED BY <2>1, <2>2
<1>6. HeldBy(h) \cap x = x
  BY <1>4
<1>7. Cardinality(HeldBy(g)) = Cardinality(HeldBy(h)) - Cardinality(HeldBy(h) \cap x)
  BY <1>5, HeldFinite, FS_Difference
<1> QED BY <1>3, <1>6, <1>7 DEF g

LEMMA AllowanceFrame ==
  ASSUME [Next]_vars
  PROVE  \/ UNCHANGED inFlight
         \/ \E s \in Sessions : RecordEvent(s)
         \/ TakeEvent \/ Tombstoned \/ EndMarker \/ Crash
BY DEF Next, Sessioning, Writing, Erasing, vars, producers, thread, Keep,
   OpenSession, CloseSession, Resume, Stop,
   RecordTurn, TakeOpen, TakeTurn, TakeClose, TakeStop, WriterEnds,
   DurableLands, DurableFails, AnswerTurns, EventsWritten, EventsLost,
   CountLate, Prune, Flush, EraseSession, EraseThread, Announce

LEMMA AllowanceStep ==
  ASSUME TypeOK, WriterStops, AllowanceExact, [Next]_vars
  PROVE  AllowanceExact'
<1> DEFINE q == Cardinality(QueuedEvents)
           b == Cardinality(HeldBy(held))
           q2 == Cardinality(QueuedEvents')
           b2 == Cardinality(HeldBy(held'))
<1>0. /\ ProducerTypes /\ held \in [Sessions -> Nat] /\ inFlight \in Int
      /\ q \in Nat /\ b \in Nat
  BY TypeGroups, QueuedEventsFinite, HeldFinite DEF ProducerTypes, ThreadTypes
<1>1. inFlight = q + b
  BY DEF AllowanceExact, QueuedEvents, Held, HeldBy
<1>2. queue' = queue => q2 = q
  BY DEF QueuedEvents
<1>3. held' = held => b2 = b
  OBVIOUS
<1> HIDE DEF q, b, q2, b2
<1> SUFFICES inFlight' = q2 + b2
  BY DEF AllowanceExact, QueuedEvents, Held, HeldBy, q2, b2
<1>4. ASSUME NEW s \in Sessions, RecordEvent(s)
      PROVE  inFlight' = q2 + b2
  <2>1. held' = held
    BY <1>4 DEF RecordEvent, thread
  <2>2. CASE UNCHANGED <<queue, inFlight>>
    BY <1>1, <1>2, <1>3, <2>1, <2>2
  <2>3. CASE inFlight' = inFlight + 1 /\ Queue([kind |-> "event", of |-> s])
    <3>1. [kind |-> "event", of |-> s] \in Records
      BY RecordsTyped
    <3>2. q2 = q + 1
      BY <1>0, <2>3, <3>1, EventAppended DEF q, q2
    <3> QED BY <1>0, <1>1, <1>3, <2>1, <2>3, <3>2
  <2> QED BY <1>4, <2>2, <2>3 DEF RecordEvent
<1>5. CASE TakeEvent
  <2>1. queue # <<>> /\ queue' = Tail(queue) /\ Item.kind = "event" /\ Item \in Records
    BY <1>5, TakeStep DEF TakeEvent
  <2>2. q2 = q - 1 /\ Item.of \in Sessions
    BY <1>0, <2>1, EventTaken, RecordKinds DEF q, q2
  <2>3. CASE Item.of \in batches
    <3>1. held' = Add(held, Item.of, 1) /\ inFlight' = inFlight
      BY <1>5, <2>3 DEF TakeEvent
    <3>2. b2 = b + 1
      BY <1>0, <2>2, <3>1, HeldMore DEF b, b2
    <3> QED BY <1>0, <1>1, <2>2, <3>1, <3>2
  <2>4. CASE Item.of \notin batches
    <3>1. held' = held /\ inFlight' = inFlight - 1
      BY <1>5, <2>4 DEF TakeEvent
    <3> QED BY <1>0, <1>1, <1>3, <2>2, <3>1
  <2> QED BY <2>3, <2>4
<1>6. CASE Tombstoned \/ EndMarker
  <2>1. marker.of \in Sessions
    BY <1>6, StepNeeds, MarkerStep
  <2>2. /\ queue' = queue /\ inFlight' = inFlight - held[marker.of]
        /\ held' = [held EXCEPT ![marker.of] = 0]
    BY <1>6 DEF Tombstoned, EndMarker
  <2>3. b2 = b - held[marker.of] /\ held[marker.of] \in Nat
    BY <1>0, <2>1, <2>2, HeldLess DEF b, b2
  <2> QED BY <1>0, <1>1, <1>2, <2>2, <2>3
<1>7. CASE Crash
  <2>1. inFlight' = 0 /\ held' = None /\ queue' = <<>>
    BY <1>7 DEF Crash
  <2>2. QueuedEvents' = {}
    BY <2>1 DEF QueuedEvents
  <2>3. HeldBy(held') = {}
    BY <2>1 DEF HeldBy, None
  <2> QED BY <2>1, <2>2, <2>3, FS_EmptySet DEF q2, b2
<1>8. ASSUME UNCHANGED inFlight, ~TakeEvent, ~Tombstoned, ~EndMarker, ~Crash,
             \A s \in Sessions : ~RecordEvent(s)
      PROVE  inFlight' = q2 + b2
  <2>1. held' = held
    BY <1>8, HeldFrame
  <2>2. ASSUME NEW s \in Sessions, NEW k \in {"open", "close"},
               Queue([kind |-> k, of |-> s])
        PROVE  q2 = q
    <3>1. [kind |-> k, of |-> s] \in Records
      BY RecordsTyped
    <3> QED BY <1>0, <2>2, <3>1, EventAppended DEF q, q2
  <2>3. ASSUME NEW t \in Turns, Queue([kind |-> "turn", of |-> t])
        PROVE  q2 = q
    BY <1>0, <2>3, RecordsTyped, EventAppended DEF q, q2
  <2>4. Queue([kind |-> "stop"]) => q2 = q
    BY <1>0, RecordsTyped, EventAppended DEF q, q2
  <2>5. ASSUME TakeOpen \/ TakeTurn \/ TakeClose \/ TakeStop, queue # <<>>, queue' = Tail(queue)
        PROVE  q2 = q
    <3>1. Item.kind # "event"
      BY <2>5 DEF TakeOpen, TakeTurn, TakeClose, TakeStop
    <3> QED BY <1>0, <2>5, <3>1, EventTaken DEF q, q2
  <2>6. WriterEnds => queue' = queue
    BY DEF WriterEnds, WriterStops
  <2>7. q2 = q
    BY <1>2, <1>8, <2>2, <2>3, <2>4, <2>5, <2>6, QueueStep
  <2> QED BY <1>1, <1>3, <1>8, <2>1, <2>7
<1> QED BY <1>4, <1>5, <1>6, <1>7, <1>8, AllowanceFrame

-----------------------------------------------------------------------------
(* The invariant, and the theorems.                                         *)

RecordInv == /\ TypeOK /\ MarkerShape /\ NoOrphans /\ ThreadsInv /\ HandlesInv
             /\ LossesInv /\ AllowanceExact

LEMMA RecordInit ==
  ASSUME Init
  PROVE  RecordInv
<1>1. /\ Queued = {} /\ Closes = {} /\ Carried = {} /\ ~Busy /\ (\A s : Quiet(s))
      /\ DOMAIN queue = {}
  BY DEF Init, Queued, Closes, Carried, Busy, Quiet
<1>2. /\ \A s \in Sessions : /\ session[s] = "away" /\ answer[s] = "none" /\ held[s] = 0
                             /\ spine[s] = "none" /\ tally[s] = 0
                             /\ dropped[s] = 0 /\ lost[s] = 0
                             /\ seen.missing[s] = 0 /\ seen.uncounted[s] = 0
      /\ \A t \in Turns : answer[t] = "none"
      /\ \A s \in Sessions : holds[s] = {c \in Threads : MintedBy[c] = s}
  BY DEF Init, None, Handles
<1>3. MarkerShape /\ NoOrphans
  BY <1>1 DEF Init, MarkerShape, NoOrphans
<1>4. ThreadsInv
  <2>1. HoldersBegan
    BY <1>1, <1>2 DEF Init, HoldersBegan, ThreadsOf
  <2>2. OursWritten /\ ErasedBarred /\ MemoryBarred
    BY DEF Init, OursWritten, ErasedBarred, MemoryBarred
  <2> QED BY <2>1, <2>2 DEF ThreadsInv
<1>5. HandlesInv
  <2>1. StopLast /\ WriterStops
    BY <1>1 DEF Init, StopLast, WriterStops
  <2>2. ClosedLast /\ ClosesWait /\ HeldBatches /\ SettledQuiet
    BY <1>1, <1>2 DEF ClosedLast, ClosesWait, HeldBatches, SettledQuiet, Settled, Closing
  <2>3. TurnsOnce /\ CarriedWait /\ StoredTrue
    BY <1>1, <1>2 DEF Init, TurnsOnce, CarriedWait, StoredTrue, Stored
  <2> QED BY <2>1, <2>2, <2>3 DEF HandlesInv
<1>6. LossesInv
  <2>1. Owed
    BY <1>1 DEF Init, Owed, At, Busy
  <2>2. Begun /\ Awaited
    BY <1>1 DEF Init, Begun, Awaited, Closing
  <2>3. Counts
    BY <1>1, <1>2 DEF Counts, CountsOf, RowTells, Closing
  <2> QED BY <2>1, <2>2, <2>3 DEF LossesInv
<1>7. AllowanceExact
  <2>1. {i \in DOMAIN queue : queue[i].kind = "event"} = {}
    BY <1>1
  <2>2. Held = {}
    BY <1>2 DEF Held
  <2> QED BY <2>1, <2>2, FS_EmptySet DEF Init, AllowanceExact
<1> QED BY <1>3, <1>4, <1>5, <1>6, <1>7, TypeInit DEF RecordInv

\* The record's invariant holds throughout, whatever fails, is deleted or crashes.
THEOREM RecordAlways == Spec => []RecordInv
<1>1. Init => RecordInv
  BY RecordInit
<1>2. RecordInv /\ [Next]_vars => RecordInv'
  <2> SUFFICES ASSUME RecordInv, [Next]_vars PROVE RecordInv'
    OBVIOUS
  <2>1. TypeOK /\ MarkerShape /\ NoOrphans /\ ThreadsInv /\ HandlesInv /\ LossesInv
        /\ AllowanceExact /\ WriterStops
    BY DEF RecordInv, HandlesInv
  <2> QED BY <2>1, TypeStep, ShapeStep, OrphansStep, ThreadsInvStep, HandlesInvStep,
     LossesInvStep, AllowanceStep DEF RecordInv
<1> QED BY <1>1, <1>2, PTL DEF Spec

\* Every row of a turn is on a listed thread and in a session with its row, and no
\* event row outlives its session's.
THEOREM RowsHeldTogether == Spec => []NoOrphans
<1>1. RecordInv => NoOrphans
  BY DEF RecordInv
<1> QED BY <1>1, RecordAlways, PTL

\* A conversation deleted while the process that wrote it runs never comes back, and
\* nothing is kept in memory for one that was deleted.
THEOREM DeletionsStand == Spec => []DeletedStaysDeleted
<1>1. RecordInv => DeletedStaysDeleted
  <2> SUFFICES ASSUME RecordInv PROVE DeletedStaysDeleted
    OBVIOUS
  <2>1. ErasedBarred /\ MemoryBarred
    BY DEF RecordInv, ThreadsInv
  <2> QED BY <2>1 DEF ErasedBarred, MemoryBarred, DeletedStaysDeleted
<1> QED BY <1>1, RecordAlways, PTL

\* A handle says what became of its turn; a writer that has ended leaves none
\* unanswered, and a close is answered behind everything its session handed over.
THEOREM HandlesTold == Spec => []HandlesTrue
<1>1. RecordInv => HandlesTrue
  BY HandlesTell DEF RecordInv
<1> QED BY <1>1, RecordAlways, PTL

\* Whoever is told that a turn landed never finds its thread claiming to be whole when
\* a failed transaction lost an earlier one, unless the process died owing the mark;
\* and a closed session's row counts every record lost of it, but for a last count that
\* itself failed.
THEOREM LossesAccounted == Spec => []LossesTold
<1>1. RecordInv => LossesTold
  BY LossesTell DEF RecordInv
<1> QED BY <1>1, RecordAlways, PTL

\* The allowance is what is queued or held.
THEOREM AllowanceKept == Spec => []AllowanceExact
<1>1. RecordInv => AllowanceExact
  BY DEF RecordInv
<1> QED BY <1>1, RecordAlways, PTL
=============================================================================
