-------------------------- MODULE Sessions_proofs --------------------------
(***************************************************************************)
(* Proofs about Sessions: its types, the invariant behind the life of a     *)
(* conversation, and what it says of the slots, the causes and the record;  *)
(* and that Sessions implements Lifetime.                                   *)
(***************************************************************************)
EXTENDS Sessions, FiniteSetTheorems, TLAPS

USE MaxSessionsAssumption, ConversationsAssumption

-----------------------------------------------------------------------------
(* The invariant.                                                          *)

\* SlotPerConversation, conversation by conversation; a world is held by a
\* conversation that is live, and who stands at the door has not begun.
Slots ==
  /\ \A s \in Conversations :
       /\ s \in registered <=> task[s] \in Live \/ door = <<s, "inserted">>
       /\ s \in bound => task[s] \in Live
       /\ door \in {<<s, "classified">>, <<s, "inserted">>} => task[s] = "away"

\* There is room for everyone who has a slot, and for who was told so.
Room ==
  /\ Cardinality(registered) <= MaxSessions
  /\ \A s \in Conversations :
       door = <<s, "classified">> => Cardinality(registered) < MaxSessions

\* What runs beside a conversation, and what its record holds, by where its
\* task is.
Phase(s) ==
  /\ task[s] \in Live \ {"handshake", "hello"} => record[s] = "open"
  /\ task[s] \in {"away", "refused", "handshake", "hello"} => record[s] = "none"
  /\ record[s] \in Causes => task[s] = "gone"
  /\ task[s] \in {"runtime", "discovery"} => watch[s] = "off"
  /\ task[s] = "watchdog" => watch[s] \in {"off", "stopped"}
  /\ task[s] \in {"serving", "limited"} => watch[s] # "stopped"
  /\ task[s] = "runtime" => reply[s] # "running"
  /\ task[s] = "discovery" => reply[s] = "none" /\ discovery[s] # "running"
  /\ task[s] \notin Live \ {"handshake", "hello"} =>
       reply[s] = "none" /\ watch[s] = "off" /\ discovery[s] = "off"
Phases == \A s \in Conversations : Phase(s)

SessionsInv == TypeOK /\ Slots /\ Room /\ Phases /\ CauseNamedFirst

-----------------------------------------------------------------------------
(* Types.                                                                  *)

LEMMA TypeStep ==
  ASSUME TypeOK, Slots, [Next]_vars
  PROVE  TypeOK'
<1>1. ASSUME NEW s \in Conversations, Refuse(s)
      PROVE  TypeOK'
  BY <1>1, TypeOK, Slots DEF Refuse, TypeOK, Slots, Tasks, Live, Closing, Causes, Asked,
     doorVars, taskVars, workVars, endVars, drainVars
<1>2. ASSUME NEW s \in Conversations, Classify(s)
      PROVE  TypeOK'
  BY <1>2, TypeOK, Slots DEF Classify, TypeOK, Slots, Tasks, Live, Closing, Causes, Asked,
     doorVars, taskVars, workVars, endVars, drainVars
<1>3. ASSUME NEW s \in Conversations, Insert(s)
      PROVE  TypeOK'
  BY ZenonT(60), <1>3, TypeOK, Slots DEF Insert, TypeOK, Slots, Tasks, Live, Closing, Causes, Asked,
     doorVars, taskVars, workVars, endVars, drainVars
<1>4. ASSUME NEW s \in Conversations, Recheck(s)
      PROVE  TypeOK'
  <2>1. s \notin bound
    BY <1>4 DEF Recheck, Slots, Live, Closing
  <2>2. registered' \subseteq Conversations /\ bound' \subseteq registered'
    BY <1>4, <2>1 DEF Recheck, TypeOK
  <2>3. task' \in [Conversations -> Tasks]
    BY <1>4 DEF Recheck, TypeOK, Tasks, Live
  <2>4. door' = <<>>
    BY <1>4 DEF Recheck
  <2> QED BY <1>4, <2>2, <2>3, <2>4 DEF Recheck, TypeOK, workVars, endVars, drainVars
<1>5. ASSUME NEW s \in Conversations, Disposed(s)
      PROVE  TypeOK'
  BY <1>5, TypeOK, Slots DEF Disposed, TypeOK, Slots, Tasks, Live, Closing, Causes, Asked,
     doorVars, taskVars, workVars, endVars, drainVars
<1>6. ASSUME NEW s \in Conversations, TurnedAway(s)
      PROVE  TypeOK'
  <2>1. /\ registered' \subseteq Conversations /\ bound' \subseteq registered'
        /\ letting' \subseteq Conversations
    BY <1>6 DEF TurnedAway, Removed, TypeOK
  <2>2. task' \in [Conversations -> Tasks] /\ socket' \in [Conversations -> BOOLEAN]
    BY <1>6 DEF TurnedAway, TypeOK, Tasks
  <2>3. record' \in [Conversations -> Causes \cup {"none", "open"}]
    BY <1>6 DEF TurnedAway, TypeOK, Causes, Unnamed
  <2> QED BY <1>6, <2>1, <2>2, <2>3 DEF TurnedAway, TypeOK, workVars, endVars, drainVars
<1>7. ASSUME NEW s \in Conversations, Bind(s)
      PROVE  TypeOK'
  <2>1. s \in registered
    BY <1>7 DEF Bind, Slots, Live
  <2>2. bound' \subseteq registered' /\ registered' = registered
    BY <1>7, <2>1 DEF Bind, TypeOK
  <2>3. task' \in [Conversations -> Tasks]
    BY <1>7 DEF Bind, TypeOK, Tasks, Live
  <2> QED BY <1>7, <2>2, <2>3 DEF Bind, TypeOK, workVars, endVars, drainVars
<1>8. ASSUME NEW s \in Conversations, Open(s)
      PROVE  TypeOK'
  BY <1>8, TypeOK, Slots DEF Open, TypeOK, Slots, Tasks, Live, Closing, Causes, Asked,
     doorVars, taskVars, workVars, endVars, drainVars
<1>9. ASSUME NEW s \in Conversations, OpenFails(s)
      PROVE  TypeOK'
  BY <1>9, TypeOK, Slots DEF OpenFails, Latch, TypeOK, Slots, Tasks, Live, Closing,
     Causes, Asked, doorVars, taskVars, workVars, endVars, drainVars
<1>10. ASSUME NEW s \in Conversations, StartReply(s)
      PROVE  TypeOK'
  BY <1>10, TypeOK, Slots DEF StartReply, TypeOK, Slots, Tasks, Live, Closing, Causes,
     Asked, doorVars, taskVars, workVars, endVars, drainVars
<1>11. ASSUME NEW s \in Conversations, ReplyOver(s)
      PROVE  TypeOK'
  BY <1>11, TypeOK, Slots DEF ReplyOver, TypeOK, Slots, Tasks, Live, Closing, Causes,
     Asked, doorVars, taskVars, workVars, endVars, drainVars
<1>12. ASSUME NEW s \in Conversations, DiscoveryOver(s)
      PROVE  TypeOK'
  BY <1>12, TypeOK, Slots DEF DiscoveryOver, TypeOK, Slots, Tasks, Live, Closing, Causes,
     Asked, doorVars, taskVars, workVars, endVars, drainVars
<1>13. ASSUME NEW s \in Conversations, Disconnect(s)
      PROVE  TypeOK'
  BY <1>13, TypeOK, Slots DEF Disconnect, TypeOK, Slots, Tasks, Live, Closing, Causes,
     Asked, doorVars, taskVars, workVars, endVars, drainVars
<1>14. ASSUME NEW s \in Conversations, ServeReturns(s)
      PROVE  TypeOK'
  BY ZenonT(60), <1>14, TypeOK, Slots DEF ServeReturns, Latch, Leaves, TypeOK, Slots, Tasks, Live,
     Closing, Causes, Asked, doorVars, taskVars, workVars, endVars, drainVars
<1>15. ASSUME NEW s \in Conversations, ServeRaises(s)
      PROVE  TypeOK'
  BY ZenonT(60), <1>15, TypeOK, Slots DEF ServeRaises, Latch, Leaves, TypeOK, Slots, Tasks, Live,
     Closing, Causes, Asked, doorVars, taskVars, workVars, endVars, drainVars
<1>16. ASSUME NEW s \in Conversations, Limit(s)
      PROVE  TypeOK'
  BY <1>16, TypeOK, Slots DEF Limit, Latch, TypeOK, Slots, Tasks, Live, Closing, Causes,
     Asked, doorVars, taskVars, workVars, endVars, drainVars
<1>17. ASSUME NEW s \in Conversations, LimitCloses(s)
      PROVE  TypeOK'
  BY ZenonT(60), <1>17, TypeOK, Slots DEF LimitCloses, Leaves, TypeOK, Slots, Tasks, Live, Closing,
     Causes, Asked, doorVars, taskVars, workVars, endVars, drainVars
<1>18. ASSUME NEW s \in Conversations, IdleExpired(s)
      PROVE  TypeOK'
  BY <1>18, TypeOK, Slots DEF IdleExpired, Latch, TypeOK, Slots, Tasks, Live, Closing,
     Causes, Asked, doorVars, taskVars, workVars, endVars, drainVars
<1>19. ASSUME NEW s \in Conversations, IdleCloses(s)
      PROVE  TypeOK'
  BY <1>19, TypeOK, Slots DEF IdleCloses, TypeOK, Slots, Tasks, Live, Closing, Causes,
     Asked, doorVars, taskVars, workVars, endVars, drainVars
<1>20. ASSUME NEW s \in Conversations, WatchdogGone(s)
      PROVE  TypeOK'
  BY <1>20, TypeOK, Slots DEF WatchdogGone, TypeOK, Slots, Tasks, Live, Closing, Causes,
     Asked, doorVars, taskVars, workVars, endVars, drainVars
<1>21. ASSUME NEW s \in Conversations, WatchdogStopped(s)
      PROVE  TypeOK'
  BY <1>21, TypeOK, Slots DEF WatchdogStopped, TypeOK, Slots, Tasks, Live, Closing,
     Causes, Asked, doorVars, taskVars, workVars, endVars, drainVars
<1>22. ASSUME NEW s \in Conversations, RuntimeClosed(s)
      PROVE  TypeOK'
  BY <1>22, TypeOK, Slots DEF RuntimeClosed, TypeOK, Slots, Tasks, Live, Closing, Causes,
     Asked, doorVars, taskVars, workVars, endVars, drainVars
<1>23. ASSUME NEW s \in Conversations, Finish(s)
      PROVE  TypeOK'
  <2>1. /\ registered' \subseteq Conversations /\ bound' \subseteq registered'
        /\ letting' \subseteq Conversations
    BY <1>23 DEF Finish, Removed, TypeOK
  <2>2. task' \in [Conversations -> Tasks] /\ socket' \in [Conversations -> BOOLEAN]
    BY <1>23 DEF Finish, TypeOK, Tasks
  <2>3. record' \in [Conversations -> Causes \cup {"none", "open"}]
    BY <1>23 DEF Finish, TypeOK, Causes, Unnamed
  <2> QED BY <1>23, <2>1, <2>2, <2>3 DEF Finish, TypeOK, workVars, endVars, drainVars
<1>24. ASSUME NEW s \in Conversations, Cancel(s)
      PROVE  TypeOK'
  <2>1. /\ task' \in [Conversations -> Tasks]
        /\ cause' \in [Conversations -> Causes \cup {Unnamed}]
    BY <1>24 DEF Cancel, Latch, Leaves, TypeOK, Tasks, Live, Closing, Causes
  <2>2. watch' \in [Conversations -> {"off", "counting", "closing", "stopped"}]
    BY <1>24 DEF Cancel, Leaves, TypeOK
  <2>3. /\ raising' \in [Conversations -> BOOLEAN]
        /\ cancelled' \in [Conversations -> BOOLEAN]
    BY <1>24 DEF Cancel, TypeOK
  <2> QED BY <1>24, <2>1, <2>2, <2>3 DEF Cancel, TypeOK, doorVars, drainVars
<1>25. ASSUME NEW s \in Conversations, Ask(s)
      PROVE  TypeOK'
  BY <1>25, TypeOK, Slots DEF Ask, Latch, TypeOK, Slots, Tasks, Live, Closing, Causes,
     Asked, doorVars, taskVars, workVars, endVars, drainVars
<1>26. ASSUME NEW s \in Conversations, ReplySeenOut(s)
      PROVE  TypeOK'
  BY <1>26, TypeOK, Slots DEF ReplySeenOut, TypeOK, Slots, Tasks, Live, Closing, Causes,
     Asked, doorVars, taskVars, workVars, endVars, drainVars
<1>27. ASSUME NEW s \in Conversations, GraceOver(s)
      PROVE  TypeOK'
  BY <1>27, TypeOK, Slots DEF GraceOver, TypeOK, Slots, Tasks, Live, Closing, Causes,
     Asked, doorVars, taskVars, workVars, endVars, drainVars
<1>28. ASSUME NEW s \in Conversations, AskCloses(s)
      PROVE  TypeOK'
  BY <1>28, TypeOK, Slots DEF AskCloses, TypeOK, Slots, Tasks, Live, Closing, Causes,
     Asked, doorVars, taskVars, workVars, endVars, drainVars
<1>29. ASSUME NEW s \in Conversations, FailClose(s)
      PROVE  TypeOK'
  BY <1>29, TypeOK, Slots DEF FailClose, TypeOK, Slots, Tasks, Live, Closing, Causes,
     Asked, doorVars, taskVars, workVars, endVars, drainVars
<1>30. CASE Signal
  BY <1>30, TypeOK, Slots DEF Signal, TypeOK, Slots, Tasks, Live, Closing, Causes, Asked,
     doorVars, taskVars, workVars, endVars, drainVars
<1>31. CASE SecondSignal
  BY <1>31, TypeOK, Slots DEF SecondSignal, TypeOK, Slots, Tasks, Live, Closing, Causes,
     Asked, doorVars, taskVars, workVars, endVars, drainVars
<1>32. CASE DrainBegins
  <2>1. asked' \in [Conversations -> Asked]
    <3>1. CASE registered = {}
      BY <1>32, <3>1 DEF DrainBegins, TypeOK
    <3>2. CASE registered # {}
      <4>1. asked' = [t \in Conversations |-> IF t \in registered THEN "new" ELSE asked[t]]
        BY <1>32, <3>2 DEF DrainBegins
      <4> QED BY <4>1 DEF TypeOK, Asked
    <3> QED BY <3>1, <3>2
  <2>2. /\ drained' \subseteq Conversations /\ awaited' \subseteq Conversations
        /\ drain' \in {"settling", "waiting"}
    BY <1>32 DEF DrainBegins, TypeOK
  <2> QED BY <1>32, <2>1, <2>2 DEF DrainBegins, TypeOK, doorVars, taskVars, workVars,
     endVars
<1>33. CASE DrainWaited
  BY <1>33, TypeOK, Slots DEF DrainWaited, TypeOK, Slots, Tasks, Live, Closing, Causes,
     Asked, doorVars, taskVars, workVars, endVars, drainVars
<1>34. CASE DrainOver
  BY <1>34, TypeOK, Slots DEF DrainOver, TypeOK, Slots, Tasks, Live, Closing, Causes,
     Asked, doorVars, taskVars, workVars, endVars, drainVars
<1>35. CASE UNCHANGED vars
  BY <1>35, TypeOK, Slots DEF vars, TypeOK, Slots, Tasks, Live, Closing, Causes, Asked,
     doorVars, taskVars, workVars, endVars, drainVars
<1> QED BY <1>1, <1>2, <1>3, <1>4, <1>5, <1>6, <1>7, <1>8, <1>9, <1>10, <1>11, <1>12,
   <1>13, <1>14, <1>15, <1>16, <1>17, <1>18, <1>19, <1>20, <1>21, <1>22, <1>23, <1>24,
   <1>25, <1>26, <1>27, <1>28, <1>29, <1>30, <1>31, <1>32, <1>33, <1>34, <1>35
   DEF Next, CloseStep, DrainStep, AskStep

-----------------------------------------------------------------------------
(* Slots.                                                                  *)

LEMMA SlotsStep ==
  ASSUME TypeOK, Slots, [Next]_vars
  PROVE  Slots'
<1>1. ASSUME NEW s \in Conversations, Refuse(s)
      PROVE  Slots'
  <2>1. task' = [task EXCEPT ![s] = "refused"] /\ task[s] = "away" /\ door = <<>>
    BY <1>1 DEF Refuse, LoopFree
  <2>2. registered' = registered /\ bound' = bound /\ door' = door
    BY <1>1 DEF Refuse, doorVars
  <2> QED BY <2>1, <2>2 DEF TypeOK, Slots, Live, Closing
<1>2. ASSUME NEW s \in Conversations, Classify(s)
      PROVE  Slots'
  <2>1. task' = task /\ registered' = registered /\ bound' = bound
    BY <1>2 DEF Classify, taskVars
  <2>2. task[s] = "away" /\ door = <<>> /\ door' = <<s, "classified">>
    BY <1>2 DEF Classify, LoopFree
  <2>3. \A t \in Conversations : door' # <<t, "inserted">> /\ door # <<t, "inserted">>
    BY <2>2
  <2>4. \A t \in Conversations : door' = <<t, "classified">> => t = s
    BY <2>2
  <2> QED BY <2>1, <2>2, <2>3, <2>4 DEF Slots
<1>3. ASSUME NEW s \in Conversations, Insert(s)
      PROVE  Slots'
  BY <1>3, TypeOK, Slots DEF Insert, TypeOK, Slots, Live, Closing, doorVars, taskVars,
     workVars, endVars, drainVars
<1>4. ASSUME NEW s \in Conversations, Recheck(s)
      PROVE  Slots'
  BY <1>4, TypeOK, Slots DEF Recheck, TypeOK, Slots, Live, Closing, doorVars, taskVars,
     workVars, endVars, drainVars
<1>5. ASSUME NEW s \in Conversations, Disposed(s)
      PROVE  Slots'
  BY <1>5, TypeOK, Slots DEF Disposed, TypeOK, Slots, Live, Closing, doorVars, taskVars,
     workVars, endVars, drainVars
<1>6. ASSUME NEW s \in Conversations, TurnedAway(s)
      PROVE  Slots'
  BY <1>6, TypeOK, Slots DEF TurnedAway, Removed, TypeOK, Slots, Live, Closing, doorVars,
     taskVars, workVars, endVars, drainVars
<1>7. ASSUME NEW s \in Conversations, Bind(s)
      PROVE  Slots'
  BY <1>7, TypeOK, Slots DEF Bind, TypeOK, Slots, Live, Closing, doorVars, taskVars,
     workVars, endVars, drainVars
<1>8. ASSUME NEW s \in Conversations, Open(s)
      PROVE  Slots'
  BY <1>8, TypeOK, Slots DEF Open, TypeOK, Slots, Live, Closing, doorVars, taskVars,
     workVars, endVars, drainVars
<1>9. ASSUME NEW s \in Conversations, OpenFails(s)
      PROVE  Slots'
  BY <1>9, TypeOK, Slots DEF OpenFails, Latch, TypeOK, Slots, Live, Closing, doorVars,
     taskVars, workVars, endVars, drainVars
<1>10. ASSUME NEW s \in Conversations, StartReply(s)
      PROVE  Slots'
  BY <1>10, TypeOK, Slots DEF StartReply, TypeOK, Slots, Live, Closing, doorVars,
     taskVars, workVars, endVars, drainVars
<1>11. ASSUME NEW s \in Conversations, ReplyOver(s)
      PROVE  Slots'
  BY <1>11, TypeOK, Slots DEF ReplyOver, TypeOK, Slots, Live, Closing, doorVars, taskVars,
     workVars, endVars, drainVars
<1>12. ASSUME NEW s \in Conversations, DiscoveryOver(s)
      PROVE  Slots'
  BY <1>12, TypeOK, Slots DEF DiscoveryOver, TypeOK, Slots, Live, Closing, doorVars,
     taskVars, workVars, endVars, drainVars
<1>13. ASSUME NEW s \in Conversations, Disconnect(s)
      PROVE  Slots'
  BY <1>13, TypeOK, Slots DEF Disconnect, TypeOK, Slots, Live, Closing, doorVars,
     taskVars, workVars, endVars, drainVars
<1>14. ASSUME NEW s \in Conversations, ServeReturns(s)
      PROVE  Slots'
  BY <1>14, TypeOK, Slots DEF ServeReturns, Latch, Leaves, TypeOK, Slots, Live, Closing,
     doorVars, taskVars, workVars, endVars, drainVars
<1>15. ASSUME NEW s \in Conversations, ServeRaises(s)
      PROVE  Slots'
  BY <1>15, TypeOK, Slots DEF ServeRaises, Latch, Leaves, TypeOK, Slots, Live, Closing,
     doorVars, taskVars, workVars, endVars, drainVars
<1>16. ASSUME NEW s \in Conversations, Limit(s)
      PROVE  Slots'
  BY <1>16, TypeOK, Slots DEF Limit, Latch, TypeOK, Slots, Live, Closing, doorVars,
     taskVars, workVars, endVars, drainVars
<1>17. ASSUME NEW s \in Conversations, LimitCloses(s)
      PROVE  Slots'
  BY <1>17, TypeOK, Slots DEF LimitCloses, Leaves, TypeOK, Slots, Live, Closing, doorVars,
     taskVars, workVars, endVars, drainVars
<1>18. ASSUME NEW s \in Conversations, IdleExpired(s)
      PROVE  Slots'
  BY <1>18, TypeOK, Slots DEF IdleExpired, Latch, TypeOK, Slots, Live, Closing, doorVars,
     taskVars, workVars, endVars, drainVars
<1>19. ASSUME NEW s \in Conversations, IdleCloses(s)
      PROVE  Slots'
  BY <1>19, TypeOK, Slots DEF IdleCloses, TypeOK, Slots, Live, Closing, doorVars,
     taskVars, workVars, endVars, drainVars
<1>20. ASSUME NEW s \in Conversations, WatchdogGone(s)
      PROVE  Slots'
  BY <1>20, TypeOK, Slots DEF WatchdogGone, TypeOK, Slots, Live, Closing, doorVars,
     taskVars, workVars, endVars, drainVars
<1>21. ASSUME NEW s \in Conversations, WatchdogStopped(s)
      PROVE  Slots'
  BY <1>21, TypeOK, Slots DEF WatchdogStopped, TypeOK, Slots, Live, Closing, doorVars,
     taskVars, workVars, endVars, drainVars
<1>22. ASSUME NEW s \in Conversations, RuntimeClosed(s)
      PROVE  Slots'
  BY <1>22, TypeOK, Slots DEF RuntimeClosed, TypeOK, Slots, Live, Closing, doorVars,
     taskVars, workVars, endVars, drainVars
<1>23. ASSUME NEW s \in Conversations, Finish(s)
      PROVE  Slots'
  BY <1>23, TypeOK, Slots DEF Finish, Removed, TypeOK, Slots, Live, Closing, doorVars,
     taskVars, workVars, endVars, drainVars
<1>24. ASSUME NEW s \in Conversations, Cancel(s)
      PROVE  Slots'
  BY <1>24, TypeOK, Slots DEF Cancel, Latch, Leaves, TypeOK, Slots, Live, Closing,
     doorVars, taskVars, workVars, endVars, drainVars
<1>25. ASSUME NEW s \in Conversations, Ask(s)
      PROVE  Slots'
  BY <1>25, TypeOK, Slots DEF Ask, Latch, TypeOK, Slots, Live, Closing, doorVars,
     taskVars, workVars, endVars, drainVars
<1>26. ASSUME NEW s \in Conversations, ReplySeenOut(s)
      PROVE  Slots'
  BY <1>26, TypeOK, Slots DEF ReplySeenOut, TypeOK, Slots, Live, Closing, doorVars,
     taskVars, workVars, endVars, drainVars
<1>27. ASSUME NEW s \in Conversations, GraceOver(s)
      PROVE  Slots'
  BY <1>27, TypeOK, Slots DEF GraceOver, TypeOK, Slots, Live, Closing, doorVars, taskVars,
     workVars, endVars, drainVars
<1>28. ASSUME NEW s \in Conversations, AskCloses(s)
      PROVE  Slots'
  BY <1>28, TypeOK, Slots DEF AskCloses, TypeOK, Slots, Live, Closing, doorVars, taskVars,
     workVars, endVars, drainVars
<1>29. ASSUME NEW s \in Conversations, FailClose(s)
      PROVE  Slots'
  BY <1>29, TypeOK, Slots DEF FailClose, TypeOK, Slots, Live, Closing, doorVars, taskVars,
     workVars, endVars, drainVars
<1>30. CASE Signal
  BY <1>30, TypeOK, Slots DEF Signal, TypeOK, Slots, Live, Closing, doorVars, taskVars,
     workVars, endVars, drainVars
<1>31. CASE SecondSignal
  BY <1>31, TypeOK, Slots DEF SecondSignal, TypeOK, Slots, Live, Closing, doorVars,
     taskVars, workVars, endVars, drainVars
<1>32. CASE DrainBegins
  BY <1>32, TypeOK, Slots DEF DrainBegins, TypeOK, Slots, Live, Closing, doorVars,
     taskVars, workVars, endVars, drainVars
<1>33. CASE DrainWaited
  BY <1>33, TypeOK, Slots DEF DrainWaited, TypeOK, Slots, Live, Closing, doorVars,
     taskVars, workVars, endVars, drainVars
<1>34. CASE DrainOver
  BY <1>34, TypeOK, Slots DEF DrainOver, TypeOK, Slots, Live, Closing, doorVars, taskVars,
     workVars, endVars, drainVars
<1>35. CASE UNCHANGED vars
  BY <1>35, TypeOK, Slots DEF vars, TypeOK, Slots, Live, Closing, doorVars, taskVars,
     workVars, endVars, drainVars
<1> QED BY <1>1, <1>2, <1>3, <1>4, <1>5, <1>6, <1>7, <1>8, <1>9, <1>10, <1>11, <1>12,
   <1>13, <1>14, <1>15, <1>16, <1>17, <1>18, <1>19, <1>20, <1>21, <1>22, <1>23, <1>24,
   <1>25, <1>26, <1>27, <1>28, <1>29, <1>30, <1>31, <1>32, <1>33, <1>34, <1>35
   DEF Next, CloseStep, DrainStep, AskStep

LEMMA PhasesStep ==
  ASSUME TypeOK, Phases, Slots, CauseNamedFirst, [Next]_vars
  PROVE  Phases'
<1>1. ASSUME NEW s \in Conversations, Refuse(s)
      PROVE  Phases'
  BY <1>1, TypeOK, Phases, Slots, CauseNamedFirst DEF Refuse, TypeOK, Phases, Phase,
     Slots, CauseNamedFirst, Live, Closing, Causes, Unnamed, doorVars, taskVars, workVars,
     endVars, drainVars
<1>2. ASSUME NEW s \in Conversations, Classify(s)
      PROVE  Phases'
  BY <1>2, TypeOK, Phases, Slots, CauseNamedFirst DEF Classify, TypeOK, Phases, Phase,
     Slots, CauseNamedFirst, Live, Closing, Causes, Unnamed, doorVars, taskVars, workVars,
     endVars, drainVars
<1>3. ASSUME NEW s \in Conversations, Insert(s)
      PROVE  Phases'
  BY <1>3, TypeOK, Phases, Slots, CauseNamedFirst DEF Insert, TypeOK, Phases, Phase,
     Slots, CauseNamedFirst, Live, Closing, Causes, Unnamed, doorVars, taskVars, workVars,
     endVars, drainVars
<1>4. ASSUME NEW s \in Conversations, Recheck(s)
      PROVE  Phases'
  BY <1>4, TypeOK, Phases, Slots, CauseNamedFirst DEF Recheck, TypeOK, Phases, Phase,
     Slots, CauseNamedFirst, Live, Closing, Causes, Unnamed, doorVars, taskVars, workVars,
     endVars, drainVars
<1>5. ASSUME NEW s \in Conversations, Disposed(s)
      PROVE  Phases'
  BY <1>5, TypeOK, Phases, Slots, CauseNamedFirst DEF Disposed, TypeOK, Phases, Phase,
     Slots, CauseNamedFirst, Live, Closing, Causes, Unnamed, doorVars, taskVars, workVars,
     endVars, drainVars
<1>6. ASSUME NEW s \in Conversations, TurnedAway(s)
      PROVE  Phases'
  BY <1>6, TypeOK, Phases, Slots, CauseNamedFirst DEF TurnedAway, Removed, TypeOK, Phases,
     Phase, Slots, CauseNamedFirst, Live, Closing, Causes, Unnamed, doorVars, taskVars,
     workVars, endVars, drainVars
<1>7. ASSUME NEW s \in Conversations, Bind(s)
      PROVE  Phases'
  BY <1>7, TypeOK, Phases, Slots, CauseNamedFirst DEF Bind, TypeOK, Phases, Phase, Slots,
     CauseNamedFirst, Live, Closing, Causes, Unnamed, doorVars, taskVars, workVars,
     endVars, drainVars
<1>8. ASSUME NEW s \in Conversations, Open(s)
      PROVE  Phases'
  BY <1>8, TypeOK, Phases, Slots, CauseNamedFirst DEF Open, TypeOK, Phases, Phase, Slots,
     CauseNamedFirst, Live, Closing, Causes, Unnamed, doorVars, taskVars, workVars,
     endVars, drainVars
<1>9. ASSUME NEW s \in Conversations, OpenFails(s)
      PROVE  Phases'
  BY <1>9, TypeOK, Phases, Slots, CauseNamedFirst DEF OpenFails, Latch, TypeOK, Phases,
     Phase, Slots, CauseNamedFirst, Live, Closing, Causes, Unnamed, doorVars, taskVars,
     workVars, endVars, drainVars
<1>10. ASSUME NEW s \in Conversations, StartReply(s)
      PROVE  Phases'
  BY <1>10, TypeOK, Phases, Slots, CauseNamedFirst DEF StartReply, TypeOK, Phases, Phase,
     Slots, CauseNamedFirst, Live, Closing, Causes, Unnamed, doorVars, taskVars, workVars,
     endVars, drainVars
<1>11. ASSUME NEW s \in Conversations, ReplyOver(s)
      PROVE  Phases'
  BY <1>11, TypeOK, Phases, Slots, CauseNamedFirst DEF ReplyOver, TypeOK, Phases, Phase,
     Slots, CauseNamedFirst, Live, Closing, Causes, Unnamed, doorVars, taskVars, workVars,
     endVars, drainVars
<1>12. ASSUME NEW s \in Conversations, DiscoveryOver(s)
      PROVE  Phases'
  BY <1>12, TypeOK, Phases, Slots, CauseNamedFirst DEF DiscoveryOver, TypeOK, Phases,
     Phase, Slots, CauseNamedFirst, Live, Closing, Causes, Unnamed, doorVars, taskVars,
     workVars, endVars, drainVars
<1>13. ASSUME NEW s \in Conversations, Disconnect(s)
      PROVE  Phases'
  BY <1>13, TypeOK, Phases, Slots, CauseNamedFirst DEF Disconnect, TypeOK, Phases, Phase,
     Slots, CauseNamedFirst, Live, Closing, Causes, Unnamed, doorVars, taskVars, workVars,
     endVars, drainVars
<1>14. ASSUME NEW s \in Conversations, ServeReturns(s)
      PROVE  Phases'
  BY <1>14, TypeOK, Phases, Slots, CauseNamedFirst DEF ServeReturns, Latch, Leaves,
     TypeOK, Phases, Phase, Slots, CauseNamedFirst, Live, Closing, Causes, Unnamed,
     doorVars, taskVars, workVars, endVars, drainVars
<1>15. ASSUME NEW s \in Conversations, ServeRaises(s)
      PROVE  Phases'
  BY <1>15, TypeOK, Phases, Slots, CauseNamedFirst DEF ServeRaises, Latch, Leaves, TypeOK,
     Phases, Phase, Slots, CauseNamedFirst, Live, Closing, Causes, Unnamed, doorVars,
     taskVars, workVars, endVars, drainVars
<1>16. ASSUME NEW s \in Conversations, Limit(s)
      PROVE  Phases'
  BY <1>16, TypeOK, Phases, Slots, CauseNamedFirst DEF Limit, Latch, TypeOK, Phases,
     Phase, Slots, CauseNamedFirst, Live, Closing, Causes, Unnamed, doorVars, taskVars,
     workVars, endVars, drainVars
<1>17. ASSUME NEW s \in Conversations, LimitCloses(s)
      PROVE  Phases'
  BY <1>17, TypeOK, Phases, Slots, CauseNamedFirst DEF LimitCloses, Leaves, TypeOK,
     Phases, Phase, Slots, CauseNamedFirst, Live, Closing, Causes, Unnamed, doorVars,
     taskVars, workVars, endVars, drainVars
<1>18. ASSUME NEW s \in Conversations, IdleExpired(s)
      PROVE  Phases'
  BY <1>18, TypeOK, Phases, Slots, CauseNamedFirst DEF IdleExpired, Latch, TypeOK, Phases,
     Phase, Slots, CauseNamedFirst, Live, Closing, Causes, Unnamed, doorVars, taskVars,
     workVars, endVars, drainVars
<1>19. ASSUME NEW s \in Conversations, IdleCloses(s)
      PROVE  Phases'
  BY <1>19, TypeOK, Phases, Slots, CauseNamedFirst DEF IdleCloses, TypeOK, Phases, Phase,
     Slots, CauseNamedFirst, Live, Closing, Causes, Unnamed, doorVars, taskVars, workVars,
     endVars, drainVars
<1>20. ASSUME NEW s \in Conversations, WatchdogGone(s)
      PROVE  Phases'
  BY <1>20, TypeOK, Phases, Slots, CauseNamedFirst DEF WatchdogGone, TypeOK, Phases,
     Phase, Slots, CauseNamedFirst, Live, Closing, Causes, Unnamed, doorVars, taskVars,
     workVars, endVars, drainVars
<1>21. ASSUME NEW s \in Conversations, WatchdogStopped(s)
      PROVE  Phases'
  BY <1>21, TypeOK, Phases, Slots, CauseNamedFirst DEF WatchdogStopped, TypeOK, Phases,
     Phase, Slots, CauseNamedFirst, Live, Closing, Causes, Unnamed, doorVars, taskVars,
     workVars, endVars, drainVars
<1>22. ASSUME NEW s \in Conversations, RuntimeClosed(s)
      PROVE  Phases'
  BY <1>22, TypeOK, Phases, Slots, CauseNamedFirst DEF RuntimeClosed, TypeOK, Phases,
     Phase, Slots, CauseNamedFirst, Live, Closing, Causes, Unnamed, doorVars, taskVars,
     workVars, endVars, drainVars
<1>23. ASSUME NEW s \in Conversations, Finish(s)
      PROVE  Phases'
  BY <1>23, TypeOK, Phases, Slots, CauseNamedFirst DEF Finish, Removed, TypeOK, Phases,
     Phase, Slots, CauseNamedFirst, Live, Closing, Causes, Unnamed, doorVars, taskVars,
     workVars, endVars, drainVars
<1>24. ASSUME NEW s \in Conversations, Cancel(s)
      PROVE  Phases'
  BY <1>24, TypeOK, Phases, Slots, CauseNamedFirst DEF Cancel, Latch, Leaves, TypeOK,
     Phases, Phase, Slots, CauseNamedFirst, Live, Closing, Causes, Unnamed, doorVars,
     taskVars, workVars, endVars, drainVars
<1>25. ASSUME NEW s \in Conversations, Ask(s)
      PROVE  Phases'
  BY <1>25, TypeOK, Phases, Slots, CauseNamedFirst DEF Ask, Latch, TypeOK, Phases, Phase,
     Slots, CauseNamedFirst, Live, Closing, Causes, Unnamed, doorVars, taskVars, workVars,
     endVars, drainVars
<1>26. ASSUME NEW s \in Conversations, ReplySeenOut(s)
      PROVE  Phases'
  BY <1>26, TypeOK, Phases, Slots, CauseNamedFirst DEF ReplySeenOut, TypeOK, Phases,
     Phase, Slots, CauseNamedFirst, Live, Closing, Causes, Unnamed, doorVars, taskVars,
     workVars, endVars, drainVars
<1>27. ASSUME NEW s \in Conversations, GraceOver(s)
      PROVE  Phases'
  BY <1>27, TypeOK, Phases, Slots, CauseNamedFirst DEF GraceOver, TypeOK, Phases, Phase,
     Slots, CauseNamedFirst, Live, Closing, Causes, Unnamed, doorVars, taskVars, workVars,
     endVars, drainVars
<1>28. ASSUME NEW s \in Conversations, AskCloses(s)
      PROVE  Phases'
  BY <1>28, TypeOK, Phases, Slots, CauseNamedFirst DEF AskCloses, TypeOK, Phases, Phase,
     Slots, CauseNamedFirst, Live, Closing, Causes, Unnamed, doorVars, taskVars, workVars,
     endVars, drainVars
<1>29. ASSUME NEW s \in Conversations, FailClose(s)
      PROVE  Phases'
  BY <1>29, TypeOK, Phases, Slots, CauseNamedFirst DEF FailClose, TypeOK, Phases, Phase,
     Slots, CauseNamedFirst, Live, Closing, Causes, Unnamed, doorVars, taskVars, workVars,
     endVars, drainVars
<1>30. CASE Signal
  BY <1>30, TypeOK, Phases, Slots, CauseNamedFirst DEF Signal, TypeOK, Phases, Phase,
     Slots, CauseNamedFirst, Live, Closing, Causes, Unnamed, doorVars, taskVars, workVars,
     endVars, drainVars
<1>31. CASE SecondSignal
  BY <1>31, TypeOK, Phases, Slots, CauseNamedFirst DEF SecondSignal, TypeOK, Phases,
     Phase, Slots, CauseNamedFirst, Live, Closing, Causes, Unnamed, doorVars, taskVars,
     workVars, endVars, drainVars
<1>32. CASE DrainBegins
  BY <1>32, TypeOK, Phases, Slots, CauseNamedFirst DEF DrainBegins, TypeOK, Phases, Phase,
     Slots, CauseNamedFirst, Live, Closing, Causes, Unnamed, doorVars, taskVars, workVars,
     endVars, drainVars
<1>33. CASE DrainWaited
  BY <1>33, TypeOK, Phases, Slots, CauseNamedFirst DEF DrainWaited, TypeOK, Phases, Phase,
     Slots, CauseNamedFirst, Live, Closing, Causes, Unnamed, doorVars, taskVars, workVars,
     endVars, drainVars
<1>34. CASE DrainOver
  BY <1>34, TypeOK, Phases, Slots, CauseNamedFirst DEF DrainOver, TypeOK, Phases, Phase,
     Slots, CauseNamedFirst, Live, Closing, Causes, Unnamed, doorVars, taskVars, workVars,
     endVars, drainVars
<1>35. CASE UNCHANGED vars
  BY <1>35, TypeOK, Phases, Slots, CauseNamedFirst DEF vars, TypeOK, Phases, Phase, Slots,
     CauseNamedFirst, Live, Closing, Causes, Unnamed, doorVars, taskVars, workVars,
     endVars, drainVars
<1> QED BY <1>1, <1>2, <1>3, <1>4, <1>5, <1>6, <1>7, <1>8, <1>9, <1>10, <1>11, <1>12,
   <1>13, <1>14, <1>15, <1>16, <1>17, <1>18, <1>19, <1>20, <1>21, <1>22, <1>23, <1>24,
   <1>25, <1>26, <1>27, <1>28, <1>29, <1>30, <1>31, <1>32, <1>33, <1>34, <1>35
   DEF Next, CloseStep, DrainStep, AskStep

LEMMA CausesStep ==
  ASSUME TypeOK, Phases, CauseNamedFirst, [Next]_vars
  PROVE  CauseNamedFirst'
<1>1. ASSUME NEW s \in Conversations, Refuse(s)
      PROVE  CauseNamedFirst'
  BY <1>1, TypeOK, Phases, CauseNamedFirst DEF Refuse, TypeOK, Phases, Phase,
     CauseNamedFirst, Live, Closing, Causes, Unnamed, doorVars, taskVars, workVars,
     endVars, drainVars
<1>2. ASSUME NEW s \in Conversations, Classify(s)
      PROVE  CauseNamedFirst'
  BY <1>2, TypeOK, Phases, CauseNamedFirst DEF Classify, TypeOK, Phases, Phase,
     CauseNamedFirst, Live, Closing, Causes, Unnamed, doorVars, taskVars, workVars,
     endVars, drainVars
<1>3. ASSUME NEW s \in Conversations, Insert(s)
      PROVE  CauseNamedFirst'
  BY <1>3, TypeOK, Phases, CauseNamedFirst DEF Insert, TypeOK, Phases, Phase,
     CauseNamedFirst, Live, Closing, Causes, Unnamed, doorVars, taskVars, workVars,
     endVars, drainVars
<1>4. ASSUME NEW s \in Conversations, Recheck(s)
      PROVE  CauseNamedFirst'
  BY <1>4, TypeOK, Phases, CauseNamedFirst DEF Recheck, TypeOK, Phases, Phase,
     CauseNamedFirst, Live, Closing, Causes, Unnamed, doorVars, taskVars, workVars,
     endVars, drainVars
<1>5. ASSUME NEW s \in Conversations, Disposed(s)
      PROVE  CauseNamedFirst'
  BY <1>5, TypeOK, Phases, CauseNamedFirst DEF Disposed, TypeOK, Phases, Phase,
     CauseNamedFirst, Live, Closing, Causes, Unnamed, doorVars, taskVars, workVars,
     endVars, drainVars
<1>6. ASSUME NEW s \in Conversations, TurnedAway(s)
      PROVE  CauseNamedFirst'
  BY <1>6, TypeOK, Phases, CauseNamedFirst DEF TurnedAway, Removed, TypeOK, Phases, Phase,
     CauseNamedFirst, Live, Closing, Causes, Unnamed, doorVars, taskVars, workVars,
     endVars, drainVars
<1>7. ASSUME NEW s \in Conversations, Bind(s)
      PROVE  CauseNamedFirst'
  BY <1>7, TypeOK, Phases, CauseNamedFirst DEF Bind, TypeOK, Phases, Phase,
     CauseNamedFirst, Live, Closing, Causes, Unnamed, doorVars, taskVars, workVars,
     endVars, drainVars
<1>8. ASSUME NEW s \in Conversations, Open(s)
      PROVE  CauseNamedFirst'
  BY <1>8, TypeOK, Phases, CauseNamedFirst DEF Open, TypeOK, Phases, Phase,
     CauseNamedFirst, Live, Closing, Causes, Unnamed, doorVars, taskVars, workVars,
     endVars, drainVars
<1>9. ASSUME NEW s \in Conversations, OpenFails(s)
      PROVE  CauseNamedFirst'
  BY <1>9, TypeOK, Phases, CauseNamedFirst DEF OpenFails, Latch, TypeOK, Phases, Phase,
     CauseNamedFirst, Live, Closing, Causes, Unnamed, doorVars, taskVars, workVars,
     endVars, drainVars
<1>10. ASSUME NEW s \in Conversations, StartReply(s)
      PROVE  CauseNamedFirst'
  BY <1>10, TypeOK, Phases, CauseNamedFirst DEF StartReply, TypeOK, Phases, Phase,
     CauseNamedFirst, Live, Closing, Causes, Unnamed, doorVars, taskVars, workVars,
     endVars, drainVars
<1>11. ASSUME NEW s \in Conversations, ReplyOver(s)
      PROVE  CauseNamedFirst'
  BY <1>11, TypeOK, Phases, CauseNamedFirst DEF ReplyOver, TypeOK, Phases, Phase,
     CauseNamedFirst, Live, Closing, Causes, Unnamed, doorVars, taskVars, workVars,
     endVars, drainVars
<1>12. ASSUME NEW s \in Conversations, DiscoveryOver(s)
      PROVE  CauseNamedFirst'
  BY <1>12, TypeOK, Phases, CauseNamedFirst DEF DiscoveryOver, TypeOK, Phases, Phase,
     CauseNamedFirst, Live, Closing, Causes, Unnamed, doorVars, taskVars, workVars,
     endVars, drainVars
<1>13. ASSUME NEW s \in Conversations, Disconnect(s)
      PROVE  CauseNamedFirst'
  BY <1>13, TypeOK, Phases, CauseNamedFirst DEF Disconnect, TypeOK, Phases, Phase,
     CauseNamedFirst, Live, Closing, Causes, Unnamed, doorVars, taskVars, workVars,
     endVars, drainVars
<1>14. ASSUME NEW s \in Conversations, ServeReturns(s)
      PROVE  CauseNamedFirst'
  BY <1>14, TypeOK, Phases, CauseNamedFirst DEF ServeReturns, Latch, Leaves, TypeOK,
     Phases, Phase, CauseNamedFirst, Live, Closing, Causes, Unnamed, doorVars, taskVars,
     workVars, endVars, drainVars
<1>15. ASSUME NEW s \in Conversations, ServeRaises(s)
      PROVE  CauseNamedFirst'
  BY <1>15, TypeOK, Phases, CauseNamedFirst DEF ServeRaises, Latch, Leaves, TypeOK,
     Phases, Phase, CauseNamedFirst, Live, Closing, Causes, Unnamed, doorVars, taskVars,
     workVars, endVars, drainVars
<1>16. ASSUME NEW s \in Conversations, Limit(s)
      PROVE  CauseNamedFirst'
  BY <1>16, TypeOK, Phases, CauseNamedFirst DEF Limit, Latch, TypeOK, Phases, Phase,
     CauseNamedFirst, Live, Closing, Causes, Unnamed, doorVars, taskVars, workVars,
     endVars, drainVars
<1>17. ASSUME NEW s \in Conversations, LimitCloses(s)
      PROVE  CauseNamedFirst'
  BY <1>17, TypeOK, Phases, CauseNamedFirst DEF LimitCloses, Leaves, TypeOK, Phases,
     Phase, CauseNamedFirst, Live, Closing, Causes, Unnamed, doorVars, taskVars, workVars,
     endVars, drainVars
<1>18. ASSUME NEW s \in Conversations, IdleExpired(s)
      PROVE  CauseNamedFirst'
  BY <1>18, TypeOK, Phases, CauseNamedFirst DEF IdleExpired, Latch, TypeOK, Phases, Phase,
     CauseNamedFirst, Live, Closing, Causes, Unnamed, doorVars, taskVars, workVars,
     endVars, drainVars
<1>19. ASSUME NEW s \in Conversations, IdleCloses(s)
      PROVE  CauseNamedFirst'
  BY <1>19, TypeOK, Phases, CauseNamedFirst DEF IdleCloses, TypeOK, Phases, Phase,
     CauseNamedFirst, Live, Closing, Causes, Unnamed, doorVars, taskVars, workVars,
     endVars, drainVars
<1>20. ASSUME NEW s \in Conversations, WatchdogGone(s)
      PROVE  CauseNamedFirst'
  BY <1>20, TypeOK, Phases, CauseNamedFirst DEF WatchdogGone, TypeOK, Phases, Phase,
     CauseNamedFirst, Live, Closing, Causes, Unnamed, doorVars, taskVars, workVars,
     endVars, drainVars
<1>21. ASSUME NEW s \in Conversations, WatchdogStopped(s)
      PROVE  CauseNamedFirst'
  BY <1>21, TypeOK, Phases, CauseNamedFirst DEF WatchdogStopped, TypeOK, Phases, Phase,
     CauseNamedFirst, Live, Closing, Causes, Unnamed, doorVars, taskVars, workVars,
     endVars, drainVars
<1>22. ASSUME NEW s \in Conversations, RuntimeClosed(s)
      PROVE  CauseNamedFirst'
  BY <1>22, TypeOK, Phases, CauseNamedFirst DEF RuntimeClosed, TypeOK, Phases, Phase,
     CauseNamedFirst, Live, Closing, Causes, Unnamed, doorVars, taskVars, workVars,
     endVars, drainVars
<1>23. ASSUME NEW s \in Conversations, Finish(s)
      PROVE  CauseNamedFirst'
  BY <1>23, TypeOK, Phases, CauseNamedFirst DEF Finish, Removed, TypeOK, Phases, Phase,
     CauseNamedFirst, Live, Closing, Causes, Unnamed, doorVars, taskVars, workVars,
     endVars, drainVars
<1>24. ASSUME NEW s \in Conversations, Cancel(s)
      PROVE  CauseNamedFirst'
  BY <1>24, TypeOK, Phases, CauseNamedFirst DEF Cancel, Latch, Leaves, TypeOK, Phases,
     Phase, CauseNamedFirst, Live, Closing, Causes, Unnamed, doorVars, taskVars, workVars,
     endVars, drainVars
<1>25. ASSUME NEW s \in Conversations, Ask(s)
      PROVE  CauseNamedFirst'
  BY <1>25, TypeOK, Phases, CauseNamedFirst DEF Ask, Latch, TypeOK, Phases, Phase,
     CauseNamedFirst, Live, Closing, Causes, Unnamed, doorVars, taskVars, workVars,
     endVars, drainVars
<1>26. ASSUME NEW s \in Conversations, ReplySeenOut(s)
      PROVE  CauseNamedFirst'
  BY <1>26, TypeOK, Phases, CauseNamedFirst DEF ReplySeenOut, TypeOK, Phases, Phase,
     CauseNamedFirst, Live, Closing, Causes, Unnamed, doorVars, taskVars, workVars,
     endVars, drainVars
<1>27. ASSUME NEW s \in Conversations, GraceOver(s)
      PROVE  CauseNamedFirst'
  BY <1>27, TypeOK, Phases, CauseNamedFirst DEF GraceOver, TypeOK, Phases, Phase,
     CauseNamedFirst, Live, Closing, Causes, Unnamed, doorVars, taskVars, workVars,
     endVars, drainVars
<1>28. ASSUME NEW s \in Conversations, AskCloses(s)
      PROVE  CauseNamedFirst'
  BY <1>28, TypeOK, Phases, CauseNamedFirst DEF AskCloses, TypeOK, Phases, Phase,
     CauseNamedFirst, Live, Closing, Causes, Unnamed, doorVars, taskVars, workVars,
     endVars, drainVars
<1>29. ASSUME NEW s \in Conversations, FailClose(s)
      PROVE  CauseNamedFirst'
  BY <1>29, TypeOK, Phases, CauseNamedFirst DEF FailClose, TypeOK, Phases, Phase,
     CauseNamedFirst, Live, Closing, Causes, Unnamed, doorVars, taskVars, workVars,
     endVars, drainVars
<1>30. CASE Signal
  BY <1>30, TypeOK, Phases, CauseNamedFirst DEF Signal, TypeOK, Phases, Phase,
     CauseNamedFirst, Live, Closing, Causes, Unnamed, doorVars, taskVars, workVars,
     endVars, drainVars
<1>31. CASE SecondSignal
  BY <1>31, TypeOK, Phases, CauseNamedFirst DEF SecondSignal, TypeOK, Phases, Phase,
     CauseNamedFirst, Live, Closing, Causes, Unnamed, doorVars, taskVars, workVars,
     endVars, drainVars
<1>32. CASE DrainBegins
  BY <1>32, TypeOK, Phases, CauseNamedFirst DEF DrainBegins, TypeOK, Phases, Phase,
     CauseNamedFirst, Live, Closing, Causes, Unnamed, doorVars, taskVars, workVars,
     endVars, drainVars
<1>33. CASE DrainWaited
  BY <1>33, TypeOK, Phases, CauseNamedFirst DEF DrainWaited, TypeOK, Phases, Phase,
     CauseNamedFirst, Live, Closing, Causes, Unnamed, doorVars, taskVars, workVars,
     endVars, drainVars
<1>34. CASE DrainOver
  BY <1>34, TypeOK, Phases, CauseNamedFirst DEF DrainOver, TypeOK, Phases, Phase,
     CauseNamedFirst, Live, Closing, Causes, Unnamed, doorVars, taskVars, workVars,
     endVars, drainVars
<1>35. CASE UNCHANGED vars
  BY <1>35, TypeOK, Phases, CauseNamedFirst DEF vars, TypeOK, Phases, Phase,
     CauseNamedFirst, Live, Closing, Causes, Unnamed, doorVars, taskVars, workVars,
     endVars, drainVars
<1> QED BY <1>1, <1>2, <1>3, <1>4, <1>5, <1>6, <1>7, <1>8, <1>9, <1>10, <1>11, <1>12,
   <1>13, <1>14, <1>15, <1>16, <1>17, <1>18, <1>19, <1>20, <1>21, <1>22, <1>23, <1>24,
   <1>25, <1>26, <1>27, <1>28, <1>29, <1>30, <1>31, <1>32, <1>33, <1>34, <1>35
   DEF Next, CloseStep, DrainStep, AskStep

-----------------------------------------------------------------------------
(* Room.                                                                   *)

\* A slot is only ever added behind a classification that found room.
LEMMA RoomStep ==
  ASSUME TypeOK, Slots, Room, [Next]_vars
  PROVE  Room'
<1>1. IsFiniteSet(registered)
  BY FS_Subset DEF TypeOK
<1>2. Cardinality(registered) \in Nat
  BY <1>1, FS_CardinalityType
<1>3. ASSUME NEW s \in Conversations, Insert(s)
      PROVE  Room'
  <2>1. registered' = registered \cup {s} /\ door' = <<s, "inserted">>
    BY <1>3 DEF Insert
  <2>2. Cardinality(registered) < MaxSessions
    BY <1>3 DEF Insert, Room
  <2>3. \/ Cardinality(registered') = Cardinality(registered)
        \/ Cardinality(registered') = Cardinality(registered) + 1
    <3>1. CASE s \in registered
      BY <2>1, <3>1, registered \cup {s} = registered
    <3>2. CASE s \notin registered
      BY <1>1, <2>1, <3>2, FS_AddElement
    <3> QED BY <3>1, <3>2
  <2> QED BY <1>2, <2>1, <2>2, <2>3 DEF Room
<1>4. ASSUME registered' \subseteq registered,
             \A s \in Conversations : door' = <<s, "classified">> => door' = door
      PROVE  Room'
  <2>1. Cardinality(registered') <= Cardinality(registered)
    BY <1>1, <1>4, FS_Subset
  <2>2. Cardinality(registered') \in Nat
    BY <1>1, <1>4, FS_Subset, FS_CardinalityType
  <2> QED BY <1>2, <1>4, <2>1, <2>2 DEF Room
<1>5. ASSUME NEW s \in Conversations, Classify(s)
      PROVE  Room'
  BY <1>2, <1>5 DEF Classify, Room
<1>6. ASSUME NEW s \in Conversations, Recheck(s)
      PROVE  Room'
  BY <1>4, <1>6 DEF Recheck
<1>7. ASSUME NEW s \in Conversations, TurnedAway(s) \/ Finish(s)
      PROVE  Room'
  BY <1>4, <1>7 DEF TurnedAway, Finish, Removed
<1>8. ASSUME UNCHANGED <<registered, door>>
      PROVE  Room'
  BY <1>4, <1>8
<1>9. CASE SecondSignal \/ DrainStep \/ Signal \/ UNCHANGED vars
  BY <1>8, <1>9 DEF SecondSignal, DrainStep, DrainBegins, DrainWaited, DrainOver, Signal,
     vars, doorVars
<1>10. ASSUME NEW s \in Conversations,
              \/ Refuse(s) \/ Disposed(s) \/ Bind(s) \/ Open(s) \/ OpenFails(s)
              \/ StartReply(s) \/ ReplyOver(s) \/ DiscoveryOver(s) \/ Disconnect(s)
              \/ FailClose(s)
       PROVE  Room'
  BY <1>8, <1>10 DEF Refuse, Disposed, Bind, Open, OpenFails, StartReply, ReplyOver,
     DiscoveryOver, Disconnect, FailClose, doorVars
<1>11. ASSUME NEW s \in Conversations,
              \/ ServeReturns(s) \/ ServeRaises(s) \/ Limit(s) \/ LimitCloses(s)
              \/ IdleExpired(s) \/ IdleCloses(s) \/ WatchdogGone(s)
              \/ WatchdogStopped(s) \/ RuntimeClosed(s) \/ Cancel(s) \/ AskStep(s)
       PROVE  Room'
  BY <1>8, <1>11 DEF ServeReturns, ServeRaises, Limit, LimitCloses, IdleExpired,
     IdleCloses, WatchdogGone, WatchdogStopped, RuntimeClosed, Cancel, AskStep, Ask,
     ReplySeenOut, GraceOver, AskCloses, doorVars
<1> QED BY <1>3, <1>5, <1>6, <1>7, <1>9, <1>10, <1>11 DEF Next, CloseStep

-----------------------------------------------------------------------------
(* The theorems.                                                           *)

LEMMA InvInitially == Init => SessionsInv
<1> SUFFICES ASSUME Init PROVE SessionsInv
  OBVIOUS
<1>1. TypeOK
  BY DEF Init, TypeOK, Tasks, Asked
<1>2. Slots
  BY DEF Init, Slots, Live, Closing
<1>3. Room
  BY FS_EmptySet DEF Init, Room
<1>4. Phases
  BY DEF Init, Phases, Phase, Live, Closing, Causes
<1>5. CauseNamedFirst
  BY DEF Init, CauseNamedFirst, Closing
<1> QED BY <1>1, <1>2, <1>3, <1>4, <1>5 DEF SessionsInv

\* SessionsInv is inductive.
THEOREM SessionsInvariant == Spec => []SessionsInv
<1>1. SessionsInv /\ [Next]_vars => SessionsInv'
  BY TypeStep, SlotsStep, RoomStep, PhasesStep, CausesStep DEF SessionsInv
<1> QED BY InvInitially, <1>1, PTL DEF Spec

\* The variables keep their types: a world is only held with a slot.
THEOREM TypeCorrect == Spec => []TypeOK
<1>1. SessionsInv => TypeOK
  BY DEF SessionsInv
<1> QED BY SessionsInvariant, <1>1, PTL

\* A slot is held by exactly the conversations that are live (registry.py
\* `admit`, `remove`).
THEOREM SlotsExact == Spec => []SlotPerConversation
<1>1. SessionsInv => SlotPerConversation
  BY DEF SessionsInv, TypeOK, Slots, SlotPerConversation
<1> QED BY SessionsInvariant, <1>1, PTL

\* When a record is closed nothing of its conversation is running
\* (device/session.py `_converse`).
THEOREM RecordLast == Spec => []NothingBehindTheRecord
<1>1. SessionsInv => NothingBehindTheRecord
  BY DEF SessionsInv, Phases, Phase, NothingBehindTheRecord, Live, Closing
<1> QED BY SessionsInvariant, <1>1, PTL

\* What is about to close a conversation has named why (device/session.py
\* `request_shutdown`).
THEOREM NamedFirst == Spec => []CauseNamedFirst
<1>1. SessionsInv => CauseNamedFirst
  BY DEF SessionsInv
<1> QED BY SessionsInvariant, <1>1, PTL

-----------------------------------------------------------------------------
(* Sessions implements Lifetime.                                           *)

Inside == {s \in Conversations : task[s] \in Live}
PromisesKept == [L!Next]_<<draining, Inside, cause, record>>

\* A step between two places that are both live, or neither, lets nobody in or
\* out.
LEMMA InsideKept ==
  ASSUME TypeOK, NEW s \in Conversations, NEW p,
         task' = [task EXCEPT ![s] = p], p \in Live <=> task[s] \in Live
  PROVE  Inside' = Inside
BY DEF TypeOK, Inside

\* Naming a cause decides, or leaves what was decided alone.
LEMMA LatchDecides ==
  ASSUME TypeOK, NEW s \in Conversations, NEW c \in Causes, Latch(s, c),
         UNCHANGED <<draining, record>>, Inside' = Inside
  PROVE  PromisesKept
<1>1. CASE cause[s] = Unnamed
  <2>1. L!Decide(s, c)
    BY <1>1 DEF Latch, L!Decide, Inside
  <2> QED BY <2>1 DEF PromisesKept, L!Next
<1>2. CASE cause[s] # Unnamed
  BY <1>2 DEF Latch, PromisesKept
<1> QED BY <1>1, <1>2

\* Letting a conversation go leaves nobody else behind, and nobody else in.
LEMMA OneLeaves ==
  ASSUME TypeOK, NEW s \in Conversations, task[s] \in Live,
         task' = [task EXCEPT ![s] = "gone"]
  PROVE  s \in Inside /\ Inside' = Inside \ {s}
BY DEF TypeOK, Inside, Live, Closing

LEMMA StepKeepsPromises ==
  ASSUME SessionsInv, [Next]_vars
  PROVE  PromisesKept
<1>0. TypeOK /\ Slots /\ Room /\ Phases /\ CauseNamedFirst
  BY DEF SessionsInv
<1>1. ASSUME UNCHANGED <<draining, cause, record>>, Inside' = Inside
      PROVE  PromisesKept
  BY <1>1 DEF PromisesKept
<1>2. ASSUME UNCHANGED <<draining, cause, record, task>>
      PROVE  PromisesKept
  BY <1>1, <1>2 DEF Inside
<1>3. ASSUME NEW s \in Conversations,
             \/ Classify(s) \/ Insert(s) \/ Disposed(s) \/ StartReply(s) \/ ReplyOver(s)
             \/ DiscoveryOver(s) \/ Disconnect(s) \/ IdleCloses(s) \/ WatchdogGone(s)
             \/ ReplySeenOut(s) \/ GraceOver(s) \/ AskCloses(s) \/ FailClose(s)
      PROVE  PromisesKept
  BY <1>2, <1>3 DEF Classify, Insert, Disposed, StartReply, ReplyOver, DiscoveryOver,
     Disconnect, IdleCloses, WatchdogGone, ReplySeenOut, GraceOver, AskCloses, FailClose,
     doorVars, taskVars
<1>4. CASE SecondSignal \/ DrainStep \/ UNCHANGED vars
  BY <1>2, <1>4 DEF SecondSignal, DrainStep, DrainBegins, DrainWaited, DrainOver, vars,
     doorVars, taskVars
<1>5. CASE Signal
  <2>1. L!Shut
    BY <1>5 DEF Signal, L!Shut, Inside, taskVars
  <2> QED BY <2>1 DEF PromisesKept, L!Next
<1>6. ASSUME NEW s \in Conversations, Refuse(s)
      PROVE  PromisesKept
  <2>1. Inside' = Inside
    BY <1>0, <1>6, InsideKept DEF Refuse, Live, Closing
  <2> QED BY <1>1, <1>6, <2>1 DEF Refuse, doorVars
<1>7. ASSUME NEW s \in Conversations, Recheck(s)
      PROVE  PromisesKept
  <2>0. task[s] = "away" /\ door = <<s, "inserted">> /\ record[s] = "none"
    BY <1>0, <1>7 DEF Recheck, Slots, Phases, Phase
  <2>1. CASE draining
    <3>1. Inside' = Inside
      BY <1>0, <1>7, <2>0, <2>1, InsideKept DEF Recheck, Live, Closing
    <3> QED BY <1>1, <1>7, <3>1 DEF Recheck
  <2>2. CASE ~draining
    <3>1. s \notin Inside /\ Inside' = Inside \cup {s}
      BY <1>0, <1>7, <2>0, <2>2 DEF Recheck, Inside, Live, Closing, TypeOK
    <3>2. Inside = registered \ {s} /\ s \in registered
      <4>1. \A t \in Conversations : door = <<t, "inserted">> <=> t = s
        BY <2>0
      <4> QED BY <1>0, <4>1, <3>1 DEF Slots, Inside, TypeOK
    <3>3. Cardinality(Inside) < MaxSessions
      <4>1. IsFiniteSet(registered) /\ Cardinality(registered) \in Nat
        BY <1>0, FS_Subset, FS_CardinalityType DEF TypeOK
      <4>2. Cardinality(registered \ {s}) = Cardinality(registered) - 1
        BY <4>1, <3>2, FS_RemoveElement
      <4> QED BY <1>0, <3>2, <4>1, <4>2 DEF Room
    <3>4. UNCHANGED <<draining, cause, record>>
      BY <1>7 DEF Recheck
    <3>5. L!Enter(s) <=>
            /\ ~draining /\ s \notin Inside /\ Cardinality(Inside) < MaxSessions
            /\ record[s] = "none"
            /\ Inside' = Inside \cup {s}
            /\ UNCHANGED <<draining, cause, record>>
      BY Zenon DEF L!Enter, Inside, L!Cardinality, Cardinality
    <3>6. L!Enter(s)
      BY <2>0, <2>2, <3>1, <3>3, <3>4, <3>5
    <3> QED BY <3>6 DEF PromisesKept, L!Next
  <2> QED BY <2>1, <2>2
<1>8. ASSUME NEW s \in Conversations, TurnedAway(s)
      PROVE  PromisesKept
  <2>1. s \in Inside /\ Inside' = Inside \ {s}
    BY <1>0, <1>8, OneLeaves DEF TurnedAway, Live
  <2>2. record[s] = "none"
    BY <1>0, <1>8 DEF TurnedAway, Phases, Phase
  <2>3. L!Leave(s)
    BY <1>8, <2>1, <2>2 DEF TurnedAway, L!Leave, Inside
  <2> QED BY <2>3 DEF PromisesKept, L!Next
<1>9. ASSUME NEW s \in Conversations, Finish(s)
      PROVE  PromisesKept
  <2>1. s \in Inside /\ Inside' = Inside \ {s}
    BY <1>0, <1>9, OneLeaves DEF Finish, Live, Closing
  <2>2. record[s] = "open" /\ cause[s] # Unnamed
    BY <1>0, <1>9 DEF Finish, Phases, Phase, CauseNamedFirst, Live, Closing
  <2>3. record' = [record EXCEPT ![s] = cause[s]]
    BY <1>9, <2>2 DEF Finish
  <2>4. L!Leave(s)
    BY <1>9, <2>1, <2>2, <2>3 DEF Finish, L!Leave, Inside
  <2> QED BY <2>4 DEF PromisesKept, L!Next
<1>10. ASSUME NEW s \in Conversations, Bind(s) \/ LimitCloses(s)
       PROVE  PromisesKept
  <2>1. Inside' = Inside
    BY <1>0, <1>10, InsideKept DEF Bind, LimitCloses, Leaves, Live, Closing
  <2> QED BY <1>1, <1>10, <2>1 DEF Bind, LimitCloses, doorVars
<1>11. ASSUME NEW s \in Conversations, WatchdogStopped(s) \/ RuntimeClosed(s)
       PROVE  PromisesKept
  <2>1. Inside' = Inside
    BY <1>0, <1>11, InsideKept DEF WatchdogStopped, RuntimeClosed, Live, Closing
  <2> QED BY <1>1, <1>11, <2>1 DEF WatchdogStopped, RuntimeClosed, doorVars
<1>12. ASSUME NEW s \in Conversations, Open(s)
       PROVE  PromisesKept
  <2>1. Inside' = Inside /\ s \in Inside
    BY <1>0, <1>12, InsideKept DEF Open, Live, Inside
  <2>2. record[s] = "none"
    BY <1>0, <1>12 DEF Open, Phases, Phase
  <2>3. L!Begin(s)
    BY <1>12, <2>1, <2>2 DEF Open, L!Begin, Inside, doorVars
  <2> QED BY <2>3 DEF PromisesKept, L!Next
<1>13. ASSUME NEW s \in Conversations, OpenFails(s)
       PROVE  PromisesKept
  <2>1. Inside' = Inside /\ s \in Inside
    BY <1>0, <1>13, InsideKept DEF OpenFails, Live, Closing, Inside
  <2>2. record[s] = "none" /\ record' = [record EXCEPT ![s] = "open"]
    BY <1>0, <1>13 DEF OpenFails, Phases, Phase
  <2>3. CASE cause[s] = Unnamed
    <3>1. "error" \in Causes /\ cause' = [cause EXCEPT ![s] = "error"]
      BY <1>13, <2>3 DEF OpenFails, Latch, Causes
    <3>2. L!BeginAndFail(s, "error")
      BY <1>13, <2>1, <2>2, <2>3, <3>1 DEF OpenFails, L!BeginAndFail, Inside, doorVars
    <3> QED BY <3>1, <3>2 DEF PromisesKept, L!Next
  <2>4. CASE cause[s] # Unnamed
    <3>1. L!Begin(s)
      BY <1>13, <2>1, <2>2, <2>4 DEF OpenFails, Latch, L!Begin, Inside, doorVars
    <3> QED BY <3>1 DEF PromisesKept, L!Next
  <2> QED BY <2>3, <2>4
<1>14. ASSUME NEW s \in Conversations,
              ServeReturns(s) \/ ServeRaises(s) \/ Limit(s)
       PROVE  PromisesKept
  <2>1. Inside' = Inside
    BY <1>0, <1>14, InsideKept DEF ServeReturns, ServeRaises, Limit, Leaves, Live, Closing
  <2>2. \E c \in Causes : Latch(s, c)
    BY <1>14 DEF ServeReturns, ServeRaises, Limit, Causes
  <2> QED BY <1>0, <1>14, <2>1, <2>2, LatchDecides DEF ServeReturns, ServeRaises, Limit,
          doorVars
<1>15. ASSUME NEW s \in Conversations, IdleExpired(s) \/ Ask(s)
       PROVE  PromisesKept
  <2>1. Inside' = Inside
    BY <1>15 DEF IdleExpired, Ask, Inside
  <2>2. \E c \in Causes : Latch(s, c)
    BY <1>15 DEF IdleExpired, Ask, Causes
  <2> QED BY <1>0, <1>15, <2>1, <2>2, LatchDecides DEF IdleExpired, Ask, doorVars
<1>16. ASSUME NEW s \in Conversations, Cancel(s)
       PROVE  PromisesKept
  <2>1. UNCHANGED <<draining, record>>
    BY <1>16 DEF Cancel, doorVars
  <2>2. CASE UNCHANGED <<task, cause>>
    BY <1>2, <2>1, <2>2
  <2>3. CASE task[s] \in {"serving", "limited"} /\ Latch(s, "error") /\ Leaves(s)
    <3>1. Inside' = Inside
      BY <1>0, <2>3, InsideKept DEF Leaves, Live, Closing
    <3>2. "error" \in Causes
      BY DEF Causes
    <3> QED BY <1>0, <2>1, <2>3, <3>1, <3>2, LatchDecides
  <2> QED BY <1>16, <2>2, <2>3 DEF Cancel
<1> QED BY <1>3, <1>4, <1>5, <1>6, <1>7, <1>8, <1>9, <1>10, <1>11, <1>12, <1>13, <1>14,
           <1>15, <1>16
   DEF Next, CloseStep, AskStep

\* Sessions implements Lifetime: whatever ends them, the conversations of a
\* server come and go as that says (registry.py `admit`, device/session.py
\* `_latch_close`, `_converse`).
THEOREM LifetimeRefined == Spec => ImplementsLifetime
<1>1. Init => L!Init
  <2> SUFFICES ASSUME Init PROVE L!Init
    OBVIOUS
  <2>1. Inside = {}
    BY DEF Init, Inside, Live, Closing
  <2> QED BY <2>1 DEF Init, L!Init, Inside
<1>2. SessionsInv /\ [Next]_vars => [L!Next]_<<draining, Inside, cause, record>>
  BY StepKeepsPromises DEF PromisesKept
<1> QED BY SessionsInvariant, <1>1, <1>2, PTL DEF Spec, ImplementsLifetime, L!Spec, Inside

=============================================================================
