----------------------------- MODULE Sessions -----------------------------
(***************************************************************************)
(* The conversations of one server from the door to the last row: admission *)
(* (registry.py `SessionRegistry`), one task per connection                 *)
(* (device/session.py `DeviceSession.run`), the idle watchdog beside it     *)
(* (device/watchdog.py), the duration cap, the shutdown drain               *)
(* (serving.py `DrainingServer`, `SessionRegistry.drain`) and the close     *)
(* every one of them ends in.                                               *)
(*                                                                         *)
(* All of it runs on one event loop, so an action is what a task does       *)
(* between two awaits; the one exception is the signal handler, which       *)
(* interrupts the loop and so lands between two lines of an admission.      *)
(* How a reply is cut and unwinds is TurnTaking's; here it is running, told *)
(* to end, or over.                                                         *)
(***************************************************************************)
EXTENDS Integers, FiniteSets

CONSTANTS
  Conversations,  \* connections made, each a DeviceSession of its own
  MaxSessions,    \* server.limits.max_sessions
  WithTools,      \* those whose board offers tools of its own in its hello
  Hurried         \* those whose task uvicorn may cancel on its way out

ASSUME MaxSessionsAssumption == MaxSessions \in Nat \ {0}
ASSUME ConversationsAssumption ==
  IsFiniteSet(Conversations) /\ WithTools \subseteq Conversations
    /\ Hurried \subseteq Conversations

VARIABLES
  draining,    \* SessionRegistry._draining
  registered,  \* SessionRegistry._sessions
  bound,       \* the domain of SessionRegistry._bound
  door,        \* the one admission in progress, <<>> for none
  task,        \* per connection, where its task is
  socket,      \* per connection, whether the websocket is open
  cause,       \* DeviceSession._close_reason
  record,      \* what the recording holds: nothing, an open row, its reason
  reply,       \* the reply in flight
  watch,       \* IdleWatchdog._task
  discovery,   \* DeviceSession._discovery
  raising,     \* what the task will end in: an exception, or an answer
  cancelled,   \* observer: the server has cancelled the task
  asked,       \* the drain's request_shutdown, one task per connection
  drain,       \* DrainingServer._drain_task
  drained,     \* the sessions the drain set out to end
  letting,     \* SessionRegistry._disposals, by the session that asked
  awaited,     \* those of them the drain waits for
  exiting      \* uvicorn has been told to exit

doorVars == <<draining, registered, bound, door>>
taskVars == <<task, socket, cause, record>>
workVars == <<reply, watch, discovery>>
endVars == <<raising, cancelled>>
drainVars == <<asked, drain, drained, letting, awaited, exiting>>
vars == <<doorVars, taskVars, workVars, endVars, drainVars>>

Causes == {"client", "limit", "idle", "drain", "error"}
Unnamed == "unnamed"
Closing == {"watchdog", "runtime", "discovery"}
Live == {"handshake", "hello", "serving", "limited"} \cup Closing
Tasks == {"away", "refused", "gone"} \cup Live
Asked == {"no", "new", "waiting", "closing", "cutting", "finished", "cut", "given up"}

Init ==
  /\ draining = FALSE /\ registered = {} /\ bound = {} /\ door = <<>>
  /\ task = [s \in Conversations |-> "away"]
  /\ socket = [s \in Conversations |-> TRUE]
  /\ cause = [s \in Conversations |-> Unnamed]
  /\ record = [s \in Conversations |-> "none"]
  /\ reply = [s \in Conversations |-> "none"]
  /\ watch = [s \in Conversations |-> "off"]
  /\ discovery = [s \in Conversations |-> "off"]
  /\ raising = [s \in Conversations |-> FALSE]
  /\ cancelled = [s \in Conversations |-> FALSE]
  /\ asked = [s \in Conversations |-> "no"]
  /\ drain = "none" /\ drained = {}
  /\ letting = {} /\ awaited = {}
  /\ exiting = FALSE

-----------------------------------------------------------------------------
(* The door.                                                               *)

\* The loop gets control only where no admission is between its lines.
LoopFree == door = <<>>

\* `_latch_close`: the first cause wins.
Latch(s, c) == cause' = IF cause[s] = Unnamed THEN [cause EXCEPT ![s] = c] ELSE cause

\* `admit` classifies: a server that is draining or full turns the connection
\* away.
Refuse(s) ==
  /\ LoopFree /\ task[s] = "away"
  /\ draining \/ Cardinality(registered) >= MaxSessions
  /\ task' = [task EXCEPT ![s] = "refused"]
  /\ UNCHANGED <<doorVars, socket, cause, record, workVars, endVars, drainVars>>

Classify(s) ==
  /\ LoopFree /\ task[s] = "away"
  /\ ~draining /\ Cardinality(registered) < MaxSessions
  /\ door' = <<s, "classified">>
  /\ UNCHANGED <<draining, registered, bound, taskVars, workVars, endVars, drainVars>>

Insert(s) ==
  /\ door = <<s, "classified">>
  /\ registered' = registered \cup {s}
  /\ door' = <<s, "inserted">>
  /\ UNCHANGED <<draining, bound, taskVars, workVars, endVars, drainVars>>

\* Mutant of Recheck: the latch is not read again.
RecheckOnce(s) ==
  /\ door = <<s, "inserted">>
  /\ door' = <<>>
  /\ task' = [task EXCEPT ![s] = "handshake"]
  /\ UNCHANGED <<draining, registered, bound, socket, cause, record, workVars, endVars,
                 drainVars>>

\* Mutant of Recheck: a refused connection keeps its slot.
RecheckHolding(s) ==
  /\ door = <<s, "inserted">>
  /\ door' = <<>>
  /\ task' = [task EXCEPT ![s] = IF draining THEN "refused" ELSE "handshake"]
  /\ UNCHANGED <<draining, registered, bound, socket, cause, record, workVars, endVars,
                 drainVars>>

\* The latch is read again behind the insertion: a signal in between wins, and
\* the slot goes back.
Recheck(s) ==
  /\ door = <<s, "inserted">>
  /\ door' = <<>>
  /\ IF draining
       THEN /\ registered' = registered \ {s}
            /\ task' = [task EXCEPT ![s] = "refused"]
       ELSE /\ task' = [task EXCEPT ![s] = "handshake"]
            /\ UNCHANGED registered
  /\ UNCHANGED <<draining, bound, socket, cause, record, workVars, endVars, drainVars>>

\* Mutant of Removed: a session with no world returns before its slot.
RemovedBoundOnly(s) ==
  /\ registered' = registered \ (bound \cap {s})
  /\ bound' = bound \ {s}
  /\ letting' = IF s \in bound THEN letting \cup {s} ELSE letting

\* Mutant of Removed: the world stays behind.
RemovedSlotOnly(s) ==
  /\ registered' = registered \ {s}
  /\ letting' = IF s \in bound THEN letting \cup {s} ELSE letting
  /\ UNCHANGED bound

\* `remove`: the slot goes back and the world with it, and letting go of
\* worlds nobody holds is a task of the registry's.
Removed(s) ==
  /\ registered' = registered \ {s}
  /\ bound' = bound \ {s}
  /\ letting' = IF s \in bound THEN letting \cup {s} ELSE letting

Disposed(s) ==
  /\ LoopFree /\ s \in letting
  /\ letting' = letting \ {s}
  /\ UNCHANGED <<doorVars, taskVars, workVars, endVars, asked, drain, drained, awaited,
                 exiting>>

-----------------------------------------------------------------------------
(* The connection, up to the hello.                                        *)

\* Out through `run`'s `finally` before anything was recorded: a bad
\* Device-Id, a device with no agent, no hello or a wrong one, a client that
\* vanished, a cancellation.
TurnedAway(s) ==
  /\ LoopFree /\ task[s] \in {"handshake", "hello"}
  /\ task' = [task EXCEPT ![s] = "gone"]
  /\ socket' = [socket EXCEPT ![s] = FALSE]
  /\ Removed(s)
  /\ UNCHANGED <<draining, door, cause, record, workVars, endVars, asked, drain, drained,
                 awaited, exiting>>

\* The bindings answered: the runtime is built and the world pinned.
Bind(s) ==
  /\ LoopFree /\ task[s] = "handshake"
  /\ task' = [task EXCEPT ![s] = "hello"]
  /\ bound' = bound \cup {s}
  /\ UNCHANGED <<draining, registered, door, socket, cause, record, workVars, endVars,
                 drainVars>>

\* The hello was answered: the recording opens, the discovery of the board's
\* own tools and the idle countdown start.
Open(s) ==
  /\ LoopFree /\ task[s] = "hello" /\ socket[s]
  /\ task' = [task EXCEPT ![s] = "serving"]
  /\ record' = [record EXCEPT ![s] = "open"]
  /\ watch' = [watch EXCEPT ![s] = "counting"]
  /\ discovery' = [discovery EXCEPT ![s] = IF s \in WithTools THEN "running" ELSE @]
  /\ UNCHANGED <<doorVars, socket, cause, reply, endVars, drainVars>>

\* The recording, or what follows it, raises: the guard is already around it.
OpenFails(s) ==
  /\ LoopFree /\ task[s] = "hello" /\ socket[s]
  /\ task' = [task EXCEPT ![s] = "watchdog"]
  /\ record' = [record EXCEPT ![s] = "open"]
  /\ Latch(s, "error")
  /\ raising' = [raising EXCEPT ![s] = TRUE]
  /\ UNCHANGED <<doorVars, socket, workVars, cancelled, drainVars>>

-----------------------------------------------------------------------------
(* The conversation, and everything that ends it.                          *)

\* `_converse` enters its `finally`: the watchdog's stop, up to its wait.
Leaves(s) ==
  /\ task' = [task EXCEPT ![s] = "watchdog"]
  /\ watch' = [watch EXCEPT ![s] = IF @ \in {"counting", "closing"} THEN "stopped" ELSE @]

StartReply(s) ==
  /\ LoopFree /\ task[s] = "serving" /\ reply[s] = "none"
  /\ reply' = [reply EXCEPT ![s] = "running"]
  /\ UNCHANGED <<doorVars, taskVars, watch, discovery, endVars, drainVars>>

ReplyOver(s) ==
  /\ LoopFree /\ reply[s] # "none"
  /\ reply' = [reply EXCEPT ![s] = "none"]
  /\ UNCHANGED <<doorVars, taskVars, watch, discovery, endVars, drainVars>>

DiscoveryOver(s) ==
  /\ LoopFree /\ discovery[s] # "off"
  /\ discovery' = [discovery EXCEPT ![s] = "off"]
  /\ UNCHANGED <<doorVars, taskVars, reply, watch, endVars, drainVars>>

\* The board hangs up, or is gone.
Disconnect(s) ==
  /\ LoopFree /\ task[s] \in Live /\ socket[s]
  /\ socket' = [socket EXCEPT ![s] = FALSE]
  /\ UNCHANGED <<doorVars, task, cause, record, workVars, endVars, drainVars>>

\* The serve loop meets the closed socket.
ServeReturns(s) ==
  /\ LoopFree /\ task[s] = "serving" /\ ~socket[s]
  /\ Latch(s, "client")
  /\ Leaves(s)
  /\ UNCHANGED <<doorVars, socket, record, reply, discovery, endVars, drainVars>>

\* Anything else leaves through the frame and is raised behind the close.
ServeRaises(s) ==
  /\ LoopFree /\ task[s] = "serving"
  /\ Latch(s, "error")
  /\ Leaves(s)
  /\ raising' = [raising EXCEPT ![s] = TRUE]
  /\ UNCHANGED <<doorVars, socket, record, reply, discovery, cancelled, drainVars>>

\* The duration cap: `request_shutdown` names its cause, and gives a reply its
\* grace.
Limit(s) ==
  /\ LoopFree /\ task[s] = "serving"
  /\ Latch(s, "limit")
  /\ task' = [task EXCEPT ![s] = "limited"]
  /\ UNCHANGED <<doorVars, socket, record, workVars, endVars, drainVars>>

\* The reply finished, or outlasted the grace.
LimitCloses(s) ==
  /\ LoopFree /\ task[s] = "limited"
  /\ socket' = [socket EXCEPT ![s] = FALSE]
  /\ Leaves(s)
  /\ UNCHANGED <<doorVars, cause, record, reply, discovery, endVars, drainVars>>

\* Quiet for long enough: a realtime board with no reply in flight, which is
\* what `_idle_deferred` asks before every deadline.
IdleExpired(s) ==
  /\ LoopFree /\ watch[s] = "counting" /\ reply[s] = "none"
  /\ Latch(s, "idle")
  /\ watch' = [watch EXCEPT ![s] = "closing"]
  /\ UNCHANGED <<doorVars, task, socket, record, reply, discovery, endVars, drainVars>>

IdleCloses(s) ==
  /\ LoopFree /\ watch[s] = "closing"
  /\ socket' = [socket EXCEPT ![s] = FALSE]
  /\ watch' = [watch EXCEPT ![s] = "off"]
  /\ UNCHANGED <<doorVars, task, cause, record, reply, discovery, endVars, drainVars>>

-----------------------------------------------------------------------------
(* The close.                                                              *)

\* The countdown takes its cancellation.
WatchdogGone(s) ==
  /\ LoopFree /\ watch[s] = "stopped"
  /\ watch' = [watch EXCEPT ![s] = "off"]
  /\ UNCHANGED <<doorVars, taskVars, reply, discovery, endVars, drainVars>>

\* On to `runtime.close`, which tells a reply to end.
WatchdogStopped(s) ==
  /\ LoopFree /\ task[s] = "watchdog" /\ watch[s] = "off"
  /\ task' = [task EXCEPT ![s] = "runtime"]
  /\ reply' = [reply EXCEPT ![s] = IF @ = "running" THEN "cut" ELSE @]
  /\ UNCHANGED <<doorVars, socket, cause, record, watch, discovery, endVars, drainVars>>

\* Mutant of RuntimeClosed: a close that is hurried does not wait.
RuntimeLeft(s) ==
  /\ LoopFree /\ task[s] = "runtime" /\ (reply[s] = "none" \/ raising[s])
  /\ task' = [task EXCEPT ![s] = "discovery"]
  /\ discovery' = [discovery EXCEPT ![s] = IF @ = "running" THEN "stopped" ELSE @]
  /\ UNCHANGED <<doorVars, socket, cause, record, reply, watch, endVars, drainVars>>

\* The reply is over.  What it, the purge or a cancellation raised out of the
\* close is reported or held (`_cleanly`), and the next step runs.
RuntimeClosed(s) ==
  /\ LoopFree /\ task[s] = "runtime" /\ reply[s] = "none"
  /\ task' = [task EXCEPT ![s] = "discovery"]
  /\ discovery' = [discovery EXCEPT ![s] = IF @ = "running" THEN "stopped" ELSE @]
  /\ UNCHANGED <<doorVars, socket, cause, record, reply, watch, endVars, drainVars>>

\* `session_closed` is emitted, the recording closed under the cause that was
\* named first, the held cancellation raised and the slot given back, with no
\* await in between.
Finish(s) ==
  /\ LoopFree /\ task[s] = "discovery" /\ discovery[s] = "off"
  /\ task' = [task EXCEPT ![s] = "gone"]
  /\ record' = [record EXCEPT ![s] = IF cause[s] = Unnamed THEN "client" ELSE cause[s]]
  /\ socket' = [socket EXCEPT ![s] = FALSE]
  /\ Removed(s)
  /\ UNCHANGED <<draining, door, cause, workVars, endVars, asked, drain, drained,
                 awaited, exiting>>

\* The server cancels a connection's task on its way out.  Serving, it leaves
\* as an error; in the cap's grace, as what the cap named; closing the
\* runtime, it is held.  The stops of the watchdog and of the discovery wait
\* under `suppress(CancelledError)`, and let it go.
Cancel(s) ==
  /\ LoopFree /\ exiting /\ s \in Hurried /\ ~cancelled[s]
  /\ cancelled' = [cancelled EXCEPT ![s] = TRUE]
  /\ \/ /\ task[s] \in {"serving", "limited"}
        /\ Latch(s, "error")
        /\ Leaves(s)
        /\ raising' = [raising EXCEPT ![s] = TRUE]
     \/ /\ task[s] = "runtime"
        /\ raising' = [raising EXCEPT ![s] = TRUE]
        /\ UNCHANGED <<task, cause, watch>>
     \/ /\ task[s] \in {"watchdog", "discovery"}
        /\ UNCHANGED <<task, cause, watch, raising>>
  /\ UNCHANGED <<doorVars, socket, record, reply, discovery, drainVars>>

-----------------------------------------------------------------------------
(* The drain.                                                              *)

\* `handle_exit`: the door is shut first, from the signal handler, and the
\* drain scheduled; with no drain configured uvicorn is told to exit at once.
Signal ==
  /\ ~draining
  /\ draining' = TRUE
  /\ \/ drain' = "scheduled" /\ UNCHANGED exiting
     \/ exiting' = TRUE /\ UNCHANGED drain
  /\ UNCHANGED <<registered, bound, door, taskVars, workVars, endVars, asked, drained,
                 letting, awaited>>

\* A second signal goes straight to uvicorn.
SecondSignal ==
  /\ drain \in {"scheduled", "waiting", "settling"} /\ ~exiting
  /\ exiting' = TRUE
  /\ UNCHANGED <<doorVars, taskVars, workVars, endVars, asked, drain, drained, letting,
                 awaited>>

\* One request per session there is; `_settled` waits for the disposals there
\* are.
DrainBegins ==
  /\ LoopFree /\ drain = "scheduled"
  /\ drained' = registered
  /\ IF registered = {}
       THEN drain' = "settling" /\ awaited' = letting /\ UNCHANGED asked
       ELSE /\ drain' = "waiting"
            /\ asked' = [s \in Conversations |-> IF s \in registered THEN "new" ELSE asked[s]]
            /\ UNCHANGED awaited
  /\ UNCHANGED <<doorVars, taskVars, workVars, endVars, letting, exiting>>

\* Mutant of Ask: the cause is left to the close that follows.
AskUnnamed(s) ==
  /\ LoopFree /\ asked[s] = "new"
  /\ asked' = [asked EXCEPT ![s] = IF reply[s] = "none" THEN "closing" ELSE "waiting"]
  /\ UNCHANGED <<doorVars, taskVars, workVars, endVars, drain, drained, letting, awaited,
                 exiting>>

\* `request_shutdown` on the drain's behalf: the cause is named before a reply
\* is waited for.
Ask(s) ==
  /\ LoopFree /\ asked[s] = "new"
  /\ Latch(s, "drain")
  /\ asked' = [asked EXCEPT ![s] = IF reply[s] = "none" THEN "closing" ELSE "waiting"]
  /\ UNCHANGED <<doorVars, task, socket, record, workVars, endVars, drain, drained, letting,
                 awaited, exiting>>

ReplySeenOut(s) ==
  /\ LoopFree /\ asked[s] = "waiting" /\ reply[s] = "none"
  /\ asked' = [asked EXCEPT ![s] = "closing"]
  /\ UNCHANGED <<doorVars, taskVars, workVars, endVars, drain, drained, letting, awaited,
                 exiting>>

GraceOver(s) ==
  /\ LoopFree /\ asked[s] = "waiting"
  /\ asked' = [asked EXCEPT ![s] = "cutting"]
  /\ UNCHANGED <<doorVars, taskVars, workVars, endVars, drain, drained, letting, awaited,
                 exiting>>

AskCloses(s) ==
  /\ LoopFree /\ asked[s] \in {"closing", "cutting"}
  /\ socket' = [socket EXCEPT ![s] = FALSE]
  /\ asked' = [asked EXCEPT ![s] = IF @ = "closing" THEN "finished" ELSE "cut"]
  /\ UNCHANGED <<doorVars, task, cause, record, workVars, endVars, drain, drained, letting,
                 awaited, exiting>>

\* Every request answered, or the budget is spent and the rest are cancelled.
DrainWaited ==
  /\ LoopFree /\ drain = "waiting"
  /\ drain' = "settling"
  /\ awaited' = letting
  /\ asked' = [s \in Conversations |->
                 IF asked[s] \in {"no", "finished", "cut"} THEN asked[s] ELSE "given up"]
  /\ UNCHANGED <<doorVars, taskVars, workVars, endVars, drained, letting, exiting>>

DrainOver ==
  /\ LoopFree /\ drain = "settling" /\ awaited \cap letting = {}
  /\ drain' = "over"
  /\ exiting' = TRUE
  /\ UNCHANGED <<doorVars, taskVars, workVars, endVars, asked, drained, letting, awaited>>

\* uvicorn fail-closes every websocket that is left.
FailClose(s) ==
  /\ LoopFree /\ exiting /\ task[s] \in Live /\ socket[s]
  /\ socket' = [socket EXCEPT ![s] = FALSE]
  /\ UNCHANGED <<doorVars, task, cause, record, workVars, endVars, drainVars>>

-----------------------------------------------------------------------------
CloseStep(s) == WatchdogStopped(s) \/ RuntimeClosed(s) \/ Finish(s)
DrainStep == DrainBegins \/ DrainWaited \/ DrainOver
AskStep(s) == Ask(s) \/ ReplySeenOut(s) \/ GraceOver(s) \/ AskCloses(s)

Next ==
  \/ \E s \in Conversations :
       \/ Refuse(s) \/ Classify(s) \/ Insert(s) \/ Recheck(s) \/ Disposed(s)
       \/ TurnedAway(s) \/ Bind(s) \/ Open(s) \/ OpenFails(s)
       \/ StartReply(s) \/ ReplyOver(s) \/ DiscoveryOver(s)
       \/ Disconnect(s) \/ ServeReturns(s) \/ ServeRaises(s)
       \/ Limit(s) \/ LimitCloses(s) \/ IdleExpired(s) \/ IdleCloses(s)
       \/ WatchdogGone(s) \/ CloseStep(s) \/ Cancel(s)
       \/ AskStep(s) \/ FailClose(s)
  \/ Signal \/ SecondSignal \/ DrainStep

\* The loop runs what is ready; deadlines and graces elapse; a reply, a
\* countdown or a discovery that was told to end does; uvicorn closes what is
\* left.  Nothing obliges a board to speak, to hang up or to be quiet, or a
\* reply nobody cut to end.
Fairness ==
  /\ WF_vars(DrainStep)
  /\ \A s \in Conversations :
       /\ WF_vars(Insert(s) \/ Recheck(s))
       /\ WF_vars(TurnedAway(s) \/ Bind(s))
       /\ WF_vars(ServeReturns(s)) /\ WF_vars(LimitCloses(s)) /\ WF_vars(IdleCloses(s))
       /\ WF_vars(WatchdogGone(s)) /\ WF_vars(CloseStep(s))
       /\ WF_vars(ReplyOver(s) /\ reply[s] = "cut")
       /\ WF_vars(DiscoveryOver(s) /\ discovery[s] = "stopped")
       /\ WF_vars(AskStep(s)) /\ WF_vars(FailClose(s)) /\ WF_vars(Disposed(s))

Spec == Init /\ [][Next]_vars
FairSpec == Spec /\ Fairness

-----------------------------------------------------------------------------
(* What the server promises its conversations.                             *)

TypeOK ==
  /\ draining \in BOOLEAN /\ exiting \in BOOLEAN
  /\ registered \subseteq Conversations /\ bound \subseteq registered
  /\ door \in {<<>>} \cup (Conversations \X {"classified", "inserted"})
  /\ task \in [Conversations -> Tasks]
  /\ socket \in [Conversations -> BOOLEAN]
  /\ cause \in [Conversations -> Causes \cup {Unnamed}]
  /\ record \in [Conversations -> Causes \cup {"none", "open"}]
  /\ reply \in [Conversations -> {"none", "running", "cut"}]
  /\ watch \in [Conversations -> {"off", "counting", "closing", "stopped"}]
  /\ discovery \in [Conversations -> {"off", "running", "stopped"}]
  /\ raising \in [Conversations -> BOOLEAN] /\ cancelled \in [Conversations -> BOOLEAN]
  /\ asked \in [Conversations -> Asked]
  /\ drain \in {"none", "scheduled", "waiting", "settling", "over"}
  /\ drained \subseteq Conversations
  /\ letting \subseteq Conversations /\ awaited \subseteq Conversations

\* The door, the causes and the record as a conversation's user and a reader
\* of the rows see them (registry.py `admit`, device/session.py `_latch_close`
\* and `_converse`): nobody is let in once the signal has come, a first cause
\* is never replaced, and a record that was opened is closed, under it, in the
\* step that gives the slot back, whatever failed or was cancelled before.
L == INSTANCE Lifetime
       WITH People <- Conversations, Room <- MaxSessions,
            Reasons <- Causes, Undecided <- Unnamed,
            shut <- draining,
            inside <- {s \in Conversations : task[s] \in Live},
            why <- cause
ImplementsLifetime == L!Spec

\* A slot is held by exactly the conversations that are live: none leaks when
\* the signal lands inside an admission, or when a connection is turned away,
\* and none is given back under a conversation (registry.py `admit`, `remove`).
SlotPerConversation ==
  registered = {s \in Conversations : task[s] \in Live}
                 \cup {s \in Conversations : door = <<s, "inserted">>}

\* Nothing of a conversation runs on behind its record: when the row is closed
\* the reply, the countdown and the discovery are over, whichever of them the
\* close found running and however it was hurried (device/session.py
\* `_converse`, the order of its `finally`).
NothingBehindTheRecord ==
  \A s \in Conversations : record[s] \in Causes =>
    reply[s] = "none" /\ watch[s] = "off" /\ discovery[s] = "off"

\* Whoever is about to close a conversation has named what ended it before
\* waiting for anything, so a cause that arrives while a reply finishes cannot
\* take its place (device/session.py `request_shutdown`).
CauseNamedFirst ==
  \A s \in Conversations :
    \/ task[s] \in {"limited"} \cup Closing
    \/ watch[s] = "closing"
    \/ asked[s] \in {"waiting", "closing", "cutting", "finished", "cut"}
    => cause[s] # Unnamed

\* A conversation something has decided to end does end, and once the signal
\* has come every conversation does: the row is closed and the slot given back
\* (registry.py `drain`, serving.py `_drain`).
DecidedEnds ==
  \A s \in Conversations :
    cause[s] # Unnamed \/ draining ~> s \notin registered

\* What device/session.py says of a close that is cancelled: the caller's task
\* ends cancelled, as it asked.
CancellationPassedOn ==
  \A s \in Conversations : cancelled[s] /\ task[s] = "gone" => raising[s]

=============================================================================
