------------------------------ MODULE Record ------------------------------
(***************************************************************************)
(* The conversation record (conversations/store.py `ConversationStore`):    *)
(* sessions hand records to one queue under one lock, one writer thread      *)
(* turns each marker into a durable transaction and one for its events, and  *)
(* a deletion (conversations/api.py `_erasure`, or retention) takes rows     *)
(* away beside it and says so in the erasure order. The memory a thread      *)
(* keeps (memory/store.py `_thread_keyed`) is on the same order. A crash     *)
(* loses everything but the database.                                       *)
(*                                                                         *)
(* An action is what one thread does between two locks or two transactions. *)
(* A transaction is one action: the chain's advisory lock serializes them.  *)
(* Text, measurements and checkpoints are left out: a checkpoint is handed   *)
(* over, written and answered as a turn is.                                 *)
(***************************************************************************)
EXTENDS Integers, FiniteSets, Sequences

CONSTANTS
  Sessions, Threads, Turns,
  SessionOf, ThreadOf,  \* of each turn, who records it and what it is on
  MintedBy,             \* of each thread, the session it began in
  MaxInFlight,          \* MAX_EVENTS_IN_FLIGHT
  MaxAttempts,          \* TURN_WRITE_ATTEMPTS
  Faults,               \* which transactions may fail
  MaxRecording,         \* bound: sessions recording at once
  MaxQueue,             \* bound: records queued at once
  MaxEvents,            \* bound: events emitted
  MaxErasures,          \* bound: deletions
  MaxCrashes            \* bound: crashes of the process

ASSUME RecordConstants ==
  /\ IsFiniteSet(Sessions) /\ IsFiniteSet(Threads) /\ IsFiniteSet(Turns)
  /\ SessionOf \in [Turns -> Sessions] /\ ThreadOf \in [Turns -> Threads]
  /\ MintedBy \in [Threads -> Sessions]
  /\ Sessions \cap Turns = {}
  /\ MaxInFlight \in Nat \ {0} /\ MaxAttempts \in Nat \ {0}
  /\ MaxRecording \in Nat \ {0} /\ MaxQueue \in Nat \ {0}
  /\ MaxEvents \in Nat /\ MaxErasures \in Nat /\ MaxCrashes \in Nat
  /\ Faults \subseteq {"open", "write", "events", "late"}

VARIABLES
  queue,       \* ConversationStore._queue
  stopped,     \* ConversationStore._stopped
  inFlight,    \* ConversationStore._in_flight
  dropped,     \* ConversationStore._dropped
  session,     \* per session, whether it is recording
  holds,       \* per session, the threads it speaks on
  answer,      \* the Acknowledgement of each turn, and of each close
  writer,      \* what the writer thread is doing
  marker,      \* the marker it is committing, <<>> for none
  batches,     \* the domain of ConversationStore._batches
  held,        \* the events in each batch
  lost,        \* ConversationStore._lost
  incomplete,  \* ConversationStore._incomplete
  written,     \* ConversationStore._written
  dead,        \* ConversationStore._dead
  published,   \* ConversationStore._published
  spine,       \* the rows of `sessions`
  tally,       \* sessions.dropped
  tracks,      \* the sessions with rows of `events`
  rows,        \* the rows of `turns`
  listed,      \* the rows of `conversations`
  flagged,     \* those of them with `incomplete` true
  erasing,     \* a deletion between its commit and its announcement
  keeping,     \* the threads the memory store keeps rows for
  graves,      \* MemoryStore._dead
  seen         \* observers, and the bounds' counters

producers == <<queue, stopped, inFlight, dropped, session, holds, answer>>
thread == <<writer, marker, batches, held, lost, incomplete, written, dead>>
database == <<spine, tally, tracks, rows, listed, flagged>>
memory == <<keeping, graves>>
vars == <<producers, thread, published, database, erasing, memory, seen>>

Handles == Turns \cup Sessions
Records == [kind : {"open", "event", "close"}, of : Sessions] \cup
           [kind : {"turn"}, of : Turns] \cup [kind : {"stop"}]
Marker == [kind : {"open", "turn", "close", "flush"}, of : Sessions,
           turns : SUBSET Turns, step : {"durable", "answer", "events", "late", "end"},
           attempt : 1 .. MaxAttempts, landed : BOOLEAN]

\* What happened, for the properties: threads and turns a deletion took, threads
\* it took that this process had not written, threads written by this process,
\* threads a failed transaction lost a turn of, those of them a turn has landed on
\* since, those whose mark was still owed when the process died, records lost of
\* each session, and losses the last update failed to count.
Seen == [erased : SUBSET Threads, scrubbed : SUBSET Turns, strangers : SUBSET Threads,
         ours : SUBSET Threads,
         holes : SUBSET Threads, told : SUBSET Threads, forgotten : SUBSET Threads,
         missing : [Sessions -> Nat], uncounted : [Sessions -> Nat],
         emitted : 0 .. MaxEvents,
         erasures : 0 .. MaxErasures, crashes : 0 .. MaxCrashes]

None == [s \in Sessions |-> 0]

Init ==
  /\ queue = <<>> /\ stopped = FALSE /\ inFlight = 0
  /\ dropped = None
  /\ session = [s \in Sessions |-> "away"]
  /\ holds = [s \in Sessions |-> {c \in Threads : MintedBy[c] = s}]
  /\ answer = [h \in Handles |-> "none"]
  /\ writer = "running" /\ marker = <<>> /\ batches = {} /\ held = None
  /\ lost = None /\ incomplete = {} /\ written = {} /\ dead = {} /\ published = {}
  /\ spine = [s \in Sessions |-> "none"] /\ tally = None
  /\ tracks = {} /\ rows = {} /\ listed = {} /\ flagged = {}
  /\ erasing = <<>> /\ keeping = {} /\ graves = {}
  /\ seen = [erased |-> {}, scrubbed |-> {}, strangers |-> {}, ours |-> {},
             holes |-> {}, told |-> {}, forgotten |-> {}, missing |-> None, uncounted |-> None,
             emitted |-> 0, erasures |-> 0, crashes |-> 0]

Queue(record) == Len(queue) < MaxQueue /\ queue' = Append(queue, record)
Add(count, s, n) == [count EXCEPT ![s] = @ + n]
Answered(hs, how) == [h \in Handles |-> IF h \in hs THEN how ELSE answer[h]]

-----------------------------------------------------------------------------
(* What a session hands over, under the producers' lock.                   *)

\* `open_session`: a store that has stopped records nothing of it.
OpenSession(s) ==
  /\ session[s] = "away"
  /\ Cardinality({r \in Sessions : session[r] = "recording"}) < MaxRecording
  /\ session' = [session EXCEPT ![s] = IF stopped THEN "closed" ELSE "recording"]
  /\ IF stopped THEN UNCHANGED queue ELSE Queue([kind |-> "open", of |-> s])
  /\ UNCHANGED <<stopped, inFlight, dropped, holds, answer, thread, published, database,
                 erasing, memory, seen>>

\* `resumed`: the session moves onto a thread the store holds.
Resume(s, c) ==
  /\ session[s] = "recording" /\ c \in listed \ holds[s]
  /\ holds' = [holds EXCEPT ![s] = @ \cup {c}]
  /\ UNCHANGED <<queue, stopped, inFlight, dropped, session, answer, thread, published,
                 database, erasing, memory, seen>>

\* `record_event`: beyond the allowance it is counted, and nothing more.
RecordEvent(s) ==
  /\ session[s] = "recording" /\ ~stopped
  /\ seen.emitted < MaxEvents
  /\ IF inFlight >= MaxInFlight
       THEN /\ dropped' = Add(dropped, s, 1)
            /\ seen' = [seen EXCEPT !.emitted = @ + 1, !.missing[s] = @ + 1]
            /\ UNCHANGED <<queue, inFlight>>
       ELSE /\ inFlight' = inFlight + 1
            /\ Queue([kind |-> "event", of |-> s])
            /\ seen' = [seen EXCEPT !.emitted = @ + 1]
            /\ UNCHANGED dropped
  /\ UNCHANGED <<stopped, session, holds, answer, thread, published, database, erasing,
                 memory>>

Speaks(t) ==
  /\ session[SessionOf[t]] = "recording" /\ ThreadOf[t] \in holds[SessionOf[t]]
  /\ answer[t] = "none"

\* Mutant of RecordTurn: the flag is read and the record queued under two locks.
RecordTurnUnlocked(t) ==
  /\ Speaks(t)
  /\ answer' = Answered({t}, "waiting") /\ Queue([kind |-> "turn", of |-> t])
  /\ UNCHANGED <<stopped, inFlight, dropped, session, holds, thread, published, database,
                 erasing, memory, seen>>

\* `record_turn`: a handle, already refused where the store has stopped.
RecordTurn(t) ==
  /\ Speaks(t)
  /\ IF stopped
       THEN answer' = Answered({t}, "refused") /\ UNCHANGED queue
       ELSE answer' = Answered({t}, "waiting") /\ Queue([kind |-> "turn", of |-> t])
  /\ UNCHANGED <<stopped, inFlight, dropped, session, holds, thread, published, database,
                 erasing, memory, seen>>

\* `close_session`: the last record of the session, with what was refused of it.
CloseSession(s) ==
  /\ session[s] = "recording"
  /\ session' = [session EXCEPT ![s] = "closed"]
  /\ IF stopped
       THEN answer' = Answered({s}, "refused") /\ UNCHANGED queue
       ELSE answer' = Answered({s}, "waiting") /\ Queue([kind |-> "close", of |-> s])
  /\ UNCHANGED <<stopped, inFlight, dropped, holds, thread, published, database, erasing,
                 memory, seen>>

\* `stop`: refusing and the sentinel are one step under the same lock.
Stop ==
  /\ ~stopped
  /\ stopped' = TRUE
  /\ Queue([kind |-> "stop"])
  /\ UNCHANGED <<inFlight, dropped, session, holds, answer, thread, published, database,
                 erasing, memory, seen>>

-----------------------------------------------------------------------------
(* The writer thread.                                                      *)

Item == Head(queue)
Begin(kind, s, ts) ==
  marker' = [kind |-> kind, of |-> s, turns |-> ts, step |-> "durable", attempt |-> 1,
             landed |-> FALSE]

Ready == writer = "running" /\ marker = <<>> /\ queue # <<>>

\* An event moves into its session's batch, or is written off.
TakeEvent ==
  /\ Ready /\ Item.kind = "event"
  /\ queue' = Tail(queue)
  /\ IF Item.of \in batches
       THEN held' = Add(held, Item.of, 1) /\ UNCHANGED inFlight
       ELSE inFlight' = inFlight - 1 /\ UNCHANGED held
  /\ UNCHANGED <<stopped, dropped, session, holds, answer, writer, marker, batches, lost,
                 incomplete, written, dead, published, database, erasing, memory, seen>>

TakeOpen ==
  /\ Ready /\ Item.kind = "open"
  /\ queue' = Tail(queue)
  /\ batches' = batches \cup {Item.of}
  /\ Begin("open", Item.of, {})
  /\ UNCHANGED <<stopped, inFlight, dropped, session, holds, answer, writer, held, lost,
                 incomplete, written, dead, published, database, erasing, memory, seen>>

\* A turn is a marker; one for a session with no batch is answered at once.
TakeTurn ==
  /\ Ready /\ Item.kind = "turn"
  /\ queue' = Tail(queue)
  /\ IF SessionOf[Item.of] \in batches
       THEN Begin("turn", SessionOf[Item.of], {Item.of}) /\ UNCHANGED answer
       ELSE /\ answer' = Answered({Item.of}, "refused")
            /\ UNCHANGED marker
  /\ UNCHANGED <<stopped, inFlight, dropped, session, holds, writer, batches, held, lost,
                 incomplete, written, dead, published, database, erasing, memory, seen>>

TakeClose ==
  /\ Ready /\ Item.kind = "close"
  /\ queue' = Tail(queue)
  /\ IF Item.of \in batches
       THEN Begin("close", Item.of, {}) /\ UNCHANGED answer
       ELSE answer' = Answered({Item.of}, "refused") /\ UNCHANGED marker
  /\ UNCHANGED <<stopped, inFlight, dropped, session, holds, writer, batches, held, lost,
                 incomplete, written, dead, published, database, erasing, memory, seen>>

\* Mutant of Attempting: the writer does not keep the erasure order.
AttemptingUnordered == marker # <<>> /\ marker.step = "durable"

\* The durable transaction, in the erasure order. What a deletion announced is
\* read inside it: a thread this writer wrote is dead from here on.
Attempting == marker # <<>> /\ marker.step = "durable" /\ erasing = <<>>
Fresh == published \cap written
Alive == {t \in marker.turns : ThreadOf[t] \notin dead \cup Fresh}
ThreadsOf(ts) == {ThreadOf[t] : t \in ts}

\* Turns are answered next, if there are any, and then the events written.
Afterwards == IF held[marker.of] = 0 THEN "end" ELSE "events"
Decided(ts) == IF ts = {} THEN Afterwards ELSE "answer"

\* `_discard_dead`.
Discard ==
  /\ dead' = dead \cup Fresh
  /\ published' = {}

\* Mutant of Commits: the marks owed are written after the turns are answered.
CommitsUnmarked ==
  LET on == listed \cup ThreadsOf(Alive)
  IN /\ rows' = rows \cup Alive
     /\ listed' = on
     /\ UNCHANGED flagged
     /\ incomplete' = incomplete \ Fresh

\* The turns, the threads they land on and the marks an earlier loss owes them.
Commits ==
  LET on == listed \cup ThreadsOf(Alive)
      owed == incomplete \ Fresh
  IN /\ rows' = rows \cup Alive
     /\ listed' = on
     /\ flagged' = flagged \cup (owed \cap on)
     /\ incomplete' = owed \ on

\* Mutant of DurableLands: the close is answered between the two halves.
DurableLandsAnswering ==
  LET s == marker.of IN
  /\ Attempting
  /\ marker.kind = "open" \/ spine[s] # "none"
  /\ Discard /\ Commits
  /\ spine' = [spine EXCEPT ![s] = CASE marker.kind = "open" -> "open"
                                     [] marker.kind = "close" -> "closed"
                                     [] OTHER -> @]
  /\ tally' = IF marker.kind = "close" THEN Add(tally, s, dropped[s] + lost[s]) ELSE tally
  /\ answer' = [Answered(marker.turns \ Alive, "refused") EXCEPT
                  ![s] = IF marker.kind = "close" THEN "landed" ELSE @]
  /\ marker' = [marker EXCEPT !.turns = Alive, !.step = Decided(Alive), !.landed = TRUE]
  /\ seen' = [seen EXCEPT !.ours = @ \cup ThreadsOf(Alive)]
  /\ UNCHANGED <<queue, stopped, inFlight, dropped, session, holds, writer, batches, held,
                 lost, written, tracks, erasing, memory>>

DurableLands ==
  LET s == marker.of IN
  /\ Attempting
  /\ marker.kind = "open" \/ spine[s] # "none"
  /\ Discard /\ Commits
  /\ spine' = [spine EXCEPT ![s] = CASE marker.kind = "open" -> "open"
                                     [] marker.kind = "close" -> "closed"
                                     [] OTHER -> @]
  /\ tally' = IF marker.kind = "close" THEN Add(tally, s, dropped[s] + lost[s]) ELSE tally
  /\ answer' = Answered(marker.turns \ Alive, "refused")
  /\ marker' = [marker EXCEPT !.turns = Alive, !.step = Decided(Alive), !.landed = TRUE]
  /\ seen' = [seen EXCEPT !.ours = @ \cup ThreadsOf(Alive)]
  /\ UNCHANGED <<queue, stopped, inFlight, dropped, session, holds, writer, batches, held,
                 lost, written, tracks, erasing, memory>>

\* Mutant of Tombstoned: its events stay counted against the allowance.
TombstonedHolding ==
  LET s == marker.of IN
  /\ Attempting
  /\ marker.kind # "open" /\ spine[s] = "none"
  /\ Discard /\ incomplete' = incomplete \ Fresh
  /\ answer' = Answered(marker.turns \cup (IF marker.kind = "close" THEN {s} ELSE {}),
                        "refused")
  /\ batches' = batches \ {s}
  /\ UNCHANGED inFlight /\ held' = [held EXCEPT ![s] = 0]
  /\ marker' = <<>>
  /\ IF marker.kind = "close"
       THEN lost' = [lost EXCEPT ![s] = 0] /\ writer' = "pruning"
       ELSE UNCHANGED <<lost, writer>>
  /\ UNCHANGED <<queue, stopped, dropped, session, holds, written, database, erasing, memory,
                 seen>>

\* The session's row is gone: it is forgotten, and what it held is refused.
Tombstoned ==
  LET s == marker.of IN
  /\ Attempting
  /\ marker.kind # "open" /\ spine[s] = "none"
  /\ Discard /\ incomplete' = incomplete \ Fresh
  /\ answer' = Answered(marker.turns \cup (IF marker.kind = "close" THEN {s} ELSE {}),
                        "refused")
  /\ batches' = batches \ {s}
  /\ inFlight' = inFlight - held[s] /\ held' = [held EXCEPT ![s] = 0]
  /\ marker' = <<>>
  /\ IF marker.kind = "close"
       THEN lost' = [lost EXCEPT ![s] = 0] /\ writer' = "pruning"
       ELSE UNCHANGED <<lost, writer>>
  /\ UNCHANGED <<queue, stopped, dropped, session, holds, written, database, erasing, memory,
                 seen>>

\* `_failed`: the batch is counted and its threads are owed a mark.
Failed(ts, owed) ==
  /\ marker' = [marker EXCEPT !.turns = ts, !.step = Decided(ts)]
  /\ lost' = Add(lost, marker.of, Cardinality(ts))
  /\ incomplete' = owed \cup ThreadsOf(ts)
  /\ seen' = [seen EXCEPT !.missing[marker.of] = @ + Cardinality(ts)]

\* Mutant of DurableFails: one attempt too many.
DurableFailsOften(read, busy) ==
  LET ts == IF read THEN Alive ELSE marker.turns
      owed == IF read THEN incomplete \ Fresh ELSE incomplete
  IN
  /\ Attempting
  /\ (IF marker.kind = "open" THEN "open" ELSE "write") \in Faults
  /\ IF read THEN Discard ELSE UNCHANGED <<dead, published>>
  /\ answer' = Answered(marker.turns \ ts, "refused")
  /\ IF busy /\ marker.attempt <= MaxAttempts
       THEN /\ marker' = [marker EXCEPT !.turns = ts, !.attempt = @ + 1]
            /\ incomplete' = owed
            /\ UNCHANGED <<lost, seen>>
       ELSE Failed(ts, owed)
  /\ UNCHANGED <<queue, stopped, inFlight, dropped, session, holds, writer, batches, held,
                 written, database, erasing, memory>>

\* A transaction that does not commit, before or after it read what was
\* announced, is made again while a lock was all that it wanted for.
DurableFails(read, busy) ==
  LET ts == IF read THEN Alive ELSE marker.turns
      owed == IF read THEN incomplete \ Fresh ELSE incomplete
  IN
  /\ Attempting
  /\ (IF marker.kind = "open" THEN "open" ELSE "write") \in Faults
  /\ IF read THEN Discard ELSE UNCHANGED <<dead, published>>
  /\ answer' = Answered(marker.turns \ ts, "refused")
  /\ IF busy /\ marker.attempt < MaxAttempts
       THEN /\ marker' = [marker EXCEPT !.turns = ts, !.attempt = @ + 1]
            /\ incomplete' = owed
            /\ UNCHANGED <<lost, seen>>
       ELSE Failed(ts, owed)
  /\ UNCHANGED <<queue, stopped, inFlight, dropped, session, holds, writer, batches, held,
                 written, database, erasing, memory>>

At(step) == marker # <<>> /\ marker.step = step

\* What the transaction decided is said of its turns, and its threads are
\* deletable from here on.
AnswerTurns ==
  LET on == ThreadsOf(marker.turns) IN
  /\ At("answer")
  /\ written' = IF marker.landed THEN written \cup on ELSE written
  /\ answer' = Answered(marker.turns, IF marker.landed THEN "landed" ELSE "refused")
  /\ seen' = IF marker.landed THEN [seen EXCEPT !.told = @ \cup (on \cap seen.holes)]
                              ELSE [seen EXCEPT !.holes = @ \cup on, !.told = @ \ on,
                                                !.forgotten = @ \ on]
  /\ marker' = [marker EXCEPT !.turns = {}, !.step = Afterwards]
  /\ UNCHANGED <<queue, stopped, inFlight, dropped, session, holds, writer, batches, held,
                 lost, incomplete, dead, published, database, erasing, memory>>

\* Mutant of EventsWritten: the session is not confirmed again.
EventsWrittenBlind ==
  /\ At("events")
  /\ tracks' = tracks \cup {marker.of}
  /\ marker' = [marker EXCEPT !.step = "end"]
  /\ UNCHANGED <<producers, writer, batches, held, lost, incomplete, written, dead,
                 published, spine, tally, rows, listed, flagged, erasing, memory, seen>>

\* The lossy half, a transaction of its own; a deletion may have come between.
EventsWritten ==
  /\ At("events")
  /\ tracks' = IF spine[marker.of] = "none" THEN tracks ELSE tracks \cup {marker.of}
  /\ marker' = [marker EXCEPT !.step = "end"]
  /\ UNCHANGED <<producers, writer, batches, held, lost, incomplete, written, dead,
                 published, spine, tally, rows, listed, flagged, erasing, memory, seen>>

EventsLost ==
  LET s == marker.of IN
  /\ At("events") /\ "events" \in Faults
  /\ lost' = Add(lost, s, held[s])
  /\ seen' = [seen EXCEPT !.missing[s] = @ + held[s]]
  /\ marker' = [marker EXCEPT !.step = IF marker.kind = "close" THEN "late" ELSE "end"]
  /\ UNCHANGED <<producers, writer, batches, held, incomplete, written, dead, published,
                 database, erasing, memory>>

\* `_count_late_loss`: the closing marker's own loss, added to the row.
CountLate(ok) ==
  LET s == marker.of IN
  /\ At("late")
  /\ ok \/ "late" \in Faults
  /\ tally' = IF ok /\ spine[s] # "none" THEN Add(tally, s, held[s]) ELSE tally
  /\ seen' = IF ok THEN seen ELSE [seen EXCEPT !.uncounted[s] = @ + held[s]]
  /\ marker' = [marker EXCEPT !.step = "end"]
  /\ UNCHANGED <<producers, writer, batches, held, lost, incomplete, written, dead,
                 published, spine, tracks, rows, listed, flagged, erasing, memory>>

\* The batch is written off, and the close answered behind all of it.
EndMarker ==
  LET s == marker.of IN
  /\ At("end")
  /\ inFlight' = inFlight - held[s] /\ held' = [held EXCEPT ![s] = 0]
  /\ marker' = <<>>
  /\ batches' = IF marker.kind \in {"close", "flush"} THEN batches \ {s} ELSE batches
  /\ IF marker.kind = "close"
       THEN /\ answer' = Answered({s}, IF marker.landed THEN "landed" ELSE "refused")
            /\ lost' = [lost EXCEPT ![s] = 0]
            /\ writer' = "pruning"
       ELSE UNCHANGED <<answer, lost, writer>>
  /\ UNCHANGED <<queue, stopped, dropped, session, holds, incomplete, written, dead,
                 published, database, erasing, memory, seen>>

\* The sentinel: what the open batches hold is committed, session by session.
TakeStop ==
  /\ Ready /\ Item.kind = "stop"
  /\ queue' = Tail(queue)
  /\ writer' = "flushing"
  /\ UNCHANGED <<stopped, inFlight, dropped, session, holds, answer, marker, batches, held,
                 lost, incomplete, written, dead, published, database, erasing, memory, seen>>

Flush(s) ==
  /\ writer = "flushing" /\ marker = <<>> /\ s \in batches
  /\ IF held[s] = 0
       THEN batches' = batches \ {s} /\ UNCHANGED marker
       ELSE Begin("flush", s, {}) /\ UNCHANGED batches
  /\ UNCHANGED <<producers, writer, held, lost, incomplete, written, dead, published,
                 database, erasing, memory, seen>>

\* `_abandon_the_rest`: nothing can be behind the sentinel; what is, is refused.
WriterEnds ==
  /\ writer = "flushing" /\ marker = <<>> /\ batches = {}
  /\ writer' = "ended"
  /\ queue' = <<>>
  /\ answer' = Answered({queue[i].of : i \in {j \in DOMAIN queue :
                            queue[j].kind \in {"turn", "close"}}}, "refused")
  /\ UNCHANGED <<stopped, inFlight, dropped, session, holds, marker, batches, held, lost,
                 incomplete, written, dead, published, database, erasing, memory, seen>>

-----------------------------------------------------------------------------
(* Deletions: a transaction, and what it took announced in the same order.  *)

\* What a deletion of turns `ts`, threads `gone` and session rows `ss` removes,
\* the threads' memory among it.
Remove(ts, gone, ss) ==
  /\ rows' = rows \ ts
  /\ listed' = listed \ gone /\ flagged' = flagged \ gone
  /\ spine' = [s \in Sessions |-> IF s \in ss THEN "none" ELSE spine[s]]
  /\ tally' = [s \in Sessions |-> IF s \in ss THEN 0 ELSE tally[s]]
  /\ keeping' = keeping \ gone
  /\ seen' = [seen EXCEPT !.erased = @ \cup gone, !.scrubbed = @ \cup ts,
                          !.strangers = @ \cup (gone \ seen.ours), !.ours = @ \ gone,
                          !.holes = @ \ gone, !.told = @ \ gone,
                          !.forgotten = @ \ gone, !.erasures = @ + 1]

MayErase == erasing = <<>> /\ seen.erasures < MaxErasures

\* `erase_sessions`: a thread that has lost every turn goes with them.
EraseSession(s) ==
  LET ts == {t \in rows : SessionOf[t] = s}
      gone == ThreadsOf(ts) \ ThreadsOf(rows \ ts)
  IN
  /\ MayErase /\ spine[s] # "none"
  /\ Remove(ts, gone, {s})
  /\ tracks' = tracks \ {s}
  /\ erasing' = IF gone = {} THEN <<>> ELSE <<gone>>
  /\ UNCHANGED <<producers, thread, published, graves>>

\* `erase_conversations`: the sessions stay, with a gap.
EraseThread(c) ==
  /\ MayErase /\ c \in listed
  /\ Remove({t \in rows : ThreadOf[t] = c}, {c}, {})
  /\ erasing' = <<{c}>>
  /\ UNCHANGED <<producers, thread, published, tracks, graves>>

\* `erased`: the writer first, then the memory store.
Announce ==
  /\ erasing # <<>>
  /\ published' = published \cup erasing[1]
  /\ graves' = graves \cup erasing[1]
  /\ erasing' = <<>>
  /\ UNCHANGED <<producers, thread, database, keeping, seen>>

\* `_prune`: retention, on the writer's thread and in the same order: threads
\* past their age, and old sessions that no turn names any more.
Prune ==
  /\ writer = "pruning" /\ erasing = <<>>
  /\ writer' = "running"
  /\ \/ UNCHANGED <<published, database, memory, seen>>
     \/ /\ seen.erasures < MaxErasures
        /\ \E gone \in SUBSET listed, aged \in SUBSET {s \in Sessions : spine[s] # "none"} :
             LET ts == {t \in rows : ThreadOf[t] \in gone}
                 named == {SessionOf[t] : t \in rows \ ts}
             IN /\ Remove(ts, gone, aged \ named)
                /\ tracks' = tracks \ aged
                /\ published' = published \cup gone
                /\ graves' = graves \cup gone
  /\ UNCHANGED <<producers, marker, batches, held, lost, incomplete, written, dead, erasing>>

\* `_thread_keyed`: a session keeps something in memory for a thread it is on.
Keep(s, c) ==
  /\ session[s] = "recording" /\ c \in holds[s]
  /\ erasing = <<>> /\ c \notin graves
  /\ keeping' = keeping \cup {c}
  /\ UNCHANGED <<producers, thread, published, database, erasing, graves, seen>>

\* The process dies, and another is started on the same database.
Crash ==
  /\ seen.crashes < MaxCrashes
  /\ queue' = <<>> /\ stopped' = FALSE /\ inFlight' = 0 /\ dropped' = None
  /\ session' = [s \in Sessions |-> IF session[s] = "recording" THEN "closed" ELSE session[s]]
  /\ answer' = [h \in Handles |-> IF answer[h] = "waiting" THEN "gone" ELSE answer[h]]
  /\ writer' = "pruning" /\ marker' = <<>> /\ batches' = {} /\ held' = None /\ lost' = None
  /\ incomplete' = {} /\ written' = {} /\ dead' = {} /\ published' = {}
  /\ erasing' = <<>> /\ graves' = {}
  /\ seen' = [seen EXCEPT !.ours = {}, !.forgotten = @ \cup (seen.holes \ flagged),
                          !.crashes = @ + 1]
  /\ UNCHANGED <<holds, database, keeping>>

-----------------------------------------------------------------------------
(* The specification.                                                       *)

Sessioning ==
  \/ \E s \in Sessions : OpenSession(s) \/ RecordEvent(s) \/ CloseSession(s)
  \/ \E s \in Sessions, c \in Threads : Resume(s, c) \/ Keep(s, c)
  \/ \E t \in Turns : RecordTurn(t)

Writing ==
  \/ TakeEvent \/ TakeOpen \/ TakeTurn \/ TakeClose \/ TakeStop
  \/ DurableLands \/ Tombstoned
  \/ \E read, busy \in BOOLEAN : DurableFails(read, busy)
  \/ AnswerTurns \/ EventsWritten \/ EventsLost
  \/ \E ok \in BOOLEAN : CountLate(ok)
  \/ EndMarker \/ Prune \/ WriterEnds
  \/ \E s \in Sessions : Flush(s)

Erasing ==
  \/ \E s \in Sessions : EraseSession(s)
  \/ \E c \in Threads : EraseThread(c)
  \/ Announce

Next == Sessioning \/ Writing \/ Erasing \/ Stop \/ Crash

Spec == Init /\ [][Next]_vars

-----------------------------------------------------------------------------
(* Properties.                                                              *)

\* The variables hold values of their types.
TypeOK ==
  /\ queue \in Seq(Records) /\ stopped \in BOOLEAN /\ inFlight \in Int
  /\ dropped \in [Sessions -> Nat]
  /\ session \in [Sessions -> {"away", "recording", "closed"}]
  /\ holds \in [Sessions -> SUBSET Threads]
  /\ answer \in [Handles -> {"none", "waiting", "landed", "refused", "gone"}]
  /\ writer \in {"running", "pruning", "flushing", "ended"}
  /\ marker \in Marker \cup {<<>>}
  /\ batches \subseteq Sessions /\ held \in [Sessions -> Nat]
  /\ lost \in [Sessions -> Nat]
  /\ incomplete \subseteq Threads /\ written \subseteq Threads
  /\ dead \subseteq Threads /\ published \subseteq Threads
  /\ spine \in [Sessions -> {"none", "open", "closed"}] /\ tally \in [Sessions -> Nat]
  /\ tracks \subseteq Sessions /\ rows \subseteq Turns
  /\ listed \subseteq Threads /\ flagged \subseteq Threads
  /\ erasing \in {<<gone>> : gone \in SUBSET Threads} \cup {<<>>}
  /\ keeping \subseteq Threads /\ graves \subseteq Threads
  /\ seen \in Seen

\* What is on its way to the database for a session.
Pending(s) ==
  \/ marker # <<>> /\ marker.of = s
  \/ held[s] > 0
  \/ \E i \in DOMAIN queue : \/ queue[i].kind \in {"open", "event"} /\ queue[i].of = s
                             \/ queue[i].kind = "turn" /\ SessionOf[queue[i].of] = s

\* A conversation deleted while the process that wrote it runs never comes back
\* (`_discard_dead` in the erasure order), and nothing is kept in memory for one
\* that was deleted, unless it is on record again (`_thread_keyed`).
DeletedStaysDeleted ==
  /\ (seen.erased \ seen.strangers) \cap listed = {}
  /\ seen.erased \cap keeping \subseteq listed

\* Every row of a turn is on a listed thread and in a session with its row, and
\* no event row outlives its session's (`landed`, `_events`).
NoOrphans ==
  /\ \A t \in rows : ThreadOf[t] \in listed /\ spine[SessionOf[t]] # "none"
  /\ \A s \in tracks : spine[s] # "none"

\* A close is answered behind everything its session handed over
\* (`close_session`'s barrier).
CloseIsBarrier ==
  \A s \in Sessions : answer[s] \in {"landed", "refused"} /\ ~stopped =>
    /\ ~Pending(s)
    /\ \A t \in Turns : SessionOf[t] = s => answer[t] # "waiting"

\* A handle says what became of its turn: landed is stored, or was until a
\* deletion took it; refused never was (`Acknowledgement`). A writer that has
\* ended leaves none unanswered (`stop`); nor is a close's answered early.
HandlesTrue ==
  /\ \A t \in Turns :
       /\ answer[t] = "landed" => t \in rows \cup seen.scrubbed
       /\ answer[t] = "refused" => t \notin rows \cup seen.scrubbed
  /\ writer = "ended" => \A h \in Handles : answer[h] # "waiting"
  /\ CloseIsBarrier

\* Whoever is told that a turn landed never finds its thread claiming to be whole
\* when a failed transaction lost an earlier one (`_durable`, `flag_incomplete`),
\* unless the process died owing the mark, which is in memory only; and a closed
\* session's row counts every record that was lost of it, but for a last count that
\* itself failed (`_close_row`, `_count_late_loss`).
LossesTold ==
  /\ seen.told \cap listed \subseteq flagged \cup seen.forgotten
  /\ \A s \in Sessions : spine[s] = "closed" /\ answer[s] = "landed" =>
       tally[s] + seen.uncounted[s] = seen.missing[s]

\* The events that are held, one by one.
Held == UNION {{s} \X (1 .. held[s]) : s \in Sessions}

\* The allowance is what is queued or held, so it is never spent for good
\* (`_release`).
AllowanceExact ==
  inFlight = Cardinality({i \in DOMAIN queue : queue[i].kind = "event"}) + Cardinality(Held)

\* A conversation that was deleted never comes back (store.py:1652, "the id is
\* never materialized again").
DeletedForEver == seen.erased \cap listed = {}
=============================================================================
