# Verifying vinga-server

vinga-server answers people who talk to small voice devices.  A device keeps
one websocket open per conversation; the server listens, decides that an
utterance is over, transcribes it, asks a language model, and speaks the answer
sentence by sentence at the pace the device plays it.  Everything of one process
runs on one asyncio loop, beside a few worker threads (the conversation writer,
exporters, request handlers that touch a database).

Paths below are relative to `vinga-server/src/vinga_server/`.

## The system

| part | state it keeps | operations | what is hard | what makes it correct | here |
|---|---|---|---|---|---|
| Turn taking (`runtime/turntaking.py`) and the reply (`runtime/pipeline.py`, `reply_in_flight.py`, `outlast.py`, `filler_runner.py`, `speech.py`, `device/pacing.py`) | the reply in flight and its outcome, audio still to be transcribed, the output pause, the sentence task, the clip task | utterance finished, merge, confirm, manual stop, abort, close; transcribe, show, speak, hold, apologise, settle, stop | cancellation at every await, of tasks that wait on other tasks | one answer at a time; no sentence lost or answered twice; one voice; nothing outlives its reply; a cut always completes | `TurnTaking`, `Floor` |
| The body of a reply (`runtime/pipeline.py`, `speech.py`, `tool_execution.py`, `turns.py`, `provider_watch.py`) | rounds and legs, sentences and their syntheses, calls and their slots, the history and the record of each leg | ask, retry, speak, queue, reserve, run tools, move, recap, keep, record | a cancellation or a failure at any await of four kinds of task; a move in the middle | what was heard and what was asked is kept once, where it happened; silence is explained; the reply ends | `SpeakingPass` |
| Worlds (`generation.py`, `registry.py`, `config/reload.py`, `providers/world.py`) | the world served, retired worlds, engines shared between them, the candidate being prepared, who holds what, the rename ledger | apply, bind, leave, dispose, rename, compare | an apply whose caller leaves; engines carried over; a disposal asked for and run later | engines open while used, closed once when not, none leaked; the ledger exact | `Worlds` |
| Device session (`device/session.py`, `watchdog.py`, `handshake.py`, `recording.py`, `device_endpoint.py`, `ws.py`) | the socket, listening mode, close reason, limits | hello, listen, abort, limit, idle, drain, close | four causes of a close racing; a cleanup whose steps may fail or be cancelled | first cause recorded; every cleanup step runs; exactly one closing event | `Sessions`, `Lifetime`; what a text frame selects is not |
| Admission and drain (`registry.py`, `serving.py`) | sessions, the draining latch, disposals | admit, bind, remove, drain | the latch is set from a signal handler | nobody admitted behind the latch; the drain waits for all it should | `Sessions` |
| Threads of a session (`session_conversations.py`, `runtime/resumption.py`, `conversations/hydration.py`) | the active agent, a thread and a history per agent, acknowledgements | activate, start anew, reactivate, acknowledge, settle | a thread left and resumed before its last turn is durable | turns recorded on the thread they were spoken on | the move onto a recorded thread, in `Record`; the rest planned |
| Conversation record (`conversations/store.py`, `threads.py`, `records.py`, the deletions of `conversations/api.py`) | one queue, one writer thread, batches, dead and written threads, translations | open, event, turn, milestone, close, forget, rename, prune, stop | failed transactions, deletions and renames against queued turns, a stop against producers, a crash | every handle settled and true; no deleted thread returns; losses counted; turns under the right name | `Record`, `Renames`, `Naming` |
| Memory (`memory/store.py`) | facts and thread state in a database, the dead threads, calls in flight | add, update, forget, purge, sweep, close | a write against a deletion; a close against calls | no row for a thread that is gone; disposed once, by the last out | thread-keyed writes, in `Record`; the close planned |
| Capture and upload (`capture.py`, `capture_upload.py`) | WAV and decision tracks, staged links, a queue and a worker | open, finish, prune, stage, queue, attempt, shut down, sweep | a budget that prunes, retries, a bounded shutdown, a restart | nothing leaves early, every staged job is reported, every clip counted | `Captures`, `UploadLedger` |
| MCP servers (`tools/mcp/*`) | per server a connection task and its published tools | start, call, mark down, reconnect, stop, reload | reconnect against unwind and reload | one connection at a time; a stop that answered left nothing unnoticed; stops and starts end | `McpServers` |
| Device tools (`tools/device.py`, `protocol/mcp.py`) | requests in flight | discover, call, handle, close | late and duplicate answers | an answer reaches the call it answers | later |
| Configuration store, API, CLI (`config/*`) | the stored documents | read, write, rename | writer locks held across threads | commit and publication in one order | the rename, in `Renames` and `Worlds` |
| Telemetry and exports (`telemetry.py`, `transcript_export.py`, `llm_input_export.py`, `quieting.py`) | held spans, groups of rows, a worker | fold an event, hold, settle, release, shut down | acknowledgements against close and stop | every held turn settled once | planned |
| Onboarding (`onboarding/*`), OTA (`ota/*`) | waiting devices and codes, live invites | observe, reserve, consume, release, retire, issue, claim | expiry against a claim in flight | a code binds one device, an invite answers once | planned |
| Events (`events/*`), providers, fillers, databases, audio, protocol, simulator, browser, knowledge | | | | | not modelled: declarations, clients of other services, codecs and tools around the server |

A session is admitted by the registry, binds the current world and builds its
runtime from it; its serve loop feeds turn taking, which starts replies on the
pipeline; replies speak through the session's pacer, record turns with the
conversation store and read tools, memory and threads.  An apply replaces the
world under sessions that go on using the old one.  A session's turns, events and
close go through the store's one writer, beside which the API deletes and renames;
its recording goes to disk, and from there to the telemetry backend when the session
is over.  `PROJECT.json` lists every part, and every hazard at its line with the
property that watches it, or the planned module that will.

## Turn taking

`TurnTaking.tla` is one conversation's serve loop, its replies, the sentence being
spoken and the clip that masks a slow answer.  Each is a task on one loop, so an
action is what a task does from one await to the next; nothing can come between.

| in the model | in the code |
|---|---|
| `pc`, `carry` | where the serve loop is suspended, and the local audio of the handler it is in (`finish_utterance`, `_gate_barge_in`, `device_aborted`, `_converse`) |
| `inFlight`, `pending`, `paused` | `PipelineRuntime._in_flight`, `TurnTaking._reply_pcm`, `TurnTaking._output_paused` |
| `phase[r]` | the await `_reply` is suspended in; `scheduled` is a created task that has not stepped |
| `thrown[r]` | a `Task.cancel()` not yet delivered |
| `outcome[r]`, `said[r]` | `ReplyInFlight._outcome`; the outcome `reply_finished` carried |
| `speaker` | the sentence's task and its synthesis: before its first frame, behind a sounding clip (`tail`), sending, being cancelled, over, failed, or stopped by a device that is gone |
| `filler` | the clip's task: `armed` waits for its timer, `sounding` sends, `ending` has been cancelled |
| `cut`, `late`, `stopped` | observers no action reads |

A cancellation is modelled as Python delivers it.  `Cancel` latches the outcome,
leaves the error at the await, and passes it to the task that await is on.  What
the reply does with it depends on the await: most go to `Conclude`, the
`finally`; a task that never stepped runs nothing (`NeverRan`); in the round's own
`finally` the sentence's failure, or the loss of its device, takes the error's place
(`CutFinds`), and a second cancellation there is spent (`Unwound`).  A reply that
ends lets a clip already sounding finish its words (`StoodDown`); a cancellation that
reaches the reply's own arm for it, or a wait *on* the clip, takes the clip with it
(`Abandoned`).

Abstractions.  Audio is the set of utterances it carries, so that losing or
repeating one can be said.  Providers answer, fail or stay silent.  One sentence
is spoken at a time; the synthesis run ahead of it, the tool calls and the moves between
agents are the next section's.  A blip under the speech floor changes nothing the model
has and is not a step.  The deployment's `barge_in` switch is the constant
`BargeIn`; the runs set it TRUE, the proofs hold for both.  `gone` is a socket that
can no longer be written.

`Floor.tla` is the promise to the user: turns are answered in the order they were
finished, one at a time, none twice, and none after the conversation closed.
`ImplementsFloor` maps it to the reply tasks.

### What its runs show

`turn_taking` (safety and liveness, 551,501 states) takes three utterances: a reply, one
that cuts it, and one that cuts the reply started by the cut.  Every way of cutting
works on two replies, and the third lets a handler find the leftovers of a cut
that was itself answered.  All four failures occur: transcription (`asr`), a
stream with no sentence alive (`llm`), a stream while one is spoken (`midspeech`)
and synthesis (`tts`).  `MaxHurries = 1` cancels the close once more while it
waits; a second such cancellation finds the same state.  The properties:

- `ImplementsFloor`: no handler goes on before the reply it cut has taken its last step,
  so there is one answer at a time.
- `SentenceKept`: speech merged into a reply still transcribing is answered with
  that reply's audio in front of it, and no audio is heard for two replies.
- `OneVoice`: a clip and a sentence, or a clip and the fallback phrase, are never
  sent together.
- `NothingOutlivesItsReply`: tasks a reply started end with it, and a closed session has
  none (`QuietOnceClosed`).
- `RepliesClose`: `reply_finished` tells the truth about a cut, and the device's
  closing `tts stop` follows it unless the reply was cancelled again behind it.  That
  exception is real: a cancellation in the settle of the `finally` skips both
  `clear_pending` and the stop (`runtime/pipeline.py:1577-1586`).
- `HeldOnlyWhileConfirming`: the gate gives the held frames back on every way out but
  one, the session limit, which leaves them held through the grace.
- `WaitsEnd` (liveness): a handler that cancelled a reply goes on, and the close ends,
  whatever fails, with two exceptions, named in the property (`ExcuseHeld`, `ClipHeld`)
  and described with the next run.

Fairness is weak and given only to what the loop itself does: a handler whose wait is over,
a reply's steps that wait for no provider, the sentence's steps but sending and
failing, and the clip's.  No provider, user or device owes anything, and the
session limit need never come.

`turn_taking_stuck` (violated: `CutsComplete`, without the exceptions).  A confirmed
barge-in pauses the output, cancels
the reply and waits for it.  If the sentence has already failed, awaiting it in
the round's `finally` raises that failure in place of the `CancelledError`
(`runtime/pipeline.py:2074-2082`); the reply takes the failure arm and speaks the
fallback phrase, whose paced send waits for the output to be resumed, which the
gate does only when the reply has ended.  The session limit is the way out.  A
stream that fails while a sentence is spoken (`midspeech`) reaches the same state:
the same `finally` waits for the sentence it cancelled under
`suppress(CancelledError)`, which also spends the barge-in's own cancellation when
that lands there.

The second exception needs no failing provider, only a device that leaves.  A sentence that
raised `DeviceGone` raises it again in the cancellation's place, so the reply takes the
`DeviceGone` arm (`runtime/pipeline.py:1479-1491`), which does not abandon the clip as
the `CancelledError` arm beside it does (`1497`).  The settle in the `finally` then waits
out a clip already sounding, and the clip waits for the output to be resumed
(`device/pacing.py:220`): by a gate that waits for this reply, or, when the session limit
has already taken the serve loop out of the gate, by nobody, while `close` waits for the
reply.  Its docstring says of a tail that ignores its cancellation that "nothing in
today's tail does" (`runtime/pipeline.py:1131-1133`).

Two more disagreements are visible in the model and not run.  A reply cancelled between
the creation of its task and the task's first step runs no `finally` (`NeverRan`), so no
`reply_finished` follows its `turn_started`, against "Exactly one per `turn_started`"
(`events/catalog.py:1361`, `docs/reference/events.md`).  And after a failed
transcription the pending audio stays set until the `finally`
(`runtime/pipeline.py:1586`), so a reply that is apologising is cut on acoustics alone,
against the comments in `runtime/turntaking.py:160-162` and `347-350`, which reserve
that for a reply still inside ASR.

Deadlock is not checked: a closed session stops.

## The body of a reply

`SpeakingPass.tla` is what `_speak_reply` does between the transcript and the end of the
turn: rounds of a model whose words are spoken while it is still writing, the tools it asks
for, at most one move to another agent or thread, and what the history of each thread and
the record of each turn keep.  `TurnTaking` asks who may speak; this asks what becomes
of what was said.

| in the model | in the code |
|---|---|
| `pc`, `thrown` | where the reply is suspended, and the exception it unwinds with |
| `leg`, `round`, `attempt` | `_speak_reply`'s loop, the round of `_tool_loop`, the watchdog's request |
| `speaking`, `voice[s]` | `_tool_loop`'s local, and each sentence's `_speak` task: `new` has not stepped, `announcing` is ahead of its `try`, `quitting` and `losing` are in its `finally` |
| `synth[s]`, `ready[s]` | `_Synthesis._drain` and its buffer: `holding` waits for `_room` |
| `spoken`, `pass` | the leg's `spoken`, and `SpeakingPass`: `spoke`, `withheld`, `kept` |
| `slots`, `call`, `tools` | the round's calls, what each slot of `TurnUnderway._tools` says, the slots of each leg |
| `history`, `stored` | what each leg's thread gained, and the `TurnRecord` handed to the recorder |
| `clip`, `phrase` | the clip that masks a wait, the fallback phrase said |
| `aired`, `issued`, `cuts` | observers: sentences heard whole and calls issued, per leg; cancellations |

A cancellation reaches the reply through whatever it awaits.  Where that is a voice, the
voice is cancelled and the reply sees what the voice ends with (`CutVoice`), which in
the round's `finally` may be a failure in place of the cancellation (`CleanedUp`); waits
under `suppress` keep it (`CutSwallowed`); a round of tools keeps what was answered on its
way out (`ToolsEnd`); the last wait of all records the turn under it (`CutSettling`).

Abstractions.  A sentence is its number, a chunk fills at least a frame, and a sentence
that gives no chunk sends nothing.  A tool answers, whichever way; which calls may be
issued once in a round is a choice.  A move is granted or refused as the agents, the
offers and the store would have it, at most one in a reply.  The order of writes
(`ORDERED_TOOL_NAMES`) is a guard the instance does not exercise: it has one call of each
of two kinds, a lookup, which arms the clip, and a move.

`speaking_pass` (safety and liveness, 576,564 states): two rounds a leg, two sentences of
two chunks, two calls, two cancellations.  Two sentences are one being spoken and one run
ahead; two chunks fill the one-chunk buffer and make the drain wait; two rounds and two
calls give a round that is cut between its answers, one that keeps nothing, and a move
behind an answered call; a second cancellation finds every wait the first left behind.

- `HeardKeptOnce`: what was heard is what was written, in order; it is in the history once,
  on the leg it was heard on, and in the record, wherever the reply was cut.  The history
  may lack it in two cases, both real: when the close of the session cuts the last wait of a
  reply that was already cut (the record is made under that wait, the history behind it,
  `runtime/pipeline.py:1584`, `1632`), and when a voice gave no sound, so that the clip
  was still sounding at that wait.
- `CallsAccounted`: every call issued is on the record of its leg, run or not; the history
  has the answered ones.
- `ToldWhenNothingHeard`: the phrase for a reply with nothing sayable is said to whoever heard
  none of it, and to nobody else.
- `ReplyEnds` (liveness): the reply ends.  Fairness is the loop running its tasks and its
  timers (the first-token watchdog, a tool's timeout), a synthesis that ends, a paced send
  that finishes, and a stream that has begun ending, by the provider's own timeout if nothing
  else.  What holds a paced send up for ever is `turn_taking_stuck`'s subject.

`speaking_pass_left` (violated: `NothingOutlivesTheReply`).  `_speak` awaits
`begin_speaking` and `sentence_started` ahead of its `try` (`runtime/pipeline.py:2956`).
A device that is gone or a cancellation there, or a voice cancelled before its first step,
leaves the synthesis as it was; its drain pulls one more chunk than anyone takes, then
waits for room for ever, its provider stream held open.

## Worlds

`Worlds.tla` is `Generations`, one `ConfigReload`, the worlds half of
`SessionRegistry`, and what a rename and a comparison need of them.

| in the model | in the code |
|---|---|
| `current`, `retired`, `settled`, `known`, `ledger` | the fields of `Generations`: the served world, the retired ones, `_settled`, each world's place in the renames, their number |
| `engines[w]` | the engines of a world; an engine is the provider entry and the world it was built for, so that one carried over keeps its name |
| `phase`, `candidate`, `mark`, `abandoned` | where the one apply is, its `_Candidate`, `renames_known`, a caller that went away |
| `bound`, `disposals` | `SessionRegistry._bound`, and the disposals spawned and not yet run, each with the `held` it was given |
| `committed` | renames committed to the store; ahead of `ledger` between commit and publication |
| `diff` | a comparison: the mark and the world it sampled |
| `made`, `twice`, `reflects`, `overtaken` | observers |

`Build` chooses any entries to build again and any to carry over from the running
world.  `PrepareRefused` is every refusal of the read and of the build; engines
built on the way are closed.  `ReadStored` is guarded by `committed = ledger`
because `_in_order` and `rename_agent` hold one lock over the read, and over commit
and publication.  The window between swap and MCP install is two actions, since
sessions bind and comparisons run inside it.  `Dispose` takes the worlds off the
list before any engine is closed, as the code does before its first await.

Abstractions.  Closing an engine is one step and bounded (`providers/world.py`
contains and times each).  The MCP half of an apply always returns, as its
timeouts make it.  An abandoned caller matters only up to the swap.  `Aclose` is
the end of the process: the retired worlds and the current one are closed in one
step and nothing runs after.  `MaxDisposals` bounds how many sessions end before
the loop runs a disposal.

### What its runs show

`worlds` (safety, 2.0 million states up to symmetry): two conversations, two
entries, three worlds, one rename, two disposals waiting.  Three worlds let an
engine be carried twice, be held through two retirements and come to its last
holder out of order; two entries let one move while the other stays; two
conversations let a disposal be overtaken by a binding.  Entries and conversations
are interchangeable.  The properties:

- `EnginesOpen`: engines work for new conversations and for those begun on worlds
  since replaced.
- `NothingLeaked`: an engine is closed once (`ClosedOnce`), one that is open has
  an owner who will close it, also when an apply is refused or abandoned, and a retired
  world nobody holds is about to be let go of (`LetGoComes`): by the apply still in its
  window, or by a disposal already asked for, which the loop runs.
- `WatermarkExact`: a world's place in the ledger is exactly the renames its
  snapshot carries, so a conversation is told of each rename once.
- `DiffOfOneWorld`: an answered comparison is about one world, its MCP half too.

`EnginesOpen` excepts a session that bound ahead of a disposal asked for
earlier (`overtaken`), and the exception is real: the disposal's task is given
`self.held()` when it is created (`registry.py:208`).  If a session binds the current
world and an apply retires that world before the task first runs, the task takes a world
that is held, although `registry.py:19-20` says a world may not let go of what it holds
until the last conversation holding it has ended.

## Sessions

`Sessions.tla` is the server around the conversations: the door, one task for each
connection, the idle watchdog and the duration cap, the shutdown drain, and the close
all of them end in.  How a reply is cut is `TurnTaking`'s; here a reply is running,
told to end, or over.

| in the model | in the code |
|---|---|
| `draining`, `registered`, `bound`, `letting` | `SessionRegistry._draining`, `_sessions`, the domain of `_bound`, `_disposals` |
| `door` | an admission between its lines: the signal handler is the one thing that can land there, so an admission is three actions, `Classify`, `Insert`, `Recheck` |
| `task[s]`, `raising[s]` | where `DeviceSession.run` is suspended, and what it will end in |
| `cause[s]`, `record[s]` | `_close_reason`; the conversation row: none, open, or closed under a reason |
| `reply`, `watch`, `discovery` | the reply in flight, `IdleWatchdog._task`, `_discovery`: what a close has to end |
| `asked[s]`, `drain`, `drained`, `awaited` | one `request_shutdown` task for each session the drain found, and how far `DrainingServer._drain` is |
| `exiting`, `cancelled` | uvicorn told to exit; it then fail-closes sockets and may cancel tasks |

`Lifetime.tla` is the promise: never more inside than there is room for, nobody
enters once the door is shut, what ends a conversation is decided once, and a record
that was opened is closed under exactly that, in the step that gives the slot back.

`sessions` (safety and liveness) has one slot, two connections that want it, a board
with tools of its own and one without, and one task the server may cancel.  Two
connections are enough for a slot to be fought over and to be given to the second when
the first leaves; a third would only wait longer.  Every cause may arrive in any order
at any step of the close.  `SlotPerConversation`, `NothingBehindTheRecord`,
`CauseNamedFirst` and `ImplementsLifetime` are the safety half.  `DecidedEnds` is
the liveness: what has a cause ends, and everything ends once the signal has come.
Its fairness is the loop running what is ready, deadlines and graces elapsing (the
drain's requests, the cap's grace), a reply, a countdown or a discovery that *was told
to end* doing so, and uvicorn closing the sockets that are left.  A board owes nothing,
and a reply nobody cut need never end.  That a cut reply ends is what `TurnTaking`
checks, and where `turn_taking_stuck` says it does not, the session limit ends it.

Not run, but visible: `IdleWatchdog.stop` and `_stop_device_discovery` wait under
`suppress(CancelledError)` (`device/session.py:755-760`, `838-842`), so a cancellation
that arrives in either wait is spent there and the task ends as if nobody had
cancelled it (`Cancel`, third disjunct; `CancellationPassedOn` states the opposite and
is checked by no run).

## The conversation record

`Record.tla` is `ConversationStore`: producers that hand records to one queue under
one lock, one writer thread, and deletions beside it.  A transaction is one action,
since the erasure order and the database serialize them; everything between two locks
is another, so a deletion may commit between a marker's durable half and its events, and
another thread may see it before it is announced.

| in the model | in the code |
|---|---|
| `queue`, `stopped`, `inFlight`, `dropped` | the fields of the producers' half, with events counted against `MAX_EVENTS_IN_FLIGHT` |
| `answer[h]` | the `Acknowledgement` of each turn and of each close |
| `marker` | the marker being committed: `durable`, `answer`, `events`, `late`, `end`, and the attempt |
| `batches`, `held`, `lost` | `_batches`, the events in them, `_lost` |
| `incomplete`, `written`, `dead`, `published` | the writer's four sets of threads |
| `spine`, `tally`, `tracks`, `rows`, `listed`, `flagged` | the tables: sessions, `sessions.dropped`, events, turns, conversations and their `incomplete` |
| `erasing` | a deletion between its commit and its announcement, in the erasure order |
| `keeping`, `graves` | rows the memory store keeps for threads, `MemoryStore._dead` |

A failed durable transaction is retried as the code does it (`DurableFails`: refused by
a read, or busy), and the events' transaction is not.  `Prune` is retention, on the
writer's thread.  `Crash` loses everything but the tables and starts another process
on them.

`record` (safety, 2.7 million states up to symmetry): three turns of two sessions on one
thread, two of the session it begins in and one of the session that resumes it; one deletion,
one crash, two records queued, two attempts.  This is the smallest instance where a thread is
on record and loses a turn before its process dies, is resumed and spoken on after it, and
may be deleted between a commit and an announcement.  `MaxRecording = 1` makes the
sessions follow each other, and the writer keeps nothing across sessions but the sets of
threads, which one thread exercises.  One event per run shows every way an event is held,
lost and released; that one beyond the allowance is refused needs a second, which takes TLC
past the time a run is given, and is covered by the proof of `AllowanceExact` alone.  The properties relate what callers were told to
what is in the tables: `HandlesTrue` (an answered handle tells the truth, and a writer that
has ended left no handle unanswered, and a session's close is answered behind all of its
turns: `CloseIsBarrier`); what a deletion took to what is
there, memory included: `DeletedStaysDeleted`, `NoOrphans`; losses to what says so:
`LossesTold` (a thread with a hole is flagged before a later turn on it is answered, and a
session's tally is what it lost); and
the allowance to what it admits: `AllowanceExact`.

All four failures occur: of a session's opening (`open`), of a turn's or a close's
transaction (`write`), of the events' and of the last count behind a close (`late`).
`LossesTold` speaks of what a failed transaction lost, with one exception, `seen.forgotten`:
the mark a thread is owed is kept in memory (`_incomplete`,
`conversations/store.py:925-933`) until the next durable transaction, so a process that dies
first forgets it.  The thread is then resumed by the next process, whose turns land and are
answered on a row that still claims to be whole; without the exception TLC finds that in 25
steps.  It is a real disagreement with what the writer's answers are said to mean
(`store.py:1419-1423`: a waiter "may never find that row still claiming to be whole"), stated
here and not run.  A turn lost after the restart is owed a mark again, and the exception
ends with it.  A session whose opening failed for
good is gone to the writer: its later turns are refused as those of a deleted one
(`Tombstoned`), are in no count, and a thread it had resumed gets no `incomplete` mark for
them (`conversations/store.py:1391-1420`, `1506`); the property does not claim what the
code does not promise for those.

`record_returns` (violated: `DeletedForEver`).  `_discard_dead` keeps only deletions
of threads *this process* has written (`store.py:1657`).  A thread of an earlier
process, resumed, and deleted before its first new turn is durable, is inserted again
by that turn.  `DeletedStaysDeleted` is the promise without those threads.

`Renames.tla` is what one rename does to all of this: names and recorded
conversations move in one transaction, then the worlds are told, then the writer,
under one order; sessions go on speaking the names of the world they bound, which a
translation per session (`moved`, `_compose`) turns into the present ones.
`Naming.tla` is the promise: an agent and everything recorded of it change name in one
step, and nothing recorded of it is refused.  `renames` checks `ImplementsNaming` for two
agents, three names, two sessions and three renames, with an apply that may read before and
install after any of them.  Three renames let a name go to one agent, be freed, and be
taken by the other while a session still speaks the first meaning of it; a third name is what
makes a chain of two distinguishable from one.  One waiting record is enough, as the
writer translates at the head of the queue.  Agents, names and sessions are
interchangeable.  Deleting an agent is left out: names are all the record knows an agent
by, so the promise would have to say what becomes of a name nobody has.

## Captures

`Captures.tla` is a session's recording and its upload, over several lifespans of several
processes.  The recordings of a directory share a budget the oldest pay for, so a
finished one is hard-linked aside in the callback that finishes it (`stage`), and queued
for a worker thread when its session closes.  A worker may be left behind by the bounded
`shutdown` and go on beside the next lifespan's; a kill leaves links for the next process
to sweep.

| in the model | in the code |
|---|---|
| `captures` | the directory, by modification time; two within one tick of a coarse clock may stand either way (`Written`) |
| `building`, `kept` | staged jobs before and after the rename that commits them |
| `loop` | the session, or swept job, whose callback the loop is in the middle of: `Links` and `Commits` are two steps of one callback, and only a worker or a kill can come between |
| `recording`, `staged`, `incomplete` | `CaptureStore._active`, `CaptureUpload._staged`, `_incomplete` |
| `queue[l]`, `worker[l]` | per lifespan, `_queue` and the thread: the pair, its reference, each clip of each turn, the report, the removal |
| `up`, `life`, `born`, `todo` | the process, its lifespan, `_PROCESS_STARTED`, what a sweep has still to look at |
| `sent`, `outcome`, `abandoned`, `broken` | observers: what is at the backend, what was said of a session's recording, what a sweep said, which files the filesystem failed |

A recording is one unit of the budget.  The worker's requests succeed, fail, or fail in a
way that is retried; after the retries of one clip the rest are skipped, as the code does.

`UploadLedger.tla` is the promise: a recording leaves only once its session is over;
what was put aside goes only after something was said of it; a process says one thing
of each; only a failing filesystem loses one, and no budget does; what a process leaves
put aside the next one calls abandoned.

`captures` (safety and liveness): two sessions, one with two turns of two clips and one
clip, the other with none; a budget of one, a backlog of one, one retry, three lifespans, one
failing file.  Two recordings and a budget of one are what makes a prune choose; a
backlog of one is full while the other waits; three lifespans give a worker left behind
and a sweep after a kill, in either order.  `ClipsAccounted`: each clip of a job is in
exactly one count of its report.  `ImplementsLedger`: the promise above.  `StagedEnds`: what
was put aside goes, unless the filesystem refuses, or its process is gone and no boot
has come, or its lifespan ends without a worker that has it.  Fairness is weak, for
what the loop is in the middle of, for a session's close (its duration is capped), for
each worker thread (its requests time out) and for the sweep; a process need neither end nor
begin.

Three things the reading turned up that no run asserts.  `prune` spares the newest
recording by modification time, which may be one still being recorded, while its
docstring speaks of the newest *finished* one (`capture.py:807-856`).
`events/values.py:1827-1829` says an `abandoned` job is one no upload ever ran for; a kill
in the middle of an upload, or between the report and the removal, gives it too.
`SessionCapture.close` suppresses a failure of the last block and of the header patch and
writes a manifest that says `complete: true` (`capture.py:635-672`).

## MCP servers

`McpServers.tla` is `McpServerManager`, the registry of the managers sessions reach, and
the second phase of an apply, which stops the managers that go, starts those that arrive,
and swaps the registry.  Each connection lives in a task of its own, the run, because an
SDK client must be unwound by the task that entered it; a manager may have had several.

| in the model | in the code |
|---|---|
| `installed`, `candidate` | `McpServers._managers`, and the `keep` of the apply in progress; a manager is named by its entry and the world that built it, so that one kept keeps its name |
| `phase`, `world` | where the apply or the shutdown is; worlds composed, which number the managers |
| `task[m]`, `run[m][k]` | `_task`; where `_run` is suspended, for each run: handshake, capture of what the server ships, the wait for a stop, its exit stack unwinding, or stuck there |
| `stop`, `settled`, `up` | `_stop`, `_settled`, the run `_session` came from |
| `calls` | the sessions tool calls are out on, which may be sessions of before |
| `stopper[m]`, `held[m]`, `abandoned` | where the `stop` that takes a manager away is, the task it waits for, and the tasks given up on |

`CallFails` is `_mark_down` whole; it takes down the connection that is up *now*, whichever
the failed call was out on.  `RunBegins` clears the stop whoever set it.  `StopTimesOut`
and `StopGivesUp` are the two timeouts of a reload's `stop`; `stop_all` has neither.
The far side answers, refuses, breaks off or holds up an unwinding (`Sticks`, at most
`MaxStuck` at a time) as it likes.  Which tools are published is left out: they go with
the session in every place.

`mcp_servers` (safety and liveness, 52,996 states): one entry, the boot's world and one
apply, two connections for each manager, one stuck unwinding.  Entries share nothing but
the phase of the apply and the set of abandoned tasks; two connections are what a revival
beside an unwinding, a late failure of an old call and a revival inside an apply need.

- `OneConnection`: a manager that is not being taken away has one live connection at
  most, the one its task names; what it publishes comes from it, and one it no longer
  publishes was told to go.
- `EndedOrAbandoned`: a stop that answered saw its connection end, or left it in
  `abandoned`, which holds nothing that has ended.
- `StopsAndStartsEnd`: the stops of an apply end whatever far sides do.  Its starts, and the
  shutdown, end unless an unwinding is stuck: `start` waits for the failed connect's exit
  stack beyond the connect timeout, and `stop_all` waits for ever.  Fairness is weak, for
  the loop, for the deadlines of a connect, a capture and a stop, and for an unwinding
  nothing holds up.

`mcp_servers_left` (violated: `NothingLeftRunning`).  An apply stops a manager; a session
opens before the swap, finds it down with no task, and revives it (`manager.py:430`); the
swap drops it with the new connection running.  Nothing stops that connection, `stop_all`
included, and `abandoned` does not know it.  The same revival is the reason `OneConnection`
speaks of managers that are not being taken away.

Not modelled: an apply still in flight when the process stops, and a boot cancelled in its
starts.  `StopAll` takes it that no run was created in the step before, since the drain has
come between; `stop` on a run that has not taken its first step would be undone by it.

## Proofs

The proof modules establish `Spec => []Inv` for every value of the constants, from the
assumptions named in each component: the bounds are naturals, and then `BargeIn` is a
Boolean and `Faults` a subset of the four (`TurnTaking`); `MaxWorlds` is positive
(`Worlds`); there are finitely many connections and room for at least one (`Sessions`);
sessions, threads and turns are finite sets, each turn has a session and a thread, no
session is a turn, and an allowance and a queue hold at least one (`Record`); a clip count
is positive and a backlog holds at least one (`Captures`); the calls are finitely many, a
move is neither a write nor a lookup, and there is at least one round (`SpeakingPass`); no
agent is called what nobody is, and the writer's queue holds at least one (`Renames`); there
are finitely many entries, and a world and a run can be had (`McpServers`).  Nothing is
assumed of `Entries` and `Sessions` in `Worlds`, of `Agents`, `Names` and `Sessions` in
`Renames`, not even that there are finitely many, or of which failures occur.

**`TurnTaking_proofs`.**  None of the safety properties is inductive alone.  That
a reply is alone is true because a handler starts the next only when the one in
flight is over, so one must know that every live reply *is* the one in flight, that
replies are numbered by utterances so the new one was never used, that the sentence
and the clip exist only inside phases of that reply, and that a phase that sends
the fallback phrase has seen the clip down.  `FloorInv` is the conjunction of those.
Its proof has one lemma per part, one step per action.  From it follow
`OneAnswer`, `OneVoiceOnTheWire`, `NothingOutlives`, `HeldForConfirmation`, and
`FloorRefined`: initial states map to initial states and each step to a step of `Floor` or
to none.

Two further invariants stand on it.  `RepliesAlwaysClose` adds `EndsOnce`: a reply that has
said its end is in its last two waits or over, a cancellation waiting for it there came
behind its last word, whoever was cut has an outcome, and no code writes `completed` as one;
so what a reply says at its `finally` is what whoever cut it wrote down first.
`SentenceAlwaysKept` adds `Sentences`, which follows a sentence from the merge window to the
serve loop's hand to the next reply: the window holds the current reply's audio and only
while nobody has transcribed it (`MergeWindow`, which needs `FloorInv`: no clip is alive
while a reply is in ASR, so hearing nothing closes the window in the same step); what is in
hand is of utterances no reply has transcribed (`InCarry`); the reply a merge waits for will
not transcribe any more, as the cancellation is already at its await (`MergeCut`); two
replies that have heard, or may yet hear, have no audio in common (`Apart`); and a head that
was cut is with a later reply, in the hand, or the session is over (`HeadCarried`).

**`Worlds_proofs`.**  `WorldsInv` joins the type and numbering facts (worlds are
numbered as applies set out; what is around has been numbered; the candidate is the
newest), where engines come from (a world has only engines built for it or for an
earlier world, and those a prepared candidate carries are the served world's),
that every world still around has all its engines open, `ClosedOnce`, who owns an
open engine, `LetGoComes`, where each world is in the ledger, which worlds a pending disposal
knows to be held, and what a comparison's mark says.  `EnginesOpen` needs that
an engine carried over belongs to the served world throughout the preparation, and
that each pending disposal's `held` contains the world of every conversation that did
not overtake it; `ClosedOnce` that what a disposal closes was open because its world was
still around.

**`Sessions_proofs`.**  `SessionsInv` says what a task at each point of its life holds
(`Phases`: which of record, reply, countdown and discovery can be there), that the slots are
the live tasks and the one inside the door (`Slots`), that there are never more than the
limit (`Room`), and that whoever closes has named a cause.  A drain's request
outlives its session, so the last is about requests too.  From it: `SlotsExact`,
`RecordLast`, `NamedFirst`, and `LifetimeRefined`, where the one step that enters
(`Recheck`, with the latch still open) must show that there was room *before* the
insertion that `registered` already counts.

**`Record_proofs`.**  All five promises of the record, from one invariant, `RecordInv`,
proved part by part, each part resting on those before it.

- Types (`TypeCorrect`); the writer's own numbers are part of them, since an attempt is
  counted within its bound and a loss is never negative.  `MarkerShape` is what each step
  of a marker has and has not done.
- Rows (`RowsHeldTogether`) are inductive once it is known whose turns a marker carries.
- Deletions (`DeletionsStand`, from `ThreadsInv`).  A deleted thread this process wrote stays
  deleted for one of two reasons (`ErasedBarred`): the writer knows it is dead, or wrote it and will hear of
  its deletion; or nobody speaks on it and nothing is on its way to it.  The first needs that
  what this process put on record is in `written` or in a marker about to say so
  (`OursWritten`); the second that a thread begins in one session only and can be resumed
  only while it is on record (`HoldersBegan`).  `MemoryBarred` is the same argument for what
  memory keeps, with the graves in place of the dead.
- Handles (`HandlesTold`, from `HandlesInv`).  A turn waits for its answer exactly as long as it
  is queued or in the marker (`CarriedWait`), is carried once (`TurnsOnce`) and is stored only
  where the marker has landed (`StoredTrue`).  A session's close is the last of it in the
  queue (`ClosedLast`), the sentinel the last of all (`StopLast`), so behind either there is
  nothing to answer.
- Losses (`LossesAccounted`, from `LossesInv`).  A thread a turn was lost of is owed its mark,
  has it, is dead, or was owed it by a process that died (`Owed`), and a marker about to answer `landed` owes none.  `Counts` says
  where a session's losses are counted: in the process (`_dropped`, `_lost`) until its close is
  written, in its row from then on, with its last batch between the two while the close is
  in hand.  It is an equation between sums, so each step is shown to move one amount from
  one of them to another.
- The allowance (`AllowanceKept`): what is queued and what is held are counted as
  finite sets, and each step adds, moves or takes as many as it says.

**`McpServers_proofs`.**  `ServersInv` adds to the two promises that a world's managers are
untouched before the apply that composed it reaches them (`Untouched`), that a run somebody
waits for or publishes has begun (`Followed`), and that what is among the abandoned is alive
(`LeftAlive`).  Neither promise is inductive alone: the managers an apply starts must be known
to have had no run before, or a start would make a second connection, and the run a
`stop` waits for must be one that has begun, or an answered `stop` would say nothing of it.

**`Renames_proofs`.**  A rename is heard of by the worlds, the writer and each session at
different times, and a name that was freed may have been taken by another agent meanwhile.
`IInv` says where each of them stands: the names a world speaks, led through the renames it
has not heard of, are the names its agents have as far as the ledger tells, and while a rename is under way
no agent has the name just left (`WorldsInv`); a session's translation in the writer leads there
too, or to the name just left while the writer has still to be told of the one rename under
way (`MovedInv`); and what is queued is by a name its session's world has, of a session that
is recorded (`QueueInv`).  The translation a session is given, the composition of all renames
it missed, is a recursive function of the ledger; three lemmas say what the proof needs of it
(`RenamesForTyped`, `RenamesForNone`, `RenamesForMore`: one rename further is that rename
composed onto what it was).  `FiledRight`, that what the writer makes of a name is its
agent's, then makes each step of `NamingRefined` one of `Naming` or none.

**`Captures_proofs`.**  `IInv` says where a recording can be: with the loop, in exactly one of
`recording`, `building`, `staged` and `incomplete`, of a session of this lifespan, and
nothing said of it (`LoopInv`); or in the queue or the hands of one worker, committed,
its session closed, its process this one, nothing said of it until the worker does
(`HandInv`); or with a sweep, of an earlier process, and removed only when called
abandoned (`SweepInv`).  That a worker left behind by its lifespan and the sweep of the next
never meet over a job is `born`: a sweep takes only what an earlier *process* left.
`LedgerRefined` maps each step to a step of `UploadLedger` or to none.  `TypeCorrect` needs that
the directory holds no recording twice, also behind a prune, whose removals are a recursive
function (`WithoutThese`), and that a recording in progress is in it.  `ClipsCounted` follows
the counts of a job through its turns: what has been counted is the clips of the turns
gone through and those of the turn at hand already filed, as a finite set that at
the report is all of them.

Two of these modules argue about what a recursive function computes.  The library's
induction takes the claim as an operator, which no installed prover instantiates; they use
instead `Inductive`, a set that has 0 and with each number the next is all naturals, proved
from the least element of its complement (`Least`, by the well-foundedness of `<`).  A claim
becomes the set of naturals it holds for.

**`SpeakingPass_proofs`.**  None of the three promises is inductive, because the history is
written at the end of a round, the record at the end of a leg and what was heard in
between by another task.  `PassInv` says that one sentence is spoken at a time and is
the one behind those heard (`OneBehindAnother`), so that what is heard is counted;
that the history of the leg at hand is what was heard up to `pass.kept` (`Kept`), which a
round or a boundary extends by the rest (`KeepRoundSaid`, `KeepSpeechSaid`); and that an
issued call is on one leg and with one round of it, or in the round in hand
(`CallsKept`).  The hard part is the last wait of a reply, which a second cancellation
may cut before the speech is kept: `ClipOverKept` says that a clip that is there behind
something heard was armed by a lookup whose answer took that speech into the history,
and rests on `Untaken`, that a voice takes the clip down with its first chunk.

Every safety property a passing run checks is stated by a theorem.  Model-checked only: the
liveness properties (`WaitsEnd`, `ReplyEnds`, `DecidedEnds`, `StagedEnds`, `StopsAndStartsEnd`), as
fairness and `ENABLED` are beyond the prover; and the four violated ones, which their runs
refute.

## Not modelled

- Inside modelled components: what a request carries of a history, prompts and the grants of
  tools; what a text frame selects while a session is served; the MCP half of an apply; the text, title and milestone columns of the
  record and its pagination; deleting an agent; the placement of samples in a WAV and the
  media API's requests.
- Planned: see below.
- Configuration documents, their validation, the HTTP API, the CLI and its printing:
  functions of one document and one request, with a transaction behind a writer lock.
- Events, telemetry folding, providers, fillers, databases and migrations, audio
  coding, the wire protocol, the simulator, the browser client and the knowledge
  search: declarations, clients of other services, and pure functions the repository tests
  on data.

## Plan

What is left, in this order:

1. `Threads`: moves and resumption over `SessionConversations`, reading what the
   writer has landed.
2. `TranscriptExport`, `Pairing`, `MemoryClose`, `Placement`.

Proofs to follow the modules: each new one's invariants, as here.

## Running

    tlc -config MCTurnTaking.cfg TurnTaking
    tlc -config MCSpeakingPass.cfg MCSpeakingPass
    tlc -config MCWorlds.cfg MCWorlds
    tlc -config MCSessions.cfg MCSessions
    tlc -config MCRecord.cfg MCRecord
    tlc -config MCRenames.cfg MCRenames
    tlc -config MCCaptures.cfg MCCaptures
    tlc -config MCMcpServers.cfg MCMcpServers
    tlapm TurnTaking_proofs.tla
    tlapm Worlds_proofs.tla
    tlapm Sessions_proofs.tla
    tlapm Record_proofs.tla
    tlapm Captures_proofs.tla
    tlapm SpeakingPass_proofs.tla
    tlapm Renames_proofs.tla
    tlapm McpServers_proofs.tla

Each `PROJECT.json` run names its module and configuration.  A run that expects a
violation prints the trace described above.  Every property of a passing run has a
mutant in the model's module, a plausible bug that breaks it under that run's own
configuration.
