------------------------------ MODULE Captures ------------------------------
(***************************************************************************)
(* A session is recorded (capture.py), and its recording put beside its      *)
(* trace when it is over (capture_upload.py). The recordings of a directory *)
(* share a budget, which the oldest pay for; so a finished one is linked     *)
(* aside in the callback that finishes it, and queued for a worker thread    *)
(* when its session closes. A worker may outlive the lifespan that started  *)
(* it, and a process may be killed at any step: the next one says what it    *)
(* finds aside and removes it.                                              *)
(*                                                                         *)
(* One step of the session loop runs to its end before the loop does        *)
(* anything else (`loop`); workers, and the end of the process, come between *)
(* any two steps. A recording is one unit of the budget.                    *)
(***************************************************************************)
EXTENDS Integers, Sequences, FiniteSets, SequencesExt, FiniteSetsExt

CONSTANTS
  Sessions, Nobody,
  Clips,      \* per session, the clips of each turn it recorded
  Budget,     \* recordings the directory may hold
  Backlog,    \* recordings that may wait for the worker
  Retries,    \* further attempts at a failing upload
  MaxLives,   \* bound: lifespans, of one process or of several
  MaxBroken   \* bound: recordings the filesystem fails

ASSUME CapturesConstants ==
  /\ Nobody \notin Sessions
  /\ Clips \in [Sessions -> Seq(Nat \ {0})]
  /\ Budget \in Nat /\ Backlog \in Nat \ {0} /\ Retries \in Nat
  /\ MaxLives \in Nat \ {0} /\ MaxBroken \in Nat

VARIABLES
  \* On the disk.
  captures,    \* the recordings in the directory, the last written last
  building,    \* jobs being linked
  kept,        \* jobs committed to the staging directory
  \* In the process.
  up,          \* whether there is one, and what it is doing
  life,        \* its lifespan
  born,        \* the first lifespan of this process (_PROCESS_STARTED)
  todo,        \* what the sweep of a boot has still to look at
  loop,        \* the session, or job, the loop is in the middle of
  home,        \* per session, the lifespan it is of, 0 for none yet
  session,     \* per session, how far it is
  recording,   \* CaptureStore._active
  staged,      \* CaptureUpload._staged
  incomplete,  \* CaptureUpload._incomplete
  queue,       \* per lifespan, CaptureUpload._queue
  worker,      \* per lifespan, its worker and the job it is at
  \* What has been seen of it.
  sent, outcome, abandoned, broken

disk == <<captures, building, kept>>
process == <<up, life, born, todo>>
hook == <<loop, home, session, recording, staged, incomplete>>
workers == <<queue, worker>>
seen == <<sent, outcome, abandoned, broken>>
vars == <<disk, process, hook, workers, seen>>

Lives == 1 .. MaxLives
NothingFiled == [attached |-> 0, unfiled |-> 0, failed |-> 0, skipped |-> 0]
Idle == [at |-> "idle", job |-> Nobody, tries |-> 0, turn |-> 0, clip |-> 0, landed |-> 0,
         filed |-> NothingFiled]
Unstarted == [Idle EXCEPT !.at = "none"]
Ended == [Idle EXCEPT !.at = "ended"]

Init ==
  /\ captures = <<>> /\ building = {} /\ kept = {}
  /\ up = "down" /\ life = 0 /\ born = 0 /\ todo = {} /\ loop = Nobody
  /\ home = [s \in Sessions |-> 0] /\ session = [s \in Sessions |-> "new"]
  /\ recording = {} /\ staged = {} /\ incomplete = {}
  /\ queue = [l \in Lives |-> <<>>] /\ worker = [l \in Lives |-> Unstarted]
  /\ sent = {} /\ abandoned = {} /\ broken = {}
  /\ outcome = [s \in Sessions |-> "none"]

Says(s, what) == outcome' = [outcome EXCEPT ![s] = what]

\* The filesystem fails an operation on this recording's files.
Breaks(s) ==
  /\ Cardinality(broken \cup {s}) <= MaxBroken
  /\ broken' = broken \cup {s}

-----------------------------------------------------------------------------
(* The directory.                                                           *)

\* The directory without some of its recordings, in its order.
Without(dir, gone) ==
  LET rest[n \in 0 .. Len(dir)] ==
        IF n = 0 THEN <<>>
        ELSE IF dir[n] \in gone THEN rest[n - 1]
        ELSE Append(rest[n - 1], dir[n])
  IN rest[Len(dir)]

\* `prune`: the oldest go until what is left is inside the budget, a linked
\* recording counted for as long as either name is there. Those being recorded
\* stay, and the last written.
Pruned(dir, active, aside) ==
  LET candidates == Without(dir, active \cup {Last(dir)})
      After(k) == Without(dir, ToSet(SubSeq(candidates, 1, k)))
      Fits(k) == Cardinality(ToSet(After(k)) \cup aside) <= Budget
      enough == {k \in 0 .. Len(candidates) : Fits(k)} \cup {Len(candidates)}
  IN After(Min(enough))

\* A write makes a recording the last written; within one tick of the
\* filesystem's clock another one may share that place.
Written(dir, s) ==
  LET others == Without(dir, {s})
  IN {Append(others, s)}
     \cup {Front(others) \o <<s, o>> : o \in {o \in recording : others # <<>> /\ Last(others) = o}}

-----------------------------------------------------------------------------
(* The session loop.                                                        *)

Running == up \in {"serving", "stopping"}
Free == Running /\ loop = Nobody
In(s) == Running /\ loop = s
Live(s) == session[s] = "open" /\ home[s] = life

\* The loop goes on: with the close it is in the middle of, if it is.
GoesOn(s) == loop' = IF session[s] = "closing" THEN s ELSE Nobody

\* `CaptureStore.open`, which prunes, and may find too little room all the same.
Opens(s) ==
  /\ up = "serving" /\ loop = Nobody /\ session[s] = "new"
  /\ session' = [session EXCEPT ![s] = "open"]
  /\ home' = [home EXCEPT ![s] = life]
  /\ LET dir == Pruned(captures, recording, kept)
     IN \/ captures' = dir /\ UNCHANGED recording
        \/ captures' \in Written(dir, s) /\ recording' = recording \cup {s}
  /\ UNCHANGED <<building, kept, process, loop, staged, incomplete, workers, seen>>

\* `_flush`, which matters here for when it was.
Records(s) ==
  /\ Free /\ Live(s) /\ s \in recording /\ Last(captures) # s
  /\ captures' = Append(Without(captures, {s}), s)
  /\ UNCHANGED <<building, kept, process, hook, workers, seen>>

\* The recording reaches its limit, or cannot be written; its session goes on.
EndsEarly(s) ==
  /\ Free /\ Live(s) /\ s \in recording
  /\ loop' = s
  /\ UNCHANGED <<disk, process, home, session, recording, staged, incomplete, workers, seen>>

\* `Recording.close`: the capture, and then its upload.
Closes(s) ==
  /\ Free /\ Live(s)
  /\ session' = [session EXCEPT ![s] = "closing"]
  /\ loop' = s
  /\ UNCHANGED <<disk, process, home, recording, staged, incomplete, workers, seen>>

\* Mutant of Links: the directory is pruned before the recording is linked.
LinksLate(s) ==
  /\ In(s) /\ s \in recording
  /\ recording' = recording \ {s}
  /\ \E dir \in Written(captures, s) : captures' = Pruned(dir, recording', kept)
  /\ IF s \in ToSet(captures')
       THEN building' = building \cup {s} /\ UNCHANGED <<loop, outcome>>
       ELSE Says(s, "lost") /\ GoesOn(s) /\ UNCHANGED building
  /\ UNCHANGED <<kept, process, home, session, staged, incomplete, workers, sent, abandoned,
                 broken>>

\* `SessionCapture.close`, with a recording that is whole, and `finished`: it may
\* be pruned now, and `stage` links it aside, under a name no one looks at.
Links(s) ==
  /\ In(s) /\ s \in recording
  /\ recording' = recording \ {s}
  /\ captures' \in Written(captures, s)
  /\ building' = building \cup {s}
  /\ UNCHANGED <<kept, process, loop, home, session, staged, incomplete, workers, seen>>

\* The rename that makes it a job, and the prune behind it.
Commits(s) ==
  /\ In(s) /\ s \in building
  /\ building' = building \ {s} /\ kept' = kept \cup {s}
  /\ staged' = staged \cup {s}
  /\ captures' = Pruned(captures, recording, kept')
  /\ GoesOn(s)
  /\ UNCHANGED <<process, home, session, recording, incomplete, workers, seen>>

\* An OSError on the way: said at once.
LinkFails(s) ==
  /\ In(s) /\ s \in building /\ Breaks(s)
  /\ building' = building \ {s}
  /\ Says(s, "lost")
  /\ captures' = Pruned(captures, recording, kept)
  /\ GoesOn(s)
  /\ UNCHANGED <<kept, process, home, session, recording, staged, incomplete, workers, sent,
                 abandoned>>

\* A recording whose manifest disowns it is not linked at all.
Disowned(s) ==
  /\ In(s) /\ s \in recording
  /\ recording' = recording \ {s}
  /\ incomplete' = incomplete \cup {s}
  /\ \E dir \in Written(captures, s) : captures' = Pruned(dir, recording', kept)
  /\ GoesOn(s)
  /\ UNCHANGED <<building, kept, process, home, session, staged, workers, seen>>

\* `session_closed`: the recording is done with, one way or another.
Closing(s) ==
  /\ In(s) /\ session[s] = "closing" /\ s \notin recording \cup building
  /\ session' = [session EXCEPT ![s] = "closed"]
  /\ loop' = Nobody
  /\ staged' = staged \ {s} /\ incomplete' = incomplete \ {s}
  /\ UNCHANGED <<captures, building, process, home, recording, sent, abandoned, broken>>

\* Nothing was put aside for it.
ClosesBare(s) ==
  /\ Closing(s) /\ s \notin staged \cup incomplete
  /\ UNCHANGED <<kept, workers, outcome>>

ClosesIncomplete(s) ==
  /\ Closing(s) /\ s \in incomplete
  /\ Says(s, "failed")
  /\ UNCHANGED <<kept, workers>>

Stopping(l) == l < life \/ up # "serving"

\* `_start`: at the first job, and never again.
Started ==
  worker' = [worker EXCEPT ![life] = IF @.at = "none" /\ ~Stopping(life) THEN Idle ELSE @]

\* Mutant of HandsOver: the backlog has no bound.
HandsOverUnbounded(s) ==
  /\ Closing(s) /\ s \in staged
  /\ Started
  /\ queue' = [queue EXCEPT ![life] = Append(@, s)]
  /\ UNCHANGED <<kept, outcome>>

HandsOver(s) ==
  /\ Closing(s) /\ s \in staged /\ Len(queue[life]) < Backlog
  /\ Started
  /\ queue' = [queue EXCEPT ![life] = Append(@, s)]
  /\ UNCHANGED <<kept, outcome>>

\* The links go in the same breath as the event.
TurnedAway(s) ==
  /\ Closing(s) /\ s \in staged /\ Len(queue[life]) >= Backlog
  /\ Started
  /\ kept' = kept \ {s}
  /\ Says(s, "failed")
  /\ UNCHANGED queue

-----------------------------------------------------------------------------
(* The worker (`_run`, `_attempt`, `_deliver`).                             *)

At(l, at) == worker[l].at = at
Becomes(l, w) == worker' = [worker EXCEPT ![l] = w]
Alone == UNCHANGED <<disk, process, hook>>

Takes(l) ==
  /\ At(l, "idle") /\ queue[l] # <<>>
  /\ Becomes(l, [Idle EXCEPT !.at = "pair", !.job = Head(queue[l])])
  /\ queue' = [queue EXCEPT ![l] = Tail(@)]
  /\ Alone /\ UNCHANGED seen

Stops(l) ==
  /\ At(l, "idle") /\ queue[l] = <<>> /\ Stopping(l)
  /\ Becomes(l, Ended)
  /\ Alone /\ UNCHANGED <<queue, seen>>

Turns(l) == Clips[worker[l].job]
InTurns(l) == worker[l].at \in {"clips", "skips"} /\ worker[l].turn <= Len(Turns(l))
ClipsOfTurn(l) == Turns(l)[worker[l].turn]
AtClip(l) == InTurns(l) /\ worker[l].clip \in 1 .. ClipsOfTurn(l)

\* `_retrying`: what fails in a way that may pass is tried again, so often.
TriesAgain(l) ==
  /\ At(l, "pair") \/ (At(l, "clips") /\ AtClip(l))
  /\ worker[l].tries < Retries
  /\ Becomes(l, [worker[l] EXCEPT !.tries = @ + 1])
  /\ Alone /\ UNCHANGED <<queue, seen>>

\* Mutant of Fails: a worker dies of a job.
FailsForGood(l) ==
  /\ worker[l].at \in {"pair", "landed", "clips", "skips"}
  /\ Becomes(l, Ended)
  /\ Alone /\ UNCHANGED <<queue, seen>>

\* No trace, too large, refused, out of reach, unreferenced; or an exception. A
\* job that is no longer there is lost.
Fails(l) ==
  /\ worker[l].at \in {"pair", "landed", "clips", "skips"}
  /\ Says(worker[l].job, IF worker[l].job \in kept THEN "failed" ELSE "lost")
  /\ Becomes(l, [Idle EXCEPT !.at = "said", !.job = worker[l].job])
  /\ Alone /\ UNCHANGED <<queue, sent, abandoned, broken>>

\* The audio and the manifest are with the backend,
Lands(l) ==
  /\ At(l, "pair") /\ worker[l].job \in kept
  /\ sent' = sent \cup {worker[l].job}
  /\ Becomes(l, [worker[l] EXCEPT !.at = "landed", !.tries = 0])
  /\ Alone /\ UNCHANGED <<queue, outcome, abandoned, broken>>

\* and the session's trace points at them.
Referenced(l) ==
  /\ At(l, "landed")
  /\ Becomes(l, [worker[l] EXCEPT !.at = "clips", !.turn = 1])
  /\ Alone /\ UNCHANGED <<queue, seen>>

Counted(w, what, n) == [w EXCEPT !.filed[what] = @ + n]
NextTurn(w) == [w EXCEPT !.turn = @ + 1, !.clip = 0, !.landed = 0]
NextClip(w) == [w EXCEPT !.clip = @ + 1, !.tries = 0]

\* A turn with a trace of its own, one without, one the backend is gone for.
BeginsTurn(l) ==
  /\ InTurns(l) /\ worker[l].clip = 0
  /\ \/ At(l, "clips") /\ Becomes(l, NextClip(worker[l]))
     \/ At(l, "clips") /\ Becomes(l, NextTurn(Counted(worker[l], "unfiled", ClipsOfTurn(l))))
     \/ At(l, "skips") /\ Becomes(l, NextTurn(Counted(worker[l], "skipped", ClipsOfTurn(l))))
  /\ Alone /\ UNCHANGED <<queue, seen>>

\* `_file_clip`: it lands, or fails, and with the last of its retries fails for
\* those behind it.
FilesClip(l) ==
  /\ AtClip(l)
  /\ \/ At(l, "clips") /\ Becomes(l, NextClip([worker[l] EXCEPT !.landed = @ + 1]))
     \/ At(l, "clips") /\ Becomes(l, NextClip(Counted(worker[l], "failed", 1)))
     \/ /\ At(l, "clips") /\ worker[l].tries = Retries
        /\ Becomes(l, [NextClip(Counted(worker[l], "failed", 1)) EXCEPT !.at = "skips"])
     \/ At(l, "skips") /\ Becomes(l, NextClip(Counted(worker[l], "skipped", 1)))
  /\ Alone /\ UNCHANGED <<queue, seen>>

\* Mutant of EndsTurn: what the reference fails is not counted.
EndsTurnUncounted(l) ==
  /\ InTurns(l) /\ worker[l].clip > ClipsOfTurn(l)
  /\ \/ Becomes(l, NextTurn(Counted(worker[l], "attached", worker[l].landed)))
     \/ Becomes(l, NextTurn(worker[l]))
  /\ Alone /\ UNCHANGED <<queue, seen>>

\* One reference for those of the turn that landed, and none where none did.
EndsTurn(l) ==
  /\ InTurns(l) /\ worker[l].clip > ClipsOfTurn(l)
  /\ \E filed \in {"attached", "failed"} :
       Becomes(l, NextTurn(Counted(worker[l], filed, worker[l].landed)))
  /\ Alone /\ UNCHANGED <<queue, seen>>

Uploads(l) ==
  /\ worker[l].at \in {"clips", "skips"} /\ worker[l].turn > Len(Turns(l))
  /\ Says(worker[l].job, "uploaded")
  /\ Becomes(l, [worker[l] EXCEPT !.at = "said"])
  /\ Alone /\ UNCHANGED <<queue, sent, abandoned, broken>>

\* Whatever was said, the links go, where they can be removed.
Removes(l) ==
  /\ At(l, "said")
  /\ \/ kept' = kept \ {worker[l].job} /\ UNCHANGED broken
     \/ Breaks(worker[l].job) /\ UNCHANGED kept
  /\ Becomes(l, Idle)
  /\ UNCHANGED <<captures, building, process, hook, queue, sent, outcome, abandoned>>

-----------------------------------------------------------------------------
(* Lifespans and processes.                                                 *)

\* A lifespan begins with a sweep, of what an earlier process left.
Boots ==
  /\ up \in {"down", "between"} /\ life < MaxLives
  /\ up' = "sweeping" /\ life' = life + 1
  /\ born' = IF up = "down" THEN life' ELSE born
  /\ todo' = {s \in kept \cup building : home[s] < born'}
  /\ UNCHANGED <<disk, hook, workers, seen>>

\* `sweep_upload_staging`: a job is said to be abandoned, what was never
\* committed is not,
Sweeps(s) ==
  /\ up = "sweeping" /\ loop = Nobody /\ s \in todo
  /\ todo' = todo \ {s} /\ loop' = s
  /\ abandoned' = abandoned \cup ({s} \cap kept)
  /\ UNCHANGED <<disk, up, life, born, home, session, recording, staged, incomplete, workers,
                 sent, outcome, broken>>

\* and then they go.
SweepsAway ==
  /\ up = "sweeping" /\ loop # Nobody
  /\ \/ kept' = kept \ {loop} /\ building' = building \ {loop} /\ UNCHANGED broken
     \/ Breaks(loop) /\ UNCHANGED <<kept, building>>
  /\ loop' = Nobody
  /\ UNCHANGED <<captures, process, home, session, recording, staged, incomplete, workers,
                 sent, outcome, abandoned>>

Serves ==
  /\ up = "sweeping" /\ todo = {} /\ loop = Nobody
  /\ up' = "serving"
  /\ UNCHANGED <<disk, life, born, todo, hook, workers, seen>>

\* `shutdown` asks the worker to stop,
Retires ==
  /\ up = "serving" /\ loop = Nobody
  /\ up' = "stopping"
  /\ UNCHANGED <<disk, life, born, todo, hook, workers, seen>>

\* and waits for it only so long.
Leaves ==
  /\ up = "stopping" /\ loop = Nobody
  /\ up' = "between"
  /\ recording' = {} /\ staged' = {} /\ incomplete' = {}
  /\ UNCHANGED <<disk, life, born, todo, loop, home, session, workers, seen>>

\* The process ends, or is ended: its threads are daemons.
Exits ==
  /\ up # "down"
  /\ up' = "down" /\ todo' = {} /\ loop' = Nobody
  /\ recording' = {} /\ staged' = {} /\ incomplete' = {}
  /\ queue' = [l \in Lives |-> <<>>] /\ worker' = [l \in Lives |-> Unstarted]
  /\ UNCHANGED <<disk, life, born, home, session, seen>>

-----------------------------------------------------------------------------
(* The specification.                                                       *)

Handler(s) ==
  \/ Links(s) \/ Commits(s) \/ LinkFails(s) \/ Disowned(s)
  \/ ClosesBare(s) \/ ClosesIncomplete(s) \/ HandsOver(s) \/ TurnedAway(s)

Works(l) ==
  \/ Takes(l) \/ Stops(l) \/ TriesAgain(l) \/ Fails(l) \/ Lands(l) \/ Referenced(l)
  \/ BeginsTurn(l) \/ FilesClip(l) \/ EndsTurn(l) \/ Uploads(l) \/ Removes(l)

Sweeping == SweepsAway \/ Serves \/ \E s \in Sessions : Sweeps(s)

Next ==
  \/ \E s \in Sessions : Opens(s) \/ Records(s) \/ EndsEarly(s) \/ Closes(s) \/ Handler(s)
  \/ \E l \in Lives : Works(l)
  \/ Boots \/ Sweeping \/ Retires \/ Leaves \/ Exits

Spec == Init /\ [][Next]_vars

\* What the loop and a thread are in the middle of they go on with, and a session
\* ends: its duration is capped. That a process ends, or another begins, nobody
\* says.
FairSpec ==
  /\ Spec
  /\ WF_vars(Sweeping)
  /\ \A s \in Sessions : WF_vars(Handler(s)) /\ WF_vars(Closes(s))
  /\ \A l \in Lives : WF_vars(Works(l))

-----------------------------------------------------------------------------
(* Properties.                                                              *)

\* The variables hold values of their types.
TypeOK ==
  /\ captures \in Seq(Sessions) /\ Cardinality(ToSet(captures)) = Len(captures)
  /\ building \subseteq Sessions /\ kept \subseteq Sessions
  /\ up \in {"down", "sweeping", "serving", "stopping", "between"}
  /\ life \in 0 .. MaxLives /\ born \in 0 .. life /\ todo \subseteq Sessions
  /\ loop \in Sessions \cup {Nobody}
  /\ home \in [Sessions -> 0 .. life]
  /\ session \in [Sessions -> {"new", "open", "closing", "closed"}]
  /\ recording \subseteq ToSet(captures)
  /\ staged \subseteq Sessions /\ incomplete \subseteq Sessions
  /\ \A l \in Lives :
       /\ Len(queue[l]) <= Backlog /\ queue[l] \in Seq(Sessions)
       /\ worker[l].at \in {"none", "idle", "pair", "landed", "clips", "skips", "said", "ended"}
       /\ worker[l].job \in Sessions \cup {Nobody} /\ worker[l].tries \in 0 .. Retries
  /\ sent \subseteq Sessions /\ abandoned \subseteq Sessions /\ broken \subseteq Sessions
  /\ outcome \in [Sessions -> {"none", "uploaded", "failed", "lost"}]

\* Every clip a job kept is in one count of its report and no other, whatever the
\* turns it is of, the retries it took and the references it got (`_file_turns`).
ClipsOf(s) == UNION {{t} \X (1 .. Clips[s][t]) : t \in DOMAIN Clips[s]}
Reported(w) == w.filed.attached + w.filed.unfiled + w.filed.failed + w.filed.skipped
ClipsAccounted ==
  \A l \in Lives :
    worker[l].at = "said" /\ outcome[worker[l].job] = "uploaded" =>
      Reported(worker[l]) = Cardinality(ClipsOf(worker[l].job))

\* A recording leaves once its session is over, what is put aside goes only when
\* it has been accounted for, and no budget loses one (capture_upload.py).
Opened == {s \in Sessions : home[s] # 0}
Over == {s \in Sessions : session[s] \in {"closing", "closed"}}
Left == {s \in Sessions : home[s] # 0 /\ (home[s] < born \/ up = "down")}
L == INSTANCE UploadLedger WITH opened <- Opened, ended <- Over, left <- Left
ImplementsLedger == L!Spec

\* A worker that has not ended still has it.
InHand(s) ==
  /\ worker[home[s]].at \notin {"none", "ended"}
  /\ s = worker[home[s]].job \/ s \in ToSet(queue[home[s]])

\* There is nobody whose it is: its process has gone, and no boot has come to it
\* yet, or its lifespan ends without a worker for it.
Deserted(s) ==
  IF s \in Left THEN up # "serving" ELSE Stopping(home[s]) /\ ~InHand(s)

\* What is put aside ends: with the worker, with one that is left behind too, or
\* with the boot after a process that left it (`_attempt`, `sweep_upload_staging`).
StagedEnds ==
  \A s \in Sessions :
    s \in kept \cup building ~>
      (s \notin kept \cup building \/ s \in broken \/ Deserted(s))
=============================================================================
