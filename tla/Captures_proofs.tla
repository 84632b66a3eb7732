-------------------------- MODULE Captures_proofs --------------------------
(***************************************************************************)
(* Proofs about Captures: the invariant of where a recording can be, that    *)
(* Captures implements UploadLedger, which rests on it, and from the same    *)
(* invariant what a directory holds, within which bounds a worker works, and *)
(* that the counts of an upload are those of its clips.                     *)
(***************************************************************************)
EXTENDS Captures, FiniteSetTheorems, SequenceTheorems, WellFoundedInduction, TLAPS

USE CapturesConstants

-----------------------------------------------------------------------------
(* The invariant.                                                          *)

Working == {"pair", "landed", "clips", "skips"}
WorkerStates == {"none", "idle", "said", "ended"} \cup Working
Counts == [attached : Nat, unfiled : Nat, failed : Nat, skipped : Nat]
Worker == [at : WorkerStates, job : Sessions \cup {Nobody}, tries : Nat, turn : Nat, clip : Nat,
           landed : Nat, filed : Counts]

\* The types of what the argument looks at.
LoopTypes ==
  /\ building \subseteq Sessions /\ kept \subseteq Sessions /\ recording \subseteq Sessions
  /\ staged \subseteq Sessions /\ incomplete \subseteq Sessions /\ todo \subseteq Sessions
  /\ sent \subseteq Sessions /\ abandoned \subseteq Sessions /\ broken \subseteq Sessions
  /\ up \in {"down", "sweeping", "serving", "stopping", "between"}
  /\ life \in 0 .. MaxLives /\ born \in 0 .. life
  /\ up # "down" => life \in Lives /\ born \in Lives
  /\ loop \in Sessions \cup {Nobody}
  /\ home \in [Sessions -> 0 .. life]
  /\ session \in [Sessions -> {"new", "open", "closing", "closed"}]
  /\ \A s \in Sessions :
       /\ session[s] = "new" <=> home[s] = 0
       /\ session[s] = "new" => outcome[s] = "none" /\ s \notin kept \cup building
  /\ outcome \in [Sessions -> {"none", "uploaded", "failed", "lost"}]
WorkTypes ==
  /\ queue \in [Lives -> Seq(Sessions)]
  /\ worker \in [Lives -> Worker]
  /\ \A l \in Lives : worker[l].at \in {"clips", "skips"} => worker[l].turn >= 1
Types == LoopTypes /\ WorkTypes

Quiet(s) == outcome[s] = "none"

\* Where a recording is before it is handed to a worker: in one place of the loop's,
\* of a session of this lifespan, and nothing has been said of it.
Here(s) == Running /\ home[s] = life /\ session[s] \in {"open", "closing"} /\ Quiet(s)
LoopInv ==
  /\ loop # Nobody => up \in {"sweeping", "serving", "stopping"}
  /\ Running /\ loop # Nobody => home[loop] = life /\ session[loop] \in {"open", "closing"}
  /\ \A s \in recording : Here(s) /\ s \notin kept
  /\ \A s \in staged : Here(s) /\ s \in kept
  /\ \A s \in incomplete : Here(s) /\ s \notin kept
  /\ recording \cap staged = {} /\ recording \cap incomplete = {} /\ staged \cap incomplete = {}
  /\ \A s \in building :
       Quiet(s) /\ s \notin kept \cup recording \cup staged \cup incomplete

\* A job a worker has is committed, of a session that is over, of this process; and
\* nothing has been said of it before the worker says it.
Handed(s, l) ==
  up # "down" /\ born <= l /\ home[s] = l /\ session[s] = "closed"
Waiting(l) ==
  /\ \A i \in DOMAIN queue[l] :
       Handed(queue[l][i], l) /\ queue[l][i] \in kept /\ Quiet(queue[l][i])
  /\ \A i, j \in DOMAIN queue[l] : queue[l][i] = queue[l][j] => i = j
Busy(l) ==
  /\ worker[l].at \in Working =>
       /\ Handed(worker[l].job, l) /\ worker[l].job \in kept /\ Quiet(worker[l].job)
       /\ worker[l].job \in Sessions
       /\ \A i \in DOMAIN queue[l] : queue[l][i] # worker[l].job
       /\ worker[l].at # "pair" => worker[l].job \in sent
  /\ worker[l].at = "said" =>
       Handed(worker[l].job, l) /\ worker[l].job \in Sessions /\ ~Quiet(worker[l].job)
HandInv == \A l \in Lives : Waiting(l) /\ Busy(l)

\* What a boot sweeps is an earlier process's.
SweepInv ==
  /\ \A s \in todo : up = "sweeping" /\ home[s] < born
  /\ up = "sweeping" /\ loop # Nobody =>
       home[loop] < born /\ (loop \in kept => loop \in abandoned)

IInv == Types /\ LoopInv /\ HandInv /\ SweepInv

-----------------------------------------------------------------------------
(* Types.                                                                  *)

\* The three ways a worker's counts move, and what they leave alone.
LEMMA CountedTyped ==
  ASSUME NEW w \in Worker, NEW what \in {"attached", "unfiled", "failed", "skipped"},
         NEW n \in Nat
  PROVE  /\ Counted(w, what, n) \in Worker
         /\ Counted(w, what, n).at = w.at /\ Counted(w, what, n).job = w.job
         /\ Counted(w, what, n).turn = w.turn
<1>1. w.filed \in Counts
  BY DEF Worker
<1>2. w.filed[what] + n \in Nat
  <2>1. CASE what = "attached"
    BY <1>1, <2>1 DEF Counts
  <2>2. CASE what = "unfiled"
    BY <1>1, <2>2 DEF Counts
  <2>3. CASE what = "failed"
    BY <1>1, <2>3 DEF Counts
  <2>4. CASE what = "skipped"
    BY <1>1, <2>4 DEF Counts
  <2> QED BY <2>1, <2>2, <2>3, <2>4
<1> DEFINE m == w.filed[what] + n
<1> HIDE DEF m
<1>3. [w.filed EXCEPT ![what] = m] \in Counts
  <2>1. m \in Nat
    BY <1>2 DEF m
  <2> QED BY <1>1, <2>1 DEF Counts
<1> DEFINE f == [w.filed EXCEPT ![what] = m]
<1> HIDE DEF f
<1>4. f \in Counts
  BY <1>3 DEF f
<1>5. Counted(w, what, n) = [w EXCEPT !.filed = f]
  BY DEF Counted, f, m, Worker
<1>6. [w EXCEPT !.filed = f] \in Worker
  BY <1>4 DEF Worker
<1> QED BY <1>5, <1>6 DEF Worker

LEMMA NextTurnTyped ==
  ASSUME NEW w \in Worker
  PROVE  /\ NextTurn(w) \in Worker
         /\ NextTurn(w).at = w.at /\ NextTurn(w).job = w.job
         /\ NextTurn(w).turn = w.turn + 1
<1> DEFINE n == w.turn + 1
<1>1. n \in Nat
  BY DEF Worker
<1> HIDE DEF n
<1>2. NextTurn(w) = [w EXCEPT !.turn = n, !.clip = 0, !.landed = 0]
  BY DEF NextTurn, n
<1>3. [w EXCEPT !.turn = n, !.clip = 0, !.landed = 0] \in Worker
  BY <1>1 DEF Worker
<1>4. NextTurn(w).turn = n
  BY <1>2 DEF Worker
<1>5. NextTurn(w).at = w.at /\ NextTurn(w).job = w.job
  BY <1>2 DEF Worker
<1> QED BY <1>2, <1>3, <1>4, <1>5 DEF n

LEMMA NextClipTyped ==
  ASSUME NEW w \in Worker
  PROVE  /\ NextClip(w) \in Worker
         /\ NextClip(w).at = w.at /\ NextClip(w).job = w.job
         /\ NextClip(w).turn = w.turn
<1> DEFINE n == w.clip + 1
<1>1. n \in Nat
  BY DEF Worker
<1> HIDE DEF n
<1>2. NextClip(w) = [w EXCEPT !.clip = n, !.tries = 0]
  BY DEF NextClip, n
<1>3. [w EXCEPT !.clip = n, !.tries = 0] \in Worker
  BY <1>1 DEF Worker
<1>4. NextClip(w).at = w.at /\ NextClip(w).job = w.job /\ NextClip(w).turn = w.turn
  BY <1>2 DEF Worker
<1> QED BY <1>2, <1>3, <1>4


\* A worker becomes what it is told to, and nobody else changes.
LEMMA BecomesTyped ==
  ASSUME WorkTypes, NEW l \in Lives, NEW w \in Worker, Becomes(l, w),
         w.at \in {"clips", "skips"} => w.turn >= 1
  PROVE  /\ worker' \in [Lives -> Worker] /\ worker'[l] = w
         /\ \A k \in Lives : k # l => worker'[k] = worker[k]
         /\ \A k \in Lives : worker'[k].at \in {"clips", "skips"} => worker'[k].turn >= 1
<1>1. /\ worker' \in [Lives -> Worker] /\ worker'[l] = w
      /\ \A k \in Lives : k # l => worker'[k] = worker[k]
  BY DEF Becomes, WorkTypes
<1> QED BY <1>1 DEF WorkTypes

\* What a worker is when it is at nothing.
LEMMA IdleTyped ==
  ASSUME NEW j \in Sessions, NEW at \in WorkerStates
  PROVE  /\ Idle \in Worker /\ Ended \in Worker /\ Unstarted \in Worker
         /\ [Idle EXCEPT !.at = at, !.job = j] \in Worker
BY DEF Idle, Ended, Unstarted, Worker, Counts, NothingFiled, WorkerStates, Working

\* A worker that is at a job has one.
LEMMA JobOf ==
  ASSUME Types, HandInv, NEW l \in Lives
  PROVE  /\ worker[l] \in Worker
         /\ worker[l].at \in {"clips", "skips"} => worker[l].turn >= 1
         /\ worker[l].at \in Working =>
              /\ worker[l].job \in Sessions /\ Quiet(worker[l].job) /\ worker[l].job \in kept
              /\ session[worker[l].job] = "closed" /\ session[worker[l].job] # "new"
BY DEF Types, WorkTypes, HandInv, Busy, Handed

\* A worker among the clips is at a turn of its job.
LEMMA InTurnsTyped ==
  ASSUME Types, NEW l \in Lives, InTurns(l), worker[l].job \in Sessions
  PROVE  worker[l] \in Worker /\ worker[l].turn >= 1 /\ ClipsOfTurn(l) \in Nat
<1>1. worker[l] \in Worker /\ worker[l].turn >= 1
  BY DEF InTurns, Types, WorkTypes
<1>2. Turns(l) \in Seq(Nat \ {0})
  BY DEF Turns
<1>3. worker[l].turn \in 1 .. Len(Turns(l))
  BY <1>1, <1>2 DEF InTurns, Worker
<1> QED BY <1>1, <1>2, <1>3 DEF ClipsOfTurn

\* Filing a clip, beginning a turn and ending one, each goes on with the job.
LEMMA FiledTyped ==
  ASSUME Types, HandInv, NEW l \in Lives, FilesClip(l)
  PROVE  \E w \in Worker : /\ Becomes(l, w) /\ w.job = worker[l].job
                            /\ w.turn >= 1
                            /\ w.at \in {"clips", "skips"}
<1>1. worker[l] \in Worker /\ worker[l].at \in {"clips", "skips"} /\ worker[l].turn >= 1
  BY JobOf DEF FilesClip, AtClip, InTurns
<1>2. CASE Becomes(l, NextClip([worker[l] EXCEPT !.landed = @ + 1]))
  <2> DEFINE n == worker[l].landed + 1
  <2>1. n \in Nat
    BY <1>1 DEF Worker
  <2>2. Becomes(l, NextClip([worker[l] EXCEPT !.landed = n]))
    BY <1>2
  <2> HIDE DEF n
  <2> DEFINE v == [worker[l] EXCEPT !.landed = n]
  <2>3. v \in Worker /\ v.at = worker[l].at /\ v.job = worker[l].job /\ v.turn = worker[l].turn
    BY <1>1, <2>1 DEF Worker
  <2> HIDE DEF v
  <2>4. NextClip(v) \in Worker /\ NextClip(v).at = worker[l].at
        /\ NextClip(v).job = worker[l].job /\ NextClip(v).turn = worker[l].turn
    BY <2>3, NextClipTyped
  <2>5. Becomes(l, NextClip(v))
    BY <2>2 DEF v
  <2> QED BY <1>1, <2>4, <2>5
<1>3. CASE Becomes(l, NextClip(Counted(worker[l], "failed", 1)))
  <2> DEFINE v == Counted(worker[l], "failed", 1)
  <2>1. v \in Worker /\ v.at = worker[l].at /\ v.job = worker[l].job /\ v.turn = worker[l].turn
    BY <1>1, CountedTyped, ZenonT(60)
  <2>2. Becomes(l, NextClip(v))
    BY <1>3
  <2> HIDE DEF v
  <2>3. NextClip(v) \in Worker /\ NextClip(v).at = worker[l].at
        /\ NextClip(v).job = worker[l].job /\ NextClip(v).turn = worker[l].turn
    BY <2>1, NextClipTyped
  <2> QED BY <1>1, <2>2, <2>3
<1>4. CASE Becomes(l, NextClip(Counted(worker[l], "skipped", 1)))
  <2> DEFINE v == Counted(worker[l], "skipped", 1)
  <2>1. v \in Worker /\ v.at = worker[l].at /\ v.job = worker[l].job /\ v.turn = worker[l].turn
    BY <1>1, CountedTyped, ZenonT(60)
  <2>2. Becomes(l, NextClip(v))
    BY <1>4
  <2> HIDE DEF v
  <2>3. NextClip(v) \in Worker /\ NextClip(v).at = worker[l].at
        /\ NextClip(v).job = worker[l].job /\ NextClip(v).turn = worker[l].turn
    BY <2>1, NextClipTyped
  <2> QED BY <1>1, <2>2, <2>3
<1>5. CASE Becomes(l, [NextClip(Counted(worker[l], "failed", 1)) EXCEPT !.at = "skips"])
  <2> DEFINE v == Counted(worker[l], "failed", 1)
             u == NextClip(v)
             w == [u EXCEPT !.at = "skips"]
  <2>1. v \in Worker /\ v.job = worker[l].job /\ v.turn = worker[l].turn
    BY <1>1, CountedTyped, ZenonT(60)
  <2>2. u \in Worker /\ u.job = worker[l].job /\ u.turn = worker[l].turn
    BY <2>1, NextClipTyped
  <2>3. Becomes(l, w)
    BY <1>5
  <2> HIDE DEF u
  <2>4. w \in Worker /\ w.job = worker[l].job /\ w.turn = worker[l].turn /\ w.at = "skips"
    BY <2>2 DEF Worker, WorkerStates, Working
  <2> HIDE DEF w
  <2> QED BY <1>1, <2>3, <2>4
<1> QED BY <1>2, <1>3, <1>4, <1>5 DEF FilesClip

LEMMA BegunTyped ==
  ASSUME Types, HandInv, NEW l \in Lives, BeginsTurn(l)
  PROVE  \E w \in Worker : /\ Becomes(l, w) /\ w.job = worker[l].job
                            /\ w.turn >= 1 /\ w.at \in {"clips", "skips"}
<1>1. /\ worker[l] \in Worker /\ worker[l].turn >= 1 /\ ClipsOfTurn(l) \in Nat
      /\ worker[l].at \in {"clips", "skips"}
  BY InTurnsTyped, JobOf DEF BeginsTurn, InTurns, Working, Worker
<1>2. CASE Becomes(l, NextTurn(Counted(worker[l], "unfiled", ClipsOfTurn(l))))
  <2> DEFINE v == Counted(worker[l], "unfiled", ClipsOfTurn(l))
  <2>1. v \in Worker /\ v.at = worker[l].at /\ v.job = worker[l].job /\ v.turn = worker[l].turn
    BY <1>1, CountedTyped, ZenonT(60)
  <2>2. Becomes(l, NextTurn(v))
    BY <1>2
  <2> HIDE DEF v
  <2>3. /\ NextTurn(v) \in Worker /\ NextTurn(v).at = worker[l].at
        /\ NextTurn(v).job = worker[l].job /\ NextTurn(v).turn = worker[l].turn + 1
    BY <2>1, NextTurnTyped
  <2>4. NextTurn(v).turn >= 1
    BY <1>1, <2>3 DEF Worker
  <2> QED BY <1>1, <2>2, <2>3, <2>4
<1>3. CASE Becomes(l, NextTurn(Counted(worker[l], "skipped", ClipsOfTurn(l))))
  <2> DEFINE v == Counted(worker[l], "skipped", ClipsOfTurn(l))
  <2>1. v \in Worker /\ v.at = worker[l].at /\ v.job = worker[l].job /\ v.turn = worker[l].turn
    BY <1>1, CountedTyped, ZenonT(60)
  <2>2. Becomes(l, NextTurn(v))
    BY <1>3
  <2> HIDE DEF v
  <2>3. /\ NextTurn(v) \in Worker /\ NextTurn(v).at = worker[l].at
        /\ NextTurn(v).job = worker[l].job /\ NextTurn(v).turn = worker[l].turn + 1
    BY <2>1, NextTurnTyped
  <2>4. NextTurn(v).turn >= 1
    BY <1>1, <2>3 DEF Worker
  <2> QED BY <1>1, <2>2, <2>3, <2>4
<1>4. CASE Becomes(l, NextClip(worker[l]))
  BY <1>1, <1>4, NextClipTyped
<1> QED BY <1>2, <1>3, <1>4 DEF BeginsTurn

LEMMA EndedTyped ==
  ASSUME Types, HandInv, NEW l \in Lives, EndsTurn(l)
  PROVE  \E w \in Worker : /\ Becomes(l, w) /\ w.job = worker[l].job
                            /\ w.turn >= 1 /\ w.at \in {"clips", "skips"}
<1>1. /\ worker[l] \in Worker /\ worker[l].turn >= 1 /\ worker[l].landed \in Nat
      /\ worker[l].at \in {"clips", "skips"}
  BY InTurnsTyped, JobOf DEF EndsTurn, InTurns, Working, Worker
<1>2. CASE Becomes(l, NextTurn(Counted(worker[l], "attached", worker[l].landed)))
  <2> DEFINE v == Counted(worker[l], "attached", worker[l].landed)
  <2>1. v \in Worker /\ v.at = worker[l].at /\ v.job = worker[l].job /\ v.turn = worker[l].turn
    BY <1>1, CountedTyped, ZenonT(60)
  <2>2. Becomes(l, NextTurn(v))
    BY <1>2
  <2> HIDE DEF v
  <2>3. /\ NextTurn(v) \in Worker /\ NextTurn(v).at = worker[l].at
        /\ NextTurn(v).job = worker[l].job /\ NextTurn(v).turn = worker[l].turn + 1
    BY <2>1, NextTurnTyped
  <2>4. NextTurn(v).turn >= 1
    BY <1>1, <2>3 DEF Worker
  <2> QED BY <1>1, <2>2, <2>3, <2>4
<1>3. CASE Becomes(l, NextTurn(Counted(worker[l], "failed", worker[l].landed)))
  <2> DEFINE v == Counted(worker[l], "failed", worker[l].landed)
  <2>1. v \in Worker /\ v.at = worker[l].at /\ v.job = worker[l].job /\ v.turn = worker[l].turn
    BY <1>1, CountedTyped, ZenonT(60)
  <2>2. Becomes(l, NextTurn(v))
    BY <1>3
  <2> HIDE DEF v
  <2>3. /\ NextTurn(v) \in Worker /\ NextTurn(v).at = worker[l].at
        /\ NextTurn(v).job = worker[l].job /\ NextTurn(v).turn = worker[l].turn + 1
    BY <2>1, NextTurnTyped
  <2>4. NextTurn(v).turn >= 1
    BY <1>1, <2>3 DEF Worker
  <2> QED BY <1>1, <2>2, <2>3, <2>4
<1> QED BY <1>2, <1>3 DEF EndsTurn

\* The types of the workers are kept,
LEMMA WorkersTyped ==
  ASSUME Types, HandInv, [Next]_vars
  PROVE  WorkTypes'
<1> USE DEF Types
<1>1. ASSUME NEW s \in Sessions, Opens(s)
      PROVE  WorkTypes'
  BY <1>1 DEF WorkTypes, Opens, disk, process, hook, workers, seen
<1>2. ASSUME NEW s \in Sessions, Records(s)
      PROVE  WorkTypes'
  BY <1>2 DEF WorkTypes, Records, Free, Live, disk, process, hook, workers, seen
<1>3. ASSUME NEW s \in Sessions, EndsEarly(s)
      PROVE  WorkTypes'
  BY <1>3 DEF WorkTypes, EndsEarly, Free, Live, disk, process, hook, workers, seen
<1>4. ASSUME NEW s \in Sessions, Closes(s)
      PROVE  WorkTypes'
  BY <1>4 DEF WorkTypes, Closes, Free, Live, disk, process, hook, workers, seen
<1>5. ASSUME NEW s \in Sessions, Links(s)
      PROVE  WorkTypes'
  BY <1>5 DEF WorkTypes, Links, In, disk, process, hook, workers, seen
<1>6. ASSUME NEW s \in Sessions, Commits(s)
      PROVE  WorkTypes'
  BY <1>6 DEF WorkTypes, Commits, In, GoesOn, disk, process, hook, workers, seen
<1>7. ASSUME NEW s \in Sessions, LinkFails(s)
      PROVE  WorkTypes'
  BY <1>7 DEF WorkTypes, LinkFails, In, GoesOn, Breaks, Says, disk, process, hook,
     workers, seen
<1>8. ASSUME NEW s \in Sessions, Disowned(s)
      PROVE  WorkTypes'
  BY <1>8 DEF WorkTypes, Disowned, In, GoesOn, disk, process, hook, workers, seen
<1>9. ASSUME NEW s \in Sessions, ClosesBare(s)
      PROVE  WorkTypes'
  BY <1>9 DEF WorkTypes, ClosesBare, Closing, In, disk, process, hook, workers, seen
<1>10. ASSUME NEW s \in Sessions, ClosesIncomplete(s)
      PROVE  WorkTypes'
  BY <1>10 DEF WorkTypes, ClosesIncomplete, Closing, In, Says, disk, process, hook,
     workers, seen
<1>11. ASSUME NEW s \in Sessions, HandsOver(s)
      PROVE  WorkTypes'
  <2>1. Idle \in Worker /\ Idle.at = "idle" /\ life \in Lives
    BY <1>11 DEF HandsOver, Closing, In, Running, LoopTypes, Idle, Worker, Counts, NothingFiled,
       WorkerStates, Working
  <2>2. PICK w : worker' = [worker EXCEPT ![life] = w] /\ w \in {Idle, worker[life]}
    BY <1>11 DEF HandsOver, Started
  <2>3. /\ worker' \in [Lives -> Worker]
        /\ \A k \in Lives : worker'[k].at \in {"clips", "skips"} => worker'[k].turn >= 1
    BY <2>1, <2>2 DEF WorkTypes
  <2> DEFINE q == Append(queue[life], s)
  <2>4. q \in Seq(Sessions)
    BY <2>1 DEF WorkTypes
  <2>5. queue' = [queue EXCEPT ![life] = q]
    BY <1>11 DEF HandsOver
  <2> HIDE DEF q
  <2> QED BY <2>3, <2>4, <2>5 DEF WorkTypes
<1>12. ASSUME NEW s \in Sessions, TurnedAway(s)
      PROVE  WorkTypes'
  <2>1. Idle \in Worker /\ Idle.at = "idle" /\ life \in Lives
    BY <1>12 DEF TurnedAway, Closing, In, Running, LoopTypes, Idle, Worker, Counts, NothingFiled,
       WorkerStates, Working
  <2>2. PICK w : worker' = [worker EXCEPT ![life] = w] /\ w \in {Idle, worker[life]}
    BY <1>12 DEF TurnedAway, Started
  <2>3. /\ worker' \in [Lives -> Worker]
        /\ \A k \in Lives : worker'[k].at \in {"clips", "skips"} => worker'[k].turn >= 1
    BY <2>1, <2>2 DEF WorkTypes
  <2> QED BY <1>12, <2>3 DEF TurnedAway, WorkTypes
<1>13. ASSUME NEW s \in Sessions, Sweeps(s)
      PROVE  WorkTypes'
  BY <1>13 DEF WorkTypes, Sweeps, disk, process, hook, workers, seen
<1>14. ASSUME NEW l \in Lives, Takes(l)
      PROVE  WorkTypes'
  <2>1. Head(queue[l]) \in Sessions /\ Tail(queue[l]) \in Seq(Sessions)
    BY <1>14 DEF Takes, WorkTypes
  <2>2. [Idle EXCEPT !.at = "pair", !.job = Head(queue[l])] \in Worker
    BY <2>1, IdleTyped DEF WorkerStates, Working
  <2>3. [Idle EXCEPT !.at = "pair", !.job = Head(queue[l])].at = "pair"
    BY DEF Idle
  <2> QED BY <1>14, <2>1, <2>2, <2>3, BecomesTyped DEF Takes, WorkTypes
<1>15. ASSUME NEW l \in Lives, Stops(l)
      PROVE  WorkTypes'
  <2>1. Ended \in Worker /\ Ended.at = "ended"
    BY IdleTyped DEF Ended, Idle, Worker, Counts, NothingFiled, WorkerStates, Working
  <2> QED BY <1>15, <2>1, BecomesTyped DEF Stops, WorkTypes
<1>16. ASSUME NEW l \in Lives, TriesAgain(l)
      PROVE  WorkTypes'
  <2> DEFINE n == worker[l].tries + 1
  <2>1. n \in Nat /\ worker[l] \in Worker
    BY DEF WorkTypes, Worker
  <2>2. Becomes(l, [worker[l] EXCEPT !.tries = n])
    BY <1>16 DEF TriesAgain
  <2> HIDE DEF n
  <2>3. /\ [worker[l] EXCEPT !.tries = n] \in Worker
        /\ [worker[l] EXCEPT !.tries = n].at = worker[l].at
        /\ [worker[l] EXCEPT !.tries = n].turn = worker[l].turn
    BY <2>1 DEF Worker
  <2> QED BY <1>16, <2>2, <2>3, BecomesTyped DEF TriesAgain, WorkTypes
<1>17. ASSUME NEW l \in Lives, Fails(l)
      PROVE  WorkTypes'
  <2>1. worker[l].job \in Sessions
    BY <1>17, JobOf DEF Fails, Working
  <2>2. [Idle EXCEPT !.at = "said", !.job = worker[l].job] \in Worker
    BY <2>1, IdleTyped DEF WorkerStates
  <2>3. [Idle EXCEPT !.at = "said", !.job = worker[l].job].at = "said"
    BY DEF Idle
  <2> QED BY <1>17, <2>2, <2>3, BecomesTyped DEF Fails, WorkTypes
<1>18. ASSUME NEW l \in Lives, Lands(l)
      PROVE  WorkTypes'
  <2>1. /\ [worker[l] EXCEPT !.at = "landed", !.tries = 0] \in Worker
        /\ [worker[l] EXCEPT !.at = "landed", !.tries = 0].at = "landed"
    BY JobOf DEF Worker, WorkerStates, Working
  <2> QED BY <1>18, <2>1, BecomesTyped DEF Lands, WorkTypes
<1>19. ASSUME NEW l \in Lives, Referenced(l)
      PROVE  WorkTypes'
  <2> DEFINE n == 1
             v == [worker[l] EXCEPT !.at = "clips", !.turn = n]
  <2>1. n \in Nat /\ n >= 1 /\ Becomes(l, v)
    BY <1>19 DEF Referenced
  <2> HIDE DEF n
  <2>2. v \in Worker /\ v.turn = n
    BY <2>1, JobOf DEF Worker, WorkerStates, Working
  <2> HIDE DEF v
  <2> QED BY <1>19, <2>1, <2>2, BecomesTyped DEF Referenced, WorkTypes
<1>20. ASSUME NEW l \in Lives, BeginsTurn(l)
      PROVE  WorkTypes'
  <2>1. PICK w \in Worker : Becomes(l, w) /\ w.turn >= 1
    BY <1>20, BegunTyped
  <2> QED BY <1>20, <2>1, BecomesTyped DEF BeginsTurn, WorkTypes
<1>21. ASSUME NEW l \in Lives, FilesClip(l)
      PROVE  WorkTypes'
  <2>1. PICK w \in Worker : Becomes(l, w) /\ w.turn >= 1
    BY <1>21, FiledTyped
  <2> QED BY <1>21, <2>1, BecomesTyped DEF FilesClip, WorkTypes
<1>22. ASSUME NEW l \in Lives, EndsTurn(l)
      PROVE  WorkTypes'
  <2>1. PICK w \in Worker : Becomes(l, w) /\ w.turn >= 1
    BY <1>22, EndedTyped
  <2> QED BY <1>22, <2>1, BecomesTyped DEF EndsTurn, WorkTypes
<1>23. ASSUME NEW l \in Lives, Uploads(l)
      PROVE  WorkTypes'
  <2>1. /\ [worker[l] EXCEPT !.at = "said"] \in Worker
        /\ [worker[l] EXCEPT !.at = "said"].at = "said"
    BY JobOf DEF Worker, WorkerStates
  <2> QED BY <1>23, <2>1, BecomesTyped DEF Uploads, WorkTypes
<1>24. ASSUME NEW l \in Lives, Removes(l)
      PROVE  WorkTypes'
  <2>1. Idle \in Worker /\ Idle.at = "idle"
    BY IdleTyped DEF Idle, Worker, Counts, NothingFiled, WorkerStates, Working
  <2> QED BY <1>24, <2>1, BecomesTyped DEF Removes, WorkTypes
<1>25. CASE Boots
  BY <1>25 DEF WorkTypes, Boots, disk, process, hook, workers, seen
<1>26. CASE SweepsAway
  BY <1>26 DEF WorkTypes, SweepsAway, Breaks, disk, process, hook, workers, seen
<1>27. CASE Serves
  BY <1>27 DEF WorkTypes, Serves, disk, process, hook, workers, seen
<1>28. CASE Retires
  BY <1>28 DEF WorkTypes, Retires, disk, process, hook, workers, seen
<1>29. CASE Leaves
  BY <1>29 DEF WorkTypes, Leaves, disk, process, hook, workers, seen
<1>30. CASE Exits
  <2>1. Unstarted \in Worker /\ Unstarted.at = "none"
    BY IdleTyped DEF Unstarted, Idle, Worker, Counts, NothingFiled, WorkerStates, Working
  <2> QED BY <1>30, <2>1 DEF Exits, WorkTypes
<1>31. CASE UNCHANGED vars
  BY <1>31 DEF WorkTypes, vars, workers
<1> QED BY <1>1, <1>2, <1>3, <1>4, <1>5, <1>6, <1>7, <1>8, <1>9, <1>10, <1>11, <1>12,
   <1>13, <1>14, <1>15, <1>16, <1>17, <1>18, <1>19, <1>20, <1>21, <1>22, <1>23, <1>24,
   <1>25, <1>26, <1>27, <1>28, <1>29, <1>30, <1>31 DEF Next, Handler, Works, Sweeping

\* and those of everything else.
LEMMA LoopTyped ==
  ASSUME Types, LoopInv, HandInv, SweepInv, [Next]_vars
  PROVE  LoopTypes'
<1> USE DEF Types
<1>1. ASSUME NEW s \in Sessions, Opens(s)
      PROVE  LoopTypes'
  BY <1>1 DEF LoopTypes, Running, Lives, Opens, disk, process, hook, workers, seen
<1>2. ASSUME NEW s \in Sessions, Records(s)
      PROVE  LoopTypes'
  BY <1>2 DEF LoopTypes, Running, Lives, Records, Free, Live, disk, process, hook,
     workers, seen
<1>3. ASSUME NEW s \in Sessions, EndsEarly(s)
      PROVE  LoopTypes'
  BY <1>3 DEF LoopTypes, Running, Lives, EndsEarly, Free, Live, disk, process, hook,
     workers, seen
<1>4. ASSUME NEW s \in Sessions, Closes(s)
      PROVE  LoopTypes'
  BY <1>4 DEF LoopTypes, Running, Lives, Closes, Free, Live, disk, process, hook,
     workers, seen
<1>5. ASSUME NEW s \in Sessions, Links(s)
      PROVE  LoopTypes'
  <2>1. session[s] # "new"
    BY <1>5 DEF Links, LoopInv, Here
  <2> QED BY <1>5, <2>1 DEF Links, LoopTypes, process, workers, seen
<1>6. ASSUME NEW s \in Sessions, Commits(s)
      PROVE  LoopTypes'
  BY <1>6 DEF LoopTypes, Running, Lives, Commits, In, GoesOn, disk, process, hook,
     workers, seen
<1>7. ASSUME NEW s \in Sessions, LinkFails(s)
      PROVE  LoopTypes'
  BY <1>7 DEF LoopTypes, Running, Lives, LinkFails, In, GoesOn, Breaks, Says, disk,
     process, hook, workers, seen
<1>8. ASSUME NEW s \in Sessions, Disowned(s)
      PROVE  LoopTypes'
  BY <1>8 DEF LoopTypes, Running, Lives, Disowned, In, GoesOn, disk, process, hook,
     workers, seen
<1>9. ASSUME NEW s \in Sessions, ClosesBare(s)
      PROVE  LoopTypes'
  BY <1>9 DEF LoopTypes, Running, Lives, ClosesBare, Closing, In, disk, process, hook,
     workers, seen
<1>10. ASSUME NEW s \in Sessions, ClosesIncomplete(s)
      PROVE  LoopTypes'
  BY <1>10 DEF LoopTypes, Running, Lives, ClosesIncomplete, Closing, In, Says, disk,
     process, hook, workers, seen
<1>11. ASSUME NEW s \in Sessions, HandsOver(s)
      PROVE  LoopTypes'
  BY <1>11 DEF LoopTypes, Running, Lives, HandsOver, Closing, In, Started, Stopping,
     Idle, disk, process, hook, workers, seen
<1>12. ASSUME NEW s \in Sessions, TurnedAway(s)
      PROVE  LoopTypes'
  BY <1>12 DEF LoopTypes, Running, Lives, TurnedAway, Closing, In, Started, Stopping,
     Idle, Says, disk, process, hook, workers, seen
<1>13. ASSUME NEW s \in Sessions, Sweeps(s)
      PROVE  LoopTypes'
  BY <1>13 DEF LoopTypes, Running, Lives, Sweeps, disk, process, hook, workers, seen
<1>14. ASSUME NEW l \in Lives, Takes(l)
      PROVE  LoopTypes'
  BY <1>14 DEF LoopTypes, Running, Lives, Takes, At, Becomes, Alone, Idle, disk,
     process, hook, workers, seen
<1>15. ASSUME NEW l \in Lives, Stops(l)
      PROVE  LoopTypes'
  BY <1>15 DEF LoopTypes, Running, Lives, Stops, At, Becomes, Alone, Ended, Idle,
     Stopping, disk, process, hook, workers, seen
<1>16. ASSUME NEW l \in Lives, TriesAgain(l)
      PROVE  LoopTypes'
  BY <1>16 DEF LoopTypes, Running, Lives, TriesAgain, At, Becomes, Alone, disk, process,
     hook, workers, seen
<1>17. ASSUME NEW l \in Lives, Fails(l)
      PROVE  LoopTypes'
  <2>1. worker[l].job \in Sessions /\ session[worker[l].job] # "new"
    BY <1>17, JobOf DEF Fails, Working
  <2> QED BY <1>17, <2>1 DEF Fails, LoopTypes, Says, Alone, disk, process, hook
<1>18. ASSUME NEW l \in Lives, Lands(l)
      PROVE  LoopTypes'
  BY <1>18 DEF LoopTypes, Running, Lives, Lands, At, Becomes, Alone, disk, process,
     hook, workers, seen
<1>19. ASSUME NEW l \in Lives, Referenced(l)
      PROVE  LoopTypes'
  BY <1>19 DEF LoopTypes, Running, Lives, Referenced, At, Becomes, Alone, disk, process,
     hook, workers, seen
<1>20. ASSUME NEW l \in Lives, BeginsTurn(l)
      PROVE  LoopTypes'
  BY <1>20 DEF LoopTypes, Running, Lives, BeginsTurn, At, Becomes, Alone, disk, process,
     hook, workers, seen
<1>21. ASSUME NEW l \in Lives, FilesClip(l)
      PROVE  LoopTypes'
  BY <1>21 DEF LoopTypes, Running, Lives, FilesClip, At, Becomes, Alone, disk, process,
     hook, workers, seen
<1>22. ASSUME NEW l \in Lives, EndsTurn(l)
      PROVE  LoopTypes'
  BY <1>22 DEF LoopTypes, Running, Lives, EndsTurn, At, Becomes, Alone, disk, process,
     hook, workers, seen
<1>23. ASSUME NEW l \in Lives, Uploads(l)
      PROVE  LoopTypes'
  <2>1. worker[l].job \in Sessions /\ session[worker[l].job] # "new"
    BY <1>23, JobOf DEF Uploads, Working
  <2> QED BY <1>23, <2>1 DEF Uploads, LoopTypes, Says, Alone, disk, process, hook
<1>24. ASSUME NEW l \in Lives, Removes(l)
      PROVE  LoopTypes'
  <2>1. kept' \subseteq kept /\ broken' \subseteq Sessions
    BY <1>24 DEF Removes, HandInv, Busy, At, Breaks, LoopTypes
  <2> QED BY <1>24, <2>1 DEF Removes, LoopTypes, process, hook
<1>25. CASE Boots
  BY <1>25 DEF LoopTypes, Running, Lives, Boots, disk, process, hook, workers, seen
<1>26. CASE SweepsAway
  BY <1>26 DEF LoopTypes, Running, Lives, SweepsAway, Breaks, disk, process, hook,
     workers, seen
<1>27. CASE Serves
  BY <1>27 DEF LoopTypes, Running, Lives, Serves, disk, process, hook, workers, seen
<1>28. CASE Retires
  BY <1>28 DEF LoopTypes, Running, Lives, Retires, disk, process, hook, workers, seen
<1>29. CASE Leaves
  BY <1>29 DEF LoopTypes, Running, Lives, Leaves, disk, process, hook, workers, seen
<1>30. CASE Exits
  BY <1>30 DEF LoopTypes, Running, Lives, Exits, Unstarted, Idle, disk, process, hook,
     workers, seen
<1>31. CASE UNCHANGED vars
  BY <1>31 DEF LoopTypes, vars, disk, process, hook, seen
<1> QED BY <1>1, <1>2, <1>3, <1>4, <1>5, <1>6, <1>7, <1>8, <1>9, <1>10, <1>11, <1>12,
   <1>13, <1>14, <1>15, <1>16, <1>17, <1>18, <1>19, <1>20, <1>21, <1>22, <1>23, <1>24,
   <1>25, <1>26, <1>27, <1>28, <1>29, <1>30, <1>31 DEF Next, Handler, Works, Sweeping

-----------------------------------------------------------------------------
(* Where a recording is.                                                   *)

LEMMA LoopStep ==
  ASSUME Types, LoopInv, HandInv, SweepInv, [Next]_vars
  PROVE  LoopInv'
<1> USE DEF Types, LoopTypes
<1>1. ASSUME NEW s \in Sessions, Opens(s)
      PROVE  LoopInv'
  BY <1>1 DEF LoopInv, Here, Running, Quiet, Opens, disk, process, hook, workers, seen
<1>2. ASSUME NEW s \in Sessions, Records(s)
      PROVE  LoopInv'
  BY <1>2 DEF LoopInv, Here, Running, Quiet, Records, Free, Live, disk, process, hook,
     workers, seen
<1>3. ASSUME NEW s \in Sessions, EndsEarly(s)
      PROVE  LoopInv'
  BY <1>3 DEF LoopInv, Here, Running, Quiet, EndsEarly, Free, Live, disk, process, hook,
     workers, seen
<1>4. ASSUME NEW s \in Sessions, Closes(s)
      PROVE  LoopInv'
  BY <1>4 DEF LoopInv, Here, Running, Quiet, Closes, Free, Live, disk, process, hook,
     workers, seen
<1>5. ASSUME NEW s \in Sessions, Links(s)
      PROVE  LoopInv'
  BY <1>5 DEF LoopInv, Here, Running, Quiet, Links, In, disk, process, hook, workers,
     seen
<1>6. ASSUME NEW s \in Sessions, Commits(s)
      PROVE  LoopInv'
  BY <1>6 DEF LoopInv, Here, Running, Quiet, Commits, In, GoesOn, disk, process, hook,
     workers, seen
<1>7. ASSUME NEW s \in Sessions, LinkFails(s)
      PROVE  LoopInv'
  BY <1>7 DEF LoopInv, Here, Running, Quiet, LinkFails, In, GoesOn, Breaks, Says, disk,
     process, hook, workers, seen
<1>8. ASSUME NEW s \in Sessions, Disowned(s)
      PROVE  LoopInv'
  BY <1>8 DEF LoopInv, Here, Running, Quiet, Disowned, In, GoesOn, disk, process, hook,
     workers, seen
<1>9. ASSUME NEW s \in Sessions, ClosesBare(s)
      PROVE  LoopInv'
  BY <1>9 DEF LoopInv, Here, Running, Quiet, ClosesBare, Closing, In, disk, process,
     hook, workers, seen
<1>10. ASSUME NEW s \in Sessions, ClosesIncomplete(s)
      PROVE  LoopInv'
  BY <1>10 DEF LoopInv, Here, Running, Quiet, ClosesIncomplete, Closing, In, Says, disk,
     process, hook, workers, seen
<1>11. ASSUME NEW s \in Sessions, HandsOver(s)
      PROVE  LoopInv'
  BY <1>11 DEF LoopInv, Here, Running, Quiet, HandsOver, Closing, In, Started, Stopping,
     Idle, disk, process, hook, workers, seen
<1>12. ASSUME NEW s \in Sessions, TurnedAway(s)
      PROVE  LoopInv'
  BY <1>12 DEF LoopInv, Here, Running, Quiet, TurnedAway, Closing, In, Started,
     Stopping, Idle, Says, disk, process, hook, workers, seen
<1>13. ASSUME NEW s \in Sessions, Sweeps(s)
      PROVE  LoopInv'
  BY <1>13 DEF LoopInv, Here, Running, Quiet, Sweeps, disk, process, hook, workers, seen
<1>14. ASSUME NEW l \in Lives, Takes(l)
      PROVE  LoopInv'
  BY <1>14 DEF LoopInv, Here, Running, Quiet, Takes, At, Becomes, Alone, Idle, disk,
     process, hook, workers, seen
<1>15. ASSUME NEW l \in Lives, Stops(l)
      PROVE  LoopInv'
  BY <1>15 DEF LoopInv, Here, Running, Quiet, Stops, At, Becomes, Alone, Ended, Idle,
     Stopping, disk, process, hook, workers, seen
<1>16. ASSUME NEW l \in Lives, TriesAgain(l)
      PROVE  LoopInv'
  BY <1>16 DEF LoopInv, Here, Running, Quiet, TriesAgain, At, Becomes, Alone, disk,
     process, hook, workers, seen
<1>17. ASSUME NEW l \in Lives, Fails(l)
      PROVE  LoopInv'
  <2>1. /\ worker[l].job \in Sessions /\ session[worker[l].job] = "closed"
        /\ worker[l].job \in kept
    BY <1>17, JobOf DEF Fails, Working
  <2> QED BY SMTT(30), <1>17, <2>1 DEF Fails, LoopInv, Here, Running, Quiet, LoopTypes, Says, Alone, disk,
       process, hook
<1>18. ASSUME NEW l \in Lives, Lands(l)
      PROVE  LoopInv'
  BY <1>18 DEF LoopInv, Here, Running, Quiet, Lands, At, Becomes, Alone, disk, process,
     hook, workers, seen
<1>19. ASSUME NEW l \in Lives, Referenced(l)
      PROVE  LoopInv'
  BY <1>19 DEF LoopInv, Here, Running, Quiet, Referenced, At, Becomes, Alone, disk,
     process, hook, workers, seen
<1>20. ASSUME NEW l \in Lives, BeginsTurn(l)
      PROVE  LoopInv'
  BY <1>20 DEF LoopInv, Here, Running, Quiet, BeginsTurn, At, Becomes, Alone, disk,
     process, hook, workers, seen
<1>21. ASSUME NEW l \in Lives, FilesClip(l)
      PROVE  LoopInv'
  BY <1>21 DEF LoopInv, Here, Running, Quiet, FilesClip, At, Becomes, Alone, disk,
     process, hook, workers, seen
<1>22. ASSUME NEW l \in Lives, EndsTurn(l)
      PROVE  LoopInv'
  BY <1>22 DEF LoopInv, Here, Running, Quiet, EndsTurn, At, Becomes, Alone, disk,
     process, hook, workers, seen
<1>23. ASSUME NEW l \in Lives, Uploads(l)
      PROVE  LoopInv'
  <2>1. /\ worker[l].job \in Sessions /\ session[worker[l].job] = "closed"
        /\ worker[l].job \in kept
    BY <1>23, JobOf DEF Uploads, Working
  <2> QED BY SMTT(30), <1>23, <2>1 DEF Uploads, LoopInv, Here, Running, Quiet, LoopTypes, Says, Alone, disk,
       process, hook
<1>24. ASSUME NEW l \in Lives, Removes(l)
      PROVE  LoopInv'
  <2>1. session[worker[l].job] = "closed" /\ ~Quiet(worker[l].job)
    BY <1>24 DEF Removes, At, HandInv, Busy, Handed
  <2> QED BY <1>24, <2>1 DEF Removes, LoopInv, Here, Running, Quiet, process, hook
<1>25. CASE Boots
  BY <1>25 DEF LoopInv, Here, Running, Quiet, Boots, disk, process, hook, workers, seen
<1>26. CASE SweepsAway
  BY <1>26 DEF LoopInv, Here, Running, Quiet, SweepsAway, Breaks, disk, process, hook,
     workers, seen
<1>27. CASE Serves
  BY <1>27 DEF LoopInv, Here, Running, Quiet, Serves, disk, process, hook, workers, seen
<1>28. CASE Retires
  BY <1>28 DEF LoopInv, Here, Running, Quiet, Retires, disk, process, hook, workers,
     seen
<1>29. CASE Leaves
  BY <1>29 DEF LoopInv, Here, Running, Quiet, Leaves, disk, process, hook, workers, seen
<1>30. CASE Exits
  BY <1>30 DEF LoopInv, Here, Running, Quiet, Exits, Unstarted, Idle, disk, process,
     hook, workers, seen
<1>31. CASE UNCHANGED vars
  BY <1>31 DEF LoopInv, Here, Running, Quiet, vars, disk, process, hook, seen
<1> QED BY <1>1, <1>2, <1>3, <1>4, <1>5, <1>6, <1>7, <1>8, <1>9, <1>10, <1>11, <1>12,
   <1>13, <1>14, <1>15, <1>16, <1>17, <1>18, <1>19, <1>20, <1>21, <1>22, <1>23, <1>24,
   <1>25, <1>26, <1>27, <1>28, <1>29, <1>30, <1>31 DEF Next, Handler, Works, Sweeping

\* What a boot sweeps is an earlier process's, and goes once it has been said.
LEMMA SweepStep ==
  ASSUME Types, LoopInv, HandInv, SweepInv, [Next]_vars
  PROVE  SweepInv'
<1> USE DEF Types, LoopTypes, Running, HandInv, Busy, Handed
<1>1. ASSUME NEW s \in Sessions, Opens(s)
      PROVE  SweepInv'
  BY <1>1 DEF SweepInv, LoopInv, Opens, disk, process, hook, workers, seen
<1>2. ASSUME NEW s \in Sessions, Records(s)
      PROVE  SweepInv'
  BY <1>2 DEF SweepInv, LoopInv, Records, Free, Live, disk, process, hook, workers, seen
<1>3. ASSUME NEW s \in Sessions, EndsEarly(s)
      PROVE  SweepInv'
  BY <1>3 DEF SweepInv, LoopInv, EndsEarly, Free, Live, disk, process, hook, workers,
     seen
<1>4. ASSUME NEW s \in Sessions, Closes(s)
      PROVE  SweepInv'
  BY <1>4 DEF SweepInv, LoopInv, Closes, Free, Live, disk, process, hook, workers, seen
<1>5. ASSUME NEW s \in Sessions, Links(s)
      PROVE  SweepInv'
  BY <1>5 DEF SweepInv, LoopInv, Links, In, disk, process, hook, workers, seen
<1>6. ASSUME NEW s \in Sessions, Commits(s)
      PROVE  SweepInv'
  BY <1>6 DEF SweepInv, LoopInv, Commits, In, GoesOn, disk, process, hook, workers, seen
<1>7. ASSUME NEW s \in Sessions, LinkFails(s)
      PROVE  SweepInv'
  BY <1>7 DEF SweepInv, LoopInv, LinkFails, In, GoesOn, Breaks, Says, disk, process,
     hook, workers, seen
<1>8. ASSUME NEW s \in Sessions, Disowned(s)
      PROVE  SweepInv'
  BY <1>8 DEF SweepInv, LoopInv, Disowned, In, GoesOn, disk, process, hook, workers,
     seen
<1>9. ASSUME NEW s \in Sessions, ClosesBare(s)
      PROVE  SweepInv'
  BY <1>9 DEF SweepInv, LoopInv, ClosesBare, Closing, In, disk, process, hook, workers,
     seen
<1>10. ASSUME NEW s \in Sessions, ClosesIncomplete(s)
      PROVE  SweepInv'
  BY <1>10 DEF SweepInv, LoopInv, ClosesIncomplete, Closing, In, Says, disk, process,
     hook, workers, seen
<1>11. ASSUME NEW s \in Sessions, HandsOver(s)
      PROVE  SweepInv'
  BY <1>11 DEF SweepInv, LoopInv, HandsOver, Closing, In, Started, Stopping, Idle, disk,
     process, hook, workers, seen
<1>12. ASSUME NEW s \in Sessions, TurnedAway(s)
      PROVE  SweepInv'
  BY <1>12 DEF SweepInv, LoopInv, TurnedAway, Closing, In, Started, Stopping, Idle,
     Says, disk, process, hook, workers, seen
<1>13. ASSUME NEW s \in Sessions, Sweeps(s)
      PROVE  SweepInv'
  BY <1>13 DEF SweepInv, LoopInv, Sweeps, disk, process, hook, workers, seen
<1>14. ASSUME NEW l \in Lives, Takes(l)
      PROVE  SweepInv'
  BY <1>14 DEF SweepInv, LoopInv, Takes, At, Becomes, Alone, Idle, disk, process, hook,
     workers, seen
<1>15. ASSUME NEW l \in Lives, Stops(l)
      PROVE  SweepInv'
  BY <1>15 DEF SweepInv, LoopInv, Stops, At, Becomes, Alone, Ended, Idle, Stopping,
     disk, process, hook, workers, seen
<1>16. ASSUME NEW l \in Lives, TriesAgain(l)
      PROVE  SweepInv'
  BY <1>16 DEF SweepInv, LoopInv, TriesAgain, At, Becomes, Alone, disk, process, hook,
     workers, seen
<1>17. ASSUME NEW l \in Lives, Fails(l)
      PROVE  SweepInv'
  BY <1>17 DEF SweepInv, LoopInv, Fails, Says, At, Becomes, Alone, Idle, disk, process,
     hook, workers, seen
<1>18. ASSUME NEW l \in Lives, Lands(l)
      PROVE  SweepInv'
  BY <1>18 DEF SweepInv, LoopInv, Lands, At, Becomes, Alone, disk, process, hook,
     workers, seen
<1>19. ASSUME NEW l \in Lives, Referenced(l)
      PROVE  SweepInv'
  BY <1>19 DEF SweepInv, LoopInv, Referenced, At, Becomes, Alone, disk, process, hook,
     workers, seen
<1>20. ASSUME NEW l \in Lives, BeginsTurn(l)
      PROVE  SweepInv'
  BY <1>20 DEF SweepInv, LoopInv, BeginsTurn, At, Becomes, Alone, disk, process, hook,
     workers, seen
<1>21. ASSUME NEW l \in Lives, FilesClip(l)
      PROVE  SweepInv'
  BY <1>21 DEF SweepInv, LoopInv, FilesClip, At, Becomes, Alone, disk, process, hook,
     workers, seen
<1>22. ASSUME NEW l \in Lives, EndsTurn(l)
      PROVE  SweepInv'
  BY <1>22 DEF SweepInv, LoopInv, EndsTurn, At, Becomes, Alone, disk, process, hook,
     workers, seen
<1>23. ASSUME NEW l \in Lives, Uploads(l)
      PROVE  SweepInv'
  BY <1>23 DEF SweepInv, LoopInv, Uploads, Says, At, Becomes, Alone, disk, process,
     hook, workers, seen
<1>24. ASSUME NEW l \in Lives, Removes(l)
      PROVE  SweepInv'
  BY <1>24 DEF SweepInv, LoopInv, Removes, Breaks, At, Becomes, Idle, disk, process,
     hook, workers, seen
<1>25. CASE Boots
  BY <1>25 DEF SweepInv, LoopInv, Boots, disk, process, hook, workers, seen
<1>26. CASE SweepsAway
  BY <1>26 DEF SweepInv, LoopInv, SweepsAway, Breaks, disk, process, hook, workers, seen
<1>27. CASE Serves
  BY <1>27 DEF SweepInv, LoopInv, Serves, disk, process, hook, workers, seen
<1>28. CASE Retires
  BY <1>28 DEF SweepInv, LoopInv, Retires, disk, process, hook, workers, seen
<1>29. CASE Leaves
  BY <1>29 DEF SweepInv, LoopInv, Leaves, disk, process, hook, workers, seen
<1>30. CASE Exits
  BY <1>30 DEF SweepInv, LoopInv, Exits, Unstarted, Idle, disk, process, hook, workers,
     seen
<1>31. CASE UNCHANGED vars
  BY <1>31 DEF SweepInv, vars, disk, process, hook, seen
<1> QED BY <1>1, <1>2, <1>3, <1>4, <1>5, <1>6, <1>7, <1>8, <1>9, <1>10, <1>11, <1>12,
   <1>13, <1>14, <1>15, <1>16, <1>17, <1>18, <1>19, <1>20, <1>21, <1>22, <1>23, <1>24,
   <1>25, <1>26, <1>27, <1>28, <1>29, <1>30, <1>31 DEF Next, Handler, Works, Sweeping

\* A worker that goes on with its job.
LEMMA SameJob ==
  ASSUME Types, HandInv, NEW l \in Lives, NEW w \in Worker, Becomes(l, w),
         w.job = worker[l].job, worker[l].at \in Working, w.at \in Working,
         w.at # "pair" => worker[l].job \in sent',
         sent \subseteq sent', UNCHANGED <<up, born, home, session, kept, outcome, queue>>
  PROVE  HandInv'
<1>1. /\ worker'[l] = w
      /\ \A k \in Lives : k # l => worker'[k] = worker[k]
  BY DEF Becomes, Types, WorkTypes
<1>2. ASSUME NEW k \in Lives
      PROVE  Waiting(k)' /\ Busy(k)'
  <2>1. Waiting(k) /\ Busy(k)
    BY DEF HandInv
  <2>2. Waiting(k)'
    BY <2>1 DEF Waiting, Handed, Quiet
  <2>3. CASE k = l
    BY <1>1, <2>1, <2>2, <2>3 DEF Busy, Handed, Quiet, Working
  <2>4. CASE k # l
    BY <1>1, <2>1, <2>2, <2>4 DEF Busy, Handed, Quiet
  <2> QED BY <2>2, <2>3, <2>4
<1> QED BY <1>2 DEF HandInv

\* Nothing anybody has in hand changes.
LEMMA SameJobs ==
  ASSUME HandInv, sent \subseteq sent', UNCHANGED <<queue, worker>>,
         \A s \in Sessions :
           \A l \in Lives : Handed(s, l) =>
             /\ Handed(s, l)' /\ outcome'[s] = outcome[s]
             /\ s \in kept /\ Quiet(s) => s \in kept',
         queue \in [Lives -> Seq(Sessions)]
  PROVE  HandInv'
<1> SUFFICES ASSUME NEW k \in Lives
             PROVE  Waiting(k)' /\ Busy(k)'
  BY DEF HandInv
<1>1. Waiting(k) /\ Busy(k)
  BY DEF HandInv
<1>2. \A i \in DOMAIN queue[k] : queue[k][i] \in Sessions
  BY DEF HandInv
<1>3. Waiting(k)'
  BY <1>1, <1>2 DEF Waiting, Quiet
<1>4. Busy(k)'
  BY <1>1 DEF Busy, Quiet
<1> QED BY <1>3, <1>4

\* What a worker has in hand stays whole, quiet and its own until it says something.
LEMMA HandStep ==
  ASSUME Types, LoopInv, HandInv, SweepInv, [Next]_vars
  PROVE  HandInv'
<1> USE DEF Types
<1>1. ASSUME NEW s \in Sessions, Opens(s)
      PROVE  HandInv'
  BY <1>1, SameJobs DEF WorkTypes, Handed, Quiet, LoopInv, Here, Running, LoopTypes,
     Opens, disk, process, hook, workers, seen
<1>2. ASSUME NEW s \in Sessions, Records(s)
      PROVE  HandInv'
  BY <1>2, SameJobs DEF WorkTypes, Handed, Quiet, LoopInv, Here, Running, LoopTypes,
     Records, Free, Live, disk, process, hook, workers, seen
<1>3. ASSUME NEW s \in Sessions, EndsEarly(s)
      PROVE  HandInv'
  BY <1>3, SameJobs DEF WorkTypes, Handed, Quiet, LoopInv, Here, Running, LoopTypes,
     EndsEarly, Free, Live, disk, process, hook, workers, seen
<1>4. ASSUME NEW s \in Sessions, Closes(s)
      PROVE  HandInv'
  BY <1>4, SameJobs DEF WorkTypes, Handed, Quiet, LoopInv, Here, Running, LoopTypes,
     Closes, Free, Live, disk, process, hook, workers, seen
<1>5. ASSUME NEW s \in Sessions, Links(s)
      PROVE  HandInv'
  BY <1>5, SameJobs DEF WorkTypes, Handed, Quiet, LoopInv, Here, Running, LoopTypes,
     Links, In, disk, process, hook, workers, seen
<1>6. ASSUME NEW s \in Sessions, Commits(s)
      PROVE  HandInv'
  BY <1>6, SameJobs DEF WorkTypes, Handed, Quiet, LoopInv, Here, Running, LoopTypes,
     Commits, In, GoesOn, disk, process, hook, workers, seen
<1>7. ASSUME NEW s \in Sessions, LinkFails(s)
      PROVE  HandInv'
  BY <1>7, SameJobs DEF WorkTypes, Handed, Quiet, LoopInv, Here, Running, LoopTypes,
     LinkFails, In, GoesOn, Breaks, Says, disk, process, hook, workers, seen
<1>8. ASSUME NEW s \in Sessions, Disowned(s)
      PROVE  HandInv'
  BY <1>8, SameJobs DEF WorkTypes, Handed, Quiet, LoopInv, Here, Running, LoopTypes,
     Disowned, In, GoesOn, disk, process, hook, workers, seen
<1>9. ASSUME NEW s \in Sessions, ClosesBare(s)
      PROVE  HandInv'
  BY <1>9, SameJobs DEF WorkTypes, Handed, Quiet, LoopInv, Here, Running, LoopTypes,
     ClosesBare, Closing, In, disk, process, hook, workers, seen
<1>10. ASSUME NEW s \in Sessions, ClosesIncomplete(s)
      PROVE  HandInv'
  BY <1>10, SameJobs DEF WorkTypes, Handed, Quiet, LoopInv, Here, Running, LoopTypes,
     ClosesIncomplete, Closing, In, Says, disk, process, hook, workers, seen
<1>11. ASSUME NEW s \in Sessions, HandsOver(s)
      PROVE  HandInv'
  <2>0. PICK q : q = Append(queue[life], s)
    OBVIOUS
  <2>1. /\ life \in Lives /\ up # "down" /\ loop = s /\ session[s] = "closing"
        /\ s \in staged /\ home[s] = life /\ s \in kept /\ Quiet(s) /\ born <= life
    BY <1>11 DEF HandsOver, Closing, In, Running, LoopTypes, LoopInv, Here
  <2>2. /\ queue' = [queue EXCEPT ![life] = q]
        /\ UNCHANGED <<up, born, home, kept, sent, outcome, life>>
        /\ session' = [session EXCEPT ![s] = "closed"]
    BY <1>11, <2>0 DEF HandsOver, Closing, process
  <2>3. /\ queue[life] \in Seq(Sessions)
        /\ \A i \in DOMAIN q :
             \/ i \in DOMAIN queue[life] /\ q[i] = queue[life][i]
             \/ i = Len(queue[life]) + 1 /\ q[i] = s
    <3>1. queue[life] \in Seq(Sessions)
      BY <2>1 DEF WorkTypes
    <3>2. /\ DOMAIN q = 1 .. Len(queue[life]) + 1 /\ DOMAIN queue[life] = 1 .. Len(queue[life])
          /\ Len(queue[life]) \in Nat
      BY <2>0, <3>1
    <3>3. \A i \in DOMAIN queue[life] : q[i] = queue[life][i]
      BY <2>0, <3>1, <3>2
    <3>4. q[Len(queue[life]) + 1] = s
      BY <2>0, <3>1
    <3>5. \A i \in DOMAIN q : i \in DOMAIN queue[life] \/ i = Len(queue[life]) + 1
      BY <3>2
    <3> QED BY <3>1, <3>3, <3>4, <3>5, Zenon
  <2>4. queue'[life] = q /\ \A k \in Lives : k # life => queue'[k] = queue[k]
    BY <2>1, <2>2 DEF WorkTypes
  <2>5. /\ \A k \in Lives : worker[k].at \in Working => worker[k].job # s
        /\ \A k \in Lives : \A i \in DOMAIN queue[k] : queue[k][i] # s
    BY <2>1 DEF Busy, Handed, HandInv, Waiting
  <2>6. \A t \in Sessions, k \in Lives : Handed(t, k) => Handed(t, k)'
    BY <2>1, <2>2 DEF Handed, LoopTypes
  <2>7. \A k \in Lives : worker'[k] = worker[k] \/ worker'[k].at = "idle"
    BY <1>11 DEF HandsOver, Started, Idle, WorkTypes
  <2>8. Handed(s, life)'
    BY <2>1, <2>2 DEF Handed, LoopTypes
  <2>9. ASSUME NEW k \in Lives
        PROVE  Waiting(k)' /\ Busy(k)'
    <3>1. Waiting(k) /\ Busy(k) /\ \A i \in DOMAIN queue[k] : queue[k][i] \in Sessions
      BY DEF HandInv, WorkTypes
    <3>2. CASE k # life
      <4>1. Waiting(k)'
        BY <2>2, <2>4, <2>6, <3>1, <3>2 DEF Waiting, Quiet
      <4> QED BY <2>2, <2>4, <2>6, <2>7, <3>1, <3>2, <4>1 DEF Busy, Quiet, Working
    <3>3. CASE k = life
      <4>1. \A i \in DOMAIN q : Handed(q[i], k)' /\ q[i] \in kept' /\ Quiet(q[i])'
        BY <2>1, <2>2, <2>3, <2>6, <2>8, <3>1, <3>3 DEF Waiting, Quiet
      <4>2. \A i, j \in DOMAIN q : q[i] = q[j] => i = j
        <5>1. ASSUME NEW i \in DOMAIN q, NEW j \in DOMAIN q, q[i] = q[j]
              PROVE  i = j
          <6>1. CASE i \in DOMAIN queue[life] /\ j \in DOMAIN queue[life]
                     /\ q[i] = queue[life][i] /\ q[j] = queue[life][j]
            BY <3>1, <3>3, <5>1, <6>1 DEF Waiting
          <6>2. CASE q[i] = s \/ q[j] = s
            <7>1. \A m \in DOMAIN queue[life] : queue[life][m] # s
              BY <2>1, <2>5
            <7> QED BY <2>3, <5>1, <6>2, <7>1
          <6> QED BY <2>3, <6>1, <6>2
        <5> QED BY <5>1
      <4>3. Waiting(k)'
        BY <2>4, <3>3, <4>1, <4>2 DEF Waiting
      <4>4. worker[k].at \in Working => \A i \in DOMAIN q : q[i] # worker[k].job
        BY <2>3, <2>5, <3>1, <3>3 DEF Busy
      <4>5. Busy(k)'
        BY <2>2, <2>4, <2>6, <2>7, <3>1, <3>3, <4>4 DEF Busy, Quiet, Working
      <4> QED BY <4>3, <4>5
    <3> QED BY <3>2, <3>3
  <2> QED BY <2>9 DEF HandInv
<1>12. ASSUME NEW s \in Sessions, TurnedAway(s)
      PROVE  HandInv'
  <2>1. /\ life \in Lives /\ session[s] = "closing"
        /\ UNCHANGED <<up, born, home, sent, queue>>
        /\ session' = [session EXCEPT ![s] = "closed"]
        /\ outcome' = [outcome EXCEPT ![s] = "failed"] /\ kept' = kept \ {s}
    BY <1>12 DEF TurnedAway, Closing, In, Running, LoopTypes, process, Says
  <2>2. \A t \in Sessions, k \in Lives :
          Handed(t, k) => t # s /\ Handed(t, k)' /\ outcome'[t] = outcome[t]
    BY <2>1 DEF Handed, LoopTypes
  <2>3. \A k \in Lives : worker'[k] = worker[k] \/ worker'[k].at = "idle"
    BY <1>12 DEF TurnedAway, Started, Idle, WorkTypes
  <2>4. ASSUME NEW k \in Lives
        PROVE  Waiting(k)' /\ Busy(k)'
    <3>1. Waiting(k) /\ Busy(k) /\ \A i \in DOMAIN queue[k] : queue[k][i] \in Sessions
      BY DEF HandInv, WorkTypes
    <3>2. Waiting(k)'
      BY <2>1, <2>2, <3>1 DEF Waiting, Quiet
    <3>3. Busy(k)'
      BY <2>1, <2>2, <2>3, <3>1 DEF Busy, Quiet, Working
    <3> QED BY <3>2, <3>3
  <2> QED BY <2>4 DEF HandInv
<1>13. ASSUME NEW s \in Sessions, Sweeps(s)
      PROVE  HandInv'
  BY <1>13, SameJobs DEF WorkTypes, Handed, Quiet, LoopInv, Here, Running, LoopTypes,
     Sweeps, disk, process, hook, workers, seen
<1>14. ASSUME NEW l \in Lives, Takes(l)
      PROVE  HandInv'
  <2> DEFINE q == queue[l]
             w == [Idle EXCEPT !.at = "pair", !.job = Head(q)]
  <2>1. /\ q \in Seq(Sessions) /\ q # <<>> /\ Waiting(l) /\ Head(q) = q[1]
        /\ 1 \in DOMAIN q
    BY <1>14 DEF Takes, HandInv, WorkTypes
  <2>2. /\ worker'[l] = w /\ queue'[l] = Tail(q)
        /\ \A k \in Lives : k # l => worker'[k] = worker[k] /\ queue'[k] = queue[k]
    BY <1>14 DEF Takes, Becomes, WorkTypes
  <2>3. w.at = "pair" /\ w.job = q[1] /\ q[1] \in Sessions
    BY <2>1 DEF Idle
  <2>4. \A i \in DOMAIN Tail(q) : i + 1 \in DOMAIN q /\ i + 1 # 1 /\ Tail(q)[i] = q[i + 1]
    BY <2>1
  <2>5. UNCHANGED <<up, born, home, session, kept, sent, outcome>>
    BY <1>14 DEF Takes, Alone, disk, process, hook, seen
  <2>6. ASSUME NEW k \in Lives
        PROVE  Waiting(k)' /\ Busy(k)'
    <3>1. CASE k # l
      BY <2>2, <2>5, <3>1 DEF HandInv, Waiting, Busy, Handed, Quiet
    <3>2. CASE k = l
      <4>1. \A i \in DOMAIN Tail(q) :
              Handed(Tail(q)[i], l) /\ Tail(q)[i] \in kept /\ Quiet(Tail(q)[i])
        BY <2>1, <2>4 DEF Waiting
      <4>2. \A i, j \in DOMAIN Tail(q) : Tail(q)[i] = Tail(q)[j] => i = j
        <5> SUFFICES ASSUME NEW i \in DOMAIN Tail(q), NEW j \in DOMAIN Tail(q),
                            Tail(q)[i] = Tail(q)[j]
                     PROVE  i = j
          OBVIOUS
        <5>1. i \in Nat /\ j \in Nat
          BY SMTT(30), <2>1
        <5>2. i + 1 = j + 1
          BY <2>1, <2>4 DEF Waiting
        <5> QED BY <5>1, <5>2
      <4>3. \A i \in DOMAIN Tail(q) : Tail(q)[i] # q[1]
        BY <2>1, <2>4 DEF Waiting
      <4>4. Handed(q[1], l) /\ q[1] \in kept /\ Quiet(q[1])
        BY <2>1 DEF Waiting
      <4>5. Waiting(l)'
        BY <2>2, <2>5, <4>1, <4>2 DEF Waiting, Handed, Quiet
      <4>6. Busy(l)'
        BY <2>2, <2>3, <2>5, <4>3, <4>4 DEF Busy, Handed, Quiet, Working
      <4> QED BY <3>2, <4>5, <4>6
    <3> QED BY <3>1, <3>2
  <2> QED BY <2>6 DEF HandInv
<1>15. ASSUME NEW l \in Lives, Stops(l)
      PROVE  HandInv'
  <2>1. /\ worker'[l] = Ended /\ \A k \in Lives : k # l => worker'[k] = worker[k]
    BY <1>15 DEF Stops, Becomes, WorkTypes
  <2>2. Ended.at = "ended"
    BY DEF Idle, Ended
  <2>3. UNCHANGED <<up, born, home, session, kept, sent, outcome, queue>>
    BY <1>15 DEF Stops, Alone, disk, process, hook, seen
  <2> QED BY <2>1, <2>2, <2>3 DEF HandInv, Waiting, Busy, Handed, Quiet, Working
<1>16. ASSUME NEW l \in Lives, TriesAgain(l)
      PROVE  HandInv'
  <2> DEFINE n == worker[l].tries + 1
  <2>1. n \in Nat /\ worker[l] \in Worker /\ worker[l].at \in {"pair", "clips"}
    BY <1>16, JobOf DEF Worker, TriesAgain, At
  <2>2. Becomes(l, [worker[l] EXCEPT !.tries = n])
    BY <1>16 DEF TriesAgain
  <2> HIDE DEF n
  <2>3. /\ [worker[l] EXCEPT !.tries = n] \in Worker
        /\ [worker[l] EXCEPT !.tries = n].at = worker[l].at
        /\ [worker[l] EXCEPT !.tries = n].job = worker[l].job
    BY <2>1 DEF Worker
  <2>4. worker[l].at # "pair" => worker[l].job \in sent
    BY <2>1 DEF HandInv, Busy, Working
  <2> QED BY <1>16, <2>1, <2>2, <2>3, <2>4, SameJob DEF TriesAgain, Working, Alone, disk,
       process, hook, seen
<1>17. ASSUME NEW l \in Lives, Fails(l)
      PROVE  HandInv'
  <2>0. PICK j : j = worker[l].job
    OBVIOUS
  <2> DEFINE w == [Idle EXCEPT !.at = "said", !.job = j]
  <2>1. /\ worker'[l] = w /\ \A k \in Lives : k # l => worker'[k] = worker[k]
    BY <1>17, <2>0 DEF Fails, Becomes, WorkTypes
  <2>2. w.at = "said" /\ w.job = j
    BY <2>0, JobOf DEF Idle, Worker
  <2> HIDE DEF w
  <2>3. /\ UNCHANGED <<up, born, home, session, kept, sent, queue>>
        /\ worker[l].at \in Working /\ j \in Sessions
        /\ outcome' \in [Sessions -> {"none", "uploaded", "failed", "lost"}]
        /\ outcome'[j] # "none"
        /\ \A s \in Sessions : s # j => outcome'[s] = outcome[s]
    BY <1>17, <2>0, JobOf DEF Fails, Says, Alone, disk, process, hook, LoopTypes, Working
  <2>4. Handed(j, l) /\ \A i \in DOMAIN queue[l] : queue[l][i] # j
    BY <2>0, <2>3 DEF HandInv, Busy
  <2>5. \A k \in Lives : \A i \in DOMAIN queue[k] : queue[k][i] \in Sessions
    BY DEF WorkTypes
  <2>6. ASSUME NEW k \in Lives
        PROVE  Waiting(k)' /\ Busy(k)'
    <3>0. Waiting(k) /\ Busy(k) /\ \A i \in DOMAIN queue[k] : queue[k][i] \in Sessions
      BY <2>5 DEF HandInv
    <3>1. \A i \in DOMAIN queue[k] : queue[k][i] # j
      BY <2>4, <3>0 DEF Waiting, Handed
    <3>2. k # l => (worker[k].at \in Working \cup {"said"} => worker[k].job # j)
      BY <2>4, <3>0 DEF Busy, Handed
    <3>3. \A s \in Sessions : Handed(s, k)' <=> Handed(s, k)
      BY <2>3 DEF Handed
    <3>4. Waiting(k)'
      <4>1. \A i \in DOMAIN queue[k] : Handed(queue[k][i], k)' /\ Quiet(queue[k][i])'
        BY <2>3, <3>0, <3>1, <3>3 DEF Waiting, Quiet, Handed
      <4> QED BY <2>3, <3>0, <4>1 DEF Waiting
    <3>5. CASE k = l
      <4>1. worker'[k].at = "said" /\ worker'[k].job = j
        BY <2>1, <2>2, <3>5
      <4>2. Handed(j, k)'
        BY <2>3, <2>4, <3>3, <3>5
      <4>3. ~(Quiet(j)')
        BY <2>3 DEF Quiet
      <4> QED BY <2>3, <3>4, <4>1, <4>2, <4>3 DEF Busy, Working, Quiet, Handed
    <3>6. CASE k # l
      <4>1. worker'[k] = worker[k]
        BY <2>1, <3>6
      <4>2. worker[k].job \in Sessions /\ worker[k].job # j =>
              Quiet(worker[k].job)' = Quiet(worker[k].job)
        BY <2>3, <4>1 DEF Quiet
      <4> QED BY <2>3, <3>0, <3>2, <3>3, <3>4, <3>6, <4>1, <4>2 DEF Busy, Handed, Quiet
    <3> QED BY <3>4, <3>5, <3>6
  <2> QED BY <2>6 DEF HandInv
<1>18. ASSUME NEW l \in Lives, Lands(l)
      PROVE  HandInv'
  <2> DEFINE w == [worker[l] EXCEPT !.at = "landed", !.tries = 0]
  <2>1. w \in Worker /\ w.at = "landed" /\ w.job = worker[l].job /\ worker[l].at = "pair"
    BY <1>18, JobOf DEF Worker, WorkerStates, Working, Lands, At
  <2>2. Becomes(l, w) /\ worker[l].job \in sent' /\ sent \subseteq sent'
    BY <1>18 DEF Lands
  <2> HIDE DEF w
  <2> QED BY <1>18, <2>1, <2>2, SameJob DEF Lands, Working, Alone, disk, process, hook, seen
<1>19. ASSUME NEW l \in Lives, Referenced(l)
      PROVE  HandInv'
  <2> DEFINE n == 1
             w == [worker[l] EXCEPT !.at = "clips", !.turn = n]
  <2>1. n \in Nat /\ Becomes(l, w) /\ worker[l].at = "landed"
    BY <1>19 DEF Referenced, At
  <2> HIDE DEF n
  <2>2. w \in Worker /\ w.at = "clips" /\ w.job = worker[l].job
    BY <2>1, JobOf DEF Worker, WorkerStates, Working
  <2> HIDE DEF w
  <2>3. worker[l].job \in sent
    BY <2>1 DEF HandInv, Busy, Working
  <2> QED BY <1>19, <2>1, <2>2, <2>3, SameJob DEF Referenced, Working, Alone, disk, process,
       hook, seen
<1>20. ASSUME NEW l \in Lives, BeginsTurn(l)
      PROVE  HandInv'
  <2>2. PICK w \in Worker : Becomes(l, w) /\ w.job = worker[l].job
                             /\ w.at \in {"clips", "skips"}
    BY <1>20, BegunTyped
  <2>3. worker[l].at \in {"clips", "skips"} /\ worker[l].job \in sent
    BY <1>20 DEF BeginsTurn, AtClip, InTurns, HandInv, Busy, Working
  <2> QED BY <1>20, <2>2, <2>3, SameJob DEF BeginsTurn, Working, Alone, disk, process, hook, seen
<1>21. ASSUME NEW l \in Lives, FilesClip(l)
      PROVE  HandInv'
  <2>2. PICK w \in Worker : Becomes(l, w) /\ w.job = worker[l].job
                             /\ w.at \in {"clips", "skips"}
    BY <1>21, FiledTyped
  <2>3. worker[l].at \in {"clips", "skips"} /\ worker[l].job \in sent
    BY <1>21 DEF FilesClip, AtClip, InTurns, HandInv, Busy, Working
  <2> QED BY <1>21, <2>2, <2>3, SameJob DEF FilesClip, Working, Alone, disk, process, hook, seen
<1>22. ASSUME NEW l \in Lives, EndsTurn(l)
      PROVE  HandInv'
  <2>2. PICK w \in Worker : Becomes(l, w) /\ w.job = worker[l].job
                             /\ w.at \in {"clips", "skips"}
    BY <1>22, EndedTyped
  <2>3. worker[l].at \in {"clips", "skips"} /\ worker[l].job \in sent
    BY <1>22 DEF EndsTurn, AtClip, InTurns, HandInv, Busy, Working
  <2> QED BY <1>22, <2>2, <2>3, SameJob DEF EndsTurn, Working, Alone, disk, process, hook, seen
<1>23. ASSUME NEW l \in Lives, Uploads(l)
      PROVE  HandInv'
  <2>0. PICK j : j = worker[l].job
    OBVIOUS
  <2> DEFINE w == [worker[l] EXCEPT !.at = "said"]
  <2>1. /\ worker'[l] = w /\ \A k \in Lives : k # l => worker'[k] = worker[k]
    BY <1>23, <2>0 DEF Uploads, Becomes, WorkTypes
  <2>2. w.at = "said" /\ w.job = j
    BY <2>0, JobOf DEF Idle, Worker
  <2> HIDE DEF w
  <2>3. /\ UNCHANGED <<up, born, home, session, kept, sent, queue>>
        /\ worker[l].at \in Working /\ j \in Sessions
        /\ outcome' \in [Sessions -> {"none", "uploaded", "failed", "lost"}]
        /\ outcome'[j] # "none"
        /\ \A s \in Sessions : s # j => outcome'[s] = outcome[s]
    BY <1>23, <2>0, JobOf DEF Uploads, Says, Alone, disk, process, hook, LoopTypes, Working
  <2>4. Handed(j, l) /\ \A i \in DOMAIN queue[l] : queue[l][i] # j
    BY <2>0, <2>3 DEF HandInv, Busy
  <2>5. \A k \in Lives : \A i \in DOMAIN queue[k] : queue[k][i] \in Sessions
    BY DEF WorkTypes
  <2>6. ASSUME NEW k \in Lives
        PROVE  Waiting(k)' /\ Busy(k)'
    <3>0. Waiting(k) /\ Busy(k) /\ \A i \in DOMAIN queue[k] : queue[k][i] \in Sessions
      BY <2>5 DEF HandInv
    <3>1. \A i \in DOMAIN queue[k] : queue[k][i] # j
      BY <2>4, <3>0 DEF Waiting, Handed
    <3>2. k # l => (worker[k].at \in Working \cup {"said"} => worker[k].job # j)
      BY <2>4, <3>0 DEF Busy, Handed
    <3>3. \A s \in Sessions : Handed(s, k)' <=> Handed(s, k)
      BY <2>3 DEF Handed
    <3>4. Waiting(k)'
      <4>1. \A i \in DOMAIN queue[k] : Handed(queue[k][i], k)' /\ Quiet(queue[k][i])'
        BY <2>3, <3>0, <3>1, <3>3 DEF Waiting, Quiet, Handed
      <4> QED BY <2>3, <3>0, <4>1 DEF Waiting
    <3>5. CASE k = l
      <4>1. worker'[k].at = "said" /\ worker'[k].job = j
        BY <2>1, <2>2, <3>5
      <4>2. Handed(j, k)'
        BY <2>3, <2>4, <3>3, <3>5
      <4>3. ~(Quiet(j)')
        BY <2>3 DEF Quiet
      <4> QED BY <2>3, <3>4, <4>1, <4>2, <4>3 DEF Busy, Working, Quiet, Handed
    <3>6. CASE k # l
      <4>1. worker'[k] = worker[k]
        BY <2>1, <3>6
      <4>2. worker[k].job \in Sessions /\ worker[k].job # j =>
              Quiet(worker[k].job)' = Quiet(worker[k].job)
        BY <2>3, <4>1 DEF Quiet
      <4> QED BY <2>3, <3>0, <3>2, <3>3, <3>4, <3>6, <4>1, <4>2 DEF Busy, Handed, Quiet
    <3> QED BY <3>4, <3>5, <3>6
  <2> QED BY <2>6 DEF HandInv
<1>24. ASSUME NEW l \in Lives, Removes(l)
      PROVE  HandInv'
  <2>1. /\ worker'[l] = Idle /\ \A k \in Lives : k # l => worker'[k] = worker[k]
    BY <1>24 DEF Removes, Becomes, WorkTypes
  <2>2. Idle.at = "idle"
    BY DEF Idle
  <2>3. /\ UNCHANGED <<up, born, home, session, sent, outcome, queue>>
        /\ ~Quiet(worker[l].job)
        /\ \A s : s \in kept /\ s # worker[l].job => s \in kept'
    BY <1>24 DEF Removes, At, process, hook, HandInv, Busy
  <2> QED BY <2>1, <2>2, <2>3 DEF HandInv, Waiting, Busy, Handed, Quiet, Working
<1>25. CASE Boots
  <2>1. /\ UNCHANGED <<kept, home, session, queue, worker, sent, outcome>>
        /\ up' = "sweeping" /\ (up # "down" => born' = born)
    BY <1>25 DEF Boots, disk, hook, workers, seen
  <2>2. \A s \in Sessions, k \in Lives : Handed(s, k) => Handed(s, k)'
    BY <2>1 DEF Handed
  <2>3. queue \in [Lives -> Seq(Sessions)]
    BY DEF WorkTypes
  <2> QED BY <2>1, <2>2, <2>3, SameJobs DEF Quiet, Handed
<1>26. CASE SweepsAway
  <2>1. /\ UNCHANGED <<up, born, home, session, queue, worker, sent, outcome>>
        /\ up = "sweeping" /\ home[loop] < born /\ \A s : s \in kept /\ s # loop => s \in kept'
    BY <1>26 DEF SweepsAway, SweepInv, process, workers
  <2>2. \A s \in Sessions, k \in Lives : Handed(s, k) => s # loop
    BY <2>1 DEF Handed, LoopTypes, Lives
  <2>3. queue \in [Lives -> Seq(Sessions)]
    BY DEF WorkTypes
  <2> QED BY <2>1, <2>2, <2>3, SameJobs DEF Quiet, Handed
<1>27. CASE Serves
  BY <1>27, SameJobs DEF WorkTypes, Handed, Quiet, LoopInv, Here, Running, LoopTypes,
     Serves, disk, process, hook, workers, seen
<1>28. CASE Retires
  BY <1>28, SameJobs DEF WorkTypes, Handed, Quiet, LoopInv, Here, Running, LoopTypes,
     Retires, disk, process, hook, workers, seen
<1>29. CASE Leaves
  BY <1>29, SameJobs DEF WorkTypes, Handed, Quiet, LoopInv, Here, Running, LoopTypes,
     Leaves, disk, process, hook, workers, seen
<1>30. CASE Exits
  <2>1. \A k \in Lives : queue'[k] = <<>> /\ worker'[k].at = "none"
    BY <1>30 DEF Exits, Unstarted, Idle
  <2> QED BY <2>1 DEF HandInv, Waiting, Busy, Working
<1>31. CASE UNCHANGED vars
  BY <1>31, SameJobs DEF WorkTypes, Handed, Quiet, vars, disk, process, hook, workers,
     seen
<1> QED BY <1>1, <1>2, <1>3, <1>4, <1>5, <1>6, <1>7, <1>8, <1>9, <1>10, <1>11, <1>12,
   <1>13, <1>14, <1>15, <1>16, <1>17, <1>18, <1>19, <1>20, <1>21, <1>22, <1>23, <1>24,
   <1>25, <1>26, <1>27, <1>28, <1>29, <1>30, <1>31 DEF Next, Handler, Works, Sweeping

-----------------------------------------------------------------------------
(* The invariant, and the ledger.                                          *)

\* The invariant: a recording is in one place of the loop's or in one worker's hands,
\* of the session and the process it belongs to, and nothing is said of it there.
THEOREM CapturesInvariant == Spec => []IInv
<1>1. Init => IInv
  <2> SUFFICES ASSUME Init PROVE IInv
    OBVIOUS
  <2>1. Unstarted \in Worker /\ Unstarted.at = "none"
    BY DEF Unstarted, Idle, Worker, Counts, NothingFiled, WorkerStates, Working
  <2>2. Types
    BY <2>1 DEF Init, Types, LoopTypes, WorkTypes
  <2>3. LoopInv /\ SweepInv
    BY DEF Init, LoopInv, SweepInv, Running
  <2>4. HandInv
    BY <2>1 DEF Init, HandInv, Waiting, Busy, Working
  <2> QED BY <2>2, <2>3, <2>4 DEF IInv
<1>2. IInv /\ [Next]_vars => IInv'
  BY WorkersTyped, LoopTyped, LoopStep, HandStep, SweepStep DEF IInv, Types
<1> QED BY <1>1, <1>2, PTL DEF Spec

\* A step of the ledger, or none.
LedgerKept == [L!Next]_<<Opened, Over, Left, kept, broken, sent, outcome, abandoned>>

\* A session the process is about is not one it has left.
LEMMA Present ==
  ASSUME Types, NEW s \in Sessions, up # "down", born <= home[s]
  PROVE  s \in Opened \ Left
BY DEF Types, LoopTypes, Lives, Opened, Left

\* Every step is one of the ledger's, or none.
LEMMA StepKeepsLedger ==
  ASSUME IInv, [Next]_vars
  PROVE  LedgerKept
<1>0. Types /\ LoopTypes /\ LoopInv /\ HandInv /\ SweepInv /\ LoopTypes'
  BY WorkersTyped, LoopTyped DEF IInv, Types
<1>a. ASSUME UNCHANGED <<kept, broken, sent, outcome, abandoned>>,
             Opened' = Opened, Over' = Over, Left' = Left
      PROVE  LedgerKept
  BY <1>a DEF LedgerKept
<1>b. ASSUME UNCHANGED <<home, born, up>>
      PROVE  Opened' = Opened /\ Left' = Left
  BY <1>b DEF Opened, Left
<1>c. ASSUME UNCHANGED session PROVE Over' = Over
  BY <1>c DEF Over
<1>d. ASSUME NEW s \in Sessions, In(s)
      PROVE  s \in Opened \ Left /\ up # "down" /\ session[s] \in {"open", "closing"}
  <2>1. home[s] = life /\ born <= life /\ up # "down" /\ session[s] \in {"open", "closing"}
    BY <1>0, <1>d DEF In, Running, LoopInv, LoopTypes
  <2> QED BY <1>0, <2>1, Present
<1>e. ASSUME NEW s \in Sessions, Closing(s)
      PROVE  Over' = Over /\ s \in Over
  BY <1>0, <1>e DEF Closing, Over, LoopTypes
<1>f. ASSUME NEW l \in Lives, worker[l].at \in Working
      PROVE  /\ worker[l].job \in (Over \cap Opened \cap kept) \ Left
             /\ Quiet(worker[l].job)
             /\ worker[l].at # "pair" => worker[l].job \in sent
  <2>1. /\ worker[l].job \in Sessions /\ Handed(worker[l].job, l) /\ worker[l].job \in kept
        /\ Quiet(worker[l].job)
        /\ worker[l].at # "pair" => worker[l].job \in sent
    BY <1>0, <1>f DEF HandInv, Busy
  <2>2. worker[l].job \in Opened \ Left /\ worker[l].job \in Over
    BY <1>0, <2>1, Present DEF Handed, Over
  <2> QED BY <2>1, <2>2
<1>g. ASSUME NEW s \in Sessions, L!Open(s) \/ L!End(s) \/ L!Keep(s) \/ L!Break(s) \/ L!Send(s)
             \/ L!Uploaded(s) \/ L!Failed(s) \/ L!Lost(s) \/ L!Abandon(s) \/ L!Release(s)
      PROVE  LedgerKept
  BY <1>g DEF LedgerKept, L!Next
<1>1. ASSUME NEW s \in Sessions, Opens(s)
      PROVE  LedgerKept
  <2>1. /\ home[s] = 0 /\ life \in Lives /\ born <= life /\ up = "serving" /\ up' = up
        /\ born' = born /\ home' = [home EXCEPT ![s] = life]
        /\ session[s] = "new" /\ session' = [session EXCEPT ![s] = "open"]
    BY <1>0, <1>1 DEF Opens, LoopTypes, process
  <2>2. s \notin Opened /\ Opened' = Opened \cup {s}
    BY <1>0, <2>1 DEF Opened, LoopTypes, Lives
  <2>3. Over' = Over /\ Left' = Left
    BY <1>0, <2>1 DEF Over, Left, LoopTypes, Lives
  <2>4. L!Open(s)
    BY <1>1, <2>2, <2>3 DEF Opens, L!Open, seen
  <2> QED BY <1>g, <2>4
<1>2. ASSUME NEW s \in Sessions, Records(s)
      PROVE  LedgerKept
  BY <1>2, <1>a, <1>b, <1>c DEF Records, Free, Live, disk, process, hook, workers, seen
<1>3. ASSUME NEW s \in Sessions, EndsEarly(s)
      PROVE  LedgerKept
  BY <1>3, <1>a, <1>b, <1>c DEF EndsEarly, Free, Live, disk, process, hook, workers,
     seen
<1>4. ASSUME NEW s \in Sessions, Closes(s)
      PROVE  LedgerKept
  <2>1. home[s] = life /\ born <= life /\ up # "down"
    BY <1>0, <1>4 DEF Closes, Free, Live, Running, LoopTypes
  <2>2. s \in Opened \ Left
    BY <1>0, <2>1, Present
  <2>3. Over' = Over \cup {s}
    BY <1>0, <1>4 DEF Closes, Over, LoopTypes
  <2>4. L!End(s)
    BY <1>4, <1>b, <2>2, <2>3 DEF Closes, L!End, disk, process, seen
  <2> QED BY <1>g, <2>4
<1>5. ASSUME NEW s \in Sessions, Links(s)
      PROVE  LedgerKept
  BY <1>5, <1>a, <1>b, <1>c DEF Links, In, disk, process, hook, workers, seen
<1>6. ASSUME NEW s \in Sessions, Commits(s)
      PROVE  LedgerKept
  <2>1. L!Keep(s)
    BY <1>0, <1>6, <1>b, <1>c, <1>d DEF Commits, L!Keep, L!Silent, LoopInv, Quiet, process, seen
  <2> QED BY <1>g, <2>1
<1>7. ASSUME NEW s \in Sessions, LinkFails(s)
      PROVE  LedgerKept
  <2>1. L!Lost(s)
    BY <1>0, <1>7, <1>b, <1>c, <1>d DEF LinkFails, Breaks, Says, L!Lost, L!Says, L!Silent,
       LoopInv, Quiet, process
  <2> QED BY <1>g, <2>1
<1>8. ASSUME NEW s \in Sessions, Disowned(s)
      PROVE  LedgerKept
  BY <1>8, <1>a, <1>b, <1>c DEF Disowned, In, GoesOn, disk, process, hook, workers, seen
<1>9. ASSUME NEW s \in Sessions, ClosesBare(s)
      PROVE  LedgerKept
  <2>1. Over' = Over
    BY <1>9, <1>e DEF ClosesBare
  <2> QED BY <1>9, <1>a, <1>b, <2>1 DEF ClosesBare, Closing, process
<1>10. ASSUME NEW s \in Sessions, ClosesIncomplete(s)
      PROVE  LedgerKept
  <2>1. L!Failed(s)
    <3>1. In(s) /\ Closing(s) /\ Quiet(s)
      BY <1>0, <1>10 DEF ClosesIncomplete, Closing, LoopInv, Here
    <3> QED BY <1>10, <1>b, <1>d, <1>e, <3>1 DEF ClosesIncomplete, Closing, Says, Quiet,
         L!Failed, L!Says, L!Silent, process
  <2> QED BY <1>g, <2>1
<1>11. ASSUME NEW s \in Sessions, HandsOver(s)
      PROVE  LedgerKept
  <2>1. Over' = Over
    BY <1>11, <1>e DEF HandsOver
  <2> QED BY <1>11, <1>a, <1>b, <2>1 DEF HandsOver, Closing, process
<1>12. ASSUME NEW s \in Sessions, TurnedAway(s)
      PROVE  LedgerKept
  <2>1. L!Failed(s)
    <3>1. In(s) /\ Closing(s) /\ Quiet(s)
      BY <1>0, <1>12 DEF TurnedAway, Closing, LoopInv, Here
    <3> QED BY <1>12, <1>b, <1>d, <1>e, <3>1 DEF TurnedAway, Closing, Says, Quiet,
         L!Failed, L!Says, L!Silent, process
  <2> QED BY <1>g, <2>1
<1>13. ASSUME NEW s \in Sessions, Sweeps(s)
      PROVE  LedgerKept
  <2>1. CASE s \in kept
    <3>1. s \in Left
      BY <1>0, <1>13, <2>1 DEF Sweeps, SweepInv, Left, LoopTypes
    <3>2. L!Abandon(s)
      BY <1>13, <1>b, <1>c, <2>1, <3>1 DEF Sweeps, L!Abandon, disk
    <3> QED BY <1>g, <3>2
  <2>2. CASE s \notin kept
    BY <1>13, <1>a, <1>b, <1>c, <2>2 DEF Sweeps, disk
  <2> QED BY <2>1, <2>2
<1>14. ASSUME NEW l \in Lives, Takes(l)
      PROVE  LedgerKept
  BY <1>14, <1>a, <1>b, <1>c DEF Takes, At, Becomes, Alone, Idle, disk, process, hook,
     workers, seen
<1>15. ASSUME NEW l \in Lives, Stops(l)
      PROVE  LedgerKept
  BY <1>15, <1>a, <1>b, <1>c DEF Stops, At, Becomes, Alone, Ended, Idle, Stopping, disk,
     process, hook, workers, seen
<1>16. ASSUME NEW l \in Lives, TriesAgain(l)
      PROVE  LedgerKept
  BY <1>16, <1>a, <1>b, <1>c DEF TriesAgain, At, Becomes, Alone, disk, process, hook,
     workers, seen
<1>17. ASSUME NEW l \in Lives, Fails(l)
      PROVE  LedgerKept
  <2>1. L!Failed(worker[l].job)
    BY <1>17, <1>b, <1>c, <1>f DEF Fails, Says, Alone, disk, process, hook, Working, Quiet,
       L!Failed, L!Says, L!Silent
  <2> QED BY <1>17, <1>0, <1>f, <1>g, <2>1 DEF Fails, Working, Opened
<1>18. ASSUME NEW l \in Lives, Lands(l)
      PROVE  LedgerKept
  <2>1. L!Send(worker[l].job)
    BY <1>18, <1>b, <1>c, <1>f DEF Lands, At, Alone, disk, process, hook, Working, Quiet,
       L!Send, L!Silent
  <2> QED BY <1>18, <1>0, <1>f, <1>g, <2>1 DEF Lands, At, Working, Opened
<1>19. ASSUME NEW l \in Lives, Referenced(l)
      PROVE  LedgerKept
  BY <1>19, <1>a, <1>b, <1>c DEF Referenced, At, Becomes, Alone, disk, process, hook,
     workers, seen
<1>20. ASSUME NEW l \in Lives, BeginsTurn(l)
      PROVE  LedgerKept
  BY <1>20, <1>a, <1>b, <1>c DEF BeginsTurn, At, Becomes, Alone, disk, process, hook,
     workers, seen
<1>21. ASSUME NEW l \in Lives, FilesClip(l)
      PROVE  LedgerKept
  BY <1>21, <1>a, <1>b, <1>c DEF FilesClip, At, Becomes, Alone, disk, process, hook,
     workers, seen
<1>22. ASSUME NEW l \in Lives, EndsTurn(l)
      PROVE  LedgerKept
  BY <1>22, <1>a, <1>b, <1>c DEF EndsTurn, At, Becomes, Alone, disk, process, hook,
     workers, seen
<1>23. ASSUME NEW l \in Lives, Uploads(l)
      PROVE  LedgerKept
  <2>1. L!Uploaded(worker[l].job)
    BY <1>23, <1>b, <1>c, <1>f DEF Uploads, Says, Alone, disk, process, hook, Working, Quiet,
       L!Uploaded, L!Says, L!Silent
  <2> QED BY <1>23, <1>0, <1>f, <1>g, <2>1 DEF Uploads, Working, Opened
<1>24. ASSUME NEW l \in Lives, Removes(l)
      PROVE  LedgerKept
  <2>1. worker[l].job \in Sessions /\ ~Quiet(worker[l].job)
    BY <1>0, <1>24 DEF Removes, At, HandInv, Busy
  <2>2. L!Release(worker[l].job) \/ L!Break(worker[l].job)
    BY <1>24, <1>b, <1>c, <2>1 DEF Removes, Breaks, process, hook, Quiet, L!Release, L!Break,
       L!Silent
  <2> QED BY <1>g, <2>1, <2>2
<1>25. CASE Boots
  <2>1. Left' = Left
    BY <1>0, <1>25 DEF Boots, Left, LoopTypes, hook
  <2>2. Opened' = Opened /\ Over' = Over
    BY <1>25 DEF Boots, Opened, Over, hook
  <2> QED BY <1>25, <1>a, <2>1, <2>2 DEF Boots, disk, seen
<1>26. CASE SweepsAway
  <2>1. loop \in Sessions /\ (loop \in kept => loop \in abandoned)
    BY <1>0, <1>26 DEF SweepsAway, SweepInv, LoopTypes
  <2>2. CASE Breaks(loop) /\ UNCHANGED kept
    <3>1. L!Break(loop)
      BY <1>26, <1>b, <1>c, <2>2 DEF SweepsAway, Breaks, process, L!Break
    <3> QED BY <1>g, <2>1, <3>1
  <2>3. CASE kept' = kept \ {loop} /\ UNCHANGED broken /\ loop \in kept
    <3>1. L!Release(loop)
      BY <1>26, <1>b, <1>c, <2>1, <2>3 DEF SweepsAway, process, L!Release
    <3> QED BY <1>g, <2>1, <3>1
  <2>4. CASE kept' = kept \ {loop} /\ UNCHANGED broken /\ loop \notin kept
    BY <1>26, <1>a, <1>b, <1>c, <2>4 DEF SweepsAway, process
  <2> QED BY <1>26, <2>2, <2>3, <2>4 DEF SweepsAway
<1>27. CASE Serves
  <2>1. Left' = Left
    BY <1>27 DEF Serves, Left, hook
  <2>2. Opened' = Opened /\ Over' = Over
    BY <1>27 DEF Serves, Opened, Over, hook
  <2> QED BY <1>27, <1>a, <2>1, <2>2 DEF Serves, disk, seen
<1>28. CASE Retires
  <2>1. Left' = Left
    BY <1>28 DEF Retires, Left, hook
  <2>2. Opened' = Opened /\ Over' = Over
    BY <1>28 DEF Retires, Opened, Over, hook
  <2> QED BY <1>28, <1>a, <2>1, <2>2 DEF Retires, disk, seen
<1>29. CASE Leaves
  <2>1. Left' = Left
    BY <1>29 DEF Leaves, Left, hook
  <2>2. Opened' = Opened /\ Over' = Over
    BY <1>29 DEF Leaves, Opened, Over, hook
  <2> QED BY <1>29, <1>a, <2>1, <2>2 DEF Leaves, disk, seen
<1>30. CASE Exits
  <2>1. Left' = Opened
    BY <1>30 DEF Exits, Left, Opened
  <2>2. L!Leave
    BY <1>30, <2>1 DEF Exits, L!Leave, Opened, Over, disk, seen
  <2> QED BY <2>2 DEF LedgerKept, L!Next
<1>31. CASE UNCHANGED vars
  BY <1>31, <1>a, <1>b, <1>c DEF vars, disk, process, hook, seen
<1> QED BY <1>1, <1>2, <1>3, <1>4, <1>5, <1>6, <1>7, <1>8, <1>9, <1>10, <1>11, <1>12,
   <1>13, <1>14, <1>15, <1>16, <1>17, <1>18, <1>19, <1>20, <1>21, <1>22, <1>23, <1>24,
   <1>25, <1>26, <1>27, <1>28, <1>29, <1>30, <1>31 DEF Next, Handler, Works, Sweeping

\* Captures implements UploadLedger, whatever clips, budget, backlog, retries,
\* lifespans and failing files there are: nothing leaves before its session is over,
\* nothing goes unsaid, and only a failing filesystem loses a recording
\* (capture.py, capture_upload.py).
THEOREM LedgerRefined == Spec => ImplementsLedger
<1>1. Init => L!Init
  BY DEF Init, L!Init, Opened, Over, Left
<1>2. IInv /\ [Next]_vars => [L!Next]_<<Opened, Over, Left, kept, broken, sent, outcome, abandoned>>
  BY StepKeepsLedger DEF LedgerKept
<1> QED BY CapturesInvariant, <1>1, <1>2, PTL DEF Spec, ImplementsLedger, L!Spec, L!vars

-----------------------------------------------------------------------------
(* The directory.                                                          *)

\* A set of naturals has a least element; so one with 0 and, with each number, the
\* next is that of all.
LEMMA Least ==
  ASSUME NEW T, T \subseteq Nat, T # {}
  PROVE  \E x \in T : \A y \in T : x <= y
<1>1. \E R : IsWellFoundedOn(R, Nat) /\ \A x, y \in Nat : (x < y) => <<x, y>> \in R
  <2>1. \A x, y \in Nat : (x < y) => <<x, y>> \in OpToRel(<,Nat)
    BY SMT DEF OpToRel
  <2> QED BY <2>1, NatLessThanWellFounded, Zenon
<1>2. PICK R : IsWellFoundedOn(R, Nat) /\ \A x, y \in Nat : (x < y) => <<x, y>> \in R
  BY <1>1
<1>3. \E x \in T : \A y \in T : ~ (<<y, x>> \in R)
  <2>1. IsWellFoundedOn(R, Nat)
    BY <1>2, Zenon
  <2> QED BY ONLY <2>1, T \subseteq Nat, T # {}, WFMin, ZenonT(60)
<1>4. \A y, x \in T : y \in Nat /\ x \in Nat
  BY Zenon
<1>5. PICK x \in T : \A y \in T : ~ (<<y, x>> \in R)
  BY <1>3, Zenon
<1>6. \A y \in T : x <= y
  <2> TAKE y \in T
  <2>1. x \in Nat /\ y \in Nat /\ ~(<<y, x>> \in R)
    BY <1>4, <1>5, Zenon
  <2>2. ~(y < x)
    BY <1>2, <2>1, Zenon
  <2> QED BY <2>1, <2>2, SMT
<1> QED BY <1>5, <1>6, Zenon

LEMMA Inductive ==
  ASSUME NEW T, 0 \in T, \A n \in Nat : n \in T => n + 1 \in T
  PROVE  \A n \in Nat : n \in T
<1> SUFFICES ASSUME Nat \ T # {}
             PROVE  FALSE
  OBVIOUS
<1>1. PICK n \in Nat \ T : \A m \in Nat \ T : n <= m
  BY Least
<1>2. n # 0 /\ n - 1 \in Nat /\ n - 1 \in T
  BY <1>1
<1> QED BY <1>1, <1>2

\* A step of `Without`, and the function it is the last value of.
Next1(dir, gone, n, rest) == IF dir[n] \in gone THEN rest ELSE Append(rest, dir[n])
Rests(dir, gone, rest) ==
  rest = [n \in 0 .. Len(dir) |-> IF n = 0 THEN <<>>
                                  ELSE IF dir[n] \in gone THEN rest[n - 1]
                                  ELSE Append(rest[n - 1], dir[n])]
From(S, dir, gone, f, k) ==
  /\ f \in [0 .. k -> Seq(S)] /\ f[0] = <<>>
  /\ \A n \in 1 .. k : f[n] = Next1(dir, gone, n, f[n - 1])
Rested(S, dir, gone, k) == k <= Len(dir) => \E f : From(S, dir, gone, f, k)
LEMMA RestsExist ==
  ASSUME NEW S, NEW dir \in Seq(S), NEW gone
  PROVE  \E rest : Rests(dir, gone, rest)
<1> DEFINE T == {k \in Nat : Rested(S, dir, gone, k)}
<1>0. Len(dir) \in Nat /\ \A n \in 1 .. Len(dir) : dir[n] \in S
  OBVIOUS
<1>1. Rested(S, dir, gone, 0)
  <2> DEFINE f == [n \in 0 .. 0 |-> <<>>]
  <2>1. f \in [0 .. 0 -> Seq(S)] /\ f[0] = <<>>
    BY EmptySeq
  <2>2. From(S, dir, gone, f, 0)
    BY <2>1 DEF From
  <2> QED BY <2>2 DEF Rested
<1>2. ASSUME NEW k \in Nat, Rested(S, dir, gone, k)
      PROVE  Rested(S, dir, gone, k + 1)
  <2> SUFFICES ASSUME k + 1 <= Len(dir)
               PROVE  \E f : From(S, dir, gone, f, k + 1)
    BY DEF Rested
  <2>0. k <= Len(dir)
    BY <1>0
  <2>1. PICK g : From(S, dir, gone, g, k)
    BY <1>2, <2>0 DEF Rested
  <2> DEFINE f == [n \in 0 .. k + 1 |-> IF n = k + 1 THEN Next1(dir, gone, n, g[k]) ELSE g[n]]
  <2>2. g[k] \in Seq(S) /\ dir[k + 1] \in S
    BY <1>0, <2>1 DEF From
  <2>3. Next1(dir, gone, k + 1, g[k]) \in Seq(S)
    BY <2>2, AppendProperties DEF Next1
  <2>4. f \in [0 .. k + 1 -> Seq(S)]
    <3> SUFFICES ASSUME NEW n \in 0 .. k + 1
                 PROVE  f[n] \in Seq(S)
      OBVIOUS
    <3>1. CASE n = k + 1
      BY <2>3, <3>1
    <3>2. CASE n # k + 1
      BY <2>1, <3>2 DEF From
    <3> QED BY <3>1, <3>2
  <2>5. f[0] = <<>>
    BY <2>1 DEF From
  <2>6. ASSUME NEW n \in 1 .. k + 1
        PROVE  f[n] = Next1(dir, gone, n, f[n - 1])
    <3>1. CASE n = k + 1
      <4>1. n - 1 = k /\ f[n - 1] = g[k]
        BY <3>1
      <4> QED BY <3>1, <4>1
    <3>2. CASE n # k + 1
      <4>1. f[n] = g[n] /\ f[n - 1] = g[n - 1] /\ n \in 1 .. k
        BY <3>2
      <4> QED BY <2>1, <4>1 DEF From
    <3> QED BY <3>1, <3>2
  <2> HIDE DEF f
  <2>7. From(S, dir, gone, f, k + 1)
    BY <2>4, <2>5, <2>6 DEF From
  <2> QED BY <2>7
<1>3. \A k \in Nat : k \in T
  <2>1. 0 \in T /\ \A n \in Nat : n \in T => n + 1 \in T
    BY <1>1, <1>2
  <2> HIDE DEF T
  <2> QED BY <2>1, Inductive
<1>4. PICK f : From(S, dir, gone, f, Len(dir))
  <2>1. Rested(S, dir, gone, Len(dir)) /\ Len(dir) <= Len(dir)
    BY <1>0, <1>3
  <2> QED BY <2>1 DEF Rested
<1>5. \A n \in 0 .. Len(dir) : f[n] = IF n = 0 THEN <<>>
                                        ELSE IF dir[n] \in gone THEN f[n - 1]
                                        ELSE Append(f[n - 1], dir[n])
  <2> SUFFICES ASSUME NEW n \in 0 .. Len(dir)
               PROVE  f[n] = IF n = 0 THEN <<>>
                             ELSE IF dir[n] \in gone THEN f[n - 1]
                             ELSE Append(f[n - 1], dir[n])
    OBVIOUS
  <2>1. CASE n = 0
    BY <1>4, <2>1 DEF From
  <2>2. CASE n # 0
    <3>1. n \in 1 .. Len(dir)
      BY <1>0, <2>2
    <3> QED BY <1>4, <2>2, <3>1 DEF From, Next1
  <2> QED BY <2>1, <2>2
<1>6. f = [n \in 0 .. Len(dir) |-> f[n]]
  BY <1>4 DEF From
<1>7. Rests(dir, gone, f)
  BY <1>5, <1>6 DEF Rests
<1> QED BY <1>7

\* No recording is twice in the directory.
Distinct(dir) == \A i, j \in DOMAIN dir : dir[i] = dir[j] => i = j

LEMMA AppendOne ==
  ASSUME NEW S, NEW r \in Seq(S), NEW x \in S
  PROVE  /\ Append(r, x) \in Seq(S) /\ ToSet(Append(r, x)) = ToSet(r) \cup {x}
         /\ Distinct(r) /\ x \notin ToSet(r) => Distinct(Append(r, x))
<1> DEFINE q == Append(r, x)
           n == Len(r)
<1>1. n \in Nat /\ DOMAIN r = 1 .. n
  OBVIOUS
<1>2. /\ q \in Seq(S) /\ Len(q) = n + 1 /\ q[n + 1] = x
      /\ \A i \in 1 .. n : q[i] = r[i]
  BY AppendProperties
<1>3. DOMAIN q = 1 .. n + 1
  BY <1>2, LenProperties
<1> HIDE DEF q, n
<1>4. 1 .. n + 1 = (1 .. n) \cup {n + 1} /\ n + 1 \notin 1 .. n
  BY <1>1
<1>5. ToSet(q) = ToSet(r) \cup {x}
  <2> DEFINE A == {q[i] : i \in 1 .. n}
  <2>1. ToSet(q) = A \cup {q[n + 1]}
    BY ONLY <1>3, <1>4, Zenon DEF ToSet
  <2>2. A = ToSet(r)
    BY ONLY <1>1, <1>2, Zenon DEF ToSet
  <2> QED BY <1>2, <2>1, <2>2
<1>6. Distinct(r) /\ x \notin ToSet(r) => Distinct(q)
  BY <1>1, <1>2, <1>3, <1>4 DEF Distinct, ToSet
<1> QED BY <1>2, <1>5, <1>6 DEF q

\* What is left is the rest, each once where each was once.
LEMMA WithoutThese ==
  ASSUME NEW S, NEW dir \in Seq(S), NEW gone
  PROVE  /\ Without(dir, gone) \in Seq(S)
         /\ ToSet(Without(dir, gone)) = ToSet(dir) \ gone
         /\ Distinct(dir) => Distinct(Without(dir, gone))
<1> DEFINE rest == CHOOSE rest : Rests(dir, gone, rest)
<1>1. Without(dir, gone) = rest[Len(dir)]
  BY DEF Without, Rests
<1>2. Rests(dir, gone, rest)
  BY RestsExist
<1> HIDE DEF rest
<1>0. Len(dir) \in Nat /\ DOMAIN dir = 1 .. Len(dir) /\ \A n \in 1 .. Len(dir) : dir[n] \in S
  OBVIOUS
<1>3. /\ rest[0] = <<>>
      /\ \A n \in 1 .. Len(dir) : rest[n] = IF dir[n] \in gone THEN rest[n - 1]
                                            ELSE Append(rest[n - 1], dir[n])
  <2> DEFINE Body(r) == [n \in 0 .. Len(dir) |-> IF n = 0 THEN <<>>
                                                 ELSE IF dir[n] \in gone THEN r[n - 1]
                                                 ELSE Append(r[n - 1], dir[n])]
  <2>1. rest = Body(rest)
    BY <1>2 DEF Rests
  <2>2. Body(rest)[0] = <<>>
    BY <1>0
  <2>3. ASSUME NEW n \in 1 .. Len(dir)
        PROVE  Body(rest)[n] = IF dir[n] \in gone THEN rest[n - 1] ELSE Append(rest[n - 1], dir[n])
    <3>1. n \in 0 .. Len(dir) /\ n # 0
      BY <1>0
    <3> QED BY <3>1
  <2> HIDE DEF Body
  <2> QED BY <2>1, <2>2, <2>3
<1> DEFINE Upto(k) == {dir[i] : i \in 1 .. k} \ gone
           Good(k) == /\ rest[k] \in Seq(S) /\ ToSet(rest[k]) = Upto(k)
                      /\ Distinct(dir) => Distinct(rest[k])
           T == {k \in Nat : k <= Len(dir) => Good(k)}
<1>4. Good(0)
  <2>1. rest[0] = <<>> /\ rest[0] \in Seq(S) /\ DOMAIN rest[0] = {} /\ 1 .. 0 = {}
    BY <1>3, EmptySeq
  <2> QED BY <2>1 DEF ToSet, Distinct
<1>5. ASSUME NEW k \in Nat, k + 1 <= Len(dir), Good(k)
      PROVE  Good(k + 1)
  <2>1. k + 1 \in 1 .. Len(dir) /\ (k + 1) - 1 = k /\ dir[k + 1] \in S
    BY <1>0, <1>5
  <2>2. 1 .. k + 1 = (1 .. k) \cup {k + 1}
    OBVIOUS
  <2>3. Upto(k + 1) = Upto(k) \cup ({dir[k + 1]} \ gone)
    BY <2>2
  <2>4. CASE dir[k + 1] \in gone
    <3>1. rest[k + 1] = rest[k]
      BY <1>3, <2>1, <2>4
    <3> QED BY <1>5, <2>3, <2>4, <3>1
  <2>5. CASE dir[k + 1] \notin gone
    <3> DEFINE r == rest[k]
               x == dir[k + 1]
    <3>1. rest[k + 1] = Append(r, x)
      BY <1>3, <2>1, <2>5
    <3>2. r \in Seq(S) /\ ToSet(r) = Upto(k) /\ (Distinct(dir) => Distinct(r)) /\ x \in S
      BY <1>5, <2>1
    <3>3. Distinct(dir) => x \notin Upto(k)
      BY <1>0, <2>1 DEF Distinct
    <3>4. Upto(k + 1) = Upto(k) \cup {x}
      BY <2>3, <2>5
    <3> HIDE DEF r, x, Upto
    <3>5. /\ Append(r, x) \in Seq(S) /\ ToSet(Append(r, x)) = ToSet(r) \cup {x}
          /\ Distinct(r) /\ x \notin ToSet(r) => Distinct(Append(r, x))
      BY <3>2, AppendOne
    <3> QED BY <3>1, <3>2, <3>3, <3>4, <3>5
  <2> QED BY <2>4, <2>5
<1> HIDE DEF Good
<1>6. 0 \in T /\ \A n \in Nat : n \in T => n + 1 \in T
  BY <1>0, <1>4, <1>5
<1>7. Good(Len(dir))
  <2> HIDE DEF T
  <2>1. Len(dir) \in T
    BY <1>0, <1>6, Inductive
  <2> QED BY <1>0, <2>1 DEF T
<1>8. Upto(Len(dir)) = ToSet(dir) \ gone
  BY <1>0 DEF ToSet
<1> QED BY <1>1, <1>7, <1>8 DEF Good

\* A prune takes none of those being recorded.
LEMMA PrunedThese ==
  ASSUME NEW S, NEW dir \in Seq(S), NEW active, NEW aside
  PROVE  /\ Pruned(dir, active, aside) \in Seq(S)
         /\ ToSet(Pruned(dir, active, aside)) \subseteq ToSet(dir)
         /\ ToSet(dir) \cap active \subseteq ToSet(Pruned(dir, active, aside))
         /\ Distinct(dir) => Distinct(Pruned(dir, active, aside))
<1> DEFINE candidates == Without(dir, active \cup {Last(dir)})
           After(k) == Without(dir, ToSet(SubSeq(candidates, 1, k)))
           enough == {k \in 0 .. Len(candidates) : Cardinality(ToSet(After(k)) \cup aside) <= Budget}
                     \cup {Len(candidates)}
           k0 == Min(enough)
<1>1. candidates \in Seq(S) /\ ToSet(candidates) \cap active = {}
  BY WithoutThese
<1>3. Pruned(dir, active, aside) = After(k0)
  BY DEF Pruned
<1> HIDE DEF candidates
<1>2. Len(candidates) \in Nat /\ DOMAIN candidates = 1 .. Len(candidates)
      /\ \A i \in 1 .. Len(candidates) : candidates[i] \in S
  BY <1>1
<1>4. k0 \in 0 .. Len(candidates)
  <2> HIDE DEF After
  <2>1. enough \subseteq 0 .. Len(candidates) /\ enough \subseteq Nat /\ enough # {}
    BY <1>2
  <2> HIDE DEF enough
  <2>2. \E x \in enough : \A y \in enough : x <= y
    BY <2>1, Least
  <2>3. Min(enough) \in enough
    BY <2>2 DEF Min
  <2> QED BY <2>1, <2>3
<1> HIDE DEF k0
<1> DEFINE taken == SubSeq(candidates, 1, k0)
<1>5. ToSet(taken) \cap active = {}
  <2>1. \A i \in 1 .. k0 : i \in 1 .. Len(candidates) /\ candidates[i] \in S
    BY <1>2, <1>4
  <2>2. taken \in Seq(S) /\ Len(taken) = k0 /\ \A i \in 1 .. k0 : taken[i] = candidates[i]
    BY <1>2, <1>4, <2>1 DEF taken
  <2>3. DOMAIN taken = 1 .. k0
    BY <2>2, LenProperties
  <2> HIDE DEF taken
  <2>4. ToSet(taken) \subseteq ToSet(candidates)
    BY <1>2, <2>1, <2>2, <2>3 DEF ToSet
  <2> QED BY <1>1, <2>4
<1>6. /\ After(k0) \in Seq(S) /\ ToSet(After(k0)) = ToSet(dir) \ ToSet(taken)
      /\ Distinct(dir) => Distinct(After(k0))
  BY WithoutThese
<1> QED BY <1>3, <1>5, <1>6

\* A write adds its recording, and takes none.
LEMMA WrittenThese ==
  ASSUME NEW dir \in Seq(Sessions), NEW s \in Sessions, NEW d \in Written(dir, s),
         Distinct(dir)
  PROVE  d \in Seq(Sessions) /\ ToSet(d) = ToSet(dir) \cup {s} /\ Distinct(d)
<1> DEFINE others == Without(dir, {s})
<1>1. others \in Seq(Sessions) /\ ToSet(others) = ToSet(dir) \ {s} /\ Distinct(others)
  BY WithoutThese
<1>2. \/ d = Append(others, s)
      \/ others # <<>> /\ d = Front(others) \o <<s, Last(others)>>
  BY DEF Written
<1> HIDE DEF others
<1>3. CASE d = Append(others, s)
  BY <1>1, <1>3, AppendOne
<1>4. CASE others # <<>> /\ d = Front(others) \o <<s, Last(others)>>
  <2> DEFINE f == Front(others)
             o == Last(others)
             n == Len(others)
  <2>1. n \in Nat \ {0} /\ DOMAIN others = 1 .. n /\ \A i \in 1 .. n : others[i] \in Sessions
    BY <1>1, <1>4, EmptySeq
  <2>2. f \in Seq(Sessions) /\ Len(f) = n - 1 /\ \A i \in 1 .. n - 1 : f[i] = others[i]
    BY <1>1, <2>1 DEF Front
  <2>3. o = others[n] /\ o \in Sessions
    BY <2>1 DEF Last
  <2>4. d = f \o <<s, o>>
    BY <1>4
  <2>5. n \in 1 .. n
    BY <2>1
  <2> HIDE DEF f, o, n
  <2>6. o \in ToSet(others)
    BY <2>1, <2>3, <2>5 DEF ToSet
  <2> DEFINE p == Append(f, s)
  <2>7. d = Append(p, o)
    BY <2>2, <2>3, <2>4
  <2>8. DOMAIN f = 1 .. n - 1
    BY <2>2, LenProperties
  <2>9. ToSet(f) = ToSet(others) \ {o} /\ o \notin ToSet(f) /\ Distinct(f)
    <3>1. 1 .. n = (1 .. n - 1) \cup {n} /\ n \notin 1 .. n - 1
      BY <2>1
    <3>2. \A i \in 1 .. n - 1 : others[i] # o
      <4> SUFFICES ASSUME NEW i \in 1 .. n - 1, others[i] = others[n]
                   PROVE  FALSE
        BY <2>3
      <4>1. i \in DOMAIN others /\ n \in DOMAIN others /\ i # n
        BY <2>1, <3>1
      <4> QED BY <1>1, <4>1 DEF Distinct
    <3>3. o \notin ToSet(f)
      BY <2>2, <2>8, <3>2 DEF ToSet
    <3>4. ToSet(others) = ToSet(f) \cup {o}
      <4>1. ToSet(f) = {others[i] : i \in 1 .. n - 1} /\ ToSet(others) = {others[i] : i \in 1 .. n}
        BY <2>1, <2>2, <2>8 DEF ToSet
      <4> DEFINE E == {others[i] : i \in 1 .. n - 1}
        <4>2. {others[i] : i \in 1 .. n} = E \cup {others[n]}
          BY ONLY <3>1, Zenon
        <4> QED BY ONLY <2>3, <4>1, <4>2, Zenon
    <3>5. Distinct(f)
      BY <1>1, <2>1, <2>2, <2>8, <3>1 DEF Distinct
    <3> QED BY <3>3, <3>4, <3>5
  <2>10. s \notin ToSet(f) /\ s # o
    <3>1. o \in ToSet(others)
      BY <2>6
    <3> QED BY <1>1, <2>9, <3>1
  <2>11. p \in Seq(Sessions) /\ ToSet(p) = ToSet(f) \cup {s} /\ Distinct(p)
    BY <2>2, <2>9, <2>10, AppendOne
  <2>12. o \notin ToSet(p) /\ o \in ToSet(others)
    <3>1. o \in ToSet(others)
      BY <2>6
    <3> QED BY <2>9, <2>10, <2>11, <3>1
  <2> HIDE DEF p
  <2>13. d \in Seq(Sessions) /\ ToSet(d) = ToSet(p) \cup {o} /\ Distinct(d)
    BY <2>3, <2>7, <2>11, <2>12, AppendOne
  <2> QED BY <1>1, <2>9, <2>11, <2>12, <2>13
<1> QED BY <1>2, <1>3, <1>4

\* The directory holds each recording once, and those being recorded; a queue is
\* within its backlog, and a worker within its retries.
DirInv == captures \in Seq(Sessions) /\ Distinct(captures) /\ recording \subseteq ToSet(captures)
BoundsInv ==
  \A l \in Lives : Len(queue[l]) <= Backlog /\ worker[l].tries <= Retries

LEMMA DirStep ==
  ASSUME Types, LoopInv, DirInv, [Next]_vars
  PROVE  DirInv'
<1>1. ASSUME NEW s \in Sessions, Opens(s)
      PROVE  DirInv'
  <2> DEFINE dir == Pruned(captures, recording, kept)
  <2>1. dir \in Seq(Sessions) /\ recording \subseteq ToSet(dir) /\ Distinct(dir)
    BY PrunedThese DEF DirInv
  <2>2. \/ captures' = dir /\ recording' = recording
        \/ captures' \in Written(dir, s) /\ recording' = recording \cup {s}
    BY <1>1 DEF Opens
  <2> HIDE DEF dir
  <2>3. CASE captures' \in Written(dir, s) /\ recording' = recording \cup {s}
    BY <2>1, <2>3, WrittenThese DEF DirInv
  <2> QED BY <2>1, <2>2, <2>3 DEF DirInv
<1>2. ASSUME NEW s \in Sessions, Records(s)
      PROVE  DirInv'
  <2> DEFINE rest == Without(captures, {s})
  <2>1. /\ rest \in Seq(Sessions) /\ ToSet(rest) = ToSet(captures) \ {s} /\ Distinct(rest)
    BY WithoutThese DEF DirInv
  <2>2. captures' = Append(rest, s) /\ recording' = recording
    BY <1>2 DEF Records, hook
  <2> HIDE DEF rest
  <2> QED BY <2>1, <2>2, AppendOne DEF DirInv
<1>3. ASSUME NEW s \in Sessions, Links(s)
      PROVE  DirInv'
  <2>1. captures' \in Written(captures, s) /\ recording' = recording \ {s}
    BY <1>3 DEF Links
  <2> QED BY <2>1, WrittenThese DEF DirInv
<1>4. ASSUME NEW s \in Sessions, Commits(s) \/ LinkFails(s)
      PROVE  DirInv'
  <2>1. (\E aside : captures' = Pruned(captures, recording, aside)) /\ recording' = recording
    BY <1>4 DEF Commits, LinkFails
  <2> QED BY <2>1, PrunedThese DEF DirInv
<1>5. ASSUME NEW s \in Sessions, Disowned(s)
      PROVE  DirInv'
  <2>1. PICK dir \in Written(captures, s) :
          captures' = Pruned(dir, recording', kept) /\ recording' = recording \ {s}
    BY <1>5 DEF Disowned
  <2>2. dir \in Seq(Sessions) /\ ToSet(dir) = ToSet(captures) \cup {s} /\ Distinct(dir)
    BY <2>1, WrittenThese DEF DirInv
  <2>3. /\ captures' \in Seq(Sessions) /\ Distinct(captures')
        /\ ToSet(dir) \cap recording' \subseteq ToSet(captures')
    BY <2>1, <2>2, PrunedThese
  <2> QED BY <2>1, <2>2, <2>3 DEF DirInv
<1>6. ASSUME recording' \in {recording, {}}, UNCHANGED captures
      PROVE  DirInv'
  BY <1>6 DEF DirInv
<1>7. ASSUME NEW s \in Sessions,
             \/ EndsEarly(s) \/ Closes(s) \/ ClosesBare(s) \/ ClosesIncomplete(s)
             \/ HandsOver(s) \/ TurnedAway(s) \/ Sweeps(s)
      PROVE  DirInv'
  <2>1. recording' = recording /\ UNCHANGED captures
    BY <1>7 DEF EndsEarly, Closes, ClosesBare, ClosesIncomplete, Closing, HandsOver, TurnedAway,
       Sweeps, disk
  <2> QED BY <1>6, <2>1
<1>8. ASSUME NEW l \in Lives, Works(l)
      PROVE  DirInv'
  <2>1. recording' = recording /\ UNCHANGED captures
    BY <1>8 DEF Works, Takes, Stops, TriesAgain, Fails, Lands, Referenced, BeginsTurn, FilesClip,
       EndsTurn, Uploads, Removes, Alone, disk, hook
  <2> QED BY <1>6, <2>1
<1>9. CASE Boots \/ SweepsAway \/ Serves \/ Retires \/ Leaves \/ Exits \/ UNCHANGED vars
  <2>1. recording' \in {recording, {}} /\ UNCHANGED captures
    BY <1>9 DEF Boots, SweepsAway, Serves, Retires, Leaves, Exits, vars, disk, hook
  <2> QED BY <1>6, <2>1
<1> QED BY <1>1, <1>2, <1>3, <1>4, <1>5, <1>7, <1>8, <1>9 DEF Next, Handler, Sweeping

LEMMA BoundsStep ==
  ASSUME Types, HandInv, BoundsInv, [Next]_vars
  PROVE  BoundsInv'
<1>0. queue \in [Lives -> Seq(Sessions)] /\ worker \in [Lives -> Worker] /\ WorkTypes
  BY DEF Types, WorkTypes
<1>1. ASSUME UNCHANGED queue,
             \A l \in Lives : worker'[l] = worker[l] \/ worker'[l].tries <= Retries
      PROVE  BoundsInv'
  BY <1>1 DEF BoundsInv
<1>2. Idle.tries = 0 /\ Ended.tries = 0 /\ Unstarted.tries = 0 /\ 0 <= Retries
  BY DEF Idle, Ended, Unstarted
<1>3. ASSUME NEW s \in Sessions, HandsOver(s) \/ TurnedAway(s)
      PROVE  BoundsInv'
  <2>1. life \in Lives /\ queue[life] \in Seq(Sessions)
    BY <1>3 DEF HandsOver, TurnedAway, Closing, In, Running, Types, LoopTypes, WorkTypes
  <2>2. \A l \in Lives : worker'[l] = worker[l] \/ worker'[l] = Idle
    BY <1>0, <1>3 DEF HandsOver, TurnedAway, Started
  <2>3. \A l \in Lives : worker'[l].tries <= Retries
    BY <1>2, <2>2 DEF BoundsInv
  <2>4. CASE queue' = [queue EXCEPT ![life] = Append(@, s)] /\ Len(queue[life]) < Backlog
    <3> DEFINE q == Append(queue[life], s)
    <3>1. Len(q) <= Backlog
      BY <2>1, <2>4, AppendProperties
    <3>2. queue' = [queue EXCEPT ![life] = q]
      BY <2>4
    <3> HIDE DEF q
    <3> QED BY <1>0, <2>1, <2>3, <3>1, <3>2 DEF BoundsInv
  <2>5. CASE UNCHANGED queue
    BY <2>3, <2>5 DEF BoundsInv
  <2> QED BY <1>3, <2>4, <2>5 DEF HandsOver, TurnedAway
<1>4. ASSUME NEW l \in Lives, Takes(l)
      PROVE  BoundsInv'
  <2> DEFINE w == [Idle EXCEPT !.at = "pair", !.job = Head(queue[l])]
             q == Tail(queue[l])
  <2>1. w.tries = 0
    BY DEF Idle
  <2>2. Len(q) <= Backlog
    BY <1>0, <1>4, HeadTailProperties DEF Takes, BoundsInv
  <2>3. worker' = [worker EXCEPT ![l] = w] /\ queue' = [queue EXCEPT ![l] = q]
    BY <1>4 DEF Takes, Becomes
  <2> HIDE DEF w, q
  <2> QED BY <1>0, <1>2, <2>1, <2>2, <2>3 DEF BoundsInv
<1>5. ASSUME NEW l \in Lives, NEW w, Becomes(l, w), w.tries <= Retries, UNCHANGED queue
      PROVE  BoundsInv'
  BY <1>0, <1>1, <1>5 DEF Becomes
<1>6. ASSUME NEW l \in Lives, Stops(l) \/ Removes(l)
      PROVE  BoundsInv'
  BY <1>2, <1>5, <1>6 DEF Stops, Removes
<1>7. ASSUME NEW l \in Lives, TriesAgain(l)
      PROVE  BoundsInv'
  <2> DEFINE n == worker[l].tries + 1
             w == [worker[l] EXCEPT !.tries = n]
  <2>1. n <= Retries /\ Becomes(l, w) /\ UNCHANGED queue
    BY <1>0, <1>7 DEF TriesAgain, Worker
  <2> HIDE DEF n
  <2>2. w.tries = n
    BY <1>0 DEF Worker
  <2> HIDE DEF w
  <2> QED BY <1>5, <2>1, <2>2
<1>8. ASSUME NEW l \in Lives, Fails(l)
      PROVE  BoundsInv'
  <2> DEFINE w == [Idle EXCEPT !.at = "said", !.job = worker[l].job]
  <2>1. w.tries = 0 /\ Becomes(l, w) /\ UNCHANGED queue
    BY <1>8 DEF Fails, Idle
  <2> HIDE DEF w
  <2> QED BY <1>2, <1>5, <2>1
<1>9. ASSUME NEW l \in Lives, Lands(l)
      PROVE  BoundsInv'
  <2> DEFINE w == [worker[l] EXCEPT !.at = "landed", !.tries = 0]
  <2>1. w.tries = 0 /\ Becomes(l, w) /\ UNCHANGED queue
    BY <1>0, <1>9 DEF Lands, Worker
  <2> HIDE DEF w
  <2> QED BY <1>2, <1>5, <2>1
<1>10. ASSUME NEW l \in Lives, Referenced(l)
       PROVE  BoundsInv'
  <2> DEFINE w == [worker[l] EXCEPT !.at = "clips", !.turn = 1]
  <2>1. w.tries = worker[l].tries /\ Becomes(l, w) /\ UNCHANGED queue
    BY <1>0, <1>10 DEF Referenced, Worker
  <2>2. worker[l].tries <= Retries
    BY DEF BoundsInv
  <2> HIDE DEF w
  <2> QED BY <1>5, <2>1, <2>2
<1>11. ASSUME NEW l \in Lives, Uploads(l)
       PROVE  BoundsInv'
  <2> DEFINE w == [worker[l] EXCEPT !.at = "said"]
  <2>1. w.tries = worker[l].tries /\ Becomes(l, w) /\ UNCHANGED queue
    BY <1>0, <1>11 DEF Uploads, Worker
  <2>2. worker[l].tries <= Retries
    BY DEF BoundsInv
  <2> HIDE DEF w
  <2> QED BY <1>5, <2>1, <2>2
\* Counting, and going to the next turn, leave the tries; the next clip has its own.
<1>12. ASSUME NEW w \in Worker
       PROVE  /\ NextTurn(w).tries = w.tries /\ NextClip(w).tries = 0
              /\ \A what, n : /\ NextTurn(Counted(w, what, n)).tries = w.tries
                             /\ NextClip(Counted(w, what, n)).tries = 0
                             /\ [NextClip(Counted(w, what, n)) EXCEPT !.at = "skips"].tries = 0
  BY DEF Counted, NextTurn, NextClip, Worker
<1>13. ASSUME NEW l \in Lives, NEW w, Becomes(l, w), w.tries \in {0, worker[l].tries},
              UNCHANGED queue
       PROVE  BoundsInv'
  <2>1. worker[l].tries <= Retries
    BY DEF BoundsInv
  <2> QED BY <1>2, <1>5, <1>13, <2>1
<1>14. ASSUME NEW l \in Lives, BeginsTurn(l)
       PROVE  BoundsInv'
  <2> DEFINE W == worker[l]
             c == ClipsOfTurn(l)
             Goes1 == NextTurn(Counted(W, "unfiled", c))
             Goes2 == NextTurn(Counted(W, "skipped", c))
  <2>1. \/ Becomes(l, NextClip(W)) \/ Becomes(l, Goes1) \/ Becomes(l, Goes2)
    BY <1>14 DEF BeginsTurn
  <2>2. NextClip(W).tries = 0 /\ Goes1.tries = W.tries /\ Goes2.tries = W.tries
    <3>1. W \in Worker
      BY <1>0
    <3> HIDE DEF W, c
    <3> QED BY ONLY <1>12, <3>1 DEF Goes1, Goes2
  <2>3. UNCHANGED queue
    BY <1>14 DEF BeginsTurn
  <2> HIDE DEF Goes1, Goes2
  <2> QED BY <1>13, <2>1, <2>2, <2>3
<1>15. ASSUME NEW l \in Lives, FilesClip(l)
       PROVE  BoundsInv'
  <2> DEFINE W == worker[l]
             Goes1 == NextClip([W EXCEPT !.landed = @ + 1])
             Goes2 == NextClip(Counted(W, "failed", 1))
             Goes3 == [NextClip(Counted(W, "failed", 1)) EXCEPT !.at = "skips"]
             Goes4 == NextClip(Counted(W, "skipped", 1))
  <2>1. \/ Becomes(l, Goes1) \/ Becomes(l, Goes2) \/ Becomes(l, Goes3) \/ Becomes(l, Goes4)
    BY <1>15 DEF FilesClip
  <2>2. W \in Worker
    BY <1>0
  <2>3. Goes1.tries = 0
    BY <2>2 DEF NextClip, Worker
  <2>4. Goes2.tries = 0 /\ Goes3.tries = 0 /\ Goes4.tries = 0
    <3> HIDE DEF W
    <3> QED BY ONLY <1>12, <2>2 DEF Goes2, Goes3, Goes4
  <2>5. UNCHANGED queue
    BY <1>15 DEF FilesClip
  <2> HIDE DEF Goes1, Goes2, Goes3, Goes4
  <2> QED BY <1>13, <2>1, <2>3, <2>4, <2>5
<1>16. ASSUME NEW l \in Lives, EndsTurn(l)
       PROVE  BoundsInv'
  <2> DEFINE W == worker[l]
             Ends(filed) == NextTurn(Counted(W, filed, W.landed))
  <2>1. PICK filed \in {"attached", "failed"} : Becomes(l, Ends(filed))
    BY <1>16 DEF EndsTurn
  <2>2. Ends(filed).tries = W.tries
    <3>1. W \in Worker
      BY <1>0
    <3> HIDE DEF W
    <3> QED BY ONLY <1>12, <3>1 DEF Ends
  <2>3. UNCHANGED queue
    BY <1>16 DEF EndsTurn
  <2> HIDE DEF Ends
  <2> QED BY <1>13, <2>1, <2>2, <2>3
<1>17. CASE Exits
  <2>1. \A l \in Lives : queue'[l] = <<>> /\ worker'[l] = Unstarted
    BY <1>17 DEF Exits
  <2>2. Len(<<>>) = 0 /\ 0 <= Backlog
    BY EmptySeq
  <2> QED BY <1>2, <2>1, <2>2 DEF BoundsInv
<1>18. ASSUME NEW s \in Sessions,
              \/ Opens(s) \/ Records(s) \/ EndsEarly(s) \/ Closes(s) \/ Links(s) \/ Commits(s)
              \/ LinkFails(s) \/ Disowned(s) \/ ClosesBare(s) \/ ClosesIncomplete(s) \/ Sweeps(s)
       PROVE  BoundsInv'
  <2>1. UNCHANGED <<queue, worker>>
    BY <1>18 DEF Opens, Records, EndsEarly, Closes, Links, Commits, LinkFails, Disowned,
       ClosesBare, ClosesIncomplete, Sweeps, workers
  <2> QED BY <1>1, <2>1
<1>19. CASE Boots \/ SweepsAway \/ Serves \/ Retires \/ Leaves \/ UNCHANGED vars
  <2>1. UNCHANGED <<queue, worker>>
    BY <1>19 DEF Boots, SweepsAway, Serves, Retires, Leaves, vars, workers
  <2> QED BY <1>1, <2>1
<1> QED BY <1>3, <1>4, <1>6, <1>7, <1>8, <1>9, <1>10, <1>11, <1>17, <1>18, <1>19,
   <1>14, <1>15, <1>16
   DEF Next, Handler, Works, Sweeping

\* The variables hold values of their types: the directory holds each recording once
\* and every one still being recorded, and no queue or retry is over its bound.
THEOREM TypeCorrect == Spec => []TypeOK
<1>1. Init => DirInv /\ BoundsInv
  <2> SUFFICES ASSUME Init
               PROVE  DirInv /\ BoundsInv
    OBVIOUS
  <2>1. captures = <<>> /\ recording = {} /\ captures \in Seq(Sessions) /\ DOMAIN captures = {}
    BY EmptySeq DEF Init
  <2>2. DirInv
    BY <2>1 DEF DirInv, Distinct
  <2>3. Len(<<>>) = 0 /\ Unstarted.tries = 0 /\ 0 <= Backlog /\ 0 <= Retries
    BY EmptySeq DEF Unstarted, Idle
  <2>4. BoundsInv
    BY <2>3 DEF BoundsInv, Init
  <2> QED BY <2>2, <2>4
<1>2. IInv /\ DirInv /\ BoundsInv /\ [Next]_vars => DirInv' /\ BoundsInv'
  BY DirStep, BoundsStep DEF IInv
<1>3. IInv /\ DirInv /\ BoundsInv => TypeOK
  <2> SUFFICES ASSUME IInv, DirInv, BoundsInv
               PROVE  TypeOK
    OBVIOUS
  <2>1. Cardinality(ToSet(captures)) = Len(captures)
    <3> DEFINE n == Len(captures)
    <3>1. n \in Nat /\ DOMAIN captures = 1 .. n /\ captures \in [1 .. n -> Sessions]
      BY LenProperties DEF DirInv
    <3>2. captures \in Bijection(1 .. n, ToSet(captures))
      BY <3>1 DEF DirInv, Distinct, ToSet, Bijection, Injection, Surjection, IsInjective
    <3>3. IsFiniteSet(1 .. n) /\ Cardinality(1 .. n) = n
      <4>1. 1 \in Int /\ n \in Int /\ n >= 0 /\ (1 > n => n = 0) /\ n - 1 + 1 = n
        BY <3>1
      <4> HIDE DEF n
      <4> QED BY ONLY <4>1, FS_Interval
    <3>4. ExistsBijection(1 .. n, ToSet(captures))
      BY <3>2 DEF ExistsBijection
    <3> QED BY <3>3, <3>4, FS_Bijection
  <2>2. ASSUME NEW l \in Lives
        PROVE  /\ Len(queue[l]) <= Backlog /\ queue[l] \in Seq(Sessions)
               /\ worker[l].at \in {"none", "idle", "pair", "landed", "clips", "skips", "said", "ended"}
               /\ worker[l].job \in Sessions \cup {Nobody} /\ worker[l].tries \in 0 .. Retries
    BY DEF IInv, Types, WorkTypes, BoundsInv, Worker, WorkerStates, Working
  <2> QED BY <2>1, <2>2 DEF TypeOK, IInv, Types, LoopTypes, DirInv
<1> QED BY <1>1, <1>2, <1>3, CapturesInvariant, PTL DEF Spec

-----------------------------------------------------------------------------
(* The counts of a job.                                                    *)

\* The clips of a job behind a place in it: of the turns before, and the clips
\* before of the turn itself.
Passed(s, t, c) == {p \in ClipsOf(s) : p[1] < t \/ (p[1] = t /\ p[2] < c)}

\* How far a worker can be in its job, and what it has counted by then: a clip
\* that landed is in no count before its turn ends.
Placed(w) ==
  /\ w.at \in {"pair", "landed"} => w.clip = 0 /\ w.landed = 0 /\ w.filed = NothingFiled
  /\ w.at \in {"clips", "skips"} =>
       /\ w.turn \in 1 .. Len(Clips[w.job]) + 1
       /\ w.turn <= Len(Clips[w.job]) => w.clip <= Clips[w.job][w.turn] + 1
       /\ w.turn > Len(Clips[w.job]) => w.clip = 0
       /\ w.clip = 0 => w.landed = 0
       /\ Reported(w) + w.landed = Cardinality(Passed(w.job, w.turn, w.clip))
Exact(l) ==
  worker[l].at = "said" /\ outcome[worker[l].job] = "uploaded" =>
    Reported(worker[l]) = Cardinality(ClipsOf(worker[l].job))
ClipsInv == \A l \in Lives : Placed(worker[l]) /\ Exact(l)

\* The clips of a job are finitely many, and each is a turn's.
LEMMA ClipsFinite ==
  ASSUME NEW s \in Sessions
  PROVE  /\ Clips[s] \in Seq(Nat \ {0}) /\ DOMAIN Clips[s] = 1 .. Len(Clips[s])
         /\ Len(Clips[s]) \in Nat
         /\ \A t \in 1 .. Len(Clips[s]) : Clips[s][t] \in Nat \ {0}
         /\ IsFiniteSet(ClipsOf(s)) /\ Cardinality(ClipsOf(s)) \in Nat
         /\ \A p : p \in ClipsOf(s) <=>
              \E t \in 1 .. Len(Clips[s]) : \E c \in 1 .. Clips[s][t] : p = <<t, c>>
<1> DEFINE D == DOMAIN Clips[s]
           f == [t \in D |-> {t} \X (1 .. Clips[s][t])]
           parts == {{t} \X (1 .. Clips[s][t]) : t \in D}
<1>1. /\ Clips[s] \in Seq(Nat \ {0}) /\ D = 1 .. Len(Clips[s]) /\ Len(Clips[s]) \in Nat
      /\ \A t \in D : Clips[s][t] \in Nat \ {0}
  OBVIOUS
<1>2. IsFiniteSet(D)
  BY <1>1, FS_Interval
<1>3. f \in Surjection(D, parts)
  BY DEF Surjection
<1>4. IsFiniteSet(parts)
  BY <1>2, <1>3, FS_Surjection
<1>5. \A T \in parts : IsFiniteSet(T)
  <2> SUFFICES ASSUME NEW t \in D
               PROVE  IsFiniteSet({t} \X (1 .. Clips[s][t]))
    OBVIOUS
  <2>1. 1 \in Int /\ Clips[s][t] \in Int
    BY <1>1
  <2>2. IsFiniteSet({t}) /\ IsFiniteSet(1 .. Clips[s][t])
    BY <2>1, FS_Singleton, FS_Interval
  <2> QED BY <2>2, FS_Product
<1>6. ClipsOf(s) = UNION parts
  BY DEF ClipsOf
<1>7. IsFiniteSet(ClipsOf(s))
  BY <1>4, <1>5, <1>6, FS_UNION
<1>8. Cardinality(ClipsOf(s)) \in Nat
  BY <1>7, FS_CardinalityType
<1>9. \A p : p \in ClipsOf(s) <=>
         \E t \in D : \E c \in 1 .. Clips[s][t] : p = <<t, c>>
  BY DEF ClipsOf
<1> QED BY <1>1, <1>7, <1>8, <1>9

\* The clips behind a place grow by one with a clip, and by a turn's with a turn.
LEMMA PassedGrows ==
  ASSUME NEW s \in Sessions
  PROVE  /\ Passed(s, 1, 0) = {}
         /\ Passed(s, Len(Clips[s]) + 1, 0) = ClipsOf(s)
         /\ \A t \in 1 .. Len(Clips[s]) :
              /\ Passed(s, t, 1) = Passed(s, t, 0)
              /\ Passed(s, t + 1, 0) = Passed(s, t, Clips[s][t] + 1)
              /\ Cardinality(Passed(s, t + 1, 0)) = Cardinality(Passed(s, t, 0)) + Clips[s][t]
              /\ \A c \in 1 .. Clips[s][t] :
                   Cardinality(Passed(s, t, c + 1)) = Cardinality(Passed(s, t, c)) + 1
<1>1. /\ Len(Clips[s]) \in Nat /\ \A t \in 1 .. Len(Clips[s]) : Clips[s][t] \in Nat \ {0}
      /\ IsFiniteSet(ClipsOf(s))
      /\ \A p : p \in ClipsOf(s) <=>
           \E t \in 1 .. Len(Clips[s]) : \E c \in 1 .. Clips[s][t] : p = <<t, c>>
  BY ClipsFinite
<1>2. \A p \in ClipsOf(s) : p[1] \in 1 .. Len(Clips[s]) /\ p[2] \in 1 .. Clips[s][p[1]]
  BY <1>1
<1>3. Passed(s, 1, 0) = {}
  BY <1>1, <1>2 DEF Passed
<1>4. Passed(s, Len(Clips[s]) + 1, 0) = ClipsOf(s)
  BY <1>1, <1>2 DEF Passed
<1>5. ASSUME NEW t \in 1 .. Len(Clips[s])
      PROVE  /\ Passed(s, t, 1) = Passed(s, t, 0)
             /\ Passed(s, t + 1, 0) = Passed(s, t, Clips[s][t] + 1)
             /\ Cardinality(Passed(s, t + 1, 0)) = Cardinality(Passed(s, t, 0)) + Clips[s][t]
             /\ \A c \in 1 .. Clips[s][t] :
                  Cardinality(Passed(s, t, c + 1)) = Cardinality(Passed(s, t, c)) + 1
  <2>1. Passed(s, t, 1) = Passed(s, t, 0)
    BY <1>1, <1>2 DEF Passed
  <2>2. Passed(s, t + 1, 0) = Passed(s, t, Clips[s][t] + 1)
    BY <1>1, <1>2 DEF Passed
  <2> DEFINE row == {t} \X (1 .. Clips[s][t])
  <2>3. Passed(s, t + 1, 0) = Passed(s, t, 0) \cup row
    <3>1. row \subseteq ClipsOf(s)
      BY <1>1
    <3>2. \A p \in row : p[1] = t
      OBVIOUS
    <3>3. \A p \in ClipsOf(s) : p[1] = t => p \in row
      BY <1>1
    <3>4. ASSUME NEW p \in ClipsOf(s)
          PROVE  p[1] < t + 1 <=> (p[1] < t \/ p[1] = t)
      BY <1>2
    <3>5. ASSUME NEW p \in ClipsOf(s)
          PROVE  ~(p[1] = t + 1 /\ p[2] < 0) /\ ~(p[1] = t /\ p[2] < 0)
      BY <1>1, <1>2
    <3> QED BY <3>1, <3>2, <3>3, <3>4, <3>5, Zenon DEF Passed
  <2>4. Passed(s, t, 0) \cap row = {}
    BY <1>1, <1>2 DEF Passed
  <2>5. IsFiniteSet(row) /\ Cardinality(row) = Clips[s][t]
    <3>1. IsFiniteSet({t}) /\ Cardinality({t}) = 1
      BY FS_Singleton
    <3>2. 1 \in Int /\ Clips[s][t] \in Int /\ ~(1 > Clips[s][t])
          /\ Clips[s][t] - 1 + 1 = Clips[s][t]
      BY <1>1
    <3> DEFINE n == Clips[s][t]
    <3> HIDE DEF n
    <3>3. IsFiniteSet(1 .. n) /\ Cardinality(1 .. n) = n
      BY <3>2, FS_Interval, Zenon DEF n
    <3>4. /\ IsFiniteSet({t} \X (1 .. n))
          /\ Cardinality({t} \X (1 .. n)) = Cardinality({t}) * Cardinality(1 .. n)
      BY <3>1, <3>3, FS_Product
    <3>5. Cardinality({t} \X (1 .. n)) = n
      BY <3>1, <3>2, <3>3, <3>4 DEF n
    <3> QED BY <3>4, <3>5 DEF n
  <2>6. \A k, c : Passed(s, k, c) \in SUBSET ClipsOf(s)
    BY DEF Passed
  <2>7. \A k, c : IsFiniteSet(Passed(s, k, c)) /\ Cardinality(Passed(s, k, c)) \in Nat
    BY <1>1, <2>6, FS_Subset, FS_CardinalityType
  <2>8. Cardinality(Passed(s, t + 1, 0)) = Cardinality(Passed(s, t, 0)) + Clips[s][t]
    <3>1. Cardinality(Passed(s, t, 0) \cup row)
            = Cardinality(Passed(s, t, 0)) + Cardinality(row) - Cardinality(Passed(s, t, 0) \cap row)
      BY <2>5, <2>7, FS_Union
    <3>2. Cardinality(Passed(s, t, 0) \cap row) = 0
      BY <2>4, FS_EmptySet
    <3> HIDE DEF row
    <3>3. Cardinality(Passed(s, t, 0)) \in Nat /\ Cardinality(row) \in Nat
      BY <1>1, <2>5, <2>7
    <3>4. Cardinality(Passed(s, t, 0) \cup row) = Cardinality(Passed(s, t, 0)) + Cardinality(row)
      BY <3>1, <3>2, <3>3
    <3> QED BY <2>3, <2>5, <3>4
  <2>9. ASSUME NEW c \in 1 .. Clips[s][t]
        PROVE  Cardinality(Passed(s, t, c + 1)) = Cardinality(Passed(s, t, c)) + 1
    <3>1. <<t, c>> \in ClipsOf(s)
      BY <1>1
    <3>2. Passed(s, t, c + 1) = Passed(s, t, c) \cup {<<t, c>>}
      BY <1>1, <1>2, <3>1 DEF Passed
    <3>3. <<t, c>> \notin Passed(s, t, c)
      BY <1>1 DEF Passed
    <3> QED BY <2>7, <3>2, <3>3, FS_AddElement
  <2> QED BY <2>1, <2>2, <2>8, <2>9
<1> QED BY <1>3, <1>4, <1>5

\* What the steps of a worker do to its counts and its place.
Kinds == {"attached", "unfiled", "failed", "skipped"}
LEMMA CountedMore ==
  ASSUME NEW w \in Worker, NEW what \in Kinds, NEW n \in Nat
  PROVE  /\ Counted(w, what, n) \in Worker
         /\ Counted(w, what, n).at = w.at /\ Counted(w, what, n).job = w.job
         /\ Counted(w, what, n).turn = w.turn
         /\ Reported(Counted(w, what, n)) = Reported(w) + n
         /\ Counted(w, what, n).clip = w.clip /\ Counted(w, what, n).landed = w.landed
<1>1. w.filed \in Counts
  BY DEF Worker
<1>2. Counted(w, what, n).filed = [w.filed EXCEPT ![what] = @ + n]
  BY DEF Counted, Worker
<1>3. Counted(w, what, n).clip = w.clip /\ Counted(w, what, n).landed = w.landed
  BY DEF Counted, Worker
<1> DEFINE f == [w.filed EXCEPT ![what] = @ + n]
<1>4. f.attached + f.unfiled + f.failed + f.skipped
        = w.filed.attached + w.filed.unfiled + w.filed.failed + w.filed.skipped + n
  <2>1. CASE what = "attached"
    BY <1>1, <2>1 DEF Counts
  <2>2. CASE what = "unfiled"
    BY <1>1, <2>2 DEF Counts
  <2>3. CASE what = "failed"
    BY <1>1, <2>3 DEF Counts
  <2>4. CASE what = "skipped"
    BY <1>1, <2>4 DEF Counts
  <2> QED BY <2>1, <2>2, <2>3, <2>4 DEF Kinds
<1>5. /\ Counted(w, what, n) \in Worker
      /\ Counted(w, what, n).at = w.at /\ Counted(w, what, n).job = w.job
      /\ Counted(w, what, n).turn = w.turn
  <2>1. CASE what = "attached"
    BY <2>1, CountedTyped
  <2>2. CASE what = "unfiled"
    BY <2>2, CountedTyped
  <2>3. CASE what = "failed"
    BY <2>3, CountedTyped
  <2>4. CASE what = "skipped"
    BY <2>4, CountedTyped
  <2> QED BY <2>1, <2>2, <2>3, <2>4 DEF Kinds
<1> QED BY <1>2, <1>3, <1>4, <1>5 DEF Reported

LEMMA NextMoves ==
  ASSUME NEW w \in Worker
  PROVE  /\ NextTurn(w).clip = 0 /\ NextTurn(w).landed = 0
         /\ Reported(NextTurn(w)) = Reported(w)
         /\ NextClip(w).clip = w.clip + 1 /\ NextClip(w).landed = w.landed
         /\ Reported(NextClip(w)) = Reported(w)
         /\ Reported(w) \in Nat
<1>1. NextTurn(w).clip = 0 /\ NextTurn(w).landed = 0 /\ NextTurn(w).filed = w.filed
  BY DEF NextTurn, Worker
<1>2. NextClip(w).clip = w.clip + 1 /\ NextClip(w).landed = w.landed
      /\ NextClip(w).filed = w.filed
  BY DEF NextClip, Worker
<1>3. w.filed \in Counts
  BY DEF Worker
<1>4. Reported(w) \in Nat
  BY <1>3 DEF Reported, Counts
<1> QED BY <1>1, <1>2, <1>4 DEF Reported

\* A step of one worker, which leaves its job quiet.
LEMMA ClipsMove ==
  ASSUME WorkTypes, ClipsInv, NEW l \in Lives, NEW w \in Worker, Becomes(l, w),
         Placed(w), w.at # "said", UNCHANGED outcome
  PROVE  ClipsInv'
<1> SUFFICES ASSUME NEW k \in Lives
             PROVE  Placed(worker'[k]) /\ Exact(k)'
  BY DEF ClipsInv, Placed, Reported
<1>1. worker'[l] = w /\ \A m \in Lives : m # l => worker'[m] = worker[m]
  BY DEF Becomes, WorkTypes
<1>2. Placed(worker[k]) /\ Exact(k)
  BY DEF ClipsInv
<1>3. CASE k = l
  BY <1>1, <1>3 DEF Exact
<1>4. CASE k # l
  BY <1>1, <1>2, <1>4 DEF Exact
<1> QED BY <1>3, <1>4

\* A step of anybody else, or the end of a job or of a worker.
LEMMA ClipsFrame ==
  ASSUME ClipsInv,
         \A l \in Lives : worker'[l] = worker[l] \/ worker'[l].at \in {"none", "idle", "ended"},
         \A l \in Lives : worker[l].at = "said" =>
                           outcome'[worker[l].job] = outcome[worker[l].job]
  PROVE  ClipsInv'
<1> SUFFICES ASSUME NEW k \in Lives
             PROVE  Placed(worker'[k]) /\ Exact(k)'
  BY DEF ClipsInv, Placed, Reported
<1>1. Placed(worker[k]) /\ Exact(k)
  BY DEF ClipsInv
<1>2. CASE worker'[k] = worker[k]
  BY <1>1, <1>2 DEF Exact
<1>3. CASE worker'[k].at \in {"none", "idle", "ended"}
  BY <1>3 DEF Exact, Placed
<1> QED BY <1>2, <1>3

\* What a worker says of its job is said of no other's.
LEMMA ClipsSaid ==
  ASSUME Types, HandInv, ClipsInv, NEW l \in Lives, NEW w \in Worker, Becomes(l, w),
         worker[l].at \in Working, w.at = "said", NEW what, Says(worker[l].job, what),
         w.job = worker[l].job,
         what = "uploaded" => Reported(w) = Cardinality(ClipsOf(w.job))
  PROVE  ClipsInv'
<1> SUFFICES ASSUME NEW k \in Lives
             PROVE  Placed(worker'[k]) /\ Exact(k)'
  BY DEF ClipsInv, Placed, Reported
<1>1. worker'[l] = w /\ \A m \in Lives : m # l => worker'[m] = worker[m]
  BY DEF Becomes, Types, WorkTypes
<1>2. Placed(worker[k]) /\ Exact(k)
  BY DEF ClipsInv
<1>3. worker[l].job \in Sessions /\ home[worker[l].job] = l
  BY DEF HandInv, Busy, Handed
<1>4. outcome' = [outcome EXCEPT ![worker[l].job] = what] /\ outcome'[worker[l].job] = what
  BY <1>3 DEF Says, Types, LoopTypes
<1>5. CASE k = l
  BY <1>1, <1>4, <1>5 DEF Exact, Placed
<1>6. CASE k # l
  <2>1. worker[k].at = "said" => worker[k].job \in Sessions /\ home[worker[k].job] = k
    BY DEF HandInv, Busy, Handed
  <2>2. worker[k].at = "said" => outcome'[worker[k].job] = outcome[worker[k].job]
    BY <1>3, <1>4, <1>6, <2>1 DEF Types, LoopTypes
  <2> QED BY <1>1, <1>2, <1>6, <2>2 DEF Exact
<1> QED BY <1>5, <1>6

\* Where a worker is among the clips of its job.
LEMMA AmongClips ==
  ASSUME Types, HandInv, ClipsInv, NEW l \in Lives, worker[l].at \in {"clips", "skips"}
  PROVE  /\ worker[l] \in Worker /\ worker[l].job \in Sessions
         /\ worker[l].turn \in Nat /\ worker[l].clip \in Nat /\ worker[l].landed \in Nat
         /\ Reported(worker[l]) \in Nat /\ Placed(worker[l])
         /\ Len(Turns(l)) \in Nat
         /\ InTurns(l) => /\ worker[l].turn \in 1 .. Len(Clips[worker[l].job])
                          /\ ClipsOfTurn(l) = Clips[worker[l].job][worker[l].turn]
                          /\ ClipsOfTurn(l) \in Nat \ {0}
<1>1. worker[l] \in Worker /\ worker[l].job \in Sessions /\ worker[l].turn >= 1
  BY JobOf DEF Working
<1>2. worker[l].turn \in Nat /\ worker[l].clip \in Nat /\ worker[l].landed \in Nat
  BY <1>1 DEF Worker
<1>3. Reported(worker[l]) \in Nat
  BY <1>1, NextMoves
<1>4. Placed(worker[l])
  BY DEF ClipsInv
<1>5. /\ Len(Clips[worker[l].job]) \in Nat
      /\ \A t \in 1 .. Len(Clips[worker[l].job]) : Clips[worker[l].job][t] \in Nat \ {0}
  BY <1>1, ClipsFinite
<1>6. InTurns(l) => /\ worker[l].turn \in 1 .. Len(Clips[worker[l].job])
                    /\ ClipsOfTurn(l) = Clips[worker[l].job][worker[l].turn]
  BY <1>1, <1>2, <1>5 DEF InTurns, Turns, ClipsOfTurn
<1> QED BY <1>1, <1>2, <1>3, <1>4, <1>5, <1>6 DEF Turns

LEMMA BeginsPlaced ==
  ASSUME Types, HandInv, ClipsInv, NEW l \in Lives, BeginsTurn(l)
  PROVE  ClipsInv'
<1> DEFINE w == worker[l]
           s == w.job
           t == w.turn
           C == ClipsOfTurn(l)
<1>0. w.at \in {"clips", "skips"} /\ InTurns(l) /\ w.clip = 0
  BY DEF BeginsTurn, InTurns
<1>1. /\ w \in Worker /\ s \in Sessions /\ t \in 1 .. Len(Clips[s]) /\ C \in Nat /\ C # 0
      /\ C = Clips[s][t] /\ Reported(w) \in Nat /\ Placed(w) /\ Len(Clips[s]) \in Nat
      /\ w.landed \in Nat /\ w.job = s /\ w.turn = t
  BY <1>0, AmongClips DEF Turns
<1>b. \/ Becomes(l, NextClip(w))
      \/ \E what \in {"unfiled", "skipped"} : Becomes(l, NextTurn(Counted(w, what, C)))
  BY DEF BeginsTurn
<1> HIDE DEF w, s, t, C
<1>2. w.landed = 0 /\ Reported(w) = Cardinality(Passed(s, t, 0))
  BY <1>0, <1>1 DEF Placed
<1>3. /\ Passed(s, t, 1) = Passed(s, t, 0)
      /\ Cardinality(Passed(s, t + 1, 0)) = Cardinality(Passed(s, t, 0)) + C
  BY <1>1, PassedGrows
<1>4. UNCHANGED outcome /\ WorkTypes
  BY DEF BeginsTurn, seen, Types
<1>5. CASE Becomes(l, NextClip(w))
  <2>1. /\ NextClip(w) \in Worker /\ NextClip(w).at = w.at /\ NextClip(w).job = s
        /\ NextClip(w).turn = t
        /\ NextClip(w).clip = 1 /\ NextClip(w).landed = 0
        /\ Reported(NextClip(w)) = Reported(w)
    BY <1>0, <1>1, <1>2, NextClipTyped, NextMoves
  <2>2. Placed(NextClip(w))
    BY <1>0, <1>1, <1>2, <1>3, <2>1 DEF Placed
  <2> QED BY <1>0, <1>4, <1>5, <2>1, <2>2, ClipsMove
<1>6. ASSUME NEW what \in Kinds, Becomes(l, NextTurn(Counted(w, what, C)))
      PROVE  ClipsInv'
  <2> DEFINE v == Counted(w, what, C)
             u == NextTurn(v)
  <2>1. /\ v \in Worker /\ v.at = w.at /\ v.job = s /\ v.turn = t
        /\ Reported(v) = Reported(w) + C
    <3>1. w \in Worker /\ C \in Nat
      BY <1>1
    <3>2. v \in Worker
      BY ONLY <3>1, CountedMore, Zenon
    <3>3. v.at = w.at /\ v.job = w.job /\ v.turn = w.turn
      BY ONLY <3>1, CountedMore, Zenon
    <3>4. Reported(v) = Reported(w) + C
      BY ONLY <3>1, CountedMore, Zenon
    <3> QED BY <1>1, <3>2, <3>3, <3>4
  <2> HIDE DEF v
  <2>2. /\ u \in Worker /\ u.at = w.at /\ u.job = s /\ u.turn = t + 1
        /\ u.clip = 0 /\ u.landed = 0 /\ Reported(u) = Reported(v)
    BY <2>1, NextTurnTyped, NextMoves
  <2>3. Becomes(l, u)
    BY <1>6 DEF v
  <2> HIDE DEF u
  <2>4. Placed(u)
    BY <1>0, <1>1, <1>2, <1>3, <2>1, <2>2 DEF Placed
  <2> QED BY <1>0, <1>4, <2>2, <2>3, <2>4, ClipsMove
<1> QED BY <1>b, <1>5, <1>6 DEF Kinds

LEMMA FilesPlaced ==
  ASSUME Types, HandInv, ClipsInv, NEW l \in Lives, FilesClip(l)
  PROVE  ClipsInv'
<1> DEFINE w == worker[l]
           s == w.job
           t == w.turn
           c == w.clip
<1>0. w.at \in {"clips", "skips"} /\ InTurns(l) /\ c \in 1 .. ClipsOfTurn(l)
  BY DEF FilesClip, AtClip, InTurns
<1>1. /\ w \in Worker /\ s \in Sessions /\ t \in 1 .. Len(Clips[s])
      /\ c \in 1 .. Clips[s][t] /\ Clips[s][t] \in Nat
      /\ Reported(w) \in Nat /\ Placed(w) /\ Len(Clips[s]) \in Nat /\ w.landed \in Nat
  BY <1>0, AmongClips DEF Turns
<1>a. /\ w.job = s /\ w.turn = t /\ w.clip = c
      /\ \/ Becomes(l, NextClip([w EXCEPT !.landed = @ + 1]))
         \/ \E what \in {"failed", "skipped"} : Becomes(l, NextClip(Counted(w, what, 1)))
         \/ Becomes(l, [NextClip(Counted(w, "failed", 1)) EXCEPT !.at = "skips"])
  BY DEF FilesClip
<1> HIDE DEF w, s, t, c
<1>2. Reported(w) + w.landed = Cardinality(Passed(s, t, c))
  BY <1>0, <1>1, <1>a DEF Placed
<1>3. Cardinality(Passed(s, t, c + 1)) = Reported(w) + w.landed + 1
  BY <1>1, <1>2, PassedGrows
<1>4. UNCHANGED outcome /\ WorkTypes
  BY DEF FilesClip, seen, Types
\* One clip more has landed, or is in a count, and the next is the next.
<1>5. ASSUME NEW u \in Worker, u.at \in {"clips", "skips"}, u.job = s, u.turn = t,
             u.clip = c + 1, Reported(u) + u.landed = Reported(w) + w.landed + 1
      PROVE  Placed(u)
  BY <1>1, <1>3, <1>5, SMTT(30) DEF Placed
<1>6. CASE Becomes(l, NextClip([w EXCEPT !.landed = @ + 1]))
  <2> DEFINE n == w.landed + 1
             v == [w EXCEPT !.landed = n]
             u == NextClip(v)
  <2>1. n \in Nat /\ Becomes(l, u)
    <3>1. w.landed + 1 \in Nat
      BY <1>1
    <3> QED BY <1>6, <3>1
  <2> HIDE DEF n
  <2>2. /\ v \in Worker /\ v.at = w.at /\ v.job = s /\ v.turn = t /\ v.clip = c
        /\ v.landed = n /\ v.filed = w.filed
    BY <1>1, <1>a, <2>1 DEF Worker
  <2> HIDE DEF v
  <2>3. /\ u \in Worker /\ u.at = w.at /\ u.job = s /\ u.turn = t /\ u.clip = c + 1
        /\ u.landed = n /\ Reported(u) = Reported(v)
    BY <2>2, NextClipTyped, NextMoves
  <2> HIDE DEF u
  <2>4. Reported(u) + u.landed = Reported(w) + w.landed + 1
    BY <1>1, <2>2, <2>3 DEF Reported, n
  <2>5. Placed(u)
    BY <1>0, <1>5, <2>3, <2>4
  <2> QED BY <1>0, <1>4, <2>1, <2>3, <2>5, ClipsMove
<1>7. ASSUME NEW what \in Kinds
      PROVE  LET u == NextClip(Counted(w, what, 1))
             IN  /\ u \in Worker /\ u.at = w.at /\ u.job = s /\ u.turn = t /\ u.clip = c + 1
                 /\ Reported(u) + u.landed = Reported(w) + w.landed + 1
  <2> DEFINE v == Counted(w, what, 1)
  <2>1. /\ v \in Worker /\ v.at = w.at /\ v.job = s /\ v.turn = t /\ v.clip = c
        /\ v.landed = w.landed /\ Reported(v) = Reported(w) + 1
    <3>1. w \in Worker /\ 1 \in Nat
      BY <1>1
    <3>2. v \in Worker
      BY ONLY <3>1, CountedMore, Zenon
    <3>3. v.at = w.at /\ v.job = w.job /\ v.turn = w.turn
      BY ONLY <3>1, CountedMore, Zenon
    <3>4. Reported(v) = Reported(w) + 1 /\ v.clip = w.clip /\ v.landed = w.landed
      BY ONLY <3>1, CountedMore, Zenon
    <3> QED BY <1>a, <3>2, <3>3, <3>4
  <2> HIDE DEF v
  <2>2. /\ NextClip(v) \in Worker /\ NextClip(v).at = w.at /\ NextClip(v).job = s
        /\ NextClip(v).turn = t /\ NextClip(v).clip = c + 1
        /\ NextClip(v).landed = w.landed /\ Reported(NextClip(v)) = Reported(w) + 1
    BY <2>1, NextClipTyped, NextMoves
  <2>3. Reported(NextClip(v)) + NextClip(v).landed = Reported(w) + w.landed + 1
    BY <1>1, <2>2
  <2> QED BY <2>2, <2>3 DEF v
<1>8. ASSUME NEW what \in Kinds, Becomes(l, NextClip(Counted(w, what, 1)))
      PROVE  ClipsInv'
  <2> DEFINE u == NextClip(Counted(w, what, 1))
  <2>1. /\ u \in Worker /\ u.at = w.at /\ u.job = s /\ u.turn = t /\ u.clip = c + 1
        /\ Reported(u) + u.landed = Reported(w) + w.landed + 1
    BY <1>7
  <2>2. Becomes(l, u)
    BY <1>8
  <2> HIDE DEF u
  <2>3. Placed(u)
    BY <1>0, <1>5, <2>1
  <2> QED BY <1>0, <1>4, <2>1, <2>2, <2>3, ClipsMove
<1>9. CASE Becomes(l, [NextClip(Counted(w, "failed", 1)) EXCEPT !.at = "skips"])
  <2> DEFINE v == NextClip(Counted(w, "failed", 1))
             u == [v EXCEPT !.at = "skips"]
  <2>1. /\ v \in Worker /\ v.job = s /\ v.turn = t /\ v.clip = c + 1
        /\ Reported(v) + v.landed = Reported(w) + w.landed + 1
    BY <1>7 DEF Kinds
  <2>2. Becomes(l, u)
    BY <1>9
  <2> HIDE DEF v
  <2>3. /\ u \in Worker /\ u.at = "skips" /\ u.job = s /\ u.turn = t /\ u.clip = c + 1
        /\ u.filed = v.filed /\ u.landed = v.landed
    BY <2>1 DEF Worker, WorkerStates, Working
  <2> HIDE DEF u
  <2>4. Reported(u) + u.landed = Reported(w) + w.landed + 1
    BY <2>1, <2>3 DEF Reported
  <2>5. Placed(u)
    BY <1>5, <2>3, <2>4
  <2> QED BY <1>4, <2>2, <2>3, <2>5, ClipsMove
<1> QED BY <1>a, <1>6, <1>8, <1>9 DEF Kinds

LEMMA EndsPlaced ==
  ASSUME Types, HandInv, ClipsInv, NEW l \in Lives, EndsTurn(l)
  PROVE  ClipsInv'
<1> DEFINE w == worker[l]
           s == w.job
           t == w.turn
<1>0. w.at \in {"clips", "skips"} /\ InTurns(l) /\ w.clip > ClipsOfTurn(l)
  BY DEF EndsTurn, InTurns
<1>1. /\ w \in Worker /\ s \in Sessions /\ t \in 1 .. Len(Clips[s])
      /\ w.clip > Clips[s][t] /\ Clips[s][t] \in Nat /\ w.clip \in Nat
      /\ Reported(w) \in Nat /\ Placed(w) /\ Len(Clips[s]) \in Nat /\ w.landed \in Nat
      /\ w.job = s /\ w.turn = t
  BY <1>0, AmongClips DEF Turns
<1>b. \E what \in {"attached", "failed"} : Becomes(l, NextTurn(Counted(w, what, w.landed)))
  BY DEF EndsTurn
<1> HIDE DEF w, s, t
<1>2. w.clip = Clips[s][t] + 1 /\ Reported(w) + w.landed = Cardinality(Passed(s, t, w.clip))
  BY <1>0, <1>1 DEF Placed
<1>3. Reported(w) + w.landed = Cardinality(Passed(s, t + 1, 0))
  BY <1>1, <1>2, PassedGrows
<1>4. UNCHANGED outcome /\ WorkTypes
  BY DEF EndsTurn, seen, Types
<1>5. PICK what \in {"attached", "failed"} : Becomes(l, NextTurn(Counted(w, what, w.landed)))
  BY <1>b
<1>c. what \in Kinds
  BY DEF Kinds
<1> DEFINE v == Counted(w, what, w.landed)
           u == NextTurn(v)
<1>6. /\ v \in Worker /\ v.at = w.at /\ v.job = s /\ v.turn = t
      /\ Reported(v) = Reported(w) + w.landed
  <2>1. w \in Worker /\ w.landed \in Nat
    BY <1>1
  <2>2. v \in Worker /\ Reported(v) = Reported(w) + w.landed
    BY ONLY <1>c, <2>1, CountedMore, Zenon
  <2>3. v.at = w.at /\ v.job = w.job /\ v.turn = w.turn
    BY ONLY <1>c, <2>1, CountedMore, Zenon
  <2> QED BY <1>1, <2>2, <2>3
<1> HIDE DEF v
<1>7. /\ u \in Worker /\ u.at = w.at /\ u.job = s /\ u.turn = t + 1
      /\ u.clip = 0 /\ u.landed = 0 /\ Reported(u) = Reported(v)
  BY <1>6, NextTurnTyped, NextMoves
<1>8. Becomes(l, u)
  BY <1>5 DEF v
<1> HIDE DEF u
<1>9. Placed(u)
  BY <1>0, <1>1, <1>3, <1>6, <1>7, SMTT(30) DEF Placed
<1> QED BY <1>0, <1>4, <1>7, <1>8, <1>9, ClipsMove

\* The counts of a worker are exact wherever it is.
LEMMA ClipsStep ==
  ASSUME Types, LoopInv, HandInv, SweepInv, ClipsInv, [Next]_vars
  PROVE  ClipsInv'
<1>0. \A l \in Lives : worker[l].at = "said" =>
        worker[l].job \in Sessions /\ session[worker[l].job] = "closed"
  BY DEF HandInv, Busy, Handed
<1>1. ASSUME NEW s \in Sessions,
             \/ Opens(s) \/ Records(s) \/ EndsEarly(s) \/ Closes(s) \/ Links(s) \/ Commits(s)
             \/ Disowned(s) \/ Sweeps(s) \/ ClosesBare(s)
      PROVE  ClipsInv'
  <2>1. UNCHANGED <<worker, outcome>>
    BY <1>1 DEF Opens, Records, EndsEarly, Closes, Links, Commits, Disowned, Sweeps,
       ClosesBare, workers, seen
  <2> QED BY <2>1, ClipsFrame
<1>2. ASSUME NEW s \in Sessions, LinkFails(s) \/ ClosesIncomplete(s)
      PROVE  ClipsInv'
  <2>1. UNCHANGED worker
    BY <1>2 DEF LinkFails, ClosesIncomplete, workers
  <2>2. session[s] \in {"open", "closing"}
    BY <1>2 DEF LinkFails, ClosesIncomplete, Closing, In, LoopInv
  <2>3. \A x \in Sessions : x # s => outcome'[x] = outcome[x]
    BY <1>2 DEF LinkFails, ClosesIncomplete, Says, Types, LoopTypes
  <2> QED BY <1>0, <2>1, <2>2, <2>3, ClipsFrame
<1>3. ASSUME NEW s \in Sessions, HandsOver(s) \/ TurnedAway(s)
      PROVE  ClipsInv'
  <2>1. session[s] = "closing"
    BY <1>3 DEF HandsOver, TurnedAway, Closing
  <2>2. \A x \in Sessions : x # s => outcome'[x] = outcome[x]
    BY <1>3 DEF HandsOver, TurnedAway, Says, Types, LoopTypes
  <2>3. \A l \in Lives : worker'[l] = worker[l] \/ worker'[l] = Idle
    BY <1>3 DEF HandsOver, TurnedAway, Started, Types, WorkTypes
  <2>4. \A l \in Lives : worker'[l] = worker[l] \/ worker'[l].at = "idle"
    BY <2>3 DEF Idle
  <2> QED BY <1>0, <2>1, <2>2, <2>4, ClipsFrame
<1>4. ASSUME NEW l \in Lives, Stops(l) \/ Removes(l)
      PROVE  ClipsInv'
  <2>1. \A k \in Lives : worker'[k] = worker[k] \/ worker'[k].at \in {"idle", "ended"}
    BY <1>4 DEF Stops, Removes, Becomes, Ended, Idle, Types, WorkTypes
  <2>2. UNCHANGED outcome
    BY <1>4 DEF Stops, Removes, seen
  <2> QED BY <2>1, <2>2, ClipsFrame
<1>5. ASSUME NEW l \in Lives, Takes(l)
      PROVE  ClipsInv'
  <2> DEFINE w == [Idle EXCEPT !.at = "pair", !.job = Head(queue[l])]
  <2>1. Head(queue[l]) \in Sessions /\ Becomes(l, w) /\ UNCHANGED outcome /\ WorkTypes
    BY <1>5 DEF Takes, Types, WorkTypes, seen
  <2>2. w \in Worker
    BY <2>1, IdleTyped DEF WorkerStates, Working
  <2>3. w.at = "pair" /\ w.clip = 0 /\ w.landed = 0 /\ w.filed = NothingFiled
    BY DEF Idle
  <2> HIDE DEF w
  <2>4. Placed(w)
    BY <2>3 DEF Placed
  <2> QED BY <2>1, <2>2, <2>3, <2>4, ClipsMove
<1>6. ASSUME NEW l \in Lives, TriesAgain(l)
      PROVE  ClipsInv'
  <2> DEFINE n == worker[l].tries + 1
             w == [worker[l] EXCEPT !.tries = n]
  <2>1. n \in Nat /\ worker[l] \in Worker /\ worker[l].at \in Working /\ UNCHANGED outcome
        /\ WorkTypes /\ Becomes(l, w) /\ Placed(worker[l])
    <3>1. worker[l] \in Worker /\ WorkTypes /\ Placed(worker[l])
      BY DEF Types, WorkTypes, ClipsInv
    <3>2. worker[l].at \in Working /\ UNCHANGED outcome
      BY <1>6 DEF TriesAgain, At, Working, seen
    <3>3. worker[l].tries + 1 \in Nat
      BY <3>1 DEF Worker
    <3>4. Becomes(l, w)
      BY <1>6 DEF TriesAgain
    <3> QED BY <3>1, <3>2, <3>3, <3>4
  <2> HIDE DEF n
  <2>2. /\ w \in Worker /\ w.at = worker[l].at /\ w.job = worker[l].job
        /\ w.turn = worker[l].turn /\ w.clip = worker[l].clip
        /\ w.landed = worker[l].landed /\ w.filed = worker[l].filed
    BY <2>1 DEF Worker
  <2> HIDE DEF w
  <2>3. Placed(w) /\ w.at # "said"
    BY <2>1, <2>2 DEF Placed, Reported, Working
  <2> QED BY <2>1, <2>2, <2>3, ClipsMove
<1>7. ASSUME NEW l \in Lives, Fails(l)
      PROVE  ClipsInv'
  <2> DEFINE w == [Idle EXCEPT !.at = "said", !.job = worker[l].job]
  <2>1. worker[l].at \in Working /\ worker[l].job \in Sessions /\ Becomes(l, w)
    BY <1>7, JobOf DEF Fails, Working
  <2>2. PICK what \in {"failed", "lost"} : Says(worker[l].job, what)
    BY <1>7 DEF Fails
  <2>3. w \in Worker /\ w.at = "said" /\ w.job = worker[l].job
    BY <2>1, IdleTyped DEF WorkerStates, Idle
  <2> HIDE DEF w
  <2> QED BY <2>1, <2>2, <2>3, ClipsSaid
<1>8. ASSUME NEW l \in Lives, Lands(l)
      PROVE  ClipsInv'
  <2> DEFINE w == [worker[l] EXCEPT !.at = "landed", !.tries = 0]
  <2>1. worker[l] \in Worker /\ UNCHANGED outcome /\ WorkTypes /\ Becomes(l, w)
        /\ worker[l].at = "pair" /\ Placed(worker[l])
    BY <1>8 DEF Lands, At, Types, WorkTypes, ClipsInv
  <2>2. /\ w \in Worker /\ w.at = "landed" /\ w.clip = worker[l].clip
        /\ w.landed = worker[l].landed /\ w.filed = worker[l].filed
    BY <2>1 DEF Worker, WorkerStates, Working
  <2> HIDE DEF w
  <2>3. Placed(w)
    BY <2>1, <2>2 DEF Placed
  <2> QED BY <2>1, <2>2, <2>3, ClipsMove
<1>9. ASSUME NEW l \in Lives, Referenced(l)
      PROVE  ClipsInv'
  <2> DEFINE n == 1
             w == [worker[l] EXCEPT !.at = "clips", !.turn = n]
  <2>1. worker[l] \in Worker /\ UNCHANGED outcome /\ WorkTypes /\ Becomes(l, w) /\ n = 1
        /\ worker[l].at = "landed" /\ Placed(worker[l]) /\ worker[l].job \in Sessions
    <3>1. worker[l] \in Worker /\ WorkTypes /\ Placed(worker[l])
      BY DEF Types, WorkTypes, ClipsInv
    <3>2. worker[l].at = "landed" /\ UNCHANGED outcome
      BY <1>9 DEF Referenced, At, seen
    <3>3. worker[l].job \in Sessions
      BY <3>2, JobOf DEF Working
    <3>4. Becomes(l, w)
      BY <1>9 DEF Referenced
    <3> QED BY <3>1, <3>2, <3>3, <3>4
  <2> HIDE DEF n
  <2>2. /\ w \in Worker /\ w.at = "clips" /\ w.job = worker[l].job /\ w.turn = 1
        /\ w.clip = worker[l].clip /\ w.landed = worker[l].landed /\ w.filed = worker[l].filed
    BY <2>1 DEF Worker, WorkerStates, Working
  <2> HIDE DEF w
  <2>3. w.clip = 0 /\ w.landed = 0 /\ w.filed = NothingFiled
    BY <2>1, <2>2 DEF Placed
  <2>4. Reported(w) = 0
    BY <2>3 DEF Reported, NothingFiled
  <2>5. Passed(w.job, 1, 0) = {} /\ Cardinality({}) = 0
    BY <2>1, <2>2, PassedGrows, FS_EmptySet
  <2>6. /\ Len(Clips[w.job]) \in Nat
        /\ \A t \in 1 .. Len(Clips[w.job]) : Clips[w.job][t] \in Nat \ {0}
    BY <2>1, <2>2, ClipsFinite
  <2> DEFINE N == Len(Clips[w.job])
  <2>7. 1 \in 1 .. N + 1 /\ (1 > N => w.clip = 0)
    BY <2>3, <2>6
  <2>8. 1 <= N => w.clip <= Clips[w.job][1] + 1
    BY <2>3, <2>6
  <2> HIDE DEF N
  <2>9. Reported(w) + w.landed = Cardinality(Passed(w.job, 1, w.clip))
    <3>1. Passed(w.job, 1, w.clip) = {}
      BY <2>3, <2>5
    <3>2. Cardinality(Passed(w.job, 1, w.clip)) = 0
      BY <2>5, <3>1, Zenon
    <3> QED BY <2>3, <2>4, <3>2
  <2>10. Placed(w)
    BY <2>2, <2>3, <2>7, <2>8, <2>9 DEF Placed, N
  <2> QED BY <2>1, <2>2, <2>10, ClipsMove
<1>10. ASSUME NEW l \in Lives, Uploads(l)
       PROVE  ClipsInv'
  <2> DEFINE w == worker[l]
             u == [w EXCEPT !.at = "said"]
  <2>1. w.at \in {"clips", "skips"} /\ w.turn > Len(Turns(l)) /\ Becomes(l, u)
        /\ Says(w.job, "uploaded")
    BY <1>10 DEF Uploads
  <2>2. /\ w \in Worker /\ w.job \in Sessions /\ Placed(w) /\ Reported(w) \in Nat
        /\ Len(Clips[w.job]) \in Nat /\ w.turn > Len(Clips[w.job]) /\ w.turn \in Nat
        /\ w.landed \in Nat
    BY <2>1, AmongClips DEF Turns
  <2> HIDE DEF w
  <2>3. w.turn = Len(Clips[w.job]) + 1 /\ w.clip = 0 /\ w.landed = 0
    <3> DEFINE N == Len(Clips[w.job])
    <3>1. w.turn \in 1 .. N + 1 /\ (w.turn > N => w.clip = 0) /\ (w.clip = 0 => w.landed = 0)
      BY <2>1, <2>2 DEF Placed
    <3> HIDE DEF N
    <3> QED BY <2>2, <3>1 DEF N
  <2>4. Reported(w) = Cardinality(Passed(w.job, Len(Clips[w.job]) + 1, 0))
    BY <2>1, <2>2, <2>3 DEF Placed
  <2>5. Reported(w) = Cardinality(ClipsOf(w.job))
    BY <2>2, <2>4, PassedGrows
  <2>6. u \in Worker /\ u.at = "said" /\ u.job = w.job /\ u.filed = w.filed
    BY <2>2 DEF Worker, WorkerStates
  <2> HIDE DEF u
  <2>7. Reported(u) = Cardinality(ClipsOf(u.job)) /\ w.at \in Working
    BY <2>1, <2>5, <2>6 DEF Reported, Working
  <2> QED BY <2>1, <2>6, <2>7, ClipsSaid DEF w
<1>11. CASE Exits
  <2>1. \A l \in Lives : worker'[l].at = "none"
    BY <1>11 DEF Exits, Unstarted, Idle
  <2>2. UNCHANGED outcome
    BY <1>11 DEF Exits, seen
  <2> QED BY <2>1, <2>2, ClipsFrame
<1>12. CASE Boots \/ SweepsAway \/ Serves \/ Retires \/ Leaves \/ UNCHANGED vars
  <2>1. UNCHANGED <<worker, outcome>>
    BY <1>12 DEF Boots, SweepsAway, Serves, Retires, Leaves, vars, workers, seen
  <2> QED BY <2>1, ClipsFrame
<1> QED BY <1>1, <1>2, <1>3, <1>4, <1>5, <1>6, <1>7, <1>8, <1>9, <1>10, <1>11, <1>12,
   BeginsPlaced, FilesPlaced, EndsPlaced DEF Next, Handler, Works, Sweeping

\* Every clip of a job is in exactly one count of its report (`_file_turns`).
THEOREM ClipsCounted == Spec => []ClipsAccounted
<1>1. Init => ClipsInv
  BY DEF Init, ClipsInv, Placed, Exact, Unstarted, Idle
<1>2. IInv /\ ClipsInv /\ [Next]_vars => ClipsInv'
  BY ClipsStep DEF IInv
<1>3. ClipsInv => ClipsAccounted
  BY DEF ClipsInv, Exact, ClipsAccounted
<1> QED BY <1>1, <1>2, <1>3, CapturesInvariant, PTL DEF Spec
=============================================================================
