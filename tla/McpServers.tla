---------------------------- MODULE McpServers ----------------------------
(***************************************************************************)
(* The MCP servers of one process: a manager per referenced entry           *)
(* (tools/mcp/manager.py `McpServerManager`), the registry of those a       *)
(* session reaches (tools/mcp/registry.py `McpServers`) and the apply that  *)
(* replaces them (tools/mcp/reload.py `apply`).                             *)
(*                                                                         *)
(* Everything runs on one event loop, so an action is what a task does      *)
(* between two awaits. Each connection lives in a task of its own, the run; *)
(* a manager may see several, one after another. A far side answers,        *)
(* refuses, breaks off or lets no unwinding finish, at its own choice.      *)
(***************************************************************************)
EXTENDS Integers, FiniteSets

CONSTANTS
  Entries,    \* the mcp_servers entries
  MaxWorlds,  \* bound: worlds composed, the boot's included
  MaxRuns,    \* bound: connections one manager attempts
  MaxStuck    \* bound: unwindings a far side holds up

ASSUME EntriesAssumption == IsFiniteSet(Entries)
ASSUME WorldsAssumption == MaxWorlds \in Nat \ {0}
ASSUME RunsAssumption == MaxRuns \in Nat \ {0}
ASSUME StuckAssumption == MaxStuck \in Nat

VARIABLES
  phase,      \* serving, or where the apply or the shutdown is
  world,      \* worlds composed so far
  installed,  \* McpServers._managers: per entry the world that built it, 0 for none
  candidate,  \* the managers the apply in progress is about to install
  task,       \* McpServerManager._task, 0 for none
  run,        \* per manager, where each of its runs is
  stop,       \* McpServerManager._stop
  up,         \* the run McpServerManager._session came from, 0 for none
  settled,    \* McpServerManager._settled
  calls,      \* the sessions tool calls are out on
  stopper,    \* per manager, where the stop that takes it away is
  held,       \* the run that stop is waiting for
  abandoned   \* manager.py `abandoned`

servers == <<phase, world, installed, candidate>>
manager == <<task, run, stop, up, settled>>
stops == <<stopper, held, abandoned>>
vars == <<servers, manager, calls, stops>>

\* The manager a world built for an entry, and the runs of a manager.
Managers == Entries \X (1..MaxWorlds)
Runs == 1..MaxRuns

Ending == {"failing", "closing", "stuck"}
Live == {"created", "connecting", "capturing", "waiting"} \cup Ending
RunStates == {"none", "done"} \cup Live
StopStates == {"no", "asked", "waiting", "cancelling", "unbounded", "over"}

\* The manager an entry has in a mapping, and all of a mapping's managers.
Of(mapping, e) == <<e, mapping[e]>>
In(mapping) == {Of(mapping, e) : e \in {f \in Entries : mapping[f] # 0}}

\* What an apply takes away, and what it starts.
Going == In(installed) \ In(candidate)
Arriving == In(candidate) \ In(installed)

\* The boot starts the managers of its first world the way an apply starts
\* those of a later one: nobody reaches them before all have settled.
Init ==
  /\ phase = "stopping" /\ world = 1
  /\ installed = [e \in Entries |-> 0]
  /\ candidate \in [Entries -> {0, 1}]
  /\ task = [m \in Managers |-> 0]
  /\ run = [m \in Managers |-> [k \in Runs |-> "none"]]
  /\ stop = [m \in Managers |-> FALSE]
  /\ up = [m \in Managers |-> 0]
  /\ settled = [m \in Managers |-> FALSE]
  /\ calls = {}
  /\ stopper = [m \in Managers |-> "no"]
  /\ held = [m \in Managers |-> 0]
  /\ abandoned = {}

-----------------------------------------------------------------------------
(* One run: `McpServerManager._run`.                                       *)

Becomes(m, k, state) == run' = [run EXCEPT ![m][k] = state]

\* `_run` begins by clearing the stop, whoever set it.
RunBegins(m, k) ==
  /\ run[m][k] = "created"
  /\ Becomes(m, k, "connecting")
  /\ stop' = [stop EXCEPT ![m] = FALSE]
  /\ UNCHANGED <<servers, task, up, settled, calls, stops>>

\* The handshake and the listing are in: published, with no await between the
\* tools and the session.
Connects(m, k) ==
  /\ run[m][k] = "connecting"
  /\ Becomes(m, k, "capturing")
  /\ up' = [up EXCEPT ![m] = k]
  /\ UNCHANGED <<servers, task, stop, settled, calls, stops>>

\* A refused or timed out connect, and a transport whose own tasks die under
\* the connection. The exit stack unwinds before the handler says anything.
Fails(m, k) ==
  /\ run[m][k] \in {"connecting", "capturing", "waiting"}
  /\ Becomes(m, k, "failing")
  /\ UNCHANGED <<servers, task, stop, up, settled, calls, stops>>

\* What the server ships is captured inside its deadline, and the start is told.
Captured(m, k) ==
  /\ run[m][k] = "capturing"
  /\ Becomes(m, k, "waiting")
  /\ settled' = [settled EXCEPT ![m] = TRUE]
  /\ UNCHANGED <<servers, task, stop, up, calls, stops>>

Wakes(m, k) ==
  /\ run[m][k] = "waiting" /\ stop[m]
  /\ Becomes(m, k, "closing")
  /\ UNCHANGED <<servers, task, stop, up, settled, calls, stops>>

\* A far side that will not let go, and a cleanup that suppresses its
\* cancellation.
Sticks(m, k) ==
  /\ run[m][k] \in {"failing", "closing"}
  /\ Cardinality({r \in Managers \X Runs : run[r[1]][r[2]] = "stuck"}) < MaxStuck
  /\ Becomes(m, k, "stuck")
  /\ UNCHANGED <<servers, task, stop, up, settled, calls, stops>>

\* The exit stack is unwound: the `finally`, and `_forget` for a run nobody
\* awaits.
Unwound(m, k) ==
  /\ run[m][k] \in Ending
  /\ Becomes(m, k, "done")
  /\ up' = [up EXCEPT ![m] = 0]
  /\ settled' = [settled EXCEPT ![m] = TRUE]
  /\ abandoned' = abandoned \ {<<m, k>>}
  /\ UNCHANGED <<servers, task, stop, calls, stopper, held>>

-----------------------------------------------------------------------------
(* Sessions and their calls.                                               *)

Serving == phase \in {"serving", "stopping", "starting"}

\* A manager's runs are numbered as they come; `_begin` for a set of managers.
Follows(m, k) == run[m][k] = "none" /\ \A j \in 1..(k - 1) : run[m][j] # "none"

Begin(ms) ==
  \E next \in [ms -> Runs] :
    /\ \A m \in ms : Follows(m, next[m])
    /\ task' = [m \in Managers |-> IF m \in ms THEN next[m] ELSE task[m]]
    /\ run' = [m \in Managers |->
         IF m \in ms THEN [run[m] EXCEPT ![next[m]] = "created"] ELSE run[m]]
    /\ settled' = [m \in Managers |-> settled[m] /\ m \notin ms]

\* Mutant of Attended: a run that is still at it is not asked about.
AttendedWhenUp(m) == up[m] # 0

\* `ensure_reconnecting`'s early return: up, or a run is at it already.
Attended(m) == up[m] # 0 \/ (task[m] # 0 /\ run[m][task[m]] # "done")

\* A session opens and revives an entry it may reach that is down.
Revive(e) ==
  LET m == Of(installed, e) IN
  /\ Serving /\ installed[e] # 0
  /\ ~Attended(m)
  /\ Begin({m})
  /\ UNCHANGED <<servers, stop, up, calls, stops>>

\* A tool call goes out on whatever session the entry's manager holds now.
CallGoes(e) ==
  LET m == Of(installed, e) IN
  /\ Serving /\ installed[e] # 0 /\ up[m] # 0
  /\ calls' = calls \cup {<<m, up[m]>>}
  /\ UNCHANGED <<servers, manager, stops>>

\* The last call out on a session has its answer, or its reply was cut.
CallOver(m, k) ==
  /\ <<m, k>> \in calls
  /\ calls' = calls \ {<<m, k>>}
  /\ UNCHANGED <<servers, manager, stops>>

\* `_mark_down`: the connection that is up now goes, whichever session the
\* failed call was out on. Others may still be out on it.
CallFails(m, k) ==
  /\ <<m, k>> \in calls
  /\ calls' \in {calls, calls \ {<<m, k>>}}
  /\ up' = [up EXCEPT ![m] = 0]
  /\ stop' = [stop EXCEPT ![m] = TRUE]
  /\ UNCHANGED <<servers, task, run, settled, stops>>

-----------------------------------------------------------------------------
(* The apply: stops, then starts, then the swap.                           *)

\* Mutant of Apply: the new managers are taken for the running world's.
ApplyUncounted ==
  /\ phase = "serving" /\ world < MaxWorlds
  /\ \E wanted \in SUBSET Entries : \E same \in SUBSET {e \in wanted : installed[e] # 0} :
       candidate' = [e \in Entries |->
         IF e \in same THEN installed[e] ELSE IF e \in wanted THEN world + 1 ELSE 0]
  /\ phase' = "stopping"
  /\ stopper' = [m \in Managers |->
       IF m \in In(installed) \ In(candidate') THEN "asked" ELSE stopper[m]]
  /\ UNCHANGED <<world, installed, manager, calls, held, abandoned>>

\* Any entries may be referenced next; a manager whose entry and credentials
\* read the same is kept.
Apply ==
  /\ phase = "serving" /\ world < MaxWorlds
  /\ world' = world + 1
  /\ \E wanted \in SUBSET Entries : \E same \in SUBSET {e \in wanted : installed[e] # 0} :
       candidate' = [e \in Entries |->
         IF e \in same THEN installed[e] ELSE IF e \in wanted THEN world + 1 ELSE 0]
  /\ phase' = "stopping"
  /\ stopper' = [m \in Managers |->
       IF m \in In(installed) \ In(candidate') THEN "asked" ELSE stopper[m]]
  /\ UNCHANGED <<installed, manager, calls, held, abandoned>>

\* `stop`: the event is set, and the task is taken off the manager.
TakesTask(m, wait) ==
  /\ stop' = [stop EXCEPT ![m] = TRUE]
  /\ held' = [held EXCEPT ![m] = task[m]]
  /\ task' = [task EXCEPT ![m] = 0]
  /\ stopper' = [stopper EXCEPT ![m] = IF task[m] = 0 THEN "over" ELSE wait]
  /\ UNCHANGED <<servers, run, up, settled, calls, abandoned>>

StopBegins(m) == stopper[m] = "asked" /\ TakesTask(m, "waiting")

StopEnds(m) ==
  /\ stopper[m] \in {"waiting", "cancelling", "unbounded"}
  /\ run[m][held[m]] = "done"
  /\ stopper' = [stopper EXCEPT ![m] = "over"]
  /\ UNCHANGED <<servers, manager, calls, held, abandoned>>

\* Mutant of StopTimesOut: the stop answers without seeing the cancellation out.
StopTimesOutUnseen(m) ==
  /\ stopper[m] = "waiting"
  /\ run[m][held[m]] \in Live \ {"created"}
  /\ stopper' = [stopper EXCEPT ![m] = "over"]
  /\ Becomes(m, held[m], IF run[m][held[m]] = "stuck" THEN "stuck" ELSE "closing")
  /\ UNCHANGED <<servers, task, stop, up, settled, calls, held, abandoned>>

\* STOP_TIMEOUT_S: the run is cancelled, wherever it is past its first step.
StopTimesOut(m) ==
  /\ stopper[m] = "waiting"
  /\ run[m][held[m]] \in Live \ {"created"}
  /\ stopper' = [stopper EXCEPT ![m] = "cancelling"]
  /\ Becomes(m, held[m], IF run[m][held[m]] = "stuck" THEN "stuck" ELSE "closing")
  /\ UNCHANGED <<servers, task, stop, up, settled, calls, held, abandoned>>

\* Mutant of StopGivesUp: the cancellation is taken for granted, as before the
\* second bound.
StopGivesUpNever(m) ==
  /\ stopper[m] = "cancelling"
  /\ run[m][held[m]] = "done"
  /\ stopper' = [stopper EXCEPT ![m] = "over"]
  /\ UNCHANGED <<servers, manager, calls, held, abandoned>>

\* CANCEL_TIMEOUT_S: `_abandon`.
StopGivesUp(m) ==
  /\ stopper[m] = "cancelling"
  /\ run[m][held[m]] # "done"
  /\ stopper' = [stopper EXCEPT ![m] = "over"]
  /\ abandoned' = abandoned \cup {<<m, held[m]>>}
  /\ UNCHANGED <<servers, manager, calls, held>>

\* Nothing is started before everything going has been stopped.
StopsOver ==
  /\ phase = "stopping"
  /\ \A m \in Going : stopper[m] = "over"
  /\ phase' = "starting"
  /\ Begin(Arriving)
  /\ UNCHANGED <<world, installed, candidate, stop, up, calls, stops>>

\* `_install`, once every start has been told its manager settled.
Swap ==
  /\ phase = "starting"
  /\ \A m \in Arriving : settled[m]
  /\ phase' = "serving"
  /\ installed' = candidate
  /\ UNCHANGED <<world, candidate, manager, calls, stops>>

-----------------------------------------------------------------------------
(* The way out: `stop_all`, behind the drain that ended every session.      *)

StopAll ==
  /\ phase = "serving"
  /\ calls = {}
  /\ \A m \in Managers, k \in Runs : run[m][k] # "created"
  /\ phase' = "closing"
  /\ UNCHANGED <<world, installed, candidate, manager, calls, stops>>

\* One at a time, and with no bound.
StopNext(e) ==
  LET m == Of(installed, e) IN
  /\ phase = "closing" /\ installed[e] # 0
  /\ stopper[m] = "no"
  /\ \A n \in In(installed) : stopper[n] # "unbounded"
  /\ TakesTask(m, "unbounded")

-----------------------------------------------------------------------------
Next ==
  \/ \E m \in Managers :
       \/ \E k \in Runs :
            \/ RunBegins(m, k) \/ Connects(m, k) \/ Fails(m, k) \/ Captured(m, k)
            \/ Wakes(m, k) \/ Sticks(m, k) \/ Unwound(m, k)
            \/ CallOver(m, k) \/ CallFails(m, k)
       \/ StopBegins(m) \/ StopEnds(m) \/ StopTimesOut(m) \/ StopGivesUp(m)
  \/ \E e \in Entries : Revive(e) \/ CallGoes(e) \/ StopNext(e)
  \/ Apply \/ StopsOver \/ Swap \/ StopAll

Spec == Init /\ [][Next]_vars

\* The loop runs what is ready; a connect, a capture and a stop have their
\* deadlines, and an unwinding that nothing holds up ends. Nobody is bound to
\* open a session, to call, or to let go of what is stuck.
Fairness ==
  /\ \A m \in Managers :
       /\ \A k \in Runs :
            /\ WF_vars(RunBegins(m, k))
            /\ WF_vars(Connects(m, k) \/ Fails(m, k))
            /\ WF_vars(Captured(m, k) \/ Fails(m, k))
            /\ WF_vars(Wakes(m, k))
            /\ WF_vars(run[m][k] # "stuck" /\ Unwound(m, k))
       /\ WF_vars(StopBegins(m)) /\ WF_vars(StopEnds(m))
       /\ WF_vars(StopTimesOut(m)) /\ WF_vars(StopGivesUp(m))
  /\ \A e \in Entries : WF_vars(StopNext(e))
  /\ WF_vars(StopsOver) /\ WF_vars(Swap)

FairSpec == Spec /\ Fairness

-----------------------------------------------------------------------------
\* A manager belongs to a world that has been composed.
TypeOK ==
  /\ phase \in {"serving", "stopping", "starting", "closing"}
  /\ world \in 1..MaxWorlds
  /\ installed \in [Entries -> 0..world]
  /\ candidate \in [Entries -> 0..world]
  /\ task \in [Managers -> 0..MaxRuns]
  /\ run \in [Managers -> [Runs -> RunStates]]
  /\ stop \in [Managers -> BOOLEAN]
  /\ up \in [Managers -> 0..MaxRuns]
  /\ settled \in [Managers -> BOOLEAN]
  /\ calls \subseteq Managers \X Runs
  /\ stopper \in [Managers -> StopStates]
  /\ held \in [Managers -> 0..MaxRuns]
  /\ abandoned \subseteq Managers \X Runs

\* The runs of a manager that still have something open.
Alive(m) == {k \in Runs : run[m][k] \in Live}

Stuck(ms) == \E m \in ms, k \in Runs : run[m][k] = "stuck"

\* A manager nobody is taking away has at most one connection at a time, the
\* one its task names: a revival never begins a second beside one that is
\* still connecting, or still unwinding after a failed call. What it publishes
\* comes from a run that is alive, and a connection it no longer publishes has
\* been told to go (manager.py:430, :738-741).
OneConnection ==
  \A m \in Managers : stopper[m] = "no" =>
    /\ Alive(m) \subseteq {task[m]}
    /\ up[m] # 0 => up[m] \in Alive(m)
    /\ \A k \in Alive(m) :
         up[m] = 0 /\ run[m][k] \in {"capturing", "waiting"} => stop[m]

\* A stop that has answered saw its connection's run end, or left it where
\* anything asking whether it has finished looks; and that set holds no run
\* that is done (manager.py:396-424, :835-840).
EndedOrAbandoned ==
  \A m \in Managers : stopper[m] = "over" /\ held[m] # 0 =>
    (run[m][held[m]] \in Live <=> <<m, held[m]>> \in abandoned)

\* An apply's stops end whatever the far sides do: the wait and the
\* cancellation are both bounded. Its starts end, and the way out ends, unless
\* a far side never lets an unwinding finish: a start waits for the failed
\* connect's exit stack, and `stop_all` has no bound (manager.py:317, :394).
StopsAndStartsEnd ==
  /\ phase = "stopping" ~> phase # "stopping"
  /\ phase = "starting" ~> (phase # "starting" \/ Stuck(Arriving))
  /\ phase = "closing" ~>
       (Stuck(In(installed)) \/ \A m \in In(installed) : stopper[m] = "over")

\* What manager.py:818-821 says of `abandoned`: what an apply left running is
\* in it. Not so for a connection that a session's opening revived, on a
\* manager the apply had already stopped and had not yet replaced.
NothingLeftRunning ==
  \A m \in Managers \ (In(installed) \cup In(candidate)) : \A k \in Alive(m) :
     <<m, k>> \in abandoned
=============================================================================
