------------------------- MODULE McpServers_proofs -------------------------
(***************************************************************************)
(* Proofs about McpServers: its types, that a manager has one connection at  *)
(* a time, and that a stop which has answered left nothing unseen.           *)
(***************************************************************************)
EXTENDS McpServers, TLAPS

USE WorldsAssumption, RunsAssumption, StuckAssumption

-----------------------------------------------------------------------------
(* The invariant.                                                          *)

\* A manager that has not been started yet.
Unborn(m) == task[m] = 0 /\ up[m] = 0 /\ \A k \in Runs : run[m][k] = "none"

\* Nothing is known of a world's managers before the apply that composes it
\* starts them.
Untouched ==
  \A m \in Managers : m[2] > world \/ (phase = "stopping" /\ m \in Arriving) => Unborn(m)

\* A run somebody holds has begun, and whoever waits for one holds it.
Begun(m, k) == k # 0 => run[m][k] # "none"
Followed ==
  \A m \in Managers :
    /\ Begun(m, task[m]) /\ Begun(m, held[m])
    /\ stopper[m] \in {"waiting", "cancelling", "unbounded"} => held[m] # 0

\* What is among the abandoned has something open.
LeftAlive == \A m \in Managers, k \in Runs : <<m, k>> \in abandoned => run[m][k] \in Live

ServersInv == TypeOK /\ Untouched /\ Followed /\ LeftAlive /\ OneConnection /\ EndedOrAbandoned

-----------------------------------------------------------------------------
(* The helpers.                                                            *)

LEMMA InTyped ==
  ASSUME world \in 1 .. MaxWorlds, NEW mapping \in [Entries -> 0 .. world]
  PROVE  In(mapping) \subseteq Managers
BY DEF In, Of, Managers

LEMMA ArrivingTyped == TypeOK => Arriving \subseteq Managers /\ Going \subseteq Managers
BY InTyped DEF TypeOK, Arriving, Going

LEMMA OfTyped ==
  ASSUME TypeOK, NEW e \in Entries, installed[e] # 0
  PROVE  Of(installed, e) \in Managers /\ Of(installed, e) \in In(installed)
BY DEF TypeOK, Of, In, Managers

\* One run of one manager moves.
LEMMA BecomesOne ==
  ASSUME TypeOK, NEW m \in Managers, NEW k \in Runs, NEW state \in RunStates,
         Becomes(m, k, state)
  PROVE  /\ run' \in [Managers -> [Runs -> RunStates]]
         /\ run'[m][k] = state
         /\ \A n \in Managers, j \in Runs : n # m \/ j # k => run'[n][j] = run[n][j]
BY DEF TypeOK, Becomes

\* A connection begins at each of a set of managers, and nothing else moves.
LEMMA BeginOne ==
  ASSUME TypeOK, NEW ms \in SUBSET Managers, Begin(ms)
  PROVE  /\ run' \in [Managers -> [Runs -> RunStates]]
         /\ task' \in [Managers -> 0 .. MaxRuns] /\ settled' \in [Managers -> BOOLEAN]
         /\ \A n \in Managers : n \notin ms => task'[n] = task[n] /\ run'[n] = run[n]
         /\ \A n \in ms :
              /\ task'[n] \in Runs /\ run[n][task'[n]] = "none"
              /\ run'[n][task'[n]] = "created"
              /\ \A j \in Runs : j # task'[n] => run'[n][j] = run[n][j]
<1>1. PICK next \in [ms -> Runs] :
        /\ \A m \in ms : Follows(m, next[m])
        /\ task' = [m \in Managers |-> IF m \in ms THEN next[m] ELSE task[m]]
        /\ run' = [m \in Managers |->
             IF m \in ms THEN [run[m] EXCEPT ![next[m]] = "created"] ELSE run[m]]
        /\ settled' = [m \in Managers |-> settled[m] /\ m \notin ms]
  BY DEF Begin
<1>2. \A n \in ms : n \in Managers /\ next[n] \in Runs /\ next[n] \in 0 .. MaxRuns
  BY DEF Runs
<1>3. task' \in [Managers -> 0 .. MaxRuns]
  BY <1>1, <1>2 DEF TypeOK
<1>4. settled' \in [Managers -> BOOLEAN]
  BY <1>1 DEF TypeOK
<1>5. run' \in [Managers -> [Runs -> RunStates]]
  <2>1. \A n \in ms : [run[n] EXCEPT ![next[n]] = "created"] \in [Runs -> RunStates]
    BY <1>2 DEF TypeOK, RunStates, Live
  <2> QED BY <1>1, <2>1 DEF TypeOK
<1>6. \A n \in Managers : n \notin ms => task'[n] = task[n] /\ run'[n] = run[n]
  BY <1>1
<1>7. ASSUME NEW n \in ms
      PROVE  /\ task'[n] \in Runs /\ run[n][task'[n]] = "none"
             /\ run'[n][task'[n]] = "created"
             /\ \A j \in Runs : j # task'[n] => run'[n][j] = run[n][j]
  <2>1. task'[n] = next[n] /\ run'[n] = [run[n] EXCEPT ![next[n]] = "created"]
    BY <1>1, <1>2
  <2>2. run[n] \in [Runs -> RunStates]
    BY <1>2 DEF TypeOK
  <2>3. run[n][next[n]] = "none"
    BY <1>1 DEF Follows
  <2> QED BY <1>2, <2>1, <2>2, <2>3
<1> QED BY <1>3, <1>4, <1>5, <1>6, <1>7

-----------------------------------------------------------------------------
(* Types.                                                                  *)

LEMMA TypeStep ==
  ASSUME ServersInv, Next
  PROVE  TypeOK'
<1> USE DEF ServersInv
<1>a. TypeOK
  OBVIOUS
<1>1. ASSUME NEW m \in Managers, NEW k \in Runs, RunBegins(m, k) PROVE TypeOK'
  <2>1. run' \in [Managers -> [Runs -> RunStates]]
    BY <1>1, BecomesOne DEF RunBegins, RunStates, Live
  <2> QED BY <1>1, <1>a, <2>1 DEF RunBegins, TypeOK, servers, stops
<1>2. ASSUME NEW m \in Managers, NEW k \in Runs, Connects(m, k) PROVE TypeOK'
  <2>1. run' \in [Managers -> [Runs -> RunStates]]
    BY <1>2, BecomesOne DEF Connects, RunStates, Live
  <2> QED BY <1>2, <1>a, <2>1 DEF Connects, TypeOK, servers, stops, Runs
<1>3. ASSUME NEW m \in Managers, NEW k \in Runs, Fails(m, k) PROVE TypeOK'
  <2>1. run' \in [Managers -> [Runs -> RunStates]]
    BY <1>3, BecomesOne DEF Fails, RunStates, Live, Ending
  <2> QED BY <1>3, <1>a, <2>1 DEF Fails, TypeOK, servers, stops
<1>4. ASSUME NEW m \in Managers, NEW k \in Runs, Captured(m, k) PROVE TypeOK'
  <2>1. run' \in [Managers -> [Runs -> RunStates]]
    BY <1>4, BecomesOne DEF Captured, RunStates, Live
  <2> QED BY <1>4, <1>a, <2>1 DEF Captured, TypeOK, servers, stops
<1>5. ASSUME NEW m \in Managers, NEW k \in Runs, Wakes(m, k) PROVE TypeOK'
  <2>1. run' \in [Managers -> [Runs -> RunStates]]
    BY <1>5, BecomesOne DEF Wakes, RunStates, Live, Ending
  <2> QED BY <1>5, <1>a, <2>1 DEF Wakes, TypeOK, servers, stops
<1>6. ASSUME NEW m \in Managers, NEW k \in Runs, Sticks(m, k) PROVE TypeOK'
  <2>1. run' \in [Managers -> [Runs -> RunStates]]
    BY <1>6, BecomesOne DEF Sticks, RunStates, Live, Ending
  <2> QED BY <1>6, <1>a, <2>1 DEF Sticks, TypeOK, servers, stops
<1>7. ASSUME NEW m \in Managers, NEW k \in Runs, Unwound(m, k) PROVE TypeOK'
  <2>1. run' \in [Managers -> [Runs -> RunStates]]
    BY <1>7, BecomesOne DEF Unwound, RunStates
  <2> QED BY <1>7, <1>a, <2>1 DEF Unwound, TypeOK, servers
<1>8. ASSUME NEW m \in Managers, NEW k \in Runs, CallOver(m, k) PROVE TypeOK'
  BY <1>8, <1>a DEF CallOver, TypeOK, servers, manager, stops
<1>9. ASSUME NEW m \in Managers, NEW k \in Runs, CallFails(m, k) PROVE TypeOK'
  BY <1>9, <1>a DEF CallFails, TypeOK, servers, stops
<1>10. ASSUME NEW m \in Managers, NEW wait \in StopStates, TakesTask(m, wait) PROVE TypeOK'
  BY <1>10, <1>a DEF TakesTask, TypeOK, servers, StopStates
<1>11. ASSUME NEW m \in Managers, StopBegins(m) PROVE TypeOK'
  BY <1>10, <1>11 DEF StopBegins, StopStates
<1>12. ASSUME NEW m \in Managers, StopEnds(m) PROVE TypeOK'
  BY <1>12, <1>a DEF StopEnds, TypeOK, servers, manager, StopStates
<1>13. ASSUME NEW m \in Managers, StopTimesOut(m) PROVE TypeOK'
  <2>1. held[m] \in Runs
    BY <1>13, <1>a DEF StopTimesOut, Followed, TypeOK, Runs
  <2>2. run' \in [Managers -> [Runs -> RunStates]]
    BY <1>13, <2>1, BecomesOne DEF StopTimesOut, RunStates, Live, Ending
  <2> QED BY <1>13, <1>a, <2>2 DEF StopTimesOut, TypeOK, servers, StopStates
<1>14. ASSUME NEW m \in Managers, StopGivesUp(m) PROVE TypeOK'
  <2>1. held[m] \in Runs
    BY <1>14, <1>a DEF StopGivesUp, Followed, TypeOK, Runs
  <2> QED BY <1>14, <1>a, <2>1 DEF StopGivesUp, TypeOK, servers, manager, StopStates
<1>15. ASSUME NEW e \in Entries, Revive(e) PROVE TypeOK'
  <2>1. Of(installed, e) \in Managers
    BY <1>15, OfTyped DEF Revive
  <2>2. /\ run' \in [Managers -> [Runs -> RunStates]]
        /\ task' \in [Managers -> 0 .. MaxRuns] /\ settled' \in [Managers -> BOOLEAN]
    BY <1>15, <2>1, BeginOne DEF Revive
  <2> QED BY <1>15, <1>a, <2>2 DEF Revive, TypeOK, servers, stops
<1>16. ASSUME NEW e \in Entries, CallGoes(e) PROVE TypeOK'
  <2>1. Of(installed, e) \in Managers
    BY <1>16, OfTyped DEF CallGoes
  <2>2. up[Of(installed, e)] \in Runs
    BY <1>16, <2>1, <1>a DEF CallGoes, TypeOK, Runs
  <2> QED BY <1>16, <1>a, <2>1, <2>2 DEF CallGoes, TypeOK, servers, manager, stops
<1>17. ASSUME NEW e \in Entries, StopNext(e) PROVE TypeOK'
  BY <1>10, <1>17, OfTyped DEF StopNext, StopStates
<1>18. CASE Apply
  <2>1. world' \in 1 .. MaxWorlds /\ world' = world + 1
    BY <1>18, <1>a DEF Apply, TypeOK
  <2>2. candidate' \in [Entries -> 0 .. world'] /\ installed' \in [Entries -> 0 .. world']
    BY <1>18, <1>a, <2>1 DEF Apply, TypeOK
  <2>3. stopper' \in [Managers -> StopStates]
    BY <1>18, <1>a DEF Apply, TypeOK, StopStates
  <2> QED BY <1>18, <1>a, <2>1, <2>2, <2>3 DEF Apply, TypeOK, manager
<1>19. CASE StopsOver
  <2>1. /\ run' \in [Managers -> [Runs -> RunStates]]
        /\ task' \in [Managers -> 0 .. MaxRuns] /\ settled' \in [Managers -> BOOLEAN]
    BY <1>19, ArrivingTyped, BeginOne DEF StopsOver
  <2> QED BY <1>19, <1>a, <2>1 DEF StopsOver, TypeOK, stops
<1>20. CASE Swap
  BY <1>20, <1>a DEF Swap, TypeOK, manager, stops
<1>21. CASE StopAll
  BY <1>21, <1>a DEF StopAll, TypeOK, manager, stops
<1> QED
  BY <1>1, <1>2, <1>3, <1>4, <1>5, <1>6, <1>7, <1>8, <1>9, <1>11, <1>12, <1>13, <1>14, <1>15,
     <1>16, <1>17, <1>18, <1>19, <1>20, <1>21 DEF Next

-----------------------------------------------------------------------------
(* What holds of a manager nobody has started, and of who holds a run.      *)

\* A run that moves has begun.
LEMMA RunMoves ==
  ASSUME ServersInv, NEW m \in Managers, NEW k \in Runs, NEW state \in RunStates \ {"none"},
         run[m][k] # "none", Becomes(m, k, state), UNCHANGED <<servers, task, held>>,
         \A n \in Managers : n # m => up'[n] = up[n],
         \A n \in Managers : stopper'[n] \in {"waiting", "cancelling", "unbounded"}
                               => stopper[n] \in {"waiting", "cancelling", "unbounded"}
  PROVE  Untouched' /\ Followed'
<1>1. /\ \A n \in Managers, j \in Runs : n # m \/ j # k => run'[n][j] = run[n][j]
      /\ run'[m][k] = state
  BY BecomesOne DEF ServersInv
<1>2. ASSUME NEW n \in Managers, NEW j \in Runs PROVE run[n][j] # "none" <=> run'[n][j] # "none"
  BY <1>1
<1>3. Untouched'
  BY <1>1, <1>2 DEF ServersInv, Untouched, Unborn, servers, Arriving, In, Of
<1>4. Followed'
  BY <1>2 DEF ServersInv, TypeOK, Followed, Begun, Runs
<1> QED BY <1>3, <1>4

\* Nothing of what they speak of moves.
LEMMA NothingMoves ==
  ASSUME ServersInv, UNCHANGED <<task, run, held>>,
         world' \in Nat, world' >= world,
         \A n \in Managers : up'[n] = up[n] \/ up'[n] = 0,
         \A n \in Managers : stopper'[n] \in {"waiting", "cancelling", "unbounded"}
                               => stopper[n] \in {"waiting", "cancelling", "unbounded"},
         phase' = "stopping" => \A n \in Arriving' : Unborn(n)
  PROVE  Untouched' /\ Followed'
<1>1. Untouched'
  <2> SUFFICES ASSUME NEW n \in Managers,
                      n[2] > world' \/ (phase' = "stopping" /\ n \in Arriving')
               PROVE  Unborn(n)'
    BY DEF Untouched
  <2>1. n[2] > world' => n[2] > world
    BY DEF ServersInv, TypeOK, Managers
  <2>2. Unborn(n)
    BY <2>1 DEF ServersInv, Untouched
  <2> QED BY <2>2 DEF Unborn
<1>2. Followed'
  BY DEF ServersInv, Followed, Begun
<1> QED BY <1>1, <1>2

\* A stop takes the run its manager's task is.
LEMMA TaskTaken ==
  ASSUME ServersInv, NEW m \in Managers, NEW wait \in {"waiting", "unbounded"},
         TakesTask(m, wait)
  PROVE  Untouched' /\ Followed'
<1>1. Untouched'
  BY DEF ServersInv, TypeOK, TakesTask, Untouched, Unborn, servers, Arriving, In, Of
<1>2. Followed'
  BY DEF ServersInv, TypeOK, TakesTask, Followed, Begun
<1> QED BY <1>1, <1>2

\* Managers that are started are the running world's, or the next one's behind the
\* stops.
LEMMA Started ==
  ASSUME ServersInv, NEW ms \in SUBSET Managers, Begin(ms), UNCHANGED <<up, stopper, held, world>>,
         \A n \in ms : n[2] <= world,
         phase' = "stopping" => Arriving' = Arriving /\ phase = "stopping",
         phase' = "stopping" => ms \cap Arriving = {}
  PROVE  Untouched' /\ Followed'
<1>1. /\ \A n \in Managers : n \notin ms => task'[n] = task[n] /\ run'[n] = run[n]
      /\ \A n \in ms : /\ task'[n] \in Runs /\ run[n][task'[n]] = "none"
                       /\ run'[n][task'[n]] = "created"
                       /\ \A j \in Runs : j # task'[n] => run'[n][j] = run[n][j]
  BY BeginOne DEF ServersInv
<1>2. Untouched'
  <2> SUFFICES ASSUME NEW n \in Managers,
                      n[2] > world \/ (phase' = "stopping" /\ n \in Arriving')
               PROVE  Unborn(n)'
    BY DEF Untouched
  <2>1. n \notin ms
    BY DEF ServersInv, TypeOK, Managers
  <2>2. Unborn(n)
    BY DEF ServersInv, Untouched
  <2> QED BY <1>1, <2>1, <2>2 DEF Unborn
<1>3. Followed'
  <2> SUFFICES ASSUME NEW n \in Managers
               PROVE  /\ Begun(n, task[n])' /\ Begun(n, held[n])'
                      /\ stopper'[n] \in {"waiting", "cancelling", "unbounded"} => held'[n] # 0
    BY DEF Followed
  <2>1. Begun(n, task[n]) /\ Begun(n, held[n]) /\ held[n] \in {0} \cup Runs
    BY DEF ServersInv, Followed, TypeOK, Runs
  <2>2. CASE n \in ms
    BY <1>1, <2>1, <2>2 DEF Begun, ServersInv, Followed
  <2>3. CASE n \notin ms
    BY <1>1, <2>1, <2>3 DEF Begun, ServersInv, Followed
  <2> QED BY <2>2, <2>3
<1> QED BY <1>2, <1>3

\* Untouched and Followed are kept.
LEMMA HoldsStep ==
  ASSUME ServersInv, Next
  PROVE  Untouched' /\ Followed'
<1>a. TypeOK /\ Untouched /\ Followed
  BY DEF ServersInv
<1>b. Arriving \subseteq Managers
  BY <1>a, ArrivingTyped
<1>1. ASSUME NEW m \in Managers, NEW k \in Runs,
             \/ RunBegins(m, k) \/ Connects(m, k) \/ Fails(m, k) \/ Captured(m, k)
             \/ Wakes(m, k) \/ Sticks(m, k) \/ Unwound(m, k)
      PROVE  Untouched' /\ Followed'
  <2> USE DEF RunStates, Live, Ending, stops
  <2>1. CASE RunBegins(m, k)
    BY <2>1, <1>a, RunMoves DEF RunBegins
  <2>2. CASE Connects(m, k)
    BY <2>2, <1>a, RunMoves DEF Connects, TypeOK
  <2>3. CASE Fails(m, k)
    BY <2>3, <1>a, RunMoves DEF Fails
  <2>4. CASE Captured(m, k)
    BY <2>4, <1>a, RunMoves DEF Captured
  <2>5. CASE Wakes(m, k)
    BY <2>5, <1>a, RunMoves DEF Wakes
  <2>6. CASE Sticks(m, k)
    BY <2>6, <1>a, RunMoves DEF Sticks
  <2>7. CASE Unwound(m, k)
    BY <2>7, <1>a, RunMoves DEF Unwound, TypeOK
  <2> QED BY <1>1, <2>1, <2>2, <2>3, <2>4, <2>5, <2>6, <2>7
<1>2. phase = "stopping" => \A n \in Arriving : Unborn(n)
  BY <1>a, <1>b DEF Untouched
<1>3. ASSUME NEW m \in Managers, NEW k \in Runs, CallOver(m, k) \/ CallFails(m, k)
      PROVE  Untouched' /\ Followed'
  BY <1>2, <1>3, <1>a, NothingMoves
     DEF CallOver, CallFails, servers, manager, stops, TypeOK, Arriving, In, Of
<1>4. ASSUME NEW m \in Managers, StopBegins(m) PROVE Untouched' /\ Followed'
  BY <1>4, TaskTaken DEF StopBegins
<1>5. ASSUME NEW m \in Managers, StopEnds(m) \/ StopGivesUp(m) PROVE Untouched' /\ Followed'
  BY <1>2, <1>5, <1>a, NothingMoves
     DEF StopEnds, StopGivesUp, servers, manager, TypeOK, Arriving, In, Of
<1>6. ASSUME NEW m \in Managers, StopTimesOut(m) PROVE Untouched' /\ Followed'
  <2>1. held[m] \in Runs
    BY <1>6, <1>a DEF StopTimesOut, Followed, TypeOK, Runs
  <2>2. (IF run[m][held[m]] = "stuck" THEN "stuck" ELSE "closing") \in RunStates \ {"none"}
    BY DEF RunStates, Live, Ending
  <2>3. run[m][held[m]] # "none"
    BY <1>6 DEF StopTimesOut, Live, Ending
  <2> QED BY <1>6, <1>a, <2>1, <2>2, <2>3, RunMoves DEF StopTimesOut, TypeOK
<1>7. ASSUME NEW e \in Entries, Revive(e) PROVE Untouched' /\ Followed'
  <2> DEFINE m == Of(installed, e)
  <2>1. m \in Managers /\ m \in In(installed) /\ m[2] <= world
    BY <1>7, <1>a, OfTyped DEF Revive, TypeOK, Of
  <2>2. {m} \cap Arriving = {}
    BY <2>1 DEF Arriving
  <2> QED BY <1>7, <1>a, <2>1, <2>2, Started DEF Revive, servers, stops, Arriving, In, Of
<1>8. ASSUME NEW e \in Entries, CallGoes(e) PROVE Untouched' /\ Followed'
  BY <1>2, <1>8, <1>a, NothingMoves
     DEF CallGoes, servers, manager, stops, TypeOK, Arriving, In, Of
<1>9. ASSUME NEW e \in Entries, StopNext(e) PROVE Untouched' /\ Followed'
  BY <1>9, OfTyped, TaskTaken, <1>a DEF StopNext
<1>10. CASE Apply
  <2>1. \A n \in Arriving' : n \in Managers /\ n[2] > world
    <3> SUFFICES ASSUME NEW e \in Entries, candidate'[e] # 0,
                        <<e, candidate'[e]>> \notin In(installed')
                 PROVE  <<e, candidate'[e]>> \in Managers /\ candidate'[e] > world
      BY DEF Arriving, In, Of
    <3>1. candidate'[e] \in {0, installed[e], world + 1} /\ installed' = installed
      BY <1>10 DEF Apply
    <3>2. candidate'[e] = installed[e] => FALSE
      BY <3>1 DEF In, Of
    <3> QED BY <1>10, <1>a, <3>1, <3>2 DEF Apply, TypeOK, Managers
  <2>2. \A n \in Arriving' : Unborn(n)
    BY <2>1, <1>a DEF Untouched
  <2> QED BY <1>10, <1>a, <2>2, NothingMoves DEF Apply, TypeOK, manager
<1>11. CASE StopsOver
  <2>1. \A n \in Arriving : n[2] <= world
    BY <1>a DEF Arriving, In, Of, TypeOK
  <2> QED BY <1>11, <1>b, <2>1, Started DEF StopsOver, stops
<1>12. CASE Swap \/ StopAll
  BY <1>12, <1>a, NothingMoves DEF Swap, StopAll, manager, stops, TypeOK
<1> QED
  BY <1>1, <1>3, <1>4, <1>5, <1>6, <1>7, <1>8, <1>9, <1>10, <1>11, <1>12 DEF Next

-----------------------------------------------------------------------------
(* One connection at a time.                                               *)

\* A step that moves one run of a manager leaves what is said of the others.
OneConnectionOf(m) ==
  stopper[m] = "no" =>
    /\ Alive(m) \subseteq {task[m]}
    /\ up[m] # 0 => up[m] \in Alive(m)
    /\ \A k \in Alive(m) :
         up[m] = 0 /\ run[m][k] \in {"capturing", "waiting"} => stop[m]

LEMMA RestConnected ==
  ASSUME OneConnection, NEW m \in Managers, OneConnectionOf(m)',
         \A n \in Managers : n # m => /\ \A k \in Runs : run'[n][k] = run[n][k]
                                      /\ task'[n] = task[n] /\ up'[n] = up[n]
                                      /\ stop'[n] = stop[n]
                                      /\ stopper'[n] = "no" => stopper[n] = "no"
  PROVE  OneConnection'
<1>1. ASSUME NEW n \in Managers PROVE OneConnectionOf(n)'
  <2>1. CASE n = m
    BY <2>1
  <2>2. CASE n # m
    BY <2>2 DEF OneConnection, OneConnectionOf, Alive
  <2> QED BY <2>1, <2>2
<1> QED BY <1>1 DEF OneConnection, OneConnectionOf

\* A connection that begins where there is none is the only one.
LEMMA BeginConnected ==
  ASSUME ServersInv, NEW ms \in SUBSET Managers, Begin(ms), UNCHANGED <<up, stop, stopper>>,
         \A n \in ms : stopper[n] = "no" => Alive(n) = {} /\ up[n] = 0
  PROVE  OneConnection'
<1>1. /\ \A n \in Managers : n \notin ms => task'[n] = task[n] /\ run'[n] = run[n]
      /\ \A n \in ms : /\ task'[n] \in Runs /\ run[n][task'[n]] = "none"
                       /\ run'[n][task'[n]] = "created"
                       /\ \A j \in Runs : j # task'[n] => run'[n][j] = run[n][j]
  BY BeginOne DEF ServersInv
<1>2. ASSUME NEW n \in Managers PROVE OneConnectionOf(n)'
  <2>1. CASE n \in ms
    BY <1>1, <2>1 DEF OneConnectionOf, Alive
  <2>2. CASE n \notin ms
    BY <1>1, <2>2 DEF ServersInv, OneConnection, OneConnectionOf, Alive
  <2> QED BY <2>1, <2>2
<1> QED BY <1>2 DEF OneConnection, OneConnectionOf

\* OneConnection is kept.
LEMMA ConnectionStep ==
  ASSUME ServersInv, Next
  PROVE  OneConnection'
<1>a. TypeOK /\ Untouched /\ Followed /\ OneConnection
  BY DEF ServersInv
<1>b. Arriving \subseteq Managers
  BY <1>a, ArrivingTyped
<1>1. ASSUME NEW m \in Managers, NEW k \in Runs,
             \/ RunBegins(m, k) \/ Connects(m, k) \/ Fails(m, k) \/ Captured(m, k)
             \/ Wakes(m, k) \/ Sticks(m, k) \/ Unwound(m, k)
      PROVE  OneConnection'
  <2> USE DEF RunStates, Live, Ending, stops
  <2>a. OneConnectionOf(m)
    BY <1>a DEF OneConnection, OneConnectionOf
  <2>1. CASE RunBegins(m, k)
    <3>1. run'[m][k] = "connecting"
          /\ \A n \in Managers, j \in Runs : n # m \/ j # k => run'[n][j] = run[n][j]
      BY <2>1, <1>a, BecomesOne DEF RunBegins
    <3>2. OneConnectionOf(m)'
      BY <2>a, <2>1, <3>1 DEF RunBegins, OneConnectionOf, Alive
    <3> QED BY <1>a, <2>1, <3>1, <3>2, RestConnected DEF RunBegins, TypeOK
  <2>2. CASE Connects(m, k)
    <3>1. run'[m][k] = "capturing"
          /\ \A n \in Managers, j \in Runs : n # m \/ j # k => run'[n][j] = run[n][j]
      BY <2>2, <1>a, BecomesOne DEF Connects
    <3>2. up'[m] = k /\ k # 0 /\ \A n \in Managers : n # m => up'[n] = up[n]
      BY <2>2, <1>a DEF Connects, TypeOK, Runs
    <3>3. OneConnectionOf(m)'
      BY <2>a, <2>2, <3>1, <3>2 DEF Connects, OneConnectionOf, Alive
    <3> QED BY <1>a, <2>2, <3>1, <3>2, <3>3, RestConnected DEF Connects
  <2>3. CASE Fails(m, k)
    <3>1. run'[m][k] = "failing"
          /\ \A n \in Managers, j \in Runs : n # m \/ j # k => run'[n][j] = run[n][j]
      BY <2>3, <1>a, BecomesOne DEF Fails
    <3>2. OneConnectionOf(m)'
      BY <2>a, <2>3, <3>1 DEF Fails, OneConnectionOf, Alive
    <3> QED BY <1>a, <2>3, <3>1, <3>2, RestConnected DEF Fails
  <2>4. CASE Captured(m, k)
    <3>1. run'[m][k] = "waiting"
          /\ \A n \in Managers, j \in Runs : n # m \/ j # k => run'[n][j] = run[n][j]
      BY <2>4, <1>a, BecomesOne DEF Captured
    <3>2. OneConnectionOf(m)'
      BY <2>a, <2>4, <3>1 DEF Captured, OneConnectionOf, Alive
    <3> QED BY <1>a, <2>4, <3>1, <3>2, RestConnected DEF Captured
  <2>5. CASE Wakes(m, k)
    <3>1. run'[m][k] = "closing"
          /\ \A n \in Managers, j \in Runs : n # m \/ j # k => run'[n][j] = run[n][j]
      BY <2>5, <1>a, BecomesOne DEF Wakes
    <3>2. OneConnectionOf(m)'
      BY <2>a, <2>5, <3>1 DEF Wakes, OneConnectionOf, Alive
    <3> QED BY <1>a, <2>5, <3>1, <3>2, RestConnected DEF Wakes
  <2>6. CASE Sticks(m, k)
    <3>1. run'[m][k] = "stuck"
          /\ \A n \in Managers, j \in Runs : n # m \/ j # k => run'[n][j] = run[n][j]
      BY <2>6, <1>a, BecomesOne DEF Sticks
    <3>2. OneConnectionOf(m)'
      BY <2>a, <2>6, <3>1 DEF Sticks, OneConnectionOf, Alive
    <3> QED BY <1>a, <2>6, <3>1, <3>2, RestConnected DEF Sticks
  <2>7. CASE Unwound(m, k)
    <3>1. run'[m][k] = "done"
          /\ \A n \in Managers, j \in Runs : n # m \/ j # k => run'[n][j] = run[n][j]
      BY <2>7, <1>a, BecomesOne DEF Unwound
    <3>2. up'[m] = 0 /\ \A n \in Managers : n # m => up'[n] = up[n]
      BY <2>7, <1>a DEF Unwound, TypeOK
    <3>3. stopper[m] = "no" => Alive(m)' = {}
      BY <2>a, <2>7, <3>1 DEF Unwound, OneConnectionOf, Alive
    <3>4. OneConnectionOf(m)'
      BY <2>7, <3>2, <3>3 DEF Unwound, OneConnectionOf
    <3> QED BY <1>a, <2>7, <3>1, <3>2, <3>4, RestConnected DEF Unwound
  <2> QED BY <1>1, <2>1, <2>2, <2>3, <2>4, <2>5, <2>6, <2>7
<1>2. ASSUME NEW m \in Managers, NEW k \in Runs, CallOver(m, k) PROVE OneConnection'
  BY <1>2, <1>a DEF CallOver, manager, stops, OneConnection, Alive
<1>3. ASSUME NEW m \in Managers, NEW k \in Runs, CallFails(m, k) PROVE OneConnection'
  BY <1>3, <1>a DEF CallFails, stops, TypeOK, OneConnection, Alive
<1>4. ASSUME NEW m \in Managers, NEW wait \in {"waiting", "unbounded"}, TakesTask(m, wait)
      PROVE  OneConnection'
  BY <1>4, <1>a DEF TakesTask, TypeOK, OneConnection, Alive
<1>5. ASSUME NEW m \in Managers, StopBegins(m) PROVE OneConnection'
  BY <1>4, <1>5 DEF StopBegins
<1>6. ASSUME NEW m \in Managers, StopEnds(m) \/ StopGivesUp(m) PROVE OneConnection'
  BY <1>6, <1>a DEF StopEnds, StopGivesUp, manager, TypeOK, OneConnection, Alive
<1>7. ASSUME NEW m \in Managers, StopTimesOut(m) PROVE OneConnection'
  <2>1. held[m] \in Runs
    BY <1>7, <1>a DEF StopTimesOut, Followed, TypeOK, Runs
  <2>2. \A n \in Managers, j \in Runs : n # m => run'[n][j] = run[n][j]
    BY <1>7, <1>a, <2>1, BecomesOne DEF StopTimesOut, RunStates, Live, Ending
  <2>3. stopper'[m] # "no" /\ \A n \in Managers : n # m => stopper'[n] = stopper[n]
    BY <1>7, <1>a DEF StopTimesOut, TypeOK
  <2> QED BY <1>7, <1>a, <2>2, <2>3, RestConnected DEF StopTimesOut, OneConnectionOf
<1>8. ASSUME NEW e \in Entries, Revive(e) PROVE OneConnection'
  <2> DEFINE m == Of(installed, e)
  <2>1. m \in Managers
    BY <1>8, <1>a, OfTyped DEF Revive
  <2>2. stopper[m] = "no" => Alive(m) = {} /\ up[m] = 0
    <3>1. up[m] = 0 /\ (task[m] = 0 \/ run[m][task[m]] = "done")
      BY <1>8 DEF Revive, Attended
    <3> QED BY <1>a, <2>1, <3>1 DEF OneConnection, Alive, Runs, Live, Ending
  <2> QED BY <1>8, <2>1, <2>2, BeginConnected DEF Revive, stops
<1>9. ASSUME NEW e \in Entries, CallGoes(e) PROVE OneConnection'
  BY <1>9, <1>a DEF CallGoes, manager, stops, OneConnection, Alive
<1>10. ASSUME NEW e \in Entries, StopNext(e) PROVE OneConnection'
  BY <1>4, <1>10, OfTyped, <1>a DEF StopNext
<1>11. CASE Apply
  BY <1>11, <1>a DEF Apply, manager, OneConnection, Alive
<1>12. CASE StopsOver
  <2>1. \A n \in Arriving : Alive(n) = {} /\ up[n] = 0
    BY <1>12, <1>a, <1>b DEF StopsOver, Untouched, Unborn, Alive, Live, Ending
  <2> QED BY <1>12, <1>b, <2>1, BeginConnected DEF StopsOver, stops
<1>13. CASE Swap \/ StopAll
  BY <1>13, <1>a DEF Swap, StopAll, manager, stops, OneConnection, Alive
<1> QED
  BY <1>1, <1>2, <1>3, <1>5, <1>6, <1>7, <1>8, <1>9, <1>10, <1>11, <1>12, <1>13 DEF Next

-----------------------------------------------------------------------------
(* What a stop leaves.                                                     *)

\* A live run that goes on living changes nothing of it.
LEMMA LivesOn ==
  ASSUME ServersInv, NEW m \in Managers, NEW k \in Runs, NEW state \in Live,
         run[m][k] \in Live, Becomes(m, k, state), UNCHANGED <<held, abandoned>>,
         \A n \in Managers : stopper'[n] = "over" => stopper[n] = "over"
  PROVE  LeftAlive' /\ EndedOrAbandoned'
<1>1. run'[m][k] = state /\ \A n \in Managers, j \in Runs : n # m \/ j # k => run'[n][j] = run[n][j]
  BY ZenonT(60), BecomesOne DEF ServersInv, RunStates
<1>2. ASSUME NEW n \in Managers, NEW j \in Runs PROVE run[n][j] \in Live <=> run'[n][j] \in Live
  BY <1>1
<1>3. \A n \in Managers : held[n] # 0 => held[n] \in Runs
  BY DEF ServersInv, TypeOK, Runs
<1> QED BY <1>2, <1>3 DEF ServersInv, LeftAlive, EndedOrAbandoned

\* So does a connection that begins.
LEMMA BeginLeft ==
  ASSUME ServersInv, NEW ms \in SUBSET Managers, Begin(ms), UNCHANGED <<stopper, held, abandoned>>
  PROVE  LeftAlive' /\ EndedOrAbandoned'
<1>1. /\ \A n \in Managers : n \notin ms => task'[n] = task[n] /\ run'[n] = run[n]
      /\ \A n \in ms : /\ task'[n] \in Runs /\ run[n][task'[n]] = "none"
                       /\ run'[n][task'[n]] = "created"
                       /\ \A j \in Runs : j # task'[n] => run'[n][j] = run[n][j]
  BY BeginOne DEF ServersInv
<1>2. ASSUME NEW n \in Managers, NEW j \in Runs, run[n][j] # "none" PROVE run'[n][j] = run[n][j]
  BY <1>1, <1>2
<1>3. \A n \in Managers : held[n] # 0 => held[n] \in Runs /\ run[n][held[n]] # "none"
  BY DEF ServersInv, TypeOK, Followed, Begun, Runs
<1>4. LeftAlive'
  <2> SUFFICES ASSUME NEW n \in Managers, NEW j \in Runs, <<n, j>> \in abandoned
               PROVE  run'[n][j] \in Live
    BY DEF LeftAlive
  <2>1. run[n][j] \in Live
    BY DEF ServersInv, LeftAlive
  <2> QED BY <1>2, <2>1 DEF Live, Ending
<1>5. EndedOrAbandoned'
  BY <1>2, <1>3 DEF ServersInv, EndedOrAbandoned
<1> QED BY <1>4, <1>5

\* LeftAlive and EndedOrAbandoned are kept.
LEMMA LeftStep ==
  ASSUME ServersInv, Next
  PROVE  LeftAlive' /\ EndedOrAbandoned'
<1>a. TypeOK /\ Untouched /\ Followed /\ LeftAlive /\ EndedOrAbandoned
  BY DEF ServersInv
<1>b. \A n \in Managers : held[n] # 0 => held[n] \in Runs /\ run[n][held[n]] # "none"
  BY <1>a DEF TypeOK, Followed, Begun, Runs
<1>1. ASSUME NEW m \in Managers, NEW k \in Runs,
             \/ RunBegins(m, k) \/ Connects(m, k) \/ Fails(m, k) \/ Captured(m, k)
             \/ Wakes(m, k) \/ Sticks(m, k)
      PROVE  LeftAlive' /\ EndedOrAbandoned'
  <2> USE DEF Live, Ending, stops
  <2>1. CASE RunBegins(m, k)
    BY <2>1, <1>a, LivesOn DEF RunBegins
  <2>2. CASE Connects(m, k)
    BY <2>2, <1>a, LivesOn DEF Connects
  <2>3. CASE Fails(m, k)
    BY <2>3, <1>a, LivesOn DEF Fails
  <2>4. CASE Captured(m, k)
    BY <2>4, <1>a, LivesOn DEF Captured
  <2>5. CASE Wakes(m, k)
    BY <2>5, <1>a, LivesOn DEF Wakes
  <2>6. CASE Sticks(m, k)
    BY <2>6, <1>a, LivesOn DEF Sticks
  <2> QED BY <1>1, <2>1, <2>2, <2>3, <2>4, <2>5, <2>6
<1>2. ASSUME NEW m \in Managers, NEW k \in Runs, Unwound(m, k)
      PROVE  LeftAlive' /\ EndedOrAbandoned'
  <2>1. run'[m][k] = "done"
        /\ \A n \in Managers, j \in Runs : n # m \/ j # k => run'[n][j] = run[n][j]
    BY <1>2, <1>a, BecomesOne DEF Unwound, RunStates
  <2>2. abandoned' = abandoned \ {<<m, k>>} /\ UNCHANGED <<stopper, held>>
    BY <1>2 DEF Unwound
  <2>3. LeftAlive'
    BY <1>a, <2>1, <2>2 DEF LeftAlive
  <2>4. EndedOrAbandoned'
    <3> SUFFICES ASSUME NEW n \in Managers, stopper[n] = "over", held[n] # 0
                 PROVE  run'[n][held[n]] \in Live <=> <<n, held[n]>> \in abandoned'
      BY <2>2 DEF EndedOrAbandoned
    <3>1. run[n][held[n]] \in Live <=> <<n, held[n]>> \in abandoned
      BY <1>a DEF EndedOrAbandoned
    <3>2. CASE n = m /\ held[n] = k
      BY <2>1, <2>2, <3>2 DEF Live, Ending
    <3>3. CASE ~(n = m /\ held[n] = k)
      BY <1>b, <2>1, <2>2, <3>1, <3>3
    <3> QED BY <3>2, <3>3
  <2> QED BY <2>3, <2>4
<1>3. ASSUME NEW m \in Managers, NEW k \in Runs, CallOver(m, k) \/ CallFails(m, k)
      PROVE  LeftAlive' /\ EndedOrAbandoned'
  BY <1>3, <1>a DEF CallOver, CallFails, manager, stops, LeftAlive, EndedOrAbandoned
<1>4. ASSUME NEW m \in Managers, NEW wait \in {"waiting", "unbounded"}, TakesTask(m, wait)
      PROVE  LeftAlive' /\ EndedOrAbandoned'
  BY <1>4, <1>a DEF TakesTask, TypeOK, LeftAlive, EndedOrAbandoned
<1>5. ASSUME NEW m \in Managers, StopBegins(m) PROVE LeftAlive' /\ EndedOrAbandoned'
  BY <1>4, <1>5 DEF StopBegins
<1>6. ASSUME NEW m \in Managers, StopEnds(m) PROVE LeftAlive' /\ EndedOrAbandoned'
  <2>1. <<m, held[m]>> \notin abandoned /\ run[m][held[m]] \notin Live
    BY <1>6, <1>a, <1>b DEF StopEnds, Followed, LeftAlive, Live, Ending
  <2> QED BY <1>6, <1>a, <2>1 DEF StopEnds, manager, TypeOK, LeftAlive, EndedOrAbandoned
<1>7. ASSUME NEW m \in Managers, StopGivesUp(m) PROVE LeftAlive' /\ EndedOrAbandoned'
  <2>1. held[m] \in Runs /\ run[m][held[m]] \in Live
    BY <1>7, <1>a, <1>b DEF StopGivesUp, Followed, TypeOK, RunStates, Live
  <2>2. stopper' = [stopper EXCEPT ![m] = "over"] /\ abandoned' = abandoned \cup {<<m, held[m]>>}
        /\ UNCHANGED <<run, held>>
    BY <1>7 DEF StopGivesUp, manager
  <2>3. LeftAlive'
    BY <1>a, <2>1, <2>2 DEF LeftAlive
  <2>4. EndedOrAbandoned'
    BY <1>a, <2>1, <2>2 DEF TypeOK, EndedOrAbandoned
  <2> QED BY <2>3, <2>4
<1>8. ASSUME NEW m \in Managers, StopTimesOut(m) PROVE LeftAlive' /\ EndedOrAbandoned'
  <2>1. held[m] \in Runs
    BY <1>8, <1>a, <1>b DEF StopTimesOut, Followed
  <2>2. (IF run[m][held[m]] = "stuck" THEN "stuck" ELSE "closing") \in Live
    BY DEF Live, Ending
  <2>3. run[m][held[m]] \in Live
    BY <1>8 DEF StopTimesOut
  <2> QED BY <1>8, <1>a, <2>1, <2>2, <2>3, LivesOn DEF StopTimesOut, TypeOK
<1>9. ASSUME NEW e \in Entries, Revive(e) PROVE LeftAlive' /\ EndedOrAbandoned'
  BY <1>9, <1>a, OfTyped, BeginLeft DEF Revive, stops
<1>10. ASSUME NEW e \in Entries, CallGoes(e) PROVE LeftAlive' /\ EndedOrAbandoned'
  BY <1>10, <1>a DEF CallGoes, manager, stops, LeftAlive, EndedOrAbandoned
<1>11. ASSUME NEW e \in Entries, StopNext(e) PROVE LeftAlive' /\ EndedOrAbandoned'
  BY <1>4, <1>11, OfTyped, <1>a DEF StopNext
<1>12. CASE Apply
  <2>1. \A n \in Managers : stopper'[n] = "over" => stopper[n] = "over"
    BY <1>12, <1>a DEF Apply, TypeOK
  <2> QED BY <1>12, <1>a, <2>1 DEF Apply, manager, LeftAlive, EndedOrAbandoned
<1>13. CASE StopsOver
  BY <1>13, <1>a, ArrivingTyped, BeginLeft DEF StopsOver, stops
<1>14. CASE Swap \/ StopAll
  BY <1>14, <1>a DEF Swap, StopAll, manager, stops, LeftAlive, EndedOrAbandoned
<1> QED
  BY <1>1, <1>2, <1>3, <1>5, <1>6, <1>7, <1>8, <1>9, <1>10, <1>11, <1>12, <1>13, <1>14 DEF Next

-----------------------------------------------------------------------------
(* The theorems.                                                           *)

\* The invariant holds of every state: whatever the far sides do, however applies,
\* revivals, failing calls and stops interleave.
THEOREM ServersAlways == Spec => []ServersInv
<1>1. Init => ServersInv
  <2> SUFFICES ASSUME Init PROVE ServersInv
    OBVIOUS
  <2>1. TypeOK
    BY DEF Init, TypeOK, RunStates, StopStates
  <2>2. Untouched /\ Followed /\ LeftAlive
    BY DEF Init, Untouched, Unborn, Followed, Begun, LeftAlive
  <2>3. OneConnection /\ EndedOrAbandoned
    BY DEF Init, OneConnection, EndedOrAbandoned, Alive, Live, Ending
  <2> QED BY <2>1, <2>2, <2>3 DEF ServersInv
<1>2. ServersInv /\ [Next]_vars => ServersInv'
  <2> SUFFICES ASSUME ServersInv, [Next]_vars PROVE ServersInv'
    OBVIOUS
  <2>1. CASE Next
    BY <2>1, TypeStep, HoldsStep, ConnectionStep, LeftStep DEF ServersInv
  <2>2. CASE UNCHANGED vars
    BY <2>2 DEF vars, servers, manager, stops, ServersInv, TypeOK, Untouched, Unborn, Arriving,
       In, Of, Followed, Begun, LeftAlive, OneConnection, Alive, EndedOrAbandoned
  <2> QED BY <2>1, <2>2
<1> QED BY <1>1, <1>2, PTL DEF Spec

\* The variables hold values of their types: a manager belongs to a composed world.
THEOREM TypeCorrect == Spec => []TypeOK
<1>1. ServersInv => TypeOK
  BY DEF ServersInv
<1> QED BY <1>1, ServersAlways, PTL

\* A manager nobody is taking away never has two connections, publishes none that is
\* over, and tells one it no longer publishes to go (`ensure_reconnecting`,
\* `_mark_down`).
THEOREM ConnectedOnce == Spec => []OneConnection
<1>1. ServersInv => OneConnection
  BY DEF ServersInv
<1> QED BY <1>1, ServersAlways, PTL

\* A stop that has answered saw its run end, or left it among the abandoned, which
\* holds no run that is over (`stop`, `_abandon`, `_forget`).
THEOREM StopsAccounted == Spec => []EndedOrAbandoned
<1>1. ServersInv => EndedOrAbandoned
  BY DEF ServersInv
<1> QED BY <1>1, ServersAlways, PTL
=============================================================================
