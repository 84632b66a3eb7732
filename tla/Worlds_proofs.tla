--------------------------- MODULE Worlds_proofs ---------------------------
(***************************************************************************)
(* Proofs about Worlds: its types, the invariant behind the lifecycle of a  *)
(* world, and what that invariant says of the engines that are served, held *)
(* and closed, of the rename ledger and of a comparison.                    *)
(***************************************************************************)
EXTENDS Worlds, SequenceTheorems, TLAPS

USE MaxWorldsAssumption, MaxRenamesAssumption, MaxDisposalsAssumption

-----------------------------------------------------------------------------
(* The invariant.                                                          *)

\* The worlds still around.
Around == {current} \cup retired

\* Worlds are numbered in the order they are built: a candidate is newer than
\* every world around, and past the swap it is the world served.
Numbering ==
  /\ \A w \in Around : w <= minted
  /\ phase \in {"reading", "building", "prepared"} =>
       candidate = minted /\ \A w \in Around : w < candidate
  /\ phase \in {"window", "disposing"} => candidate = current
  /\ phase = "idle" => candidate = 0

\* An engine is as old as the world it was built for, and a world speaks only
\* through engines that were built, its own or older ones.
Provenance ==
  /\ closed \subseteq made
  /\ \A x \in made : x[2] <= minted
  /\ \A w \in Worlds : engines[w] \subseteq made /\ \A x \in engines[w] : x[2] <= w
  /\ \A w \in Worlds : w > minted => engines[w] = {}

\* Until it is built a candidate has no engine; built and not yet served, it
\* shares the rest with the world served, and what is its own is open.
Preparation ==
  /\ phase \in {"reading", "building"} =>
       engines[candidate] = {} /\ \A x \in made : x[2] < candidate
  /\ phase = "prepared" =>
       /\ \A x \in engines[candidate] : x[2] = candidate \/ x \in engines[current]
       /\ \A x \in closed : x[2] < candidate

\* NothingLeaked, engine by engine: who will close it.
Owned ==
  \A x \in made \ closed :
    \/ candidate # 0 /\ x \in engines[candidate]
    \/ ~ended /\ \E w \in Around : x \in engines[w]

\* No world still around has lost an engine.
AroundOpen == ~ended => \A w \in Around : engines[w] \cap closed = {}

\* A world is in the ledger where its snapshot was read, and so will the
\* candidate be.
Marked ==
  /\ WatermarkExact
  /\ phase \in {"building", "prepared"} => mark = reflects[candidate]

\* A conversation that bound behind every disposal still pending is known to
\* all of them.
HeldKnown ==
  ~ended => \A s \in Sessions \ overtaken :
              bound[s] # 0 =>
                /\ bound[s] \in Around
                /\ \A i \in 1..Len(disposals) : bound[s] \in disposals[i]

\* A sample taken of a settled world names that world for as long as the
\* count has not moved and no window is open.
Sampled ==
  /\ phase # "window" => mcp = current
  /\ diff.open /\ diff.mark # NoMark =>
       /\ diff.mark <= settled
       /\ diff.mark = settled /\ phase # "window" => diff.world = current

WorldsInv ==
  /\ TypeOK /\ Numbering /\ Provenance /\ Preparation /\ AroundOpen
  /\ ClosedOnce /\ Owned /\ LetGoComes /\ Marked /\ HeldKnown /\ Sampled

-----------------------------------------------------------------------------
(* Letting go.                                                             *)

LEMMA EnginesOfElement ==
  ASSUME NEW ws, NEW x
  PROVE  x \in EnginesOf(ws) <=> \E w \in ws : x \in engines[w]
BY DEF EnginesOf

\* A disposal takes the retired worlds that were not held, forgets their place
\* in the ledger, and closes what only they were speaking through.
LEMMA DisposeFacts ==
  ASSUME TypeOK, NEW held, Dispose(held)
  PROVE  /\ retired' = retired \cap held
         /\ known' = [w \in Worlds |-> IF w \in retired \ held THEN 0 ELSE known[w]]
         /\ closed \subseteq closed'
         /\ \A x \in closed' \ closed :
              /\ \E w \in retired : x \in engines[w]
              /\ \A w \in {current} \cup (retired \cap held) : x \notin engines[w]
         /\ \A w \in retired \ held : \A x \in engines[w] :
              \/ x \in closed'
              \/ \E v \in {current} \cup (retired \cap held) : x \in engines[v]
         /\ \A x \in twice' \ twice : x \in closed /\ \E w \in retired : x \in engines[w]
         /\ closed' \subseteq Engines /\ twice' \subseteq Engines
<1> DEFINE going == retired \ held
<1>1. /\ retired' = retired \ going
      /\ known' = [w \in Worlds |-> IF w \in going THEN 0 ELSE known[w]]
      /\ closed' = closed \cup LastHeldBy(going)
      /\ twice' = twice \cup (closed \cap LastHeldBy(going))
  BY DEF Dispose, LettingGo, CloseAll
<1>2. \A x : x \in LastHeldBy(going) <=>
               /\ \E w \in going : x \in engines[w]
               /\ \A w \in {current} \cup (retired \ going) : x \notin engines[w]
  BY EnginesOfElement DEF LastHeldBy
<1>3. LastHeldBy(going) \subseteq Engines
  BY <1>2 DEF TypeOK
<1>4. retired \ going = retired \cap held
  OBVIOUS
<1> HIDE DEF going
<1>5. /\ \A x \in closed' \ closed : x \in LastHeldBy(going)
      /\ \A x \in twice' \ twice : x \in closed /\ x \in LastHeldBy(going)
  BY <1>1
<1>6. \A w \in going : \A x \in engines[w] :
        \/ x \in LastHeldBy(going)
        \/ \E v \in {current} \cup (retired \ going) : x \in engines[v]
  BY <1>2
<1>7. closed' \subseteq Engines /\ twice' \subseteq Engines
  BY <1>1, <1>3 DEF TypeOK
<1>8. \A w \in going : w \in retired
  BY DEF going
<1> QED BY <1>1, <1>2, <1>4, <1>5, <1>6, <1>7, <1>8 DEF going

-----------------------------------------------------------------------------
(* Types.                                                                  *)

\* The type invariant, group by group: what an action leaves alone keeps its
\* type without being looked into.
WorldTypes ==
  /\ current \in Worlds /\ retired \subseteq Worlds \ {current}
  /\ engines \in [Worlds -> SUBSET Engines]
  /\ known \in [Worlds -> 0..MaxRenames]
  /\ settled \in Nat /\ mcp \in Worlds
  /\ reflects \in [Worlds -> 0..MaxRenames]
ApplyTypes ==
  /\ phase \in Phases /\ abandoned \in BOOLEAN
  /\ candidate \in 0..MaxWorlds /\ mark \in 0..MaxRenames /\ minted \in Worlds
EngineTypes == closed \subseteq Engines /\ made \subseteq Engines /\ twice \subseteq Engines
SessionTypes ==
  /\ bound \in [Sessions -> 0..MaxWorlds]
  /\ disposals \in Seq(SUBSET Worlds)
  /\ overtaken \subseteq Sessions
RestTypes ==
  /\ ledger \in 0..MaxRenames /\ committed \in 0..MaxRenames /\ ended \in BOOLEAN
  /\ diff \in [open : BOOLEAN, mark : Nat \cup {NoMark}, world : 0..MaxWorlds]

LEMMA TypeGroups ==
  TypeOK <=> WorldTypes /\ ApplyTypes /\ EngineTypes /\ SessionTypes /\ RestTypes
BY DEF TypeOK, WorldTypes, ApplyTypes, EngineTypes, SessionTypes, RestTypes

LEMMA StillTyped ==
  /\ WorldTypes /\ UNCHANGED worldVars => WorldTypes'
  /\ ApplyTypes /\ UNCHANGED applyVars => ApplyTypes'
  /\ EngineTypes /\ UNCHANGED engineVars => EngineTypes'
  /\ SessionTypes /\ UNCHANGED sessionVars => SessionTypes'
  /\ RestTypes /\ UNCHANGED <<renameVars, ended, diff>> => RestTypes'
BY DEF WorldTypes, ApplyTypes, EngineTypes, SessionTypes, RestTypes, worldVars,
   applyVars, engineVars, sessionVars, renameVars

\* Types hold only together with the order of the worlds: a swap needs a
\* candidate, whose number is that of a world.
LEMMA TypeStep ==
  ASSUME TypeOK, Numbering, [Next]_vars
  PROVE  TypeOK'
<1>0. WorldTypes /\ ApplyTypes /\ EngineTypes /\ SessionTypes /\ RestTypes
  BY TypeGroups
<1> SUFFICES WorldTypes' /\ ApplyTypes' /\ EngineTypes' /\ SessionTypes' /\ RestTypes'
  BY DEF TypeOK, WorldTypes, ApplyTypes, EngineTypes, SessionTypes, RestTypes
<1>1. CASE Apply
  <2>1. minted + 1 \in Worlds
    BY <1>0, <1>1 DEF Apply, ApplyTypes, Worlds
  <2>3. phase' \in Phases /\ abandoned' \in BOOLEAN
    BY <1>1 DEF Apply, Phases
  <2>2. ApplyTypes'
    BY <1>0, <1>1, <2>1, <2>3 DEF Apply, ApplyTypes, Worlds
  <2> QED BY StillTyped, <1>0, <1>1, <2>2 DEF Apply
<1>2. CASE CallerLeaves
  <2>1. ApplyTypes'
    BY <1>0, <1>2 DEF CallerLeaves, ApplyTypes
  <2> QED BY StillTyped, <1>0, <1>2, <2>1 DEF CallerLeaves
<1>3. CASE ReadStored
  <2>1. ApplyTypes'
    BY <1>0, <1>3 DEF ReadStored, ApplyTypes, RestTypes, Phases
  <2>2. WorldTypes'
    BY <1>0, <1>3 DEF ReadStored, WorldTypes, RestTypes
  <2> QED BY StillTyped, <1>0, <1>3, <2>1, <2>2 DEF ReadStored
<1>4. CASE PrepareRefused
  <2>1. ApplyTypes'
    BY <1>0, <1>4 DEF PrepareRefused, Release, ApplyTypes, Phases
  <2>2. EngineTypes'
    <3>1. CASE UNCHANGED engineVars
      BY StillTyped, <1>0, <3>1
    <3>2. ASSUME NEW es \in SUBSET Entries, phase = "building",
                 made' = made \cup (es \X {candidate}),
                 CloseAll(es \X {candidate})
          PROVE  EngineTypes'
      <4>1. candidate \in Worlds
        BY <3>2, <1>0 DEF Numbering, ApplyTypes
      <4>2. es \X {candidate} \subseteq Engines
        BY <3>2, <4>1 DEF Engines
      <4> QED BY <1>0, <3>2, <4>2 DEF CloseAll, EngineTypes
    <3> QED BY <1>4, <3>1, <3>2 DEF PrepareRefused
  <2> QED BY StillTyped, <1>0, <1>4, <2>1, <2>2 DEF PrepareRefused
<1>5. CASE Build
  <2>1. ApplyTypes'
    BY <1>0, <1>5 DEF Build, ApplyTypes, Phases
  <2>2. candidate \in Worlds
    BY <1>0, <1>5 DEF Build, Numbering, ApplyTypes
  <2>3. PICK fresh \in SUBSET Entries, carried \in SUBSET engines[current] :
          /\ engines' = [engines EXCEPT ![candidate] =
                           (fresh \X {candidate}) \cup carried]
          /\ made' = made \cup (fresh \X {candidate})
    BY <1>5 DEF Build
  <2>4. fresh \X {candidate} \subseteq Engines /\ carried \subseteq Engines
    BY <1>0, <2>2 DEF Engines, WorldTypes
  <2>5. EngineTypes'
    BY <1>0, <1>5, <2>3, <2>4 DEF Build, EngineTypes
  <2>6. WorldTypes'
    BY <1>0, <1>5, <2>3, <2>4 DEF Build, WorldTypes
  <2> QED BY StillTyped, <1>0, <1>5, <2>1, <2>5, <2>6 DEF Build
<1>6. CASE Discard
  <2>1. ApplyTypes'
    BY <1>0, <1>6 DEF Discard, Release, ApplyTypes, Phases
  <2>2. Built(candidate) \subseteq Engines
    BY <1>0, <1>6 DEF Discard, Numbering, ApplyTypes, WorldTypes, Built
  <2>3. EngineTypes'
    BY <1>0, <1>6, <2>2 DEF Discard, CloseAll, EngineTypes
  <2>4. WorldTypes'
    BY <1>0, <1>6 DEF Discard, WorldTypes
  <2> QED BY StillTyped, <1>0, <1>6, <2>1, <2>3, <2>4 DEF Discard
<1>7. CASE Install
  <2>1. ApplyTypes'
    BY <1>0, <1>7 DEF Install, ApplyTypes, Phases
  <2>2. candidate \in Worlds \ Around
    BY <1>0, <1>7 DEF Install, Numbering, ApplyTypes, WorldTypes, Worlds, Around
  <2>3. WorldTypes'
    BY <1>0, <1>7, <2>2 DEF Install, WorldTypes, ApplyTypes, Around
  <2> QED BY StillTyped, <1>0, <1>7, <2>1, <2>3 DEF Install
<1>8. CASE McpInstalled
  <2>1. ApplyTypes'
    BY <1>0, <1>8 DEF McpInstalled, ApplyTypes, Phases
  <2>2. WorldTypes'
    BY <1>0, <1>8, DisposeFacts DEF McpInstalled, WorldTypes
  <2>3. EngineTypes'
    BY <1>0, <1>8, DisposeFacts DEF McpInstalled, EngineTypes
  <2> QED BY StillTyped, <1>0, <1>8, <2>1, <2>2, <2>3 DEF McpInstalled
<1>9. CASE Applied
  <2>1. ApplyTypes'
    BY <1>0, <1>9 DEF Applied, Release, ApplyTypes, Phases
  <2> QED BY StillTyped, <1>0, <1>9, <2>1 DEF Applied
<1>10. CASE DisposalRuns
  <2>4. Tail(disposals) \in Seq(SUBSET Worlds)
    BY <1>0, <1>10 DEF DisposalRuns, SessionTypes
  <2>5. disposals' = Tail(disposals) /\ bound' = bound /\ overtaken' = overtaken
    BY <1>10 DEF DisposalRuns
  <2>1. SessionTypes'
    BY <1>0, <2>4, <2>5 DEF SessionTypes
  <2>6. Dispose(Head(disposals))
    BY <1>10 DEF DisposalRuns
  <2>7. /\ retired' \subseteq retired
        /\ known' = [w \in Worlds |-> IF w \in retired \ Head(disposals) THEN 0
                                                                  ELSE known[w]]
        /\ closed' \subseteq Engines /\ twice' \subseteq Engines
    BY <2>6, DisposeFacts
  <2>8. known' \in [Worlds -> 0..MaxRenames]
    BY <1>0, <2>7 DEF WorldTypes
  <2>9. UNCHANGED <<current, engines, settled, mcp, reflects, made>>
    BY <1>10 DEF DisposalRuns
  <2>2. WorldTypes'
    BY <1>0, <2>7, <2>8, <2>9 DEF WorldTypes
  <2>3. EngineTypes'
    BY <1>0, <2>7, <2>9 DEF EngineTypes
  <2> QED BY StillTyped, <1>0, <1>10, <2>1, <2>2, <2>3 DEF DisposalRuns
<1>11. CASE Aclose
  <2>1. EnginesOf(retired \cup {current}) \subseteq Engines
    BY <1>0, EnginesOfElement DEF WorldTypes
  <2>2. EngineTypes'
    BY <1>0, <1>11, <2>1 DEF Aclose, CloseAll, EngineTypes
  <2>3. WorldTypes'
    BY <1>0, <1>11 DEF Aclose, WorldTypes
  <2>4. RestTypes'
    BY <1>0, <1>11 DEF Aclose, RestTypes, renameVars
  <2> QED BY StillTyped, <1>0, <1>11, <2>2, <2>3, <2>4 DEF Aclose
<1>12. CASE RenameCommits
  <2>1. RestTypes'
    BY <1>0, <1>12 DEF RenameCommits, RestTypes
  <2> QED BY StillTyped, <1>0, <1>12, <2>1 DEF RenameCommits
<1>13. CASE RenamePublished
  <2>1. RestTypes'
    BY <1>0, <1>13 DEF RenamePublished, RestTypes
  <2> QED BY StillTyped, <1>0, <1>13, <2>1 DEF RenamePublished
<1>14. CASE DiffBegins
  <2>1. RestTypes'
    BY <1>0, <1>14 DEF DiffBegins, RestTypes, WorldTypes, Mark, NoMark, renameVars,
       Worlds
  <2> QED BY StillTyped, <1>0, <1>14, <2>1 DEF DiffBegins
<1>15. CASE DiffEnds
  <2>1. RestTypes'
    BY <1>0, <1>15 DEF DiffEnds, RestTypes, NoDiff, NoMark, renameVars
  <2> QED BY StillTyped, <1>0, <1>15, <2>1 DEF DiffEnds
<1>16. ASSUME NEW s \in Sessions, Bind(s)
      PROVE  WorldTypes' /\ ApplyTypes' /\ EngineTypes' /\ SessionTypes' /\ RestTypes'
  <2>2. bound' \in [Sessions -> 0..MaxWorlds] /\ disposals' = disposals
    BY <1>0, <1>16 DEF Bind, SessionTypes, WorldTypes, Worlds
  <2>3. overtaken' = overtaken \/ overtaken' = overtaken \cup {s}
    BY <1>16 DEF Bind
  <2>1. SessionTypes'
    BY <1>0, <2>2, <2>3 DEF SessionTypes
  <2> QED BY StillTyped, <1>0, <1>16, <2>1 DEF Bind
<1>17. ASSUME NEW s \in Sessions, Leave(s)
      PROVE  WorldTypes' /\ ApplyTypes' /\ EngineTypes' /\ SessionTypes' /\ RestTypes'
  <2>1. {bound[t] : t \in Sessions \ {s}} \ {0} \in SUBSET Worlds
    BY <1>0 DEF SessionTypes, Worlds
  <2>2. disposals' \in Seq(SUBSET Worlds)
    BY <1>0, <1>17, <2>1, AppendProperties DEF Leave, SessionTypes
  <2>3. SessionTypes'
    BY <1>0, <1>17, <2>2 DEF Leave, SessionTypes
  <2> QED BY StillTyped, <1>0, <1>17, <2>3 DEF Leave
<1>18. CASE UNCHANGED vars
  BY StillTyped, <1>0, <1>18 DEF vars
<1> QED BY <1>1, <1>2, <1>3, <1>4, <1>5, <1>6, <1>7, <1>8, <1>9, <1>10, <1>11,
           <1>12, <1>13, <1>14, <1>15, <1>16, <1>17, <1>18
   DEF Next, ApplyStep

-----------------------------------------------------------------------------
(* One lemma per part of the invariant: what keeps it true over a step.    *)

\* Every disposal leaves a part of the worlds that were around.
LEMMA DisposeAround ==
  ASSUME TypeOK, NEW held, Dispose(held), current' = current
  PROVE  /\ Around' \subseteq Around
         /\ \A w \in Around' : w = current \/ w \in held
         /\ \A w \in Around : w \in held => w \in Around'
         /\ \A w \in Around' : known'[w] = known[w]
<1>1. /\ retired' = retired \cap held
      /\ known' = [w \in Worlds |-> IF w \in retired \ held THEN 0 ELSE known[w]]
  BY DisposeFacts
<1>2. Around' = {current} \cup (retired \cap held)
  BY <1>1 DEF Around
<1>3. current \in Worlds \ retired /\ retired \subseteq Worlds
  BY DEF TypeOK
<1> QED BY <1>1, <1>2, <1>3 DEF Around

LEMMA NumberingStep ==
  ASSUME TypeOK, Numbering, [Next]_vars
  PROVE  Numbering'
<1>0. /\ minted \in Worlds /\ Worlds \subseteq Int /\ Around \subseteq Worlds
      /\ candidate \in 0..MaxWorlds
  BY DEF TypeOK, Around, Worlds
<1>1. CASE Apply
  <2>1. minted' = minted + 1 /\ candidate' = minted + 1 /\ phase' = "reading"
    BY <1>1 DEF Apply
  <2>2. Around' = Around
    BY <1>1 DEF Apply, worldVars, Around
  <2> QED BY <1>0, <2>1, <2>2 DEF Numbering
<1>2. CASE CallerLeaves
  BY <1>2 DEF CallerLeaves, worldVars, Numbering, Around
<1>3. CASE ReadStored
  BY <1>3 DEF ReadStored, Numbering, Around
<1>4. CASE PrepareRefused
  BY <1>4 DEF PrepareRefused, Release, worldVars, Numbering, Around
<1>5. CASE Build
  BY <1>5 DEF Build, Numbering, Around
<1>6. CASE Discard
  BY <1>6 DEF Discard, Release, Numbering, Around
<1>7. CASE Install
  <2>1. Around' = Around \cup {candidate}
    BY <1>7 DEF Install, Around
  <2>2. candidate' = current' /\ minted' = minted /\ phase' = "window"
    BY <1>7 DEF Install
  <2>3. candidate = minted
    BY <1>7 DEF Install, Numbering
  <2> QED BY <1>0, <2>1, <2>2, <2>3 DEF Numbering
<1>8. CASE McpInstalled
  <2>1. Around' \subseteq Around
    BY <1>8, DisposeAround DEF McpInstalled
  <2> QED BY <1>8, <2>1 DEF McpInstalled, Numbering
<1>9. CASE Applied
  BY <1>9 DEF Applied, Release, worldVars, Numbering, Around
<1>10. CASE DisposalRuns
  <2>1. Around' \subseteq Around
    BY <1>10, DisposeAround DEF DisposalRuns
  <2> QED BY <1>10, <2>1 DEF DisposalRuns, applyVars, Numbering
<1>11. CASE Aclose
  BY <1>11 DEF Aclose, applyVars, Numbering, Around
<1>12. ASSUME UNCHANGED <<worldVars, applyVars>>
       PROVE  Numbering'
  BY <1>12 DEF worldVars, applyVars, Numbering, Around
<1>13. ASSUME NEW s \in Sessions, Bind(s) \/ Leave(s)
       PROVE  Numbering'
  BY <1>12, <1>13 DEF Bind, Leave
<1>14. CASE \/ RenameCommits \/ RenamePublished \/ DiffBegins \/ DiffEnds
            \/ UNCHANGED vars
  BY <1>12, <1>14 DEF RenameCommits, RenamePublished, DiffBegins, DiffEnds, vars
<1> QED BY <1>1, <1>2, <1>3, <1>4, <1>5, <1>6, <1>7, <1>8, <1>9, <1>10, <1>11,
           <1>13, <1>14 DEF Next, ApplyStep

LEMMA TypesInitially ==
  ASSUME Init
  PROVE  TypeOK /\ Numbering
<1>1. 1 \in Worlds /\ 0 \in 0..MaxRenames /\ 0 \in 0..MaxWorlds /\ 0 \in Nat
  BY DEF Worlds
<1>2. Entries \X {1} \subseteq Engines
  BY <1>1 DEF Engines
<1>3. WorldTypes
  BY <1>1, <1>2 DEF Init, WorldTypes
<1>4. ApplyTypes /\ EngineTypes
  BY <1>1, <1>2 DEF Init, ApplyTypes, EngineTypes, Phases
<1>5. SessionTypes
  BY <1>1, EmptySeq DEF Init, SessionTypes
<1>6. RestTypes
  BY <1>1 DEF Init, RestTypes, NoDiff, NoMark
<1>7. Numbering
  BY DEF Init, Numbering, Around
<1> QED BY <1>3, <1>4, <1>5, <1>6, <1>7, TypeGroups

\* Every type, for any number of entries, conversations, applies and renames:
\* the counters stay in their bounds, only a world replaced is in the list of
\* those retired, and whatever is served, held or prepared is a world.
THEOREM TypeCorrect == Spec => []TypeOK
<1>1. Init => TypeOK /\ Numbering
  BY TypesInitially
<1>2. TypeOK /\ Numbering /\ [Next]_vars => TypeOK' /\ Numbering'
  BY TypeStep, NumberingStep
<1> QED BY <1>1, <1>2, PTL DEF Spec

\* What is around is a world, and none of it is the candidate before the swap.
LEMMA AroundFacts ==
  ASSUME TypeOK, Numbering
  PROVE  /\ Around \subseteq Worlds /\ current \in Around /\ Worlds \subseteq Int
         /\ \A w \in Around : w <= minted
         /\ \A w \in Worlds : engines[w] \subseteq Engines
         /\ minted \in Int
         /\ phase \in {"reading", "building", "prepared"} =>
              /\ candidate \in Worlds /\ candidate = minted /\ candidate \notin Around
              /\ candidate # 0 /\ \A w \in Around : w < candidate
         /\ \A x \in Engines : x[2] \in Int
<1>1. Around \subseteq Worlds /\ current \in Around /\ minted \in Worlds
  BY DEF TypeOK, Around
<1>2. Worlds \subseteq Int /\ 0 \notin Worlds
  BY DEF Worlds
<1>3. \A w \in Worlds : engines[w] \subseteq Engines
  BY DEF TypeOK
<1>4. \A x \in Engines : x[2] \in Int
  BY <1>2 DEF Engines
<1>5. phase \in {"reading", "building", "prepared"} =>
        candidate = minted /\ \A w \in Around : w < candidate
  BY DEF Numbering
<1>6. phase \in {"reading", "building", "prepared"} => candidate \notin Around
  BY <1>1, <1>2, <1>5
<1> QED BY <1>1, <1>2, <1>3, <1>4, <1>5, <1>6 DEF Numbering

\* What a step closes: engines of worlds around, or engines of the candidate.
LEMMA ClosedBy ==
  ASSUME TypeOK, Numbering, [Next]_vars
  PROVE  /\ closed \subseteq closed'
         /\ \A x \in closed' \ closed :
              \/ /\ \E w \in Around : x \in engines[w]
                 /\ ended' \/ \A w \in Around' : x \notin engines[w]
              \/ /\ phase \in {"building", "prepared"} /\ phase' = "idle"
                 /\ x[2] = candidate
                 /\ x \in made' \/ x \in engines[candidate]
<1>0. retired \subseteq Around /\ current \in Around
  BY DEF Around
<1>1. ASSUME NEW held, Dispose(held), current' = current
      PROVE  /\ closed \subseteq closed'
             /\ \A x \in closed' \ closed :
                  /\ \E w \in Around : x \in engines[w]
                  /\ \A w \in Around' : x \notin engines[w]
  <2>1. Around' = {current} \cup (retired \cap held)
    BY <1>1, DisposeFacts DEF Around
  <2> QED BY <1>0, <1>1, <2>1, DisposeFacts
<1>2. CASE PrepareRefused
  BY <1>2 DEF PrepareRefused, Release, CloseAll, engineVars
<1>3. CASE Discard
  <2>1. closed' = closed \cup Built(candidate) /\ phase = "prepared" /\ phase' = "idle"
    BY <1>3 DEF Discard, Release, CloseAll
  <2> QED BY <2>1 DEF Built
<1>4. CASE McpInstalled
  BY <1>1, <1>4 DEF McpInstalled
<1>5. CASE DisposalRuns
  BY <1>1, <1>5 DEF DisposalRuns
<1>6. CASE Aclose
  <2>1. ended' /\ closed' = closed \cup EnginesOf(retired \cup {current})
    BY <1>6 DEF Aclose, CloseAll
  <2> QED BY <1>0, <2>1, EnginesOfElement
<1>7. CASE closed' = closed
  BY <1>7
<1>8. CASE \/ Apply \/ CallerLeaves \/ ReadStored \/ Build \/ Install \/ Applied
  BY <1>7, <1>8 DEF Apply, CallerLeaves, ReadStored, Build, Install, Applied, engineVars
<1>9. ASSUME NEW s \in Sessions, Bind(s) \/ Leave(s)
      PROVE  closed' = closed
  BY <1>9 DEF Bind, Leave, engineVars
<1>10. CASE \/ RenameCommits \/ RenamePublished \/ DiffBegins \/ DiffEnds
            \/ UNCHANGED vars
  BY <1>7, <1>10 DEF RenameCommits, RenamePublished, DiffBegins, DiffEnds, vars,
     engineVars
<1> QED BY <1>2, <1>3, <1>4, <1>5, <1>6, <1>7, <1>8, <1>9, <1>10 DEF Next, ApplyStep

\* What a step does to the engines: it builds the candidate's, drops the
\* candidate's, or leaves them.
LEMMA EnginesStep ==
  ASSUME TypeOK, Numbering, [Next]_vars
  PROVE  \/ UNCHANGED <<engines, made>>
         \/ /\ Build /\ closed' = closed /\ candidate' = candidate
            /\ \E fresh \in SUBSET Entries, carried \in SUBSET engines[current] :
                 /\ engines' = [engines EXCEPT ![candidate] =
                                  (fresh \X {candidate}) \cup carried]
                 /\ made' = made \cup (fresh \X {candidate})
         \/ /\ PrepareRefused /\ phase = "building" /\ engines' = engines
            /\ \E es \in SUBSET Entries :
                 /\ made' = made \cup (es \X {candidate})
                 /\ closed' = closed \cup (es \X {candidate})
         \/ /\ Discard /\ made' = made
            /\ engines' = [engines EXCEPT ![candidate] = {}]
<1>1. CASE Build
  BY <1>1 DEF Build
<1>2. CASE PrepareRefused
  BY <1>2 DEF PrepareRefused, CloseAll, engineVars, worldVars
<1>3. CASE Discard
  BY <1>3 DEF Discard
<1>4. CASE \/ Apply \/ CallerLeaves \/ ReadStored \/ Install \/ McpInstalled
           \/ Applied \/ DisposalRuns \/ Aclose
  BY <1>4 DEF Apply, CallerLeaves, ReadStored, Install, McpInstalled, Applied,
     DisposalRuns, Aclose, worldVars, engineVars
<1>5. ASSUME NEW s \in Sessions, Bind(s) \/ Leave(s)
      PROVE  UNCHANGED <<engines, made>>
  BY <1>5 DEF Bind, Leave, worldVars, engineVars
<1>6. CASE \/ RenameCommits \/ RenamePublished \/ DiffBegins \/ DiffEnds
           \/ UNCHANGED vars
  BY <1>6 DEF RenameCommits, RenamePublished, DiffBegins, DiffEnds, vars,
     worldVars, engineVars
<1> QED BY <1>1, <1>2, <1>3, <1>4, <1>5, <1>6 DEF Next, ApplyStep

\* No number is ever taken back.
LEMMA MintedStep ==
  ASSUME TypeOK, [Next]_vars
  PROVE  minted' \in Int /\ (minted' = minted \/ minted' = minted + 1)
<1>1. minted \in Int
  BY DEF TypeOK, Worlds
<1>2. CASE Apply
  BY <1>1, <1>2 DEF Apply
<1>3. CASE minted' = minted
  BY <1>1, <1>3
<1>4. CASE ApplyStep /\ ~Apply
  BY <1>3, <1>4 DEF ApplyStep, CallerLeaves, ReadStored, PrepareRefused, Build,
     Discard, Install, McpInstalled, Applied
<1>5. ASSUME NEW s \in Sessions, Bind(s) \/ Leave(s)
      PROVE  minted' = minted
  BY <1>5 DEF Bind, Leave, applyVars
<1>6. CASE \/ DisposalRuns \/ Aclose \/ RenameCommits \/ RenamePublished
           \/ DiffBegins \/ DiffEnds \/ UNCHANGED vars
  BY <1>3, <1>6 DEF DisposalRuns, Aclose, RenameCommits, RenamePublished,
     DiffBegins, DiffEnds, vars, applyVars
<1> QED BY <1>2, <1>3, <1>4, <1>5, <1>6 DEF Next

LEMMA ProvenanceStep ==
  ASSUME TypeOK, Numbering, Provenance, [Next]_vars
  PROVE  Provenance'
<1>0. /\ \A w \in Worlds : engines[w] \subseteq made
      /\ closed \subseteq made
      /\ \A x \in made : x \in Engines /\ x[2] \in Int /\ x[2] <= minted
      /\ minted' \in Int /\ minted \in Int /\ minted <= minted'
      /\ Worlds \subseteq Int
  <2>1. minted \in Int /\ Worlds \subseteq Int /\ \A x \in Engines : x[2] \in Int
    BY AroundFacts
  <2>2. minted' \in Int /\ minted <= minted'
    BY <2>1, MintedStep
  <2>3. made \subseteq Engines
    BY DEF TypeOK
  <2> QED BY <2>1, <2>2, <2>3 DEF Provenance
<1>1. made \subseteq made'
  BY EnginesStep
<1>2. closed' \subseteq made'
  <2>1. \A w \in Around : engines[w] \subseteq made
    BY AroundFacts, <1>0
  <2>2. phase \in {"building", "prepared"} => engines[candidate] \subseteq made
    BY AroundFacts, <1>0
  <2> QED BY <1>0, <1>1, <2>1, <2>2, ClosedBy
<1>3. \A x \in made' : x \in made \/ (x[2] = candidate /\ candidate = minted)
  BY EnginesStep, AroundFacts DEF Build
<1>4. \A x \in made' : x[2] <= minted'
  BY <1>0, <1>3
<1>5. /\ \A w \in Worlds :
           engines'[w] \subseteq made' /\ \A x \in engines'[w] : x[2] <= w
      /\ \A w \in Worlds : w > minted' => engines'[w] = {}
  <2>1. CASE engines' = engines
    BY <1>0, <1>1, <2>1 DEF Provenance
  <2>2. ASSUME phase \in {"building", "prepared"},
               NEW es, engines' = [engines EXCEPT ![candidate] = es],
               es \subseteq made', \A x \in es : x[2] <= candidate
        PROVE  <1>5!1 /\ <1>5!2
    <3>1. candidate \in Worlds /\ candidate = minted
      BY <2>2, AroundFacts
    <3>2. \A w \in Worlds : engines'[w] = IF w = candidate THEN es ELSE engines[w]
      BY <2>2, <3>1 DEF TypeOK
    <3> QED BY <1>0, <1>1, <2>2, <3>1, <3>2 DEF Provenance
  <2>3. CASE Discard /\ engines' = [engines EXCEPT ![candidate] = {}]
    BY <2>2, <2>3 DEF Discard
  <2>4. ASSUME Build, NEW fresh \in SUBSET Entries,
               NEW carried \in SUBSET engines[current],
               engines' = [engines EXCEPT ![candidate] =
                             (fresh \X {candidate}) \cup carried],
               made' = made \cup (fresh \X {candidate})
        PROVE  <1>5!1 /\ <1>5!2
    <3>1. phase = "building" /\ current \in Worlds /\ current \in Around
      BY <2>4, AroundFacts DEF Build
    <3>2. carried \subseteq made /\ \A x \in carried : x[2] <= current /\ x[2] \in Int
      BY <1>0, <2>4, <3>1 DEF Provenance
    <3>3. current < candidate /\ current \in Int /\ candidate \in Int
      BY <3>1, AroundFacts
    <3>4. \A x \in (fresh \X {candidate}) \cup carried : x[2] <= candidate
      BY <3>2, <3>3
    <3>5. (fresh \X {candidate}) \cup carried \subseteq made'
      BY <2>4, <3>2
    <3> QED BY <2>2, <2>4, <3>1, <3>4, <3>5
  <2> QED BY <2>1, <2>3, <2>4, EnginesStep
<1> QED BY <1>2, <1>4, <1>5 DEF Provenance

\* What a step keeps of an engine that somebody around is speaking through.
LEMMA AroundStep ==
  ASSUME TypeOK, Numbering, [Next]_vars
  PROVE  /\ \A w \in Around : engines'[w] = engines[w]
         /\ \/ Around' \subseteq Around
            \/ Install /\ Around' = Around \cup {candidate} /\ closed' = closed
<1>1. \A w \in Around : engines'[w] = engines[w]
  <2>1. ASSUME phase \in {"building", "prepared"},
               NEW es, engines' = [engines EXCEPT ![candidate] = es]
        PROVE  \A w \in Around : engines'[w] = engines[w]
    BY <2>1, AroundFacts DEF TypeOK
  <2> QED BY <2>1, EnginesStep DEF Build, Discard
<1>2. CASE UNCHANGED <<current, retired>>
  BY <1>1, <1>2 DEF Around
<1>3. CASE Install
  <2>1. Around' = Around \cup {candidate} /\ closed' = closed
    BY <1>3 DEF Install, Around, engineVars
  <2> QED BY <1>1, <1>3, <2>1
<1>4. CASE McpInstalled \/ DisposalRuns
  BY <1>1, <1>4, DisposeAround DEF McpInstalled, DisposalRuns
<1>5. CASE Aclose
  BY <1>1, <1>5 DEF Aclose, Around
<1>6. CASE \/ Apply \/ CallerLeaves \/ ReadStored \/ PrepareRefused \/ Build
           \/ Discard \/ Applied
  BY <1>2, <1>6 DEF Apply, CallerLeaves, ReadStored, PrepareRefused, Build, Discard,
     Applied, worldVars
<1>7. ASSUME NEW s \in Sessions, Bind(s) \/ Leave(s)
      PROVE  UNCHANGED <<current, retired>>
  BY <1>7 DEF Bind, Leave, worldVars
<1>8. CASE \/ RenameCommits \/ RenamePublished \/ DiffBegins \/ DiffEnds
           \/ UNCHANGED vars
  BY <1>2, <1>8 DEF RenameCommits, RenamePublished, DiffBegins, DiffEnds, vars,
     worldVars
<1> QED BY <1>2, <1>3, <1>4, <1>5, <1>6, <1>7, <1>8 DEF Next, ApplyStep

LEMMA PreparationStep ==
  ASSUME TypeOK, Numbering, Provenance, Preparation, [Next]_vars
  PROVE  Preparation'
<1>0. /\ \A x \in made : x \in Engines /\ x[2] \in Int /\ x[2] <= minted
      /\ closed \subseteq made /\ minted \in Int
  <2>1. made \subseteq Engines
    BY DEF TypeOK
  <2> QED BY <2>1, AroundFacts DEF Provenance
<1>1. CASE Apply
  <2>1. /\ candidate' = minted + 1 /\ phase' = "reading"
        /\ engines' = engines /\ made' = made
    BY <1>1 DEF Apply, worldVars, engineVars
  <2>2. minted + 1 \in Worlds
    BY <1>1 DEF Apply, TypeOK, Worlds
  <2>3. engines[minted + 1] = {}
    BY <1>0, <2>2 DEF Provenance
  <2> QED BY <1>0, <2>1, <2>3 DEF Preparation
<1>2. CASE ReadStored
  <2>1. /\ candidate' = candidate /\ phase' = "building" /\ phase = "reading"
        /\ engines' = engines /\ made' = made
    BY <1>2 DEF ReadStored, engineVars
  <2> QED BY <2>1 DEF Preparation
<1>3. CASE Build
  <2>1. /\ phase = "building" /\ phase' = "prepared" /\ current' = current
        /\ candidate' = candidate /\ closed' = closed
    BY <1>3 DEF Build
  <2>2. PICK fresh \in SUBSET Entries, carried \in SUBSET engines[current] :
          engines' = [engines EXCEPT ![candidate] = (fresh \X {candidate}) \cup carried]
    BY <1>3 DEF Build
  <2>3. candidate \in Worlds
    BY <2>1, AroundFacts
  <2>4. engines'[candidate] = (fresh \X {candidate}) \cup carried
    BY <2>2, <2>3 DEF TypeOK
  <2>5. engines'[current] = engines[current]
    BY AroundStep, AroundFacts
  <2>6. \A x \in engines'[candidate] : x[2] = candidate \/ x \in engines'[current]
    BY <2>4, <2>5
  <2>7. \A x \in closed : x[2] < candidate
    BY <1>0, <2>1 DEF Preparation
  <2> QED BY <2>1, <2>6, <2>7 DEF Preparation
<1>4. CASE PrepareRefused \/ Discard \/ Install \/ McpInstalled \/ Applied
  <2>1. phase' \in {"idle", "window", "disposing"}
    BY <1>4 DEF PrepareRefused, Discard, Install, McpInstalled, Applied, Release
  <2> QED BY <2>1 DEF Preparation
<1>5. ASSUME UNCHANGED <<phase, candidate, engines, made, current>>
      PROVE  Preparation'
  <2>1. ASSUME phase = "prepared", NEW x \in closed'
        PROVE  x[2] < candidate
    <3>1. CASE x \in closed
      BY <2>1, <3>1 DEF Preparation
    <3>2. ASSUME NEW w \in Around, x \in engines[w]
          PROVE  x[2] < candidate
      <4>1. w \in Worlds /\ w \in Int /\ w < candidate /\ candidate \in Int
        BY <2>1, AroundFacts
      <4>2. x[2] <= w /\ x \in Engines
        BY <3>2, <4>1, AroundFacts DEF Provenance
      <4>3. x[2] \in Int
        BY <4>2, AroundFacts
      <4> QED BY <4>1, <4>2, <4>3
    <3> QED BY <2>1, <3>1, <3>2, <1>5, ClosedBy
  <2> QED BY <1>5, <2>1 DEF Preparation
<1>6. CASE \/ CallerLeaves \/ DisposalRuns \/ Aclose
  BY <1>5, <1>6 DEF CallerLeaves, DisposalRuns, Aclose, worldVars, engineVars,
     applyVars
<1>7. ASSUME NEW s \in Sessions, Bind(s) \/ Leave(s)
      PROVE  Preparation'
  BY <1>5, <1>7 DEF Bind, Leave, worldVars, engineVars, applyVars
<1>8. CASE \/ RenameCommits \/ RenamePublished \/ DiffBegins \/ DiffEnds
           \/ UNCHANGED vars
  BY <1>5, <1>8 DEF RenameCommits, RenamePublished, DiffBegins, DiffEnds, vars,
     worldVars, engineVars, applyVars
<1> QED BY <1>1, <1>2, <1>3, <1>4, <1>6, <1>7, <1>8 DEF Next, ApplyStep

LEMMA AroundOpenStep ==
  ASSUME TypeOK, Numbering, Provenance, Preparation, AroundOpen, [Next]_vars
  PROVE  AroundOpen'
<1> SUFFICES ASSUME ~ended', NEW w \in Around', NEW x \in engines'[w]
             PROVE  x \notin closed'
  BY DEF AroundOpen
<1>0. ~ended
  BY DEF Next, ApplyStep, Apply, CallerLeaves, ReadStored, PrepareRefused, Build,
     Discard, Install, McpInstalled, Applied, Bind, Leave, DisposalRuns, Aclose,
     RenameCommits, RenamePublished, DiffBegins, DiffEnds, vars
<1>1. CASE w \in Around
  <2>1. x \in engines[w] /\ x \notin closed
    BY <1>0, <1>1, AroundStep DEF AroundOpen
  <2>2. x \in closed' => /\ phase \in {"building", "prepared"}
                         /\ x[2] = candidate
    BY <2>1, ClosedBy
  <2>3. phase \in {"building", "prepared"} => x[2] # candidate
    <3>1. w \in Worlds /\ w \in Int /\ x \in Engines /\ x[2] \in Int /\ x[2] <= w
      BY <1>1, <2>1, AroundFacts DEF Provenance
    <3>2. phase \in {"building", "prepared"} => w < candidate /\ candidate \in Int
      BY <1>1, AroundFacts
    <3> QED BY <3>1, <3>2
  <2> QED BY <2>2, <2>3
<1>2. CASE Install /\ w = candidate
  <2>1. engines' = engines /\ closed' = closed /\ phase = "prepared"
    BY <1>2 DEF Install, engineVars
  <2>2. current \in Around /\ candidate \in Int
    BY <2>1, AroundFacts
  <2>3. x[2] = candidate \/ x \in engines[current]
    BY <1>2, <2>1 DEF Preparation
  <2>4. x \in engines[current] => x \notin closed
    BY <1>0, <2>2 DEF AroundOpen
  <2>5. x[2] = candidate => x \notin closed
    BY <2>1, <2>2 DEF Preparation
  <2> QED BY <2>1, <2>3, <2>4, <2>5
<1> QED BY <1>1, <1>2, AroundStep

LEMMA ClosedOnceStep ==
  ASSUME TypeOK, Numbering, Provenance, Preparation, AroundOpen, ClosedOnce, [Next]_vars
  PROVE  ClosedOnce'
<1>0. retired \subseteq Around /\ current \in Around /\ twice = {}
  BY DEF Around, ClosedOnce
<1>1. ASSUME NEW held, Dispose(held), ~ended
      PROVE  twice' = {}
  BY <1>0, <1>1, DisposeFacts DEF AroundOpen
<1>2. CASE PrepareRefused
  <2>1. CASE UNCHANGED engineVars
    BY <1>0, <2>1 DEF ClosedOnce, engineVars
  <2>2. ASSUME phase = "building", NEW es \in SUBSET Entries,
               CloseAll(es \X {candidate})
        PROVE  twice' = {}
    <3>1. \A x \in closed : x[2] < candidate /\ candidate \in Int
      BY <2>2, AroundFacts DEF Preparation, Provenance
    <3>2. closed \cap (es \X {candidate}) = {}
      BY <3>1
    <3> QED BY <1>0, <2>2, <3>2 DEF CloseAll
  <2> QED BY <1>2, <2>1, <2>2 DEF PrepareRefused, ClosedOnce
<1>3. CASE Discard
  <2>1. phase = "prepared" /\ CloseAll(Built(candidate))
    BY <1>3 DEF Discard
  <2>2. \A x \in closed : x[2] < candidate /\ candidate \in Int
    BY <2>1, AroundFacts DEF Preparation
  <2>3. closed \cap Built(candidate) = {}
    BY <2>2 DEF Built
  <2> QED BY <1>0, <2>1, <2>3 DEF CloseAll, ClosedOnce
<1>4. CASE McpInstalled
  BY <1>1, <1>4 DEF McpInstalled, ClosedOnce
<1>5. CASE DisposalRuns
  BY <1>1, <1>5 DEF DisposalRuns, ClosedOnce
<1>6. CASE Aclose
  <2>1. ~ended /\ twice' = twice \cup (closed \cap EnginesOf(retired \cup {current}))
    BY <1>6 DEF Aclose, CloseAll
  <2>2. closed \cap EnginesOf(retired \cup {current}) = {}
    BY <1>0, <2>1, EnginesOfElement DEF AroundOpen
  <2> QED BY <1>0, <2>1, <2>2 DEF ClosedOnce
<1>7. CASE twice' = twice
  BY <1>0, <1>7 DEF ClosedOnce
<1>8. CASE \/ Apply \/ CallerLeaves \/ ReadStored \/ Build \/ Install \/ Applied
  BY <1>7, <1>8 DEF Apply, CallerLeaves, ReadStored, Build, Install, Applied,
     engineVars
<1>9. ASSUME NEW s \in Sessions, Bind(s) \/ Leave(s)
      PROVE  twice' = twice
  BY <1>9 DEF Bind, Leave, engineVars
<1>10. CASE \/ RenameCommits \/ RenamePublished \/ DiffBegins \/ DiffEnds
            \/ UNCHANGED vars
  BY <1>7, <1>10 DEF RenameCommits, RenamePublished, DiffBegins, DiffEnds, vars,
     engineVars
<1> QED BY <1>2, <1>3, <1>4, <1>5, <1>6, <1>7, <1>8, <1>9, <1>10
   DEF Next, ApplyStep

LEMMA OwnedStep ==
  ASSUME TypeOK, Numbering, Provenance, Preparation, Owned, [Next]_vars
  PROVE  Owned'
<1>0. candidate # 0 => candidate \in Worlds
  BY DEF TypeOK, Worlds
\* Nothing is built or closed, and nobody who would close it goes.
<1>1. ASSUME UNCHANGED <<made, engines, ended>>, closed \subseteq closed',
             candidate' = candidate \/ candidate = 0 \/ engines[candidate] = {}
               \/ (~ended /\ candidate \in Around), Around' = Around
      PROVE  Owned'
  <2> SUFFICES ASSUME NEW x \in made' \ closed'
               PROVE  \/ candidate' # 0 /\ x \in engines'[candidate']
                      \/ ~ended' /\ \E w \in Around' : x \in engines'[w]
    BY DEF Owned
  <2> QED BY <1>1 DEF Owned
\* What is let go of is closed, or still spoken through by somebody around.
<1>2. ASSUME NEW held, Dispose(held), ~ended,
             UNCHANGED <<made, engines, ended, candidate, current>>
      PROVE  Owned'
  <2> SUFFICES ASSUME NEW x \in made' \ closed'
               PROVE  \/ candidate' # 0 /\ x \in engines'[candidate']
                      \/ ~ended' /\ \E w \in Around' : x \in engines'[w]
    BY DEF Owned
  <2>1. x \in made \ closed /\ x \notin closed'
    BY <1>2, DisposeFacts
  <2>2. Around' = {current} \cup (retired \cap held)
    BY <1>2, DisposeFacts DEF Around
  <2>3. CASE candidate # 0 /\ x \in engines[candidate]
    BY <1>2, <2>3
  <2>4. ASSUME NEW w \in Around, x \in engines[w]
        PROVE  \E v \in Around' : x \in engines[v]
    <3>1. CASE w \in Around'
      BY <2>4, <3>1
    <3>2. CASE w \notin Around'
      <4>1. w \in retired \ held
        BY <2>2, <3>2 DEF Around
      <4> QED BY <1>2, <2>1, <2>2, <2>4, <4>1, DisposeFacts
    <3> QED BY <3>1, <3>2
  <2> QED BY <1>2, <2>1, <2>3, <2>4 DEF Owned
<1>3. CASE Apply
  <2>1. candidate = 0
    BY <1>3 DEF Apply, Numbering
  <2> QED BY <1>1, <1>3, <2>1 DEF Apply, worldVars, engineVars, Around
<1>4. CASE PrepareRefused
  <2>1. /\ phase \in {"reading", "building"} /\ UNCHANGED <<engines, ended>>
        /\ Around' = Around
    BY <1>4 DEF PrepareRefused, worldVars, Around
  <2>2. engines[candidate] = {}
    BY <2>1 DEF Preparation
  <2>3. made' \ closed' \subseteq made \ closed
    BY <1>4 DEF PrepareRefused, CloseAll, engineVars
  <2> QED BY <2>1, <2>2, <2>3 DEF Owned
<1>5. CASE Build
  <2>1. /\ phase = "building" /\ UNCHANGED <<closed, candidate, ended>>
        /\ Around' = Around
    BY <1>5 DEF Build, Around
  <2>2. candidate \in Worlds /\ candidate # 0 /\ engines[candidate] = {}
    BY <2>1, AroundFacts DEF Preparation
  <2>3. PICK fresh \in SUBSET Entries, carried \in SUBSET engines[current] :
          /\ engines' = [engines EXCEPT ![candidate] = (fresh \X {candidate}) \cup carried]
          /\ made' = made \cup (fresh \X {candidate})
    BY <1>5 DEF Build
  <2>4. fresh \X {candidate} \subseteq engines'[candidate]
    BY <2>2, <2>3 DEF TypeOK
  <2>5. \A w \in Around : engines'[w] = engines[w]
    BY AroundStep
  <2> SUFFICES ASSUME NEW x \in made' \ closed'
               PROVE  \/ candidate' # 0 /\ x \in engines'[candidate']
                      \/ ~ended' /\ \E w \in Around' : x \in engines'[w]
    BY DEF Owned
  <2>6. CASE x \in fresh \X {candidate}
    BY <2>1, <2>2, <2>4, <2>6
  <2>7. CASE x \in made
    BY <2>1, <2>2, <2>5, <2>7 DEF Owned
  <2> QED BY <2>3, <2>6, <2>7
<1>6. CASE Discard
  <2>1. /\ phase = "prepared" /\ ~ended /\ UNCHANGED <<made, ended>>
        /\ closed' = closed \cup Built(candidate) /\ Around' = Around
    BY <1>6 DEF Discard, CloseAll, Around
  <2>2. \A w \in Around : engines'[w] = engines[w]
    BY AroundStep
  <2>3. \A x \in engines[candidate] : x \in Built(candidate) \/ x \in engines[current]
    BY <2>1 DEF Preparation, Built
  <2>4. current \in Around
    BY DEF Around
  <2> SUFFICES ASSUME NEW x \in made' \ closed'
               PROVE  ~ended' /\ \E w \in Around' : x \in engines'[w]
    BY DEF Owned
  <2> QED BY <2>1, <2>2, <2>3, <2>4 DEF Owned
<1>7. CASE Install
  <2>1. /\ Around' = Around \cup {candidate}
        /\ UNCHANGED <<made, closed, engines, ended, candidate>>
    BY <1>7 DEF Install, Around, engineVars
  <2> QED BY <2>1 DEF Owned
<1>8. CASE McpInstalled
  BY <1>2, <1>8 DEF McpInstalled
<1>9. CASE Applied
  <2>1. ~ended /\ candidate \in Around
    BY <1>9 DEF Applied, Numbering, Around
  <2> QED BY <1>1, <1>9, <2>1 DEF Applied, worldVars, engineVars, Around
<1>10. CASE DisposalRuns
  BY <1>2, <1>10 DEF DisposalRuns, applyVars
<1>11. CASE Aclose
  <2>1. /\ closed' = closed \cup EnginesOf(retired \cup {current})
        /\ UNCHANGED <<made, engines, candidate>>
    BY <1>11 DEF Aclose, CloseAll, applyVars
  <2>2. \A w \in Around : engines[w] \subseteq closed'
    BY <2>1, EnginesOfElement DEF Around
  <2> QED BY <2>1, <2>2 DEF Owned
<1>12. CASE CallerLeaves \/ ReadStored
  BY <1>1, <1>12 DEF CallerLeaves, ReadStored, worldVars, engineVars, Around
<1>13. ASSUME NEW s \in Sessions, Bind(s) \/ Leave(s)
       PROVE  Owned'
  BY <1>1, <1>13 DEF Bind, Leave, worldVars, engineVars, applyVars, Around
<1>14. CASE \/ RenameCommits \/ RenamePublished \/ DiffBegins \/ DiffEnds
            \/ UNCHANGED vars
  BY <1>1, <1>14 DEF RenameCommits, RenamePublished, DiffBegins, DiffEnds, vars,
     worldVars, engineVars, applyVars, Around
<1> QED BY <1>3, <1>4, <1>5, <1>6, <1>7, <1>8, <1>9, <1>10, <1>11, <1>12, <1>13,
           <1>14 DEF Next, ApplyStep

LEMMA MarkedStep ==
  ASSUME TypeOK, Numbering, Marked, [Next]_vars
  PROVE  Marked'
<1>0. /\ \A w \in Around : ~ended => known[w] = reflects[w]
      /\ phase \in {"building", "prepared"} => mark = reflects[candidate]
  BY DEF Marked, WatermarkExact, Around
<1> SUFFICES /\ \A w \in Around' : ~ended' => known'[w] = reflects'[w]
             /\ phase' \in {"building", "prepared"} => mark' = reflects'[candidate']
  BY DEF Marked, WatermarkExact, Around
<1>1. ASSUME UNCHANGED <<known, reflects, ended>>, Around' = Around,
             \/ phase' \notin {"building", "prepared"}
             \/ phase \in {"building", "prepared"} /\ UNCHANGED <<mark, candidate>>
             \/ UNCHANGED <<phase, mark, candidate>>
      PROVE  /\ \A w \in Around' : ~ended' => known'[w] = reflects'[w]
             /\ phase' \in {"building", "prepared"} => mark' = reflects'[candidate']
  BY <1>0, <1>1
<1>2. ASSUME NEW held, Dispose(held), ~ended, UNCHANGED <<reflects, ended, current>>
      PROVE  \A w \in Around' : known'[w] = reflects'[w]
  BY <1>0, <1>2, DisposeAround
<1>3. CASE ReadStored
  <2>1. candidate \in Worlds /\ candidate \notin Around /\ Around \subseteq Worlds
    BY <1>3, AroundFacts DEF ReadStored
  <2>2. /\ committed = ledger /\ mark' = ledger /\ candidate' = candidate
        /\ reflects' = [reflects EXCEPT ![candidate] = committed]
        /\ known' = known /\ Around' = Around /\ ended' = ended
    BY <1>3 DEF ReadStored, renameVars, Around
  <2>3. reflects'[candidate] = committed /\ \A w \in Around : reflects'[w] = reflects[w]
    BY <2>1, <2>2 DEF TypeOK
  <2> QED BY <1>0, <2>2, <2>3
<1>4. CASE Install
  <2>1. /\ candidate \in Worlds /\ candidate \notin Around /\ Around \subseteq Worlds
        /\ phase = "prepared"
    BY <1>4, AroundFacts DEF Install
  <2>2. /\ known' = [known EXCEPT ![candidate] = mark] /\ phase' = "window"
        /\ Around' = Around \cup {candidate} /\ UNCHANGED <<reflects, ended>>
    BY <1>4 DEF Install, Around
  <2>3. known'[candidate] = mark /\ \A w \in Around : known'[w] = known[w]
    BY <2>1, <2>2 DEF TypeOK
  <2> QED BY <1>0, <2>1, <2>2, <2>3
<1>5. CASE McpInstalled
  BY <1>2, <1>5 DEF McpInstalled
<1>6. CASE DisposalRuns
  <2>1. UNCHANGED <<phase, mark, candidate, reflects>>
    BY <1>6 DEF DisposalRuns, applyVars
  <2> QED BY <1>0, <1>2, <1>6, <2>1 DEF DisposalRuns
<1>7. CASE Aclose
  BY <1>0, <1>7 DEF Aclose, applyVars
<1>8. CASE Apply \/ PrepareRefused \/ Applied
  BY <1>1, <1>8 DEF Apply, PrepareRefused, Applied, Release, worldVars, Around
<1>9. CASE CallerLeaves
  BY <1>1, <1>9 DEF CallerLeaves, worldVars, Around
<1>10. CASE Build \/ Discard
  BY <1>1, <1>10 DEF Build, Discard, Release, Around
<1>11. ASSUME NEW s \in Sessions, Bind(s) \/ Leave(s)
       PROVE  UNCHANGED <<worldVars, applyVars, ended>>
  BY <1>11 DEF Bind, Leave
<1>12. CASE \/ RenameCommits \/ RenamePublished \/ DiffBegins \/ DiffEnds
            \/ UNCHANGED vars
  BY <1>1, <1>12 DEF RenameCommits, RenamePublished, DiffBegins, DiffEnds, vars,
     worldVars, applyVars, Around
<1>13. ASSUME UNCHANGED <<worldVars, applyVars, ended>>
       PROVE  /\ \A w \in Around' : ~ended' => known'[w] = reflects'[w]
              /\ phase' \in {"building", "prepared"} => mark' = reflects'[candidate']
  BY <1>1, <1>13 DEF worldVars, applyVars, Around
<1> QED BY <1>3, <1>4, <1>5, <1>6, <1>7, <1>8, <1>9, <1>10, <1>11, <1>12, <1>13
   DEF Next, ApplyStep

LEMMA HeldKnownStep ==
  ASSUME TypeOK, HeldKnown, [Next]_vars
  PROVE  HeldKnown'
<1> DEFINE Kept(s) == /\ bound[s] \in Around
                      /\ \A i \in 1..Len(disposals) : bound[s] \in disposals[i]
<1>0. ~ended => \A s \in Sessions \ overtaken : bound[s] # 0 => Kept(s)
  BY DEF HeldKnown
<1> SUFFICES ASSUME ~ended', NEW s \in Sessions \ overtaken', bound'[s] # 0
             PROVE  Kept(s)'
  BY DEF HeldKnown
<1>1. ~ended
  BY DEF Next, ApplyStep, Apply, CallerLeaves, ReadStored, PrepareRefused, Build,
     Discard, Install, McpInstalled, Applied, Bind, Leave, DisposalRuns, Aclose,
     RenameCommits, RenamePublished, DiffBegins, DiffEnds, vars
<1>2. ASSUME UNCHANGED sessionVars, Around \subseteq Around'
      PROVE  Kept(s)'
  BY <1>0, <1>1, <1>2 DEF sessionVars
<1>3. CASE Install
  <2>1. Around \subseteq Around'
    BY <1>3 DEF Install, Around
  <2> QED BY <1>2, <1>3, <2>1 DEF Install
<1>4. CASE McpInstalled
  <2>1. UNCHANGED sessionVars /\ current' = current /\ Dispose(Held)
    BY <1>4 DEF McpInstalled
  <2>2. Kept(s)
    BY <1>0, <1>1, <2>1 DEF sessionVars
  <2>3. bound[s] \in Held
    BY <2>1 DEF Held, sessionVars
  <2>4. bound[s] \in Around'
    BY <2>1, <2>2, <2>3, DisposeAround
  <2> QED BY <2>1, <2>2, <2>4 DEF sessionVars
<1>5. CASE DisposalRuns
  <2>1. /\ UNCHANGED <<bound, overtaken, current>> /\ Dispose(Head(disposals))
        /\ disposals' = Tail(disposals) /\ disposals # <<>>
    BY <1>5 DEF DisposalRuns
  <2>2. Kept(s)
    BY <1>0, <1>1, <2>1
  <2>3. disposals \in Seq(SUBSET Worlds)
    BY DEF TypeOK
  <2>4. Head(disposals) = disposals[1] /\ 1 \in 1..Len(disposals)
    BY <2>1, <2>3
  <2>5. bound[s] \in Around'
    BY <2>1, <2>2, <2>4, DisposeAround
  <2>6. ASSUME NEW i \in 1..Len(Tail(disposals))
        PROVE  bound[s] \in Tail(disposals)[i]
    <3>1. Tail(disposals)[i] = disposals[i + 1] /\ i + 1 \in 1..Len(disposals)
      BY <2>1, <2>3, <2>6, HeadTailProperties
    <3> QED BY <2>2, <3>1
  <2> QED BY <2>1, <2>5, <2>6
<1>6. ASSUME NEW t \in Sessions, Bind(t)
      PROVE  Kept(s)'
  <2>1. /\ bound' = [bound EXCEPT ![t] = current] /\ disposals' = disposals
        /\ Around' = Around /\ overtaken \subseteq overtaken'
    BY <1>6 DEF Bind, worldVars, Around
  <2>2. CASE s = t
    <3>1. bound'[s] = current /\ current \in Around
      BY <2>1, <2>2 DEF TypeOK, Around
    <3>2. \A i \in 1..Len(disposals) : current \in disposals[i]
      BY <1>6, <2>2 DEF Bind
    <3> QED BY <2>1, <3>1, <3>2
  <2>3. CASE s # t
    <3>1. bound'[s] = bound[s]
      BY <2>1, <2>3 DEF TypeOK
    <3> QED BY <1>0, <1>1, <2>1, <3>1
  <2> QED BY <2>2, <2>3
<1>7. ASSUME NEW t \in Sessions, Leave(t)
      PROVE  Kept(s)'
  <2> DEFINE left == {bound[u] : u \in Sessions \ {t}} \ {0}
  <2>1. /\ bound' = [bound EXCEPT ![t] = 0] /\ disposals' = Append(disposals, left)
        /\ Around' = Around /\ overtaken' = overtaken \ {t}
    BY <1>7 DEF Leave, worldVars, Around
  <2>2. s # t /\ bound'[s] = bound[s]
    BY <2>1 DEF TypeOK
  <2>3. Kept(s)
    BY <1>0, <1>1, <2>1, <2>2
  <2>4. bound[s] \in left
    BY <2>2
  <2>5. left \in SUBSET Worlds /\ disposals \in Seq(SUBSET Worlds)
    BY DEF TypeOK, Worlds
  <2> HIDE DEF left
  <2>6. /\ Len(disposals') = Len(disposals) + 1
        /\ disposals'[Len(disposals) + 1] = left
        /\ \A i \in 1..Len(disposals) : disposals'[i] = disposals[i]
    BY <2>1, <2>5, AppendProperties
  <2>7. Len(disposals) \in Nat
    BY <2>5, LenProperties
  <2>8. ASSUME NEW i \in 1..Len(disposals')
        PROVE  bound[s] \in disposals'[i]
    <3>1. i \in 1..Len(disposals) \/ i = Len(disposals) + 1
      BY <2>6, <2>7
    <3> QED BY <2>3, <2>4, <2>6, <3>1
  <2> QED BY <2>1, <2>2, <2>3, <2>8
<1>8. CASE \/ Apply \/ CallerLeaves \/ ReadStored \/ PrepareRefused \/ Build
           \/ Discard \/ Applied
  BY <1>2, <1>8 DEF Apply, CallerLeaves, ReadStored, PrepareRefused, Build, Discard,
     Applied, worldVars, Around
<1>9. CASE Aclose
  BY <1>9 DEF Aclose
<1>10. CASE \/ RenameCommits \/ RenamePublished \/ DiffBegins \/ DiffEnds
            \/ UNCHANGED vars
  BY <1>2, <1>10 DEF RenameCommits, RenamePublished, DiffBegins, DiffEnds, vars,
     worldVars, Around
<1> QED BY <1>3, <1>4, <1>5, <1>6, <1>7, <1>8, <1>9, <1>10 DEF Next, ApplyStep

\* A disposal asked for stays asked for until it takes the world it was for,
\* and a conversation that leaves asks for one its own world is not in.
LEMMA LetGoComesStep ==
  ASSUME TypeOK, LetGoComes, [Next]_vars
  PROVE  LetGoComes'
<1> DEFINE Coming(w) == phase = "window" \/ \E i \in DOMAIN disposals : w \notin disposals[i]
<1>0. \A w \in retired \ Held : Coming(w)
  BY DEF LetGoComes
<1> SUFFICES ASSUME NEW w \in (retired \ Held)'
             PROVE  Coming(w)'
  BY DEF LetGoComes
<1>s. disposals \in Seq(SUBSET Worlds)
  BY DEF TypeOK
<1>1. ASSUME retired' \subseteq retired, UNCHANGED <<bound, disposals>>,
             phase = "window" => phase' = "window"
      PROVE  Coming(w)'
  <2>1. w \in retired \ Held
    BY <1>1 DEF Held
  <2> QED BY <1>0, <1>1, <2>1
<1>2. CASE Install
  BY <1>2 DEF Install
<1>3. CASE McpInstalled
  <2>1. retired' = retired \cap Held /\ Held' = Held
    BY <1>3, DisposeFacts DEF McpInstalled, sessionVars, Held
  <2> QED BY <2>1
<1>4. CASE DisposalRuns
  <2>1. /\ retired' = retired \cap Head(disposals) /\ Held' = Held
        /\ disposals' = Tail(disposals) /\ disposals # <<>> /\ phase' = phase
    BY <1>4, DisposeFacts DEF DisposalRuns, applyVars, Held
  <2>2. Coming(w) /\ w \in Head(disposals)
    BY <1>0, <2>1
  <2>3. ASSUME NEW i \in DOMAIN disposals, w \notin disposals[i]
        PROVE  Coming(w)'
    <3>1. /\ Head(disposals) = disposals[1] /\ Len(disposals) \in Nat
          /\ DOMAIN disposals = 1..Len(disposals) /\ i # 1
      BY <1>s, <2>1, <2>2, <2>3
    <3>2. /\ Len(Tail(disposals)) = Len(disposals) - 1
          /\ Tail(disposals) \in Seq(SUBSET Worlds)
          /\ \A k \in 1..Len(Tail(disposals)) : Tail(disposals)[k] = disposals[k + 1]
      BY <1>s, <2>1, HeadTailProperties
    <3>3. i - 1 \in 1..Len(Tail(disposals)) /\ (i - 1) + 1 = i
      BY <3>1, <3>2
    <3>4. i - 1 \in DOMAIN disposals' /\ disposals'[i - 1] = disposals[i]
      BY <2>1, <3>2, <3>3
    <3> QED BY <2>3, <3>4
  <2> QED BY <2>1, <2>2, <2>3
<1>5. ASSUME NEW s \in Sessions, Bind(s)
      PROVE  Coming(w)'
  <2>1. /\ UNCHANGED <<retired, disposals, phase>> /\ bound[s] = 0
        /\ bound' = [bound EXCEPT ![s] = current]
    BY <1>5 DEF Bind, worldVars, applyVars
  <2>2. \A t \in Sessions : bound[t] # 0 => bound'[t] = bound[t]
    BY <2>1 DEF TypeOK
  <2>3. Held \subseteq Held'
    BY <2>2 DEF Held
  <2> QED BY <1>0, <2>1, <2>3
<1>6. ASSUME NEW s \in Sessions, Leave(s)
      PROVE  Coming(w)'
  <2> DEFINE left == {bound[t] : t \in Sessions \ {s}} \ {0}
  <2>1. /\ bound' = [bound EXCEPT ![s] = 0] /\ disposals' = Append(disposals, left)
    BY <1>6 DEF Leave
  <2>2. \A t \in Sessions \ {s} : bound'[t] = bound[t]
    BY <2>1 DEF TypeOK
  <2>3. left \subseteq Held'
    BY <2>2 DEF Held
  <2>4. left \in SUBSET Worlds
    BY DEF TypeOK, Worlds
  <2> HIDE DEF left
  <2>5. /\ Len(disposals) + 1 \in DOMAIN disposals'
        /\ disposals'[Len(disposals) + 1] = left
    BY <1>s, <2>1, <2>4, AppendProperties
  <2> QED BY <2>3, <2>5
<1>7. CASE Aclose
  BY <1>7 DEF Aclose
<1>8. CASE \/ Apply \/ CallerLeaves \/ PrepareRefused \/ Applied
  BY <1>1, <1>8 DEF Apply, CallerLeaves, PrepareRefused, Applied, Release, worldVars,
     sessionVars
<1>9. CASE \/ ReadStored \/ Build \/ Discard
  BY <1>1, <1>9 DEF ReadStored, Build, Discard, Release, sessionVars
<1>10. CASE \/ RenameCommits \/ RenamePublished \/ DiffBegins \/ DiffEnds
            \/ UNCHANGED vars
  BY <1>1, <1>10 DEF RenameCommits, RenamePublished, DiffBegins, DiffEnds, vars,
     worldVars, applyVars, sessionVars
<1> QED BY <1>2, <1>3, <1>4, <1>5, <1>6, <1>7, <1>8, <1>9, <1>10 DEF Next, ApplyStep

LEMMA SampledStep ==
  ASSUME TypeOK, Numbering, Sampled, [Next]_vars
  PROVE  Sampled'
<1>0. settled \in Int /\ NoMark \notin Nat /\ settled \in Nat
  BY DEF TypeOK, NoMark
<1>00. diff.mark \in Nat \cup {NoMark}
  BY DEF TypeOK
<1>1. ASSUME UNCHANGED <<current, mcp, settled, diff>>,
             phase' = "window" <=> phase = "window"
      PROVE  Sampled'
  BY <1>1 DEF Sampled
<1>2. CASE Install
  BY <1>2 DEF Install, Sampled
<1>3. CASE McpInstalled
  <2>1. /\ mcp' = current /\ current' = current /\ settled' = settled + 1 /\ diff' = diff
    BY <1>3 DEF McpInstalled
  <2>2. diff.open /\ diff.mark # NoMark => diff.mark <= settled /\ diff.mark \in Nat
    BY <1>00 DEF Sampled
  <2> QED BY <1>0, <2>1, <2>2 DEF Sampled
<1>4. CASE DiffBegins
  <2>1. /\ diff' = [open |-> TRUE, mark |-> Mark, world |-> current]
        /\ UNCHANGED <<current, mcp, settled, phase>>
    BY <1>4 DEF DiffBegins, worldVars, applyVars
  <2>2. Mark # NoMark => Mark = settled /\ phase # "window"
    BY DEF Mark
  <2> QED BY <1>0, <2>1, <2>2 DEF Sampled
<1>5. CASE DiffEnds
  <2>1. ~diff'.open /\ UNCHANGED <<current, mcp, settled, phase>>
    BY <1>5 DEF DiffEnds, NoDiff, worldVars, applyVars
  <2> QED BY <2>1 DEF Sampled
<1>6. CASE \/ Apply \/ CallerLeaves \/ PrepareRefused \/ Applied
  BY <1>1, <1>6 DEF Apply, CallerLeaves, PrepareRefused, Applied, Release, worldVars
<1>7. CASE \/ ReadStored \/ Build \/ Discard
  BY <1>1, <1>7 DEF ReadStored, Build, Discard, Release
<1>8. CASE DisposalRuns \/ Aclose
  BY <1>1, <1>8 DEF DisposalRuns, Aclose, applyVars
<1>9. ASSUME NEW s \in Sessions, Bind(s) \/ Leave(s)
      PROVE  Sampled'
  BY <1>1, <1>9 DEF Bind, Leave, worldVars, applyVars
<1>10. CASE RenameCommits \/ RenamePublished \/ UNCHANGED vars
  BY <1>1, <1>10 DEF RenameCommits, RenamePublished, vars, worldVars, applyVars
<1> QED BY <1>2, <1>3, <1>4, <1>5, <1>6, <1>7, <1>8, <1>9, <1>10
   DEF Next, ApplyStep

-----------------------------------------------------------------------------
(* The theorems.                                                           *)

LEMMA WorldsInitially ==
  ASSUME Init
  PROVE  /\ Provenance /\ Preparation /\ AroundOpen /\ ClosedOnce /\ Owned
         /\ LetGoComes /\ Marked /\ HeldKnown /\ Sampled
<1>1. 1 \in Worlds /\ Around = {1} /\ Worlds \subseteq Int
  BY DEF Init, Worlds, Around
<1>2. Provenance
  BY <1>1 DEF Init, Provenance
<1>3. Preparation /\ Sampled
  BY DEF Init, Preparation, Sampled, NoDiff
<1>4. AroundOpen /\ ClosedOnce /\ HeldKnown /\ LetGoComes
  BY DEF Init, AroundOpen, ClosedOnce, HeldKnown, LetGoComes
<1>5. Owned
  BY <1>1 DEF Init, Owned
<1>6. Marked
  BY <1>1 DEF Init, Marked, WatermarkExact
<1> QED BY <1>2, <1>3, <1>4, <1>5, <1>6

\* The invariant the others follow from, at any size.  The types and the order
\* of the worlds carry each other, and every other part uses them.
THEOREM WorldsInvariant == Spec => []WorldsInv
<1>1. Init => TypeOK /\ Numbering
  BY TypesInitially
<1>2. Init => WorldsInv
  BY <1>1, WorldsInitially DEF WorldsInv
<1>3. ASSUME WorldsInv, [Next]_vars
      PROVE  WorldsInv'
  <2>1. TypeOK' /\ Numbering'
    BY <1>3, TypeStep, NumberingStep DEF WorldsInv
  <2>2. Provenance' /\ Preparation'
    BY <1>3, ProvenanceStep, PreparationStep DEF WorldsInv
  <2>3. AroundOpen' /\ ClosedOnce' /\ Owned'
    BY <1>3, AroundOpenStep, ClosedOnceStep, OwnedStep DEF WorldsInv
  <2>4. Marked' /\ HeldKnown' /\ LetGoComes' /\ Sampled'
    BY <1>3, MarkedStep, HeldKnownStep, LetGoComesStep, SampledStep DEF WorldsInv
  <2> QED BY <2>1, <2>2, <2>3, <2>4 DEF WorldsInv
<1> QED BY <1>2, <1>3, PTL DEF Spec

\* However many applies, conversations and disposals there are, the world
\* served has every engine it was given: an abandoned candidate closes its own
\* and a disposal only what nothing around speaks through. And a conversation
\* keeps its engines through every apply made under it, unless it bound ahead of
\* a disposal asked for earlier.
THEOREM EnginesWork == Spec => []EnginesOpen
<1>1. WorldsInv => EnginesOpen
  <2>1. WorldsInv => (~ended => engines[current] \cap closed = {})
    BY DEF WorldsInv, AroundOpen, Around
  <2>2. WorldsInv => (~ended => \A s \in Sessions \ overtaken :
                        bound[s] # 0 => engines[bound[s]] \cap closed = {})
    BY DEF WorldsInv, HeldKnown, AroundOpen
  <2> QED BY <2>1, <2>2 DEF EnginesOpen
<1> QED BY <1>1, WorldsInvariant, PTL

\* Whoever gives up an engine leaves it closed or with another owner, an engine
\* shared along any chain of worlds is closed by the last of them and not again
\* by the process, and no retired world that nobody holds is forgotten.
THEOREM EveryEngineOwned == Spec => []NothingLeaked
<1>1. ASSUME WorldsInv
      PROVE  NothingLeaked
  <2>1. 0 \notin Around /\ ClosedOnce /\ LetGoComes
    BY <1>1 DEF WorldsInv, TypeOK, Around, Worlds
  <2> SUFFICES ASSUME NEW x \in made \ closed
               PROVE  x \in EnginesOf(({candidate} \cup IF ended THEN {}
                                         ELSE {current} \cup retired) \ {0})
    BY <2>1 DEF NothingLeaked
  <2> SUFFICES \E w \in ({candidate} \cup IF ended THEN {}
                           ELSE {current} \cup retired) \ {0} : x \in engines[w]
    BY EnginesOfElement
  <2> QED BY <1>1, <2>1 DEF WorldsInv, Owned, Around
<1> QED BY <1>1, WorldsInvariant, PTL

\* Each world's place in the rename ledger is the number of renames its
\* snapshot carries, whenever it was read and whenever it was swapped in.
THEOREM LedgerExact == Spec => []WatermarkExact
<1>1. WorldsInv => WatermarkExact
  BY DEF WorldsInv, Marked
<1> QED BY <1>1, WorldsInvariant, PTL

\* A comparison that is answered never straddles a swap.
THEOREM ComparisonExact == Spec => []DiffOfOneWorld
<1>1. WorldsInv => DiffOfOneWorld
  BY DEF WorldsInv, Sampled, DiffOfOneWorld, DiffAnswers, Mark
<1> QED BY <1>1, WorldsInvariant, PTL

=============================================================================
