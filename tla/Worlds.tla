------------------------------ MODULE Worlds ------------------------------
(***************************************************************************)
(* The worlds one server serves.  A world (generation.py `Generation`) is a *)
(* validated configuration and the engines its provider entries resolved    *)
(* to.  An apply (config/reload.py `ConfigReload`) prepares the next world  *)
(* beside the running one and swaps it in; a conversation keeps the world   *)
(* it opened with (registry.py `SessionRegistry`); a world nobody serves    *)
(* and nobody holds is let go of, and the engines it was the last to hold   *)
(* are closed (`Generations.dispose`).  An agent rename reaches a world's   *)
(* conversations through a ledger each world joined where its own snapshot  *)
(* was read.                                                                *)
(*                                                                         *)
(* Everything but a rename runs on one event loop, so an action is what a   *)
(* task does between two awaits.  An engine is named by its provider entry  *)
(* and by the world it was built for.                                      *)
(***************************************************************************)
EXTENDS Integers, Sequences, FiniteSets

CONSTANTS
  Entries,      \* provider entries of the configuration
  Sessions,     \* conversations that may be live together
  MaxWorlds,    \* worlds ever built, the boot's included
  MaxRenames,   \* agent renames performed
  MaxDisposals  \* disposals spawned by a session's end and not yet run

ASSUME MaxWorldsAssumption == MaxWorlds \in Nat \ {0}
ASSUME MaxRenamesAssumption == MaxRenames \in Nat
ASSUME MaxDisposalsAssumption == MaxDisposals \in Nat

VARIABLES
  current,    \* Generations._current
  retired,    \* Generations._retired
  engines,    \* per world, ProviderWorld.instances
  known,      \* Generations._known: per world, its place in the ledger
  ledger,     \* how many renames Generations._renames lists
  settled,    \* Generations._settled
  mcp,        \* the world whose MCP slice is installed
  phase,      \* where the one apply there can be is
  abandoned,  \* the caller that asked for it has gone away
  candidate,  \* the world it is preparing, 0 for none
  mark,       \* _Candidate.renames_known
  bound,      \* SessionRegistry._bound: per session its world, 0 for none
  disposals,  \* SessionRegistry._disposals, each with the `held` it was given
  committed,  \* renames committed to the store
  closed,     \* engines that have been told to close
  ended,      \* the process has let go of everything
  diff,       \* a stored-versus-running comparison in progress
  minted,     \* worlds an apply has set out to build, the boot's included
  made,       \* observer: engines ever built
  reflects,   \* observer: per world, the renames its snapshot carries
  twice,      \* observer: engines told to close more than once
  overtaken   \* observer: sessions that bound ahead of a disposal asked earlier

worldVars == <<current, retired, engines, known, settled, mcp, reflects>>
applyVars == <<phase, abandoned, candidate, mark, minted>>
renameVars == <<ledger, committed>>
engineVars == <<closed, made, twice>>
sessionVars == <<bound, disposals, overtaken>>
vars == <<worldVars, applyVars, renameVars, engineVars, sessionVars, ended, diff>>

Worlds == 1..MaxWorlds
Engines == Entries \X Worlds

\* `apply` before its read returns, while the world is built, with the world
\* in hand, between the swap and the MCP install, and while it lets go of
\* what it replaced.
Phases == {"idle", "reading", "building", "prepared", "window", "disposing"}

NoMark == -1
NoDiff == [open |-> FALSE, mark |-> NoMark, world |-> 0]

\* Mutant of Mark: a bare counter.
MarkCounting == settled

\* Whether the world is holding still, and which one it is (Generations.mark).
Mark == IF phase = "window" THEN NoMark ELSE settled

Held == {bound[s] : s \in Sessions} \ {0}

TypeOK ==
  /\ current \in Worlds
  /\ retired \subseteq Worlds \ {current}
  /\ engines \in [Worlds -> SUBSET Engines]
  /\ known \in [Worlds -> 0..MaxRenames]
  /\ ledger \in 0..MaxRenames
  /\ settled \in Nat
  /\ mcp \in Worlds
  /\ phase \in Phases
  /\ abandoned \in BOOLEAN
  /\ candidate \in 0..MaxWorlds
  /\ mark \in 0..MaxRenames
  /\ bound \in [Sessions -> 0..MaxWorlds]
  /\ disposals \in Seq(SUBSET Worlds)
  /\ committed \in 0..MaxRenames
  /\ closed \subseteq Engines
  /\ ended \in BOOLEAN
  /\ diff \in [open : BOOLEAN, mark : Nat \cup {NoMark}, world : 0..MaxWorlds]
  /\ minted \in Worlds
  /\ made \subseteq Engines
  /\ reflects \in [Worlds -> 0..MaxRenames]
  /\ twice \subseteq Engines
  /\ overtaken \subseteq Sessions

Init ==
  /\ current = 1 /\ retired = {} /\ mcp = 1 /\ settled = 0
  /\ engines = [w \in Worlds |-> IF w = 1 THEN Entries \X {1} ELSE {}]
  /\ known = [w \in Worlds |-> 0] /\ reflects = [w \in Worlds |-> 0]
  /\ ledger = 0 /\ committed = 0
  /\ phase = "idle" /\ abandoned = FALSE /\ candidate = 0 /\ mark = 0
  /\ minted = 1
  /\ bound = [s \in Sessions |-> 0] /\ disposals = <<>> /\ overtaken = {}
  /\ made = Entries \X {1} /\ closed = {} /\ twice = {}
  /\ ended = FALSE /\ diff = NoDiff

-----------------------------------------------------------------------------
(* Letting go.                                                             *)

\* Provider.close on each of these.
CloseAll(es) ==
  /\ closed' = closed \cup es
  /\ twice' = twice \cup (closed \cap es)

EnginesOf(ws) == UNION {engines[w] : w \in ws}

\* Mutant of LastHeldBy: only the served world's engines are compared.
LastHeldByServed(going) == EnginesOf(going) \ engines[current]

\* What nothing still around is speaking through (Generations._last_held_by).
LastHeldBy(going) ==
  EnginesOf(going) \ EnginesOf({current} \cup (retired \ going))

\* Mutant of LettingGo: who holds a world is not asked.
LettingGoOfAll(held) == retired

\* The worlds a disposal takes, which is every retired one nobody holds.
LettingGo(held) == retired \ held

\* Generations.dispose up to its first await: the worlds leave the list, and
\* the ledger forgets them, before any engine is waited for.
Dispose(held) ==
  LET going == LettingGo(held)
  IN  /\ retired' = retired \ going
      /\ known' = [w \in Worlds |-> IF w \in going THEN 0 ELSE known[w]]
      /\ CloseAll(LastHeldBy(going))

-----------------------------------------------------------------------------
(* An apply, one at a time.                                                *)

\* `apply` takes the exclusion; a second caller is refused while it is held.
Apply ==
  /\ ~ended /\ phase = "idle" /\ minted < MaxWorlds
  /\ phase' = "reading" /\ abandoned' = FALSE
  /\ minted' = minted + 1
  /\ candidate' = minted + 1
  /\ UNCHANGED <<mark, worldVars, renameVars, engineVars, sessionVars, ended,
                 diff>>

\* The caller goes away.  Up to the swap that abandons the candidate; past it
\* the apply goes on without a caller and nothing here changes.
CallerLeaves ==
  /\ ~ended /\ phase \in {"reading", "building", "prepared"} /\ ~abandoned
  /\ abandoned' = TRUE
  /\ UNCHANGED <<phase, candidate, mark, minted, worldVars, renameVars,
                 engineVars, sessionVars, ended, diff>>

\* Mutant of ReadStored: the snapshot is read outside the order a rename
\* holds over its commit and its publication.
ReadUnordered ==
  /\ ~ended /\ phase = "reading"
  /\ phase' = "building"
  /\ mark' = ledger
  /\ reflects' = [reflects EXCEPT ![candidate] = committed]
  /\ UNCHANGED <<abandoned, candidate, minted, current, retired, engines, known,
                 settled, mcp, renameVars, engineVars, sessionVars, ended, diff>>

\* `_in_order`: the snapshot and the ledger's place, under that order.
ReadStored ==
  /\ ~ended /\ phase = "reading" /\ committed = ledger
  /\ phase' = "building"
  /\ mark' = ledger
  /\ reflects' = [reflects EXCEPT ![candidate] = committed]
  /\ UNCHANGED <<abandoned, candidate, minted, current, retired, engines, known,
                 settled, mcp, renameVars, engineVars, sessionVars, ended, diff>>

Release == phase' = "idle" /\ candidate' = 0

\* The read is refused, or a build or a later half of the preparation is:
\* what was built on the way is closed and nothing running was touched.
PrepareRefused ==
  /\ ~ended
  /\ \/ phase = "reading" /\ UNCHANGED engineVars
     \/ /\ phase = "building"
        /\ \E es \in SUBSET Entries :
             /\ made' = made \cup (es \X {candidate})
             /\ CloseAll(es \X {candidate})
  /\ Release
  /\ UNCHANGED <<abandoned, mark, minted, worldVars, renameVars, sessionVars,
                 ended, diff>>

\* `build_world`: an entry that did not move carries its engine over from the
\* running world, any other is built again, and an entry may come or go.
Build ==
  /\ ~ended /\ phase = "building"
  /\ \E fresh \in SUBSET Entries, carried \in SUBSET engines[current] :
       /\ \A e \in fresh : \A x \in carried : x[1] # e
       /\ engines' = [engines EXCEPT ![candidate] = (fresh \X {candidate}) \cup carried]
       /\ made' = made \cup (fresh \X {candidate})
  /\ phase' = "prepared"
  /\ UNCHANGED <<abandoned, candidate, mark, minted, current, retired, known,
                 settled, mcp, reflects, closed, twice, renameVars, sessionVars,
                 ended, diff>>

\* Built.built: what the candidate's own build made (Built.close).
Built(w) == {x \in engines[w] : x[2] = w}

\* Mutant of Discard: an abandoned candidate is dropped and not closed.
DiscardDropped ==
  /\ ~ended /\ phase = "prepared" /\ abandoned
  /\ engines' = [engines EXCEPT ![candidate] = {}]
  /\ Release
  /\ UNCHANGED <<abandoned, mark, minted, current, retired, known, settled, mcp,
                 reflects, renameVars, engineVars, sessionVars, ended, diff>>

\* `_discarded`: nobody is left to answer, so the world that was prepared is
\* closed unserved, and only then is the exclusion given up.
Discard ==
  /\ ~ended /\ phase = "prepared" /\ abandoned
  /\ CloseAll(Built(candidate))
  /\ engines' = [engines EXCEPT ![candidate] = {}]
  /\ Release
  /\ UNCHANGED <<abandoned, mark, minted, current, retired, known, settled, mcp,
                 reflects, made, renameVars, sessionVars, ended, diff>>

\* Mutant of Install: the list takes the world coming in.
InstallRetiresNew ==
  /\ ~ended /\ phase = "prepared" /\ ~abandoned
  /\ known' = [known EXCEPT ![candidate] = mark]
  /\ retired' = retired \cup {candidate}
  /\ current' = candidate
  /\ phase' = "window"
  /\ UNCHANGED <<abandoned, candidate, mark, minted, engines, settled, mcp,
                 reflects, renameVars, engineVars, sessionVars, ended, diff>>

\* `_apply` enters the window and swaps: the world joins the ledger where its
\* snapshot was read, and the one it replaces is retired.
Install ==
  /\ ~ended /\ phase = "prepared" /\ ~abandoned
  /\ known' = [known EXCEPT ![candidate] = mark]
  /\ retired' = retired \cup {current}
  /\ current' = candidate
  /\ phase' = "window"
  /\ UNCHANGED <<abandoned, candidate, mark, minted, engines, settled, mcp,
                 reflects, renameVars, engineVars, sessionVars, ended, diff>>

\* The MCP half is in, the window closes, and what was replaced is let go of
\* on the sessions as they are at this instant.
McpInstalled ==
  /\ ~ended /\ phase = "window"
  /\ mcp' = current
  /\ settled' = settled + 1
  /\ phase' = "disposing"
  /\ Dispose(Held)
  /\ UNCHANGED <<abandoned, candidate, mark, minted, current, engines, reflects,
                 made, renameVars, sessionVars, ended, diff>>

Applied ==
  /\ ~ended /\ phase = "disposing"
  /\ Release
  /\ UNCHANGED <<abandoned, mark, minted, worldVars, renameVars, engineVars,
                 sessionVars, ended, diff>>

-----------------------------------------------------------------------------
(* Conversations.                                                          *)

\* `_converse` reads the current world, builds itself from it and says it
\* holds it, with no await between them.
Bind(s) ==
  /\ ~ended /\ bound[s] = 0
  /\ bound' = [bound EXCEPT ![s] = current]
  /\ overtaken' = IF \E i \in 1..Len(disposals) : current \notin disposals[i]
                    THEN overtaken \cup {s} ELSE overtaken
  /\ UNCHANGED <<disposals, worldVars, applyVars, renameVars, engineVars, ended,
                 diff>>

\* Mutant of Leave: a session's end asks for no disposal.
LeaveQuietly(s) ==
  /\ ~ended /\ bound[s] # 0 /\ Len(disposals) < MaxDisposals
  /\ bound' = [bound EXCEPT ![s] = 0]
  /\ overtaken' = overtaken \ {s}
  /\ UNCHANGED <<disposals, worldVars, applyVars, renameVars, engineVars, ended,
                 diff>>

\* `remove`: a disposal is spawned, with the worlds held now as its argument.
Leave(s) ==
  /\ ~ended /\ bound[s] # 0 /\ Len(disposals) < MaxDisposals
  /\ bound' = [bound EXCEPT ![s] = 0]
  /\ disposals' = Append(disposals, {bound[t] : t \in Sessions \ {s}} \ {0})
  /\ overtaken' = overtaken \ {s}
  /\ UNCHANGED <<worldVars, applyVars, renameVars, engineVars, ended, diff>>

\* The spawned task gets its first turn, in the order the loop was asked.
DisposalRuns ==
  /\ ~ended /\ disposals # <<>>
  /\ Dispose(Head(disposals))
  /\ disposals' = Tail(disposals)
  /\ UNCHANGED <<current, engines, settled, mcp, reflects, applyVars, made,
                 renameVars, bound, overtaken, ended, diff>>

\* `aclose`, behind the drain and last of all: every world goes, held or not,
\* and what is still running is the end of the process.
Aclose ==
  /\ ~ended
  /\ ended' = TRUE
  /\ retired' = {}
  /\ known' = [w \in Worlds |-> IF w \in retired THEN 0 ELSE known[w]]
  /\ CloseAll(EnginesOf(retired \cup {current}))
  /\ UNCHANGED <<current, engines, settled, mcp, reflects, applyVars, made,
                 renameVars, sessionVars, diff>>

-----------------------------------------------------------------------------
(* Renames and comparisons.                                                *)

\* `ConfigStore.rename_agent` on a request thread: the write commits and is
\* then published, inside one order.
RenameCommits ==
  /\ ~ended /\ committed = ledger /\ committed < MaxRenames
  /\ committed' = committed + 1
  /\ UNCHANGED <<ledger, worldVars, applyVars, engineVars, sessionVars, ended,
                 diff>>

RenamePublished ==
  /\ ~ended /\ ledger < committed
  /\ ledger' = committed
  /\ UNCHANGED <<committed, worldVars, applyVars, engineVars, sessionVars, ended,
                 diff>>

\* `diff` samples the mark and reads the store in a worker thread.
DiffBegins ==
  /\ ~ended /\ ~diff.open
  /\ diff' = [open |-> TRUE, mark |-> Mark, world |-> current]
  /\ UNCHANGED <<worldVars, applyVars, renameVars, engineVars, sessionVars, ended>>

\* The read is back: the mark decides whether there is an answer.
DiffAnswers == diff.open /\ diff.mark # NoMark /\ diff.mark = Mark
DiffEnds ==
  /\ ~ended /\ diff.open
  /\ diff' = NoDiff
  /\ UNCHANGED <<worldVars, applyVars, renameVars, engineVars, sessionVars, ended>>

-----------------------------------------------------------------------------

ApplyStep ==
  \/ Apply \/ CallerLeaves \/ ReadStored \/ PrepareRefused \/ Build \/ Discard
  \/ Install \/ McpInstalled \/ Applied

Next ==
  \/ ApplyStep
  \/ \E s \in Sessions : Bind(s) \/ Leave(s)
  \/ DisposalRuns \/ Aclose
  \/ RenameCommits \/ RenamePublished
  \/ DiffBegins \/ DiffEnds

Spec == Init /\ [][Next]_vars

-----------------------------------------------------------------------------
(* What an operator and a conversation are promised.                       *)

\* The served world works: no apply, abandoned or not, and no disposal closes
\* an engine new work would be bound to (`_last_held_by`, `Built.close`); and a
\* live conversation keeps its engines whatever is applied under it, unless it
\* bound ahead of a disposal that had been asked for earlier.
EnginesOpen ==
  ~ended =>
    /\ engines[current] \cap closed = {}
    /\ \A s \in Sessions \ overtaken :
         bound[s] # 0 => engines[bound[s]] \cap closed = {}

\* An engine two worlds share is closed by the last of them, once.
ClosedOnce == twice = {}

\* A retired world that nobody holds is about to be let go of: by the apply that
\* replaced it, or by a disposal asked for when its last conversation ended
\* (registry.py `remove`).
LetGoComes ==
  \A w \in retired \ Held :
    phase = "window" \/ \E i \in DOMAIN disposals : w \notin disposals[i]

\* Every engine ever built is closed once in the end: it has been, or it has an
\* owner that will close it, which is the world served, a retired one that is
\* going to be let go of, or the candidate being prepared; the end of the
\* process closes all but a candidate it cut short.
NothingLeaked ==
  /\ LET owners == {candidate} \cup IF ended THEN {} ELSE {current} \cup retired
     IN  made \ closed \subseteq EnginesOf(owners \ {0})
  /\ ClosedOnce
  /\ LetGoComes

\* A conversation is told of exactly the renames its world has not heard: a
\* world's place in the ledger is the number of renames its snapshot carries
\* (`watermark`, `_install`, `renames_for`).
WatermarkExact ==
  \A w \in {current} \cup retired : ~ended => known[w] = reflects[w]

\* A comparison that is answered is about one world: the one it sampled is
\* still served, and its MCP half with it (app.py `diff`).
DiffOfOneWorld ==
  DiffAnswers => diff.world = current /\ mcp = current

=============================================================================
