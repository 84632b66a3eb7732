------------------------------ MODULE Renames ------------------------------
(***************************************************************************)
(* An agent is renamed while conversations speak as it. The stored name and  *)
(* the recorded conversations move in one transaction (config/store.py       *)
(* `rename_agent`, conversations/store.py `rename_agent`); then, still in    *)
(* the erasure order, the worlds are told (`Generations.renamed`) and then   *)
(* the writer (`ConversationStore.translate`). A conversation goes on        *)
(* speaking the names of the world it bound, and the writer files its turns  *)
(* under the names those agents have now.                                   *)
(*                                                                         *)
(* The order is one lock: a rename holds it from its transaction to its last *)
(* announcement, an apply while it reads the store, the writer while it      *)
(* writes a marker. Agents are not deleted here: a name is all the record    *)
(* knows an agent by. What else the writer does is Record's, what else an    *)
(* apply does is Worlds'.                                                   *)
(***************************************************************************)
EXTENDS Integers, Sequences

CONSTANTS
  Agents, Names, Sessions,
  Unnamed,      \* a name nothing has
  MaxRenames,   \* bound: renames
  MaxTurns      \* bound: records the writer has not come to

ASSUME RenamesConstants ==
  /\ Unnamed \notin Names
  /\ MaxRenames \in Nat /\ MaxTurns \in Nat \ {0}

VARIABLES
  name,       \* the agents of the stored configuration, by their names
  owner,      \* conversations.agent, of each session's conversation with each
  renaming,   \* a rename between its commit and its last announcement
  ledger,     \* Generations._renames
  current,    \* the world served: its names, and its place in the ledger
  candidate,  \* the snapshot an apply has read, <<>> for none
  session,    \* per session, where it is
  world,      \* per session, the world it bound
  moved,      \* ConversationStore._renames
  queue,      \* what is on its way to the writer
  refused     \* observer: conversations a turn was refused for (MisattributedTurn)

vars == <<name, owner, renaming, ledger, current, candidate, session, world, moved, queue,
          refused>>

Named == Names \cup {Unnamed}
Nothing == [n \in Names |-> Unnamed]
World == [serves : [Agents -> Named], known : 0 .. MaxRenames]
Conversations == Sessions \X Agents

Init ==
  /\ \E a \in Agents, n \in Names : name = [b \in Agents |-> IF b = a THEN n ELSE Unnamed]
  /\ owner = [c \in Conversations |-> Unnamed]
  /\ renaming = <<>> /\ ledger = <<>> /\ candidate = <<>> /\ queue = <<>>
  /\ current = [serves |-> name, known |-> 0]
  /\ session = [s \in Sessions |-> "away"]
  /\ world = [s \in Sessions |-> current]
  /\ moved = [s \in Sessions |-> Nothing]
  /\ refused = {}

-----------------------------------------------------------------------------
(* Renames.                                                                 *)

InOrder == renaming = <<>>
Free(n) == \A a \in Agents : name[a] # n

\* `_compose`: what is called `old` now is called `new`, and `old` itself is
\* entered only where it means nothing yet.
Compose(map, old, new) ==
  [n \in Names |-> IF map[n] = old \/ (n = old /\ map[n] = Unnamed) THEN new ELSE map[n]]

\* An agent is created, under any name nobody has: a freed one too, and one that
\* is being freed, as this takes no order.
Create(a, n) ==
  /\ name[a] = Unnamed /\ Free(n)
  /\ name' = [name EXCEPT ![a] = n]
  /\ UNCHANGED <<owner, renaming, ledger, current, candidate, session, world, moved, queue,
                 refused>>

\* The name, and every conversation under it; one with a history is refused.
RenameCommits(a, n) ==
  /\ InOrder /\ Len(ledger) < MaxRenames
  /\ name[a] # Unnamed /\ Free(n)
  /\ \A c \in Conversations : owner[c] # n
  /\ name' = [name EXCEPT ![a] = n]
  /\ owner' = [c \in Conversations |-> IF owner[c] = name[a] THEN n ELSE owner[c]]
  /\ renaming' = <<name[a], n, "worlds">>
  /\ UNCHANGED <<ledger, current, candidate, session, world, moved, queue, refused>>

\* Mutant of TellWorlds: the worlds are told over and over.
TellWorldsAgain ==
  /\ ~InOrder /\ renaming[3] = "worlds"
  /\ ledger' = Append(ledger, <<renaming[1], renaming[2]>>)
  /\ UNCHANGED <<name, owner, renaming, current, candidate, session, world, moved, queue,
                 refused>>

\* `renamed` tells the worlds first,
TellWorlds ==
  /\ ~InOrder /\ renaming[3] = "worlds"
  /\ ledger' = Append(ledger, <<renaming[1], renaming[2]>>)
  /\ renaming' = [renaming EXCEPT ![3] = "writer"]
  /\ UNCHANGED <<name, owner, current, candidate, session, world, moved, queue, refused>>

Recording(s) == session[s] = "recording" \/ \E i \in DOMAIN queue : queue[i].of = s

\* and then the writer, for the sessions it records (`translate`).
TellWriter ==
  /\ ~InOrder /\ renaming[3] = "writer"
  /\ moved' = [s \in Sessions |->
                 IF Recording(s) THEN Compose(moved[s], renaming[1], renaming[2]) ELSE moved[s]]
  /\ renaming' = <<>>
  /\ UNCHANGED <<name, owner, ledger, current, candidate, session, world, queue, refused>>

-----------------------------------------------------------------------------
(* Applies.                                                                 *)

\* Mutant of ReadStored: the store is read outside the order.
ReadStoredUnordered ==
  /\ candidate = <<>>
  /\ candidate' = <<[serves |-> name, known |-> Len(ledger)]>>
  /\ UNCHANGED <<name, owner, renaming, ledger, current, session, world, moved, queue,
                 refused>>

\* `_in_order`: the snapshot with its place in the ledger.
ReadStored ==
  /\ InOrder /\ candidate = <<>>
  /\ candidate' = <<[serves |-> name, known |-> Len(ledger)]>>
  /\ UNCHANGED <<name, owner, renaming, ledger, current, session, world, moved, queue,
                 refused>>

\* `_install`, long afterwards.
Install ==
  /\ candidate # <<>>
  /\ current' = candidate[1] /\ candidate' = <<>>
  /\ UNCHANGED <<name, owner, renaming, ledger, session, world, moved, queue, refused>>

\* The candidate is refused, or nobody waits for it any more.
Discarded ==
  /\ candidate # <<>>
  /\ candidate' = <<>>
  /\ UNCHANGED <<name, owner, renaming, ledger, current, session, world, moved, queue,
                 refused>>

-----------------------------------------------------------------------------
(* Conversations.                                                           *)

\* A connection binds the world that is current, and then waits for the hello.
Bind(s) ==
  /\ session[s] = "away"
  /\ session' = [session EXCEPT ![s] = "bound"]
  /\ world' = [world EXCEPT ![s] = current]
  /\ UNCHANGED <<name, owner, renaming, ledger, current, candidate, moved, queue, refused>>

\* `renames_for`: what a world has not heard, each composed onto those before it.
RenamesFor(moves, known) ==
  LET to[k \in 0 .. Len(moves)] ==
        IF k <= known THEN Nothing ELSE Compose(to[k - 1], moves[k][1], moves[k][2])
  IN to[Len(moves)]

\* `open_session`, in one step under the lock that `translate` takes.
Register(s) ==
  /\ session[s] = "bound"
  /\ session' = [session EXCEPT ![s] = "recording"]
  /\ moved' = [moved EXCEPT ![s] = RenamesFor(ledger, world[s].known)]
  /\ UNCHANGED <<name, owner, renaming, ledger, current, candidate, world, queue, refused>>

\* `record_turn`, by the name the session's world has for the agent.
Speak(s, a) ==
  /\ session[s] = "recording" /\ world[s].serves[a] # Unnamed
  /\ Len(queue) < MaxTurns
  /\ queue' = Append(queue, [kind |-> "turn", of |-> s, agent |-> a])
  /\ UNCHANGED <<name, owner, renaming, ledger, current, candidate, session, world, moved,
                 refused>>

Close(s) ==
  /\ session[s] = "recording" /\ Len(queue) < MaxTurns
  /\ session' = [session EXCEPT ![s] = "closed"]
  /\ queue' = Append(queue, [kind |-> "close", of |-> s, agent |-> Unnamed])
  /\ UNCHANGED <<name, owner, renaming, ledger, current, candidate, world, moved, refused>>

\* `_naming`: the name an agent of this session has now.
NameNow(s, said) == IF moved[s][said] = Unnamed THEN said ELSE moved[s][said]

\* A turn lands on its conversation (`landed`), which is its agent's: another
\* name is refused with the batch it came in.
Writes ==
  /\ InOrder /\ queue # <<>> /\ Head(queue).kind = "turn"
  /\ LET c == <<Head(queue).of, Head(queue).agent>>
         agent == NameNow(c[1], world[c[1]].serves[c[2]])
     IN IF owner[c] \in {Unnamed, agent}
          THEN owner' = [owner EXCEPT ![c] = agent] /\ UNCHANGED refused
          ELSE refused' = refused \cup {c} /\ UNCHANGED owner
  /\ queue' = Tail(queue)
  /\ UNCHANGED <<name, renaming, ledger, current, candidate, session, world, moved>>

\* The close is committed, and the translations are retired behind it.
WritesClose ==
  /\ InOrder /\ queue # <<>> /\ Head(queue).kind = "close"
  /\ moved' = [moved EXCEPT ![Head(queue).of] = Nothing]
  /\ queue' = Tail(queue)
  /\ UNCHANGED <<name, owner, renaming, ledger, current, candidate, session, world, refused>>

-----------------------------------------------------------------------------
(* The specification.                                                       *)

Renaming ==
  \/ \E a \in Agents, n \in Names : Create(a, n) \/ RenameCommits(a, n)
  \/ TellWorlds \/ TellWriter

Applying == ReadStored \/ Install \/ Discarded

Conversing ==
  \/ \E s \in Sessions : Bind(s) \/ Register(s) \/ Close(s)
  \/ \E s \in Sessions, a \in Agents : Speak(s, a)
  \/ Writes \/ WritesClose

Next == Renaming \/ Applying \/ Conversing

Spec == Init /\ [][Next]_vars

-----------------------------------------------------------------------------
(* Properties.                                                              *)

\* The variables hold values of their types.
TypeOK ==
  /\ name \in [Agents -> Named] /\ owner \in [Conversations -> Named]
  /\ renaming \in {<<>>} \cup Names \X Names \X {"worlds", "writer"}
  /\ ledger \in Seq(Names \X Names) /\ Len(ledger) <= MaxRenames
  /\ current \in World /\ candidate \in {<<>>} \cup {<<w>> : w \in World}
  /\ session \in [Sessions -> {"away", "bound", "recording", "closed"}]
  /\ world \in [Sessions -> World] /\ moved \in [Sessions -> [Names -> Named]]
  /\ refused \subseteq Conversations
  /\ Len(queue) <= MaxTurns
  /\ \A i \in DOMAIN queue :
       /\ queue[i].kind \in {"turn", "close"} /\ queue[i].of \in Sessions
       /\ queue[i].agent \in Agents \cup {Unnamed}

\* A rename is one step for the record, however late a session hears of it: every
\* conversation is under the name its agent has (`renamed`, `_compose`), and no
\* turn is refused as another agent's (`landed`).
N == INSTANCE Naming
ImplementsNaming == N!Spec
=============================================================================
