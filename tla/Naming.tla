------------------------------ MODULE Naming ------------------------------
(***************************************************************************)
(* What a rename promises: an agent and everything recorded of it change    *)
(* name in one step, and whatever is recorded of it is under the name it    *)
(* has. Nothing recorded of it is refused.                                  *)
(***************************************************************************)
CONSTANTS Agents, Names, Sessions, Unnamed

VARIABLES
  name,    \* per agent, what it is called
  owner,   \* per conversation of a session with an agent, the name it is under
  refused  \* conversations something was refused for

Init ==
  /\ name \in [Agents -> Names \cup {Unnamed}]
  /\ owner = [c \in Sessions \X Agents |-> Unnamed]
  /\ refused = {}

Free(n) == \A a \in Agents : name[a] # n

Create(a, n) ==
  /\ name[a] = Unnamed /\ Free(n)
  /\ name' = [name EXCEPT ![a] = n]
  /\ UNCHANGED <<owner, refused>>

\* A name with a history of its own is nobody's to take.
Rename(a, n) ==
  /\ name[a] # Unnamed /\ Free(n)
  /\ \A c \in Sessions \X Agents : owner[c] # n
  /\ name' = [name EXCEPT ![a] = n]
  /\ owner' = [c \in Sessions \X Agents |->
                 IF c[2] = a /\ owner[c] # Unnamed THEN n ELSE owner[c]]
  /\ UNCHANGED refused

File(s, a) ==
  /\ name[a] # Unnamed
  /\ owner' = [owner EXCEPT ![<<s, a>>] = name[a]]
  /\ UNCHANGED <<name, refused>>

Next ==
  \/ \E a \in Agents, n \in Names : Create(a, n) \/ Rename(a, n)
  \/ \E s \in Sessions, a \in Agents : File(s, a)

Spec == Init /\ [][Next]_<<name, owner, refused>>
=============================================================================
