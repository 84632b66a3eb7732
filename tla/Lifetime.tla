----------------------------- MODULE Lifetime -----------------------------
(***************************************************************************)
(* What a server promises about its conversations, with every reason to end *)
(* one left out: never more inside than there is room for, nobody enters    *)
(* once the door is shut, what is ending a conversation is decided once,    *)
(* and a conversation that began a record leaves it closed under exactly    *)
(* what ended it.  Sessions is shown to implement it.                       *)
(***************************************************************************)
EXTENDS Integers, FiniteSets

CONSTANTS People, Room, Reasons, Undecided

VARIABLES
  shut,    \* the door is shut, for good
  inside,  \* the conversations that are live
  why,     \* per conversation, what is ending it
  record   \* per conversation: "none", "open", or the reason it closed under

Init ==
  /\ shut = FALSE /\ inside = {}
  /\ why = [p \in People |-> Undecided]
  /\ record = [p \in People |-> "none"]

Shut == shut' = TRUE /\ UNCHANGED <<inside, why, record>>

Enter(p) ==
  /\ ~shut /\ p \notin inside /\ Cardinality(inside) < Room
  /\ record[p] = "none"
  /\ inside' = inside \cup {p}
  /\ UNCHANGED <<shut, why, record>>

Begin(p) ==
  /\ p \in inside /\ record[p] = "none"
  /\ record' = [record EXCEPT ![p] = "open"]
  /\ UNCHANGED <<shut, inside, why>>

Decide(p, r) ==
  /\ why[p] = Undecided
  /\ why' = [why EXCEPT ![p] = r]
  /\ UNCHANGED <<shut, inside, record>>

\* A failure that is both the first thing to go wrong and the last.
BeginAndFail(p, r) ==
  /\ p \in inside /\ record[p] = "none" /\ why[p] = Undecided
  /\ record' = [record EXCEPT ![p] = "open"]
  /\ why' = [why EXCEPT ![p] = r]
  /\ UNCHANGED <<shut, inside>>

Leave(p) ==
  /\ p \in inside
  /\ inside' = inside \ {p}
  /\ IF record[p] = "none" THEN UNCHANGED record
     ELSE why[p] # Undecided /\ record' = [record EXCEPT ![p] = why[p]]
  /\ UNCHANGED <<shut, why>>

Next ==
  \/ Shut
  \/ \E p \in People : Enter(p) \/ Begin(p) \/ Leave(p)
  \/ \E p \in People, r \in Reasons : Decide(p, r) \/ BeginAndFail(p, r)

Spec == Init /\ [][Next]_<<shut, inside, why, record>>

=============================================================================
