------------------------------- MODULE Floor -------------------------------
(***************************************************************************)
(* What a conversation promises about turns, with every reason to cut, to   *)
(* wait and to apologise left out: the user's turns are answered in the     *)
(* order they were finished, one at a time, none twice, and a conversation  *)
(* that has been shut has nobody speaking and never speaks again.           *)
(* TurnTaking is shown to implement it.                                     *)
(***************************************************************************)
EXTENDS Integers

CONSTANT Turns  \* numbers, in the order the user finished them

VARIABLES
  speaking,  \* the turns being answered
  asked,     \* the turns whose answer was ever started
  open       \* whether the conversation is still there

Init == speaking = {} /\ asked = {} /\ open = TRUE

\* A turn may be passed over for a later one (noise, or a sentence that was
\* merged into the next), never returned to.
Take(t) ==
  /\ open /\ speaking = {}
  /\ \A s \in asked : s < t
  /\ speaking' = {t}
  /\ asked' = asked \cup {t}
  /\ UNCHANGED open

Yield ==
  /\ speaking # {}
  /\ speaking' = {}
  /\ UNCHANGED <<asked, open>>

Shut ==
  /\ open /\ speaking = {}
  /\ open' = FALSE
  /\ UNCHANGED <<speaking, asked>>

Next == (\E t \in Turns : Take(t)) \/ Yield \/ Shut

Spec == Init /\ [][Next]_<<speaking, asked, open>>

=============================================================================
