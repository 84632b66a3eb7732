---------------------------- MODULE UploadLedger ----------------------------
(***************************************************************************)
(* What the upload of recordings promises: a recording leaves only once its *)
(* session is over; what was put aside for it goes only after something has *)
(* been said of it; a process says one thing of each; what a process leaves *)
(* put aside is for the next one to call abandoned.                         *)
(***************************************************************************)
CONSTANT Sessions

VARIABLES
  opened,     \* sessions there have been
  ended,      \* those that are over
  left,       \* those whose process is gone
  kept,       \* those with a recording put aside
  broken,     \* those whose files the filesystem has failed
  sent,       \* those whose recording is at the backend
  outcome,    \* per session, what its own process said of its recording
  abandoned   \* those a later process called abandoned

vars == <<opened, ended, left, kept, broken, sent, outcome, abandoned>>

Silent(s) == outcome[s] = "none"
Says(s, what) == outcome' = [outcome EXCEPT ![s] = what]

Init ==
  /\ opened = {} /\ ended = {} /\ left = {} /\ kept = {} /\ broken = {} /\ sent = {}
  /\ abandoned = {}
  /\ outcome = [s \in Sessions |-> "none"]

Open(s) ==
  /\ s \notin opened
  /\ opened' = opened \cup {s}
  /\ UNCHANGED <<ended, left, kept, broken, sent, outcome, abandoned>>

End(s) ==
  /\ s \in opened \ left
  /\ ended' = ended \cup {s}
  /\ UNCHANGED <<opened, left, kept, broken, sent, outcome, abandoned>>

Keep(s) ==
  /\ s \in opened \ (left \cup kept) /\ Silent(s)
  /\ kept' = kept \cup {s}
  /\ UNCHANGED <<opened, ended, left, broken, sent, outcome, abandoned>>

Break(s) ==
  /\ broken' = broken \cup {s}
  /\ UNCHANGED <<opened, ended, left, kept, sent, outcome, abandoned>>

\* Not before the session is over, and not what has been accounted for.
Send(s) ==
  /\ s \in (ended \cap kept) \ left /\ Silent(s)
  /\ sent' = sent \cup {s}
  /\ UNCHANGED <<opened, ended, left, kept, broken, outcome, abandoned>>

\* Once, by the process that recorded it, and truly.
Uploaded(s) ==
  /\ s \in sent \ left /\ Silent(s) /\ Says(s, "uploaded")
  /\ UNCHANGED <<opened, ended, left, kept, broken, sent, abandoned>>

\* What is refused at the door is let go as it is said.
Failed(s) ==
  /\ s \in ended \ left /\ Silent(s) /\ Says(s, "failed")
  /\ kept' \in {kept, kept \ {s}}
  /\ UNCHANGED <<opened, ended, left, broken, sent, abandoned>>

\* Only a filesystem loses a recording, and never a limit on what is kept.
Lost(s) ==
  /\ s \in opened \ left /\ Silent(s) /\ Says(s, "lost")
  /\ broken' = broken \cup {s}
  /\ s \notin kept
  /\ UNCHANGED <<opened, ended, left, kept, sent, abandoned>>

Abandon(s) ==
  /\ s \in kept \cap left
  /\ abandoned' = abandoned \cup {s}
  /\ UNCHANGED <<opened, ended, left, kept, broken, sent, outcome>>

\* Nothing goes in silence.
Release(s) ==
  /\ ~Silent(s) \/ s \in abandoned
  /\ kept' = kept \ {s}
  /\ UNCHANGED <<opened, ended, left, broken, sent, outcome, abandoned>>

\* The process is gone: nobody is left to say anything of what it opened.
Leave ==
  /\ left' = opened
  /\ UNCHANGED <<opened, ended, kept, broken, sent, outcome, abandoned>>

Next ==
  \/ Leave
  \/ \E s \in Sessions :
       \/ Open(s) \/ End(s) \/ Keep(s) \/ Break(s) \/ Send(s)
       \/ Uploaded(s) \/ Failed(s) \/ Lost(s) \/ Abandon(s) \/ Release(s)

Spec == Init /\ [][Next]_vars
=============================================================================
