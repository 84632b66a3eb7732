------------------------------ MODULE MCRecord ------------------------------
(* Two sessions and one conversation for TLC: it begins in s1, which speaks   *)
(* twice, and s2 resumes it. The two turns of s1 are interchangeable.         *)
EXTENDS Record, TLC

CONSTANTS s1, s2, c1, t1, t2, t3

MCSessions == {s1, s2}
MCThreads == {c1}
MCTurns == {t1, t2, t3}
MCSessionOf == (t1 :> s1) @@ (t2 :> s1) @@ (t3 :> s2)
MCThreadOf == [t \in MCTurns |-> c1]
MCMintedBy == [c \in MCThreads |-> s1]
MCSymmetry == Permutations({t1, t2})
=============================================================================
