----------------------------- MODULE MCRenames -----------------------------
(* Two agents that take turns at three names, and two conversations.         *)
EXTENDS Renames, TLC

CONSTANTS a1, a2, n1, n2, n3, s1, s2

MCAgents == {a1, a2}
MCNames == {n1, n2, n3}
MCSessions == {s1, s2}
Interchangeable ==
  Permutations(MCNames) \cup Permutations(MCAgents) \cup Permutations(MCSessions)
=============================================================================
