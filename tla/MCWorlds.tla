----------------------------- MODULE MCWorlds -----------------------------
(* A small deployment for TLC. *)
EXTENDS Worlds, TLC

CONSTANTS llm, tts, s1, s2
MCEntries == {llm, tts}
MCSessions == {s1, s2}
Interchangeable == Permutations(MCEntries) \cup Permutations(MCSessions)

=============================================================================
