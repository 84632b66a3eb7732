-------------------------- MODULE MCSpeakingPass --------------------------
(* A lookup and a move: a round may answer one, both or neither.            *)
EXTENDS SpeakingPass
CONSTANTS look, switch
MCCalls == {look, switch}
MCWrites == {}
MCMoves == {switch}
MCLookups == {look}
=============================================================================
