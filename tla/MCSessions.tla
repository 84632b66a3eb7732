---------------------------- MODULE MCSessions ----------------------------
(* A server with room for one conversation and two that want it, for TLC. *)
EXTENDS Sessions

CONSTANTS s1, s2
MCConversations == {s1, s2}
OneOfThem == {s1}

=============================================================================
