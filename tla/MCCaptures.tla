----------------------------- MODULE MCCaptures -----------------------------
(* Two recordings, one of them with clips, of three lifespans.              *)
EXTENDS Captures

CONSTANTS s1, s2

MCSessions == {s1, s2}
MCClips == [s \in MCSessions |-> IF s = s1 THEN <<2, 1>> ELSE <<>>]
=============================================================================
