---------------------------- MODULE MCRtmpIngest ----------------------------
(* Instances of RtmpIngest for TLC. *)
EXTENDS RtmpIngest, TLC

CONSTANTS s1, s2, k1, k2

MCSession == {s1, s2}
MCKey == {k1, k2}
MCSymmetry == Permutations(MCSession) \cup Permutations(MCKey)
=============================================================================
