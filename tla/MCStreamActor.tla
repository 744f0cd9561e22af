---------------------------- MODULE MCStreamActor ----------------------------
(* Instances of StreamActor for TLC. *)
EXTENDS StreamActor, TLC

CONSTANTS k1, k2, t1, t2

MCKey == {k1, k2}
MCTarget == {t1, t2}
MCSymmetry == Permutations(MCKey) \cup Permutations(MCTarget)
=============================================================================
