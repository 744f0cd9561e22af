----------------------------- MODULE MCChatInbox -----------------------------
(* Instances of ChatInbox for TLC. *)
EXTENDS ChatInbox, TLC

CONSTANTS m1, m2, m3, m4

MCMessage == {m1, m2, m3, m4}
MCSymmetry == Permutations(MCMessage)
=============================================================================
