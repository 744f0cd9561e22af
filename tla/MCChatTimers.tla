---------------------------- MODULE MCChatTimers ----------------------------
(* A small instance of ChatTimers: the authors and ballots of a two-option *)
(* poll, one ballot naming no option, and a bound on what one behaviour    *)
(* may contain.                                                            *)
EXTENDS ChatTimers

CONSTANTS Ann, Bob

MCBallot ==
  LET ballots == {[voter |-> Ann, option |-> 1, copy |-> 1],
                  [voter |-> Ann, option |-> 2, copy |-> 2],
                  [voter |-> Ann, option |-> 1, copy |-> 3],
                  [voter |-> Ann, option |-> 3, copy |-> 5],
                  [voter |-> Bob, option |-> 1, copy |-> 4]}
  IN  {b \in ballots : b.voter \in Voter}
============================================================================
