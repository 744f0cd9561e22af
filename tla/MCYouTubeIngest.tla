--------------------------- MODULE MCYouTubeIngest ---------------------------
(* A small instance of YouTubeIngest: a message, an empty one, and a payment *)
(* under the id of the first.                                                *)
EXTENDS YouTubeIngest

MCChat == << [renderer |-> "text", id |-> 1, body |-> "words"],
             [renderer |-> "text", id |-> 2, body |-> "blank"],
             [renderer |-> "paid", id |-> 1, body |-> "missing"] >>
==============================================================================
