---------------------------- MODULE MCLostUpdates ----------------------------
(* An instance of LostUpdates for TLC.                                      *)
EXTENDS LostUpdates

CONSTANTS c1, c2

PlainFile == [hot |-> "a", restart |-> "plain", files |-> "unset", lists |-> "nil"]
=============================================================================
