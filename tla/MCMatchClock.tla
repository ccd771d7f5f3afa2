---------------------------- MODULE MCMatchClock ----------------------------
(* A small instance of MatchClock. *)
EXTENDS MatchClock

MCWorks   == {1, 10}
MCLates   == {0, 1}
MCJitters == {0, 1}
MCLeads   == {-5, 0, 3, 25}
=============================================================================
