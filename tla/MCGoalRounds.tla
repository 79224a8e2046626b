---------------------------- MODULE MCGoalRounds ----------------------------
(* Instances of GoalRounds for TLC.                                        *)
EXTENDS GoalRounds
=============================================================================
