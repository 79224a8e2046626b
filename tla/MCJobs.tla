-------------------------------- MODULE MCJobs --------------------------------
(* Instances of Jobs for TLC.                                              *)
EXTENDS Jobs
==============================================================================
