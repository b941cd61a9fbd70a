---------------------------- MODULE MCTeamStatus ----------------------------
(* Instances of the status report for TLC.                                 *)
EXTENDS TeamStatus

=============================================================================
