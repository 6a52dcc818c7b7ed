-------------------------- MODULE MCVerdictHistory -------------------------
(* The day of MCVotingService, watched.                                    *)
EXTENDS MCVotingService, VerdictHistory
=============================================================================
