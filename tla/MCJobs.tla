-------------------------------- MODULE MCJobs ---------------------------------
(***************************************************************************)
(* The quality jobs on a small instance: two processes, and two jobs, of   *)
(* which one has an attachment, with three attempts each.  A tick is as    *)
(* long as the lease, and a run may have read its clock a tick ago, so it  *)
(* may be overtaken or overtake.                                           *)
(***************************************************************************)
EXTENDS QualityJob

CONSTANTS j1, j2, a, b
================================================================================
