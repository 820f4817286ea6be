----------------------------- MODULE MCJobManager -----------------------------
(* The job queue on a small instance: jobs and request ids are model values. *)
EXTENDS JobManager
=============================================================================
