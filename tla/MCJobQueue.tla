----------------------------- MODULE MCJobQueue -----------------------------
(* JobQueue for TLC.  No symmetry: one of its properties is a liveness     *)
(* property.                                                               *)
EXTENDS JobQueue

=============================================================================
