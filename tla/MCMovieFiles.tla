---------------------------- MODULE MCMovieFiles ----------------------------
(* Sets of hazards for checking MovieFiles with TLC.                       *)
EXTENDS MovieFiles

DeletionHazards == {"concurrent_deletions"}
AllHazards == HazardNames

=============================================================================
