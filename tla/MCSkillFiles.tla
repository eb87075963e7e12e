----------------------------- MODULE MCSkillFiles -----------------------------
(* Two jobs that draft beside the sync loop.                               *)
EXTENDS SkillFiles
=============================================================================
