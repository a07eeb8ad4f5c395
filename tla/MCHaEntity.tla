----------------------------- MODULE MCHaEntity -----------------------------
(* HaEntity on a small instance. *)
EXTENDS HaEntity, TLC

=============================================================================
