----------------------------- MODULE MCHaClient -----------------------------
(* HaClient on a small instance: sending never, once and for ever. *)
EXTENDS HaClient, TLC

SomeCounts == {0, 1, Indefinite}

=============================================================================
