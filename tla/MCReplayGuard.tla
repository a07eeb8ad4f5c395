--------------------------- MODULE MCReplayGuard ---------------------------
(* ReplayGuard on a small instance: model values for the nonces. *)
EXTENDS ReplayGuard, TLC

Perms == Permutations(Nonces)

=============================================================================
