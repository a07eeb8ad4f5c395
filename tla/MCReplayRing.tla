---------------------------- MODULE MCReplayRing ----------------------------
(* ReplayRing on a small instance: three slots, four nonces, and the       *)
(* nonces other than zero interchangeable.                                 *)
EXTENDS ReplayRing, TLC

Perms == Permutations(Nonces \ {ZeroNonce})

(* Two states that differ in the history only (what was recorded when, and *)
(* the latest verdict) have the same future, and a step is checked against *)
(* the reference whether or not it leads to a new state.                   *)
Memory == <<now, synced, window, boot, Len(log), slots, head, count>>

=============================================================================
