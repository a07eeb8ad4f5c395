----------------------------- MODULE MCReplayGo -----------------------------
(* ReplayGo on a small instance: model values for the nonces, and a 3-bit  *)
(* uint32. MinTime is the largest window: the clock is a window past the   *)
(* epoch, so that the cutoff of prune() does not wrap.                     *)
EXTENDS ReplayGo, TLC

Perms == Permutations(Nonces)

(* Two states that differ in the history only (what was recorded when, and *)
(* the latest verdict) have the same future, and a step is checked against *)
(* the reference whether or not it leads to a new state.                   *)
Memory == <<now, synced, window, boot, Len(log), order, seen>>

=============================================================================
