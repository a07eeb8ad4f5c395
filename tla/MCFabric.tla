------------------------------ MODULE MCFabric ------------------------------
(* Fabric on a small instance: sending once, twice and for ever. *)
EXTENDS Fabric, TLC

SomeCounts == {Indefinite, 1, 2}

(* What a node can tell of the publications: without a window the guard    *)
(* does not look at stamps and nonces.                                     *)
Told ==
  IF window = 0
  THEN [p \in DOMAIN pub |-> <<pub[p].topic, pub[p].sealed, pub[p].raw>>]
  ELSE pub

(* Two states that differ in the guard's histories only, or in what the    *)
(* node cannot tell, have the same future, as long as MaxAccepted is more  *)
(* than can be accepted.                                                   *)
Memory == <<now, synced, window, boot, order, seen, kind, keyed, Told, left, chain, wire,
            listened, strict, taken, value>>

=============================================================================
