---------------------------- MODULE MCGoPublisher ----------------------------
(* GoPublisher on a small instance. *)
EXTENDS GoPublisher

SomeBases == {Indefinite, 1, 2}

=============================================================================
