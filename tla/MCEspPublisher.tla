--------------------------- MODULE MCEspPublisher ---------------------------
(* EspPublisher on a small instance: two topics with distinct CRCs.        *)
EXTENDS EspPublisher

CONSTANTS t1, t2, i1, i2

DistinctCrc == [t \in Topics |-> IF t = t1 THEN i1 ELSE i2]

(* Counts: once, twice, for ever, and a template's -1 that became 3.       *)
SomeRawActions ==
  {[templated |-> FALSE, count |-> 2], [templated |-> TRUE, count |-> Indefinite]}

(* For ever, and a template whose number is one too large.                 *)
SomeTypedActions ==
  {[templated |-> TRUE, count |-> Indefinite], [templated |-> TRUE, count |-> Half]}

=============================================================================
