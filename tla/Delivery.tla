------------------------------- MODULE Delivery -------------------------------
(***************************************************************************)
(* What the fabric promises the subscribers of one node, whatever the      *)
(* network does: nothing is heard that was not published, that the node    *)
(* cannot read or that is not RAW, and a sealed publication that a guarded *)
(* node took is not taken again before the guard took Remembered others or *)
(* forgot it all. A topic that is strict stays so until then, and its      *)
(* subscribers hear nothing on it that is not sealed. Nothing is promised  *)
(* to arrive.                                                              *)
(***************************************************************************)
EXTENDS Naturals, Sequences

CONSTANTS
  Topics,
  Remembered  (* how many publications a guard can tell from new ones *)

VARIABLES
  posted,  (* the publications so far: topic; sealed, RAW and readable or    *)
           (* not; taken once or not                                         *)
  strict,  (* topics for which somebody has required sealed publications     *)
  taken,   (* the last Remembered publications the guard took, oldest first  *)
  value    (* the latest publication the subscribers of each topic heard     *)

vars == <<posted, strict, taken, value>>

Recent(p) == \E i \in DOMAIN taken : taken[i] = p

Remember(s, p) ==
  IF Len(s) < Remembered THEN Append(s, p) ELSE Tail(Append(s, p))

Init ==
  /\ posted = <<>> /\ strict = {}
  /\ taken = <<>>
  /\ value = [t \in Topics |-> 0]

(* What a guard looks at is sealed. *)
Publications ==
  {d \in [topic : Topics, sealed : BOOLEAN, raw : BOOLEAN, once : BOOLEAN, readable : BOOLEAN] :
     d.once => d.sealed}

Post ==
  /\ posted' # posted
  /\ \E d \in Publications : posted' = Append(posted, d)
  /\ UNCHANGED <<strict, taken, value>>

Demand(t) ==
  /\ strict' = strict \union {t}
  /\ UNCHANGED <<posted, taken, value>>

Audible(p) ==
  posted[p].raw /\ (posted[p].sealed \/ posted[p].topic \notin strict)

(* The node takes p; there may be nobody who listens.                      *)
Take(p) ==
  /\ p \in DOMAIN posted /\ posted[p].readable
  /\ posted[p].once => ~Recent(p)
  /\ taken' = IF posted[p].once THEN Remember(taken, p) ELSE taken
  /\ \/ UNCHANGED value
     \/ Audible(p) /\ value' = [value EXCEPT ![posted[p].topic] = p]
  /\ UNCHANGED <<posted, strict>>

(* The node starts afresh. *)
Forget ==
  /\ taken' = <<>> /\ strict' = {}
  /\ UNCHANGED <<posted, value>>

Next ==
  \/ Post
  \/ \E t \in Topics : Demand(t)
  \/ \E p \in DOMAIN posted : Take(p)
  \/ Forget

Spec == Init /\ [][Next]_vars

=============================================================================
