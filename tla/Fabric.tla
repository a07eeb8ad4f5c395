-------------------------------- MODULE Fabric --------------------------------
(***************************************************************************)
(* Publishers and one receiving node on one segment: what is published is  *)
(* encoded once and its bytes are sent again as often as configured, the   *)
(* network loses, duplicates, delays and reorders them, and the node       *)
(* decodes them, asks its replay guard and hands them to whoever listens.  *)
(* The guard is ReplayGuard itself, for a node whose clock is always valid *)
(* and never set back. The node is a Python client, which unsubscribes, or *)
(* an ESPHome one, whose subscriptions may require encryption and stay.    *)
(*                                                                         *)
(* A publisher's clock may be one behind or not be set (stamp 0). The      *)
(* publications of a topic are one publisher's. Topics stand for their     *)
(* CRCs, and what the subscribers want is RAW: what has another encoding   *)
(* is heard by none of them, but the guard sees it if it is sealed. What   *)
(* does not decode on any node changes nothing and is not sent here.       *)
(***************************************************************************)
EXTENDS Integers, Sequences

CONSTANTS
  Topics, Windows, MaxEntries, Nonces, MinTime, MaxTime, MaxSetBack, MaxBoots,
  MaxAccepted,
  Counts,       (* retransmit counts in use                *)
  MaxPublished  (* bound: publications                     *)

Indefinite == -1

VARIABLES
  now, synced, window, boot, high, log, last, order, seen,  (* of ReplayGuard *)
  kind,      (* the node: a Python client or an ESPHome one                   *)
  keyed,     (* the node has the key of the fabric                            *)
  pub,       (* the publications: topic, and the fields of their bytes        *)
  left,      (* sends a finite publication still has ahead of it              *)
  chain,     (* the publication each topic's indefinite chain repeats, or 0   *)
  wire,      (* publications whose bytes are on their way                     *)
  listened,  (* topics of _crc_index, or subscriptions_                       *)
  strict,    (* those of them with require_encryption                         *)
  taken,     (* history: the last MaxEntries publications the guard took      *)
  value      (* history: the latest publication each topic's listeners heard  *)

guardVars == <<now, synced, window, boot, high, log, last, order, seen>>
sender == <<pub, left, chain>>
node == <<kind, keyed, listened, strict>>

vars == <<now, synced, window, boot, high, log, last, order, seen,
          kind, keyed, pub, left, chain, wire, listened, strict, taken, value>>

Guard == INSTANCE ReplayGuard

(* A clock that is set reads later than the epoch. *)
ASSUME FabricAssumption ==
  /\ Guard!EnvAssumption
  /\ MinTime > 0
  /\ Nonces \subseteq Nat \ {0}
  /\ Counts \subseteq {Indefinite} \union (Nat \ {0})
  /\ MaxPublished \in Nat

Publications == 1 .. MaxPublished

(* Every configuration with a replay window has a key. *)
Init ==
  /\ Guard!Init /\ kind \in {"client", "esphome"} /\ keyed \in BOOLEAN
  /\ window # 0 => keyed
  /\ pub = <<>>
  /\ left = [p \in Publications |-> 0]
  /\ chain = [t \in Topics |-> 0]
  /\ wire = {} /\ listened = {} /\ strict = {}
  /\ taken = <<>>
  /\ value = [t \in Topics |-> 0]

(* The clock of the node is valid before anything is published. *)
Clock ==
  /\ Guard!ClockStep /\ now' >= now
  /\ UNCHANGED <<node, sender, wire, taken, value>>

-----------------------------------------------------------------------------
(* Publishers. *)

Stamped == {0, now - 1, now}

(* encode(): a plaintext body has neither stamp nor nonce.                 *)
Encode(t, sealed, raw, ts, n) ==
  [topic |-> t, sealed |-> sealed, raw |-> raw,
   ts |-> IF sealed THEN ts ELSE 0, nonce |-> IF sealed THEN n ELSE 0]

(* A faulty form of Left: a count that stands for no number is not asked   *)
(* about.                                                                  *)
LeftOfAny(count) == count - 1

Left(count) == IF count = Indefinite THEN 0 ELSE count - 1

(* async_publish(), or the same on a node that sends other encodings: what *)
(* is neither sealed nor RAW changes nothing on the node.                  *)
Publish(t, d, count) ==
  LET p == Len(pub) + 1
  IN /\ synced /\ p <= MaxPublished
     /\ d.sealed \/ d.raw
     /\ pub' = Append(pub, d)
     /\ wire' = wire \union {p}
     /\ chain' = [chain EXCEPT ![t] = IF count = Indefinite THEN p ELSE 0]
     /\ left' = [left EXCEPT ![p] = Left(count)]
     /\ UNCHANGED <<guardVars, node, taken, value>>

(* The bytes are sent again as they are. *)
Retransmit(p) ==
  /\ left[p] > 0
  /\ left' = [left EXCEPT ![p] = @ - 1]
  /\ wire' = wire \union {p}
  /\ UNCHANGED <<guardVars, node, pub, chain, taken, value>>

(* A faulty form of ChainTick: the timer arms itself again, but the bytes  *)
(* it was made for are gone.                                               *)
ChainTickEmpty(t) ==
  /\ chain[t] # 0
  /\ UNCHANGED vars

ChainTick(t) ==
  /\ chain[t] # 0
  /\ wire' = wire \union {chain[t]}
  /\ UNCHANGED <<guardVars, node, sender, taken, value>>

-----------------------------------------------------------------------------
(* The node. *)

(* A faulty form of StrictAfter: the last subscriber decides.              *)
StrictAfterLast(t, demands) == IF demands THEN strict \union {t} ELSE strict \ {t}

(* "Once set true, it stays set" (multicast_pubsub.h:248-249), for all who *)
(* listen to the topic.                                                    *)
StrictAfter(t, demands) == IF demands THEN strict \union {t} ELSE strict

Subscribe(t, demands) ==
  /\ demands => kind = "esphome"
  /\ listened' = listened \union {t}
  /\ strict' = StrictAfter(t, demands)
  /\ UNCHANGED <<guardVars, kind, keyed, sender, wire, taken, value>>

Unsubscribe(t) ==
  /\ kind = "client"
  /\ listened' = listened \ {t}
  /\ UNCHANGED <<guardVars, kind, keyed, strict, sender, wire, taken, value>>

(* A reload of the config entry makes a new client, hence a new guard, and *)
(* loses its subscriptions; so does a reboot.                              *)
Reload ==
  /\ boot < MaxBoots
  /\ boot' = boot + 1
  /\ order' = <<>> /\ seen' = {} /\ taken' = <<>>
  /\ listened' = {} /\ strict' = {}
  /\ high' = now
  /\ UNCHANGED <<now, synced, window, log, last, kind, keyed, sender, wire, value>>

(* decode() succeeds: a sealed body needs the key, a plaintext one none,   *)
(* also on a node that has a key.                                          *)
Decodes(d) == d.sealed => keyed

(* Somebody listens to p, and did not require what it has not.             *)
Hears(p) ==
  /\ pub[p].topic \in listened
  /\ pub[p].topic \in strict => pub[p].sealed
  /\ pub[p].raw

(* deliver_(), and the end of handle_datagram() *)
Dispatch(p) ==
  value' = IF Hears(p) THEN [value EXCEPT ![pub[p].topic] = p] ELSE value

HandlePlain(p) ==
  /\ ~pub[p].sealed
  /\ Dispatch(p)
  /\ UNCHANGED <<guardVars, taken>>

TakenAfter(p) ==
  IF window = 0 THEN taken
  ELSE IF Len(taken) < MaxEntries THEN Append(taken, p) ELSE Tail(Append(taken, p))

(* A faulty form of HandleSealed: the verdict is not waited for.           *)
HandleSealedAnyway(p) ==
  /\ pub[p].sealed
  /\ Guard!Accept(pub[p].ts, pub[p].nonce)
  /\ Dispatch(p)
  /\ taken' = TakenAfter(p)

(* The guard records the nonce before anybody asks who listens, and to     *)
(* which encoding.                                                         *)
HandleSealed(p) ==
  /\ pub[p].sealed
  /\ Guard!Accept(pub[p].ts, pub[p].nonce)
  /\ IF last'.ok
     THEN Dispatch(p) /\ taken' = TakenAfter(p)
     ELSE UNCHANGED <<taken, value>>

(* handle_datagram() or on_packet_(): a copy of p arrives; another may     *)
(* still be under way.                                                     *)
Receive(p) ==
  /\ p \in wire
  /\ wire' \in {wire, wire \ {p}}
  /\ Decodes(pub[p])
  /\ HandlePlain(p) \/ HandleSealed(p)
  /\ UNCHANGED <<node, sender>>

Lose(p) ==
  /\ p \in wire
  /\ wire' = wire \ {p}
  /\ UNCHANGED <<guardVars, node, sender, taken, value>>

Next ==
  \/ Clock \/ Reload
  \/ \E t \in Topics, count \in Counts, sealed, raw \in BOOLEAN, ts \in Stamped, n \in Nonces :
       Publish(t, Encode(t, sealed, raw, ts, n), count)
  \/ \E p \in Publications : Retransmit(p) \/ Receive(p) \/ Lose(p)
  \/ \E t \in Topics, demands \in BOOLEAN : Subscribe(t, demands)
  \/ \E t \in Topics : ChainTick(t) \/ Unsubscribe(t)

Spec == Init /\ [][Next]_vars

(* A chain's timer keeps firing, and of what is sent over and over again   *)
(* the network lets something through.                                     *)
Fairness ==
  /\ \A t \in Topics : WF_vars(ChainTick(t))
  /\ \A p \in Publications : SF_vars(Receive(p))

FairSpec == Spec /\ Fairness

-----------------------------------------------------------------------------
(* Type invariant. *)
Datagram == [topic : Topics, sealed : BOOLEAN, raw : BOOLEAN,
             ts : 0 .. MaxTime, nonce : Nonces \union {0}]

TypeOK ==
  /\ kind \in {"client", "esphome"} /\ keyed \in BOOLEAN
  /\ pub \in Seq(Datagram) /\ Len(pub) <= MaxPublished
  /\ left \in [Publications -> Nat]
  /\ chain \in [Topics -> 0 .. Len(pub)]
  /\ wire \subseteq DOMAIN pub
  /\ listened \subseteq Topics /\ strict \subseteq Topics
  /\ taken \in Seq(DOMAIN pub)
  /\ value \in [Topics -> 0 .. Len(pub)]

(* Nonces, stamps, pruning and overflow come down to what Delivery says in *)
(* terms of publications: a guarded node takes a sealed one once among any *)
(* MaxEntries, however its copies are lost, doubled and delayed; it is     *)
(* told nothing it has no key for; and once anybody on an ESPHome node     *)
(* required encryption of a topic, nobody there hears plaintext on it.     *)
Once(d) == d.sealed /\ window # 0

posted == [p \in DOMAIN pub |->
             [topic |-> pub[p].topic, sealed |-> pub[p].sealed, raw |-> pub[p].raw,
              once |-> Once(pub[p]), readable |-> Decodes(pub[p])]]

Promise == INSTANCE Delivery WITH Remembered <- MaxEntries

ImplementsDelivery == Promise!Spec

(* An indefinite chain brings every listener to its value again and again, *)
(* whatever late copies of older publications come in between: on a node   *)
(* whose guard does not look at it. A guarded node takes the chain's value *)
(* once, and an older publication that it takes after that stays; and it   *)
(* never takes a chain whose stamp is older than the window.               *)
ChainPrevails ==
  \A t \in Topics :
    []<>(\/ chain[t] = 0
         \/ ~Hears(chain[t]) \/ ~Decodes(pub[chain[t]]) \/ Once(pub[chain[t]])
         \/ value[t] = chain[t])

=============================================================================
