------------------------------ MODULE ReplayGo ------------------------------
(***************************************************************************)
(* The Go bridge's replayGuard: the reference's deque and dict as a slice  *)
(* and a map, with every time a uint32. The bridge's clock counts as set   *)
(* from the start, but accept() takes nowValid like the others.            *)
(***************************************************************************)
EXTENDS ReplayEnv

CONSTANT Width  (* bits of a uint32 *)

ASSUME GoAssumption ==
  /\ Width \in Nat
  /\ 2 ^ Width \in Nat  (* no prover knows that; TLC computes it *)
  /\ MaxTime < 2 ^ Width
  /\ \A w \in Windows : w < 2 ^ Width

VARIABLES
  order,  (* order: the slice of (nonce, ts)  *)
  seen    (* seen: the keys of the map        *)

vars == <<now, synced, window, boot, high, log, last, order, seen>>

-----------------------------------------------------------------------------

Init ==
  /\ EnvInit
  /\ order = <<>>
  /\ seen = {}

(* cutoff := now - g.window, in uint32 arithmetic. *)
Cutoff == (now - window) % (2 ^ Width)

(* A faulty form of PruneCounts: an entry exactly a window old is pruned.  *)
PruneCountsAtTheEdge ==
  {k \in 0 .. Len(order) :
     /\ \A i \in 1 .. k : order[i].ts <= Cutoff
     /\ k < Len(order) => order[k + 1].ts > Cutoff}

(* prune counts the entries at the front of the slice below the cutoff. *)
PruneCounts ==
  {k \in 0 .. Len(order) :
     /\ \A i \in 1 .. k : order[i].ts < Cutoff
     /\ k < Len(order) => order[k + 1].ts >= Cutoff}

Pruned(k) == SubSeq(order, k + 1, Len(order))

SeenAfter(k) == seen \ {order[i].nonce : i \in 1 .. k}

(* The append of e and, past maxEntries, the removal of the front entry. *)
Insert(k, e) ==
  LET grown == Append(Pruned(k), e)
      keys  == SeenAfter(k) \union {e.nonce}
  IN IF Len(grown) > MaxEntries
     THEN /\ order' = Tail(grown)
          /\ seen' = keys \ {Head(grown).nonce}
     ELSE /\ order' = grown
          /\ seen' = keys

-----------------------------------------------------------------------------
(* The ways out of accept(). *)

AcceptDisabled(ts, n) ==
  /\ window = 0
  /\ Answer(ts, n, TRUE)
  /\ UNCHANGED <<now, synced, window, boot, high, log, order, seen>>

RejectStale(ts, n) ==
  /\ window # 0
  /\ ~Fresh(ts)
  /\ Answer(ts, n, FALSE)
  /\ UNCHANGED <<now, synced, window, boot, high, log, order, seen>>

RejectSeen(ts, n) ==
  /\ window # 0
  /\ Fresh(ts)
  /\ \E k \in PruneCounts :
       /\ n \in SeenAfter(k)
       /\ order' = Pruned(k)
       /\ seen' = SeenAfter(k)
  /\ Answer(ts, n, FALSE)
  /\ UNCHANGED <<now, synced, window, boot, high, log>>

AcceptNew(ts, n) ==
  /\ window # 0
  /\ Fresh(ts)
  /\ \E k \in PruneCounts :
       /\ n \notin SeenAfter(k)
       /\ Insert(k, [ts |-> ts, nonce |-> n])
  /\ Remember(ts, n)
  /\ Answer(ts, n, TRUE)
  /\ UNCHANGED <<now, synced, window, boot, high>>

Accept(ts, n) ==
  \/ AcceptDisabled(ts, n)
  \/ RejectStale(ts, n)
  \/ RejectSeen(ts, n)
  \/ AcceptNew(ts, n)

(* A restarted bridge makes a new guard. *)
Reboot ==
  /\ Restart
  /\ order' = <<>>
  /\ seen' = {}

ClockStep == (Tick \/ SetBack \/ Sync) /\ UNCHANGED <<order, seen>>

Next ==
  \/ \E ts \in Stamps, n \in Nonces : Accept(ts, n)
  \/ ClockStep
  \/ Reboot

Spec == Init /\ [][Next]_vars

-----------------------------------------------------------------------------
(* Type invariant. *)
TypeOK ==
  /\ order \in Seq(Entry)
  /\ Len(order) <= MaxEntries
  /\ seen \subseteq Nonces

Reference == INSTANCE ReplayGuard

(* The bridge agrees with the Python reference "for any (now, timestamp,   *)
(* nonce)" (reference.py:431-433): the same verdict and the same memory    *)
(* for the same datagram and clock.                                        *)
ImplementsReference == Reference!Spec

=============================================================================
