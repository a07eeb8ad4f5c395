----------------------------- MODULE ReplayRing -----------------------------
(***************************************************************************)
(* The ESPHome component's guard, ReplayGuardT<Capacity>: the same         *)
(* decisions as the Python reference from a fixed ring of slots, without a *)
(* membership index and without a heap. A full ring overwrites its oldest  *)
(* slot. Slots outside the live part keep what was written there last.     *)
(***************************************************************************)
EXTENDS ReplayEnv

CONSTANT ZeroNonce  (* the nonce 0, which every slot holds after a boot *)

ASSUME RingAssumption == ZeroNonce \in Nonces

Capacity == MaxEntries

VARIABLES
  slots,  (* slots_: the array                    *)
  head,   (* head_: index of the oldest live slot *)
  count   (* count_: number of live slots         *)

ringVars == <<slots, head, count>>

vars == <<now, synced, window, boot, high, log, last, slots, head, count>>

-----------------------------------------------------------------------------

NullEntry == [ts |-> 0, nonce |-> ZeroNonce]

EmptyRing ==
  /\ slots = [i \in 0 .. Capacity - 1 |-> NullEntry]
  /\ head = 0
  /\ count = 0

Init == EnvInit /\ EmptyRing

At(i) == (head + i) % Capacity

Live(h, c) == {slots[(h + i) % Capacity] : i \in 0 .. c - 1}

OldestExpired(e) == now > e.ts /\ now - e.ts > window

(* prune_ advances head_ past the expired slots at the front. *)
PruneCounts ==
  {k \in 0 .. count :
     /\ \A i \in 0 .. k - 1 : OldestExpired(slots[At(i)])
     /\ k < count => ~OldestExpired(slots[At(k)])}

SeenIn(h, c, n) == \E e \in Live(h, c) : e.nonce = n

(* A faulty form of Record: a full ring forgets to move its head.         *)
RecordStuckHead(h, c, e) ==
  /\ slots' = [slots EXCEPT ![(h + c) % Capacity] = e]
  /\ head' = h
  /\ count' = IF c < Capacity THEN c + 1 ELSE c

(* The record, on a ring whose head and count prune_ left at h and c. *)
Record(h, c, e) ==
  IF c < Capacity
  THEN /\ slots' = [slots EXCEPT ![(h + c) % Capacity] = e]
       /\ head' = h
       /\ count' = c + 1
  ELSE /\ slots' = [slots EXCEPT ![h] = e]
       /\ head' = (h + 1) % Capacity
       /\ count' = c

-----------------------------------------------------------------------------
(* The ways out of accept(). *)

AcceptDisabled(ts, n) ==
  /\ window = 0
  /\ Answer(ts, n, TRUE)
  /\ UNCHANGED <<now, synced, window, boot, high, log, slots, head, count>>

RejectStale(ts, n) ==
  /\ window # 0
  /\ ~Fresh(ts)
  /\ Answer(ts, n, FALSE)
  /\ UNCHANGED <<now, synced, window, boot, high, log, slots, head, count>>

RejectSeen(ts, n) ==
  /\ window # 0
  /\ Fresh(ts)
  /\ \E k \in PruneCounts :
       /\ SeenIn(At(k), count - k, n)
       /\ head' = At(k)
       /\ count' = count - k
  /\ Answer(ts, n, FALSE)
  /\ UNCHANGED <<now, synced, window, boot, high, log, slots>>

AcceptNew(ts, n) ==
  /\ window # 0
  /\ Fresh(ts)
  /\ \E k \in PruneCounts :
       /\ ~SeenIn(At(k), count - k, n)
       /\ Record(At(k), count - k, [ts |-> ts, nonce |-> n])
  /\ Remember(ts, n)
  /\ Answer(ts, n, TRUE)
  /\ UNCHANGED <<now, synced, window, boot, high>>

Accept(ts, n) ==
  \/ AcceptDisabled(ts, n)
  \/ RejectStale(ts, n)
  \/ RejectSeen(ts, n)
  \/ AcceptNew(ts, n)

(* The ring is a member of the component, zeroed when the node boots. *)
Reboot ==
  /\ Restart
  /\ slots' = [i \in 0 .. Capacity - 1 |-> NullEntry]
  /\ head' = 0
  /\ count' = 0

ClockStep == (Tick \/ SetBack \/ Sync) /\ UNCHANGED ringVars

Next ==
  \/ \E ts \in Stamps, n \in Nonces : Accept(ts, n)
  \/ ClockStep
  \/ Reboot

Spec == Init /\ [][Next]_vars

-----------------------------------------------------------------------------
(* Type invariant. *)
TypeOK ==
  /\ slots \in [0 .. Capacity - 1 -> Entry \union {NullEntry}]
  /\ head \in 0 .. Capacity - 1
  /\ count \in 0 .. Capacity

(* The ring read from head_ is the reference's deque. *)
RingOrder == [i \in 1 .. count |-> slots[At(i - 1)]]

Reference == INSTANCE ReplayGuard WITH
  order <- RingOrder,
  seen  <- {e.nonce : e \in Live(head, count)}

(* Decision for decision the ring agrees with the reference: for the same  *)
(* clock, stamp and nonce it gives the same verdict and remembers the same *)
(* entries, through wrap-around, overwriting, pruning and reboots          *)
(* (replay_guard.h:26).                                                    *)
ImplementsReference == Reference!Spec

(* A datagram is never accepted once before and once again after a reboot: *)
(* "there is nothing for the cache to remember across a restart"           *)
(* (replay_guard.h:21-24).                                                 *)
NothingToRemember ==
  \A i, j \in DOMAIN log :
    (i < j /\ log[i].nonce = log[j].nonce /\ log[i].ts = log[j].ts)
      => log[i].boot = log[j].boot

=============================================================================
