--------------------------- MODULE ReplayImplProofs ---------------------------
(***************************************************************************)
(* For any window, capacity, nonces and bounds: the ring of the ESPHome    *)
(* component and the guard of the Go bridge implement the Python           *)
(* reference, decision for decision, and so keep what ReplayGuardProofs    *)
(* proves of it.                                                           *)
(*                                                                         *)
(* The ring. Slots are counted modulo the capacity, and a live part of at  *)
(* most that many slots has no slot twice (SlotDistinct): writing the slot *)
(* behind the newest entry touches no live one unless the ring is full,    *)
(* and then it is the oldest. The reference finds a nonce in its dict, the *)
(* ring by a scan; that the two find the same needs what the reference     *)
(* keeps true, that its dict is the nonces of its deque. So the invariant  *)
(* is the type of the ring and the invariant of the guard it stands for.   *)
(*                                                                         *)
(* The Go guard. Its state is the reference's; what differs is that the    *)
(* cutoff of prune() is a uint32, which is the reference's integer as long *)
(* as the clock reads at least a window past the epoch (PastEpoch).        *)
(***************************************************************************)
EXTENDS ReplayRing, TLAPS

(* The nonces the scan of the live slots can find. *)
RingSeen == {e.nonce : e \in Live(head, count)}

RingGuard == INSTANCE ReplayGuardProofs WITH order <- RingOrder, seen <- RingSeen

-----------------------------------------------------------------------------
(* The arithmetic of slots. *)

LEMMA Constants ==
  /\ RingGuard!EnvAssumption
  /\ Capacity \in Nat /\ Capacity > 0 /\ Capacity = MaxEntries
  /\ Windows \subseteq Nat /\ MinTime \in Nat /\ MaxTime \in Nat
  BY EnvAssumption DEF EnvAssumption, RingGuard!EnvAssumption, Capacity

LEMMA Slot ==
  ASSUME NEW h \in 0 .. Capacity - 1, NEW i \in 0 .. Capacity
  PROVE  /\ (h + i) % Capacity \in 0 .. Capacity - 1
         /\ (h + i) % Capacity = IF h + i < Capacity THEN h + i ELSE h + i - Capacity
<1> USE Constants
<1>1. ASSUME NEW c \in Nat \ {0}, NEW a \in 0 .. c - 1 PROVE a % c = a
      OBVIOUS
<1>2. ASSUME NEW c \in Nat \ {0}, NEW a \in c .. 2 * c - 1 PROVE a % c = a - c
      OBVIOUS
<1>3. CASE h + i < Capacity
  <2>1. h + i \in 0 .. Capacity - 1 /\ Capacity \in Nat \ {0}
        BY <1>3
  <2> QED
      BY <1>1, <1>3, <2>1
<1>4. CASE ~(h + i < Capacity)
  <2>1. h + i \in Capacity .. 2 * Capacity - 1 /\ Capacity \in Nat \ {0}
        BY <1>4
  <2>2. (h + i) % Capacity = h + i - Capacity
        BY <1>2, <2>1
  <2> QED
      BY <1>4, <2>2
<1> QED
    BY <1>3, <1>4

(* Moving the head by k and reading i slots on is reading k + i slots on.  *)
LEMMA SlotShift ==
  ASSUME NEW h \in 0 .. Capacity - 1, NEW k \in 0 .. Capacity, NEW i \in 0 .. Capacity - k
  PROVE  (((h + k) % Capacity) + i) % Capacity = (h + (k + i)) % Capacity
<1> DEFINE a == (h + k) % Capacity
<1>1. a \in 0 .. Capacity - 1 /\ a = IF h + k < Capacity THEN h + k ELSE h + k - Capacity
      BY Slot
<1>2. i \in 0 .. Capacity /\ k + i \in 0 .. Capacity
      BY Constants
<1> HIDE DEF a
<1>3. (a + i) % Capacity = IF a + i < Capacity THEN a + i ELSE a + i - Capacity
      BY <1>1, <1>2, Slot
<1>4. (h + (k + i)) % Capacity
        = IF h + (k + i) < Capacity THEN h + (k + i) ELSE h + (k + i) - Capacity
      BY <1>2, Slot
<1>5. (a + i) % Capacity = (h + (k + i)) % Capacity
      BY <1>1, <1>2, <1>3, <1>4, Constants
<1> QED
    BY <1>5 DEF a

(* No lap: two places of one ring are two slots.                           *)
LEMMA SlotDistinct ==
  ASSUME NEW h \in 0 .. Capacity - 1, NEW i \in 0 .. Capacity - 1, NEW j \in 0 .. Capacity - 1,
         (h + i) % Capacity = (h + j) % Capacity
  PROVE  i = j
<1>1. i \in 0 .. Capacity /\ j \in 0 .. Capacity
      BY Constants
<1>2. /\ (h + i) % Capacity = IF h + i < Capacity THEN h + i ELSE h + i - Capacity
      /\ (h + j) % Capacity = IF h + j < Capacity THEN h + j ELSE h + j - Capacity
      BY <1>1, Slot
<1> QED
    BY <1>2, Constants

-----------------------------------------------------------------------------
(* The ring as a sequence. *)

(* The type of the ring, and the invariant of the guard it stands for.     *)
RingInv == TypeOK /\ RingGuard!IInv

LEMMA OrderFacts ==
  ASSUME RingInv
  PROVE  /\ count \in Nat /\ count <= Capacity /\ head \in 0 .. Capacity - 1
         /\ RingOrder \in Seq(Entry) /\ Len(RingOrder) = count /\ DOMAIN RingOrder = 1 .. count
         /\ \A i \in 1 .. count : RingOrder[i] = slots[At(i - 1)]
         /\ \A i \in 1 .. count : RingOrder[i].ts \in Int
         /\ now \in Int /\ window \in Nat
         /\ RingGuard!TypeOK /\ RingGuard!CacheAgrees
<1>1. RingGuard!TypeOK /\ RingGuard!CacheAgrees
      BY DEF RingInv, RingGuard!IInv
<1>2. count \in Nat /\ count <= Capacity /\ head \in 0 .. Capacity - 1
      BY Constants DEF RingInv, TypeOK
<1>3. RingOrder \in Seq(Entry)
      BY <1>1 DEF RingGuard!TypeOK, RingGuard!Entry, RingGuard!Stamps, Entry, Stamps
<1>4. DOMAIN RingOrder = 1 .. count /\ Len(RingOrder) = count
      BY <1>2, <1>3 DEF RingOrder
<1>5. \A i \in 1 .. count : RingOrder[i] = slots[At(i - 1)]
      BY DEF RingOrder
<1>6. now \in Int /\ window \in Nat
      BY <1>1, Constants, RingGuard!ValueTypes
<1>7. \A i \in 1 .. Len(RingOrder) : RingOrder[i].ts \in Int
      BY <1>1, Constants, RingGuard!ValueTypes
<1> QED
    BY <1>1, <1>2, <1>3, <1>4, <1>5, <1>6, <1>7

(* What is live after prune_ moved the head by k is what the deque keeps.  *)
LEMMA LiveIsOrder ==
  ASSUME RingInv, NEW k \in 0 .. count
  PROVE  /\ At(k) \in 0 .. Capacity - 1
         /\ \A i \in 0 .. count - k - 1 : slots[(At(k) + i) % Capacity] = RingOrder[k + i + 1]
         /\ Live(At(k), count - k) = {RingOrder[i] : i \in k + 1 .. count}
<1> USE OrderFacts, Constants
<1>1. At(k) \in 0 .. Capacity - 1
      BY Slot DEF At
<1>2. ASSUME NEW i \in 0 .. count - k - 1
      PROVE  slots[(At(k) + i) % Capacity] = RingOrder[k + i + 1]
  <2>1. (At(k) + i) % Capacity = At(k + i)
    <3>1. head \in 0 .. Capacity - 1 /\ k \in 0 .. Capacity /\ i \in 0 .. Capacity - k
          OBVIOUS
    <3>2. (((head + k) % Capacity) + i) % Capacity = (head + (k + i)) % Capacity
          BY ONLY <3>1, SlotShift
    <3> QED
        BY ONLY <3>2 DEF At
  <2>2. k + i + 1 \in 1 .. count /\ (k + i + 1) - 1 = k + i
    <3>1. k \in 0 .. count /\ count \in Nat /\ i \in 0 .. count - k - 1
          OBVIOUS
    <3> QED
        BY ONLY <3>1
  <2> QED
      BY <2>1, <2>2
<1>3. Live(At(k), count - k) = {RingOrder[i] : i \in k + 1 .. count}
  <2>1. Live(At(k), count - k) = {RingOrder[k + i + 1] : i \in 0 .. count - k - 1}
        BY <1>2 DEF Live
  <2>2. \A i \in 0 .. count - k - 1 : k + i + 1 \in k + 1 .. count
        OBVIOUS
  <2>3. \A i \in k + 1 .. count : i - k - 1 \in 0 .. count - k - 1 /\ k + (i - k - 1) + 1 = i
        OBVIOUS
  <2> QED
      BY <2>1, <2>2, <2>3
<1> QED
    BY <1>1, <1>2, <1>3

(* The guarded unsigned difference of prune_ is the reference's now minus  *)
(* window.                                                                 *)
LEMMA SamePruneCounts ==
  ASSUME RingInv
  PROVE  PruneCounts = RingGuard!PruneCounts
<1> USE OrderFacts
<1>1. \A i \in 1 .. count : OldestExpired(RingOrder[i]) <=> RingGuard!Expired(RingOrder[i])
      BY DEF OldestExpired, RingGuard!Expired
<1>2. ASSUME NEW k \in 0 .. count
      PROVE  k \in PruneCounts <=> k \in RingGuard!PruneCounts
  <2>1. (\A i \in 0 .. k - 1 : OldestExpired(slots[At(i)]))
          <=> (\A i \in 1 .. k : RingGuard!Expired(RingOrder[i]))
    <3>1. \A i \in 0 .. k - 1 : i + 1 \in 1 .. k /\ i + 1 \in 1 .. count /\ (i + 1) - 1 = i
          OBVIOUS
    <3>2. \A i \in 1 .. k : i - 1 \in 0 .. k - 1 /\ i \in 1 .. count
          OBVIOUS
    <3> QED
        BY <1>1, <3>1, <3>2
  <2>2. k < count => (OldestExpired(slots[At(k)]) <=> RingGuard!Expired(RingOrder[k + 1]))
    <3>1. k < count => k + 1 \in 1 .. count /\ (k + 1) - 1 = k
          OBVIOUS
    <3> QED
        BY <1>1, <3>1
  <2> QED
      BY <2>1, <2>2 DEF PruneCounts, RingGuard!PruneCounts
<1>3. PruneCounts \subseteq 0 .. count /\ RingGuard!PruneCounts \subseteq 0 .. count
      BY DEF PruneCounts, RingGuard!PruneCounts
<1> QED
    BY <1>2, <1>3

(* The scan finds what the dict would.                                     *)
LEMMA SameSeen ==
  ASSUME RingInv, NEW k \in PruneCounts, NEW n
  PROVE  SeenIn(At(k), count - k, n) <=> n \in RingGuard!SeenAfter(k)
<1>1. k \in RingGuard!PruneCounts /\ k \in 0 .. count
      BY SamePruneCounts DEF PruneCounts
<1>2. RingGuard!SeenAfter(k) = {RingOrder[i].nonce : i \in k + 1 .. count}
      BY <1>1, OrderFacts, Constants, RingGuard!PruneProperties
<1> QED
    BY <1>1, <1>2, LiveIsOrder DEF SeenIn

(* The record leaves every live slot alone but the oldest one of a full    *)
(* ring, and its own is the last.                                          *)
LEMMA RingGrows ==
  ASSUME NEW h \in 0 .. Capacity - 1, NEW c \in 0 .. Capacity, NEW e,
         slots \in [0 .. Capacity - 1 -> Entry \union {NullEntry}],
         e \in Entry, Record(h, c, e),
         NEW o \in {0, 1}, o = 1 <=> c = Capacity
  PROVE  /\ slots' \in [0 .. Capacity - 1 -> Entry \union {NullEntry}]
         /\ head' \in 0 .. Capacity - 1
         /\ count' = c + 1 - o
         /\ \A i \in 0 .. c - o - 1 :
              slots'[(head' + i) % Capacity] = slots[(h + (o + i)) % Capacity]
         /\ slots'[(head' + (c - o)) % Capacity] = e
<1> USE Constants
<1>1. CASE c < Capacity
  <2>1. /\ slots' = [slots EXCEPT ![(h + c) % Capacity] = e]
        /\ head' = h /\ count' = c + 1 /\ o = 0
        BY <1>1 DEF Record
  <2>2. (h + c) % Capacity \in 0 .. Capacity - 1
        BY Slot
  <2>3. slots'[(h + c) % Capacity] = e
        BY <2>1, <2>2
  <2>4. ASSUME NEW i \in 0 .. c - 1
        PROVE  slots'[(h + i) % Capacity] = slots[(h + i) % Capacity]
    <3>1. i \in 0 .. Capacity - 1 /\ c \in 0 .. Capacity - 1 /\ i # c /\ i \in 0 .. Capacity
          BY <1>1
    <3>2. (h + i) % Capacity # (h + c) % Capacity /\ (h + i) % Capacity \in 0 .. Capacity - 1
          BY <3>1, Slot, SlotDistinct
    <3> QED
        BY <2>1, <3>2
  <2>5. c - o = c /\ \A i \in 0 .. c - 1 : o + i = i
        BY <2>1
  <2> QED
      BY <2>1, <2>2, <2>3, <2>4, <2>5
<1>2. CASE c = Capacity
  <2>1. /\ slots' = [slots EXCEPT ![h] = e]
        /\ head' = (h + 1) % Capacity /\ count' = c /\ o = 1
        BY <1>2 DEF Record
  <2>2. head' \in 0 .. Capacity - 1
    <3>1. 1 \in 0 .. Capacity
          OBVIOUS
    <3> QED
        BY <2>1, <3>1, Slot
  <2>3. \A i \in 0 .. Capacity - 1 : (head' + i) % Capacity = (h + (1 + i)) % Capacity
    <3> SUFFICES ASSUME NEW i \in 0 .. Capacity - 1
                 PROVE  (((h + 1) % Capacity) + i) % Capacity = (h + (1 + i)) % Capacity
        BY <2>1
    <3>1. 1 \in 0 .. Capacity /\ i \in 0 .. Capacity - 1
          OBVIOUS
    <3> QED
        BY ONLY <3>1, h \in 0 .. Capacity - 1, SlotShift
  <2>4. (h + 0) % Capacity = h /\ (h + Capacity) % Capacity = h
    <3>1. 0 \in 0 .. Capacity /\ Capacity \in 0 .. Capacity
          OBVIOUS
    <3>2. h + 0 < Capacity /\ h + 0 = h /\ ~(h + Capacity < Capacity) /\ h + Capacity - Capacity = h
          OBVIOUS
    <3> QED
        BY <3>1, <3>2, Slot
  <2>5. ASSUME NEW i \in 0 .. Capacity - 2
        PROVE  slots'[(head' + i) % Capacity] = slots[(h + (1 + i)) % Capacity]
    <3>1. /\ 1 + i \in 0 .. Capacity - 1 /\ 0 \in 0 .. Capacity - 1 /\ 1 + i # 0
          /\ 1 + i \in 0 .. Capacity /\ i \in 0 .. Capacity - 1
          OBVIOUS
    <3>2. (h + (1 + i)) % Capacity # h /\ (h + (1 + i)) % Capacity \in 0 .. Capacity - 1
          BY <2>4, <3>1, Slot, SlotDistinct
    <3> QED
        BY <2>1, <2>3, <3>1, <3>2
  <2>6. slots'[(head' + (Capacity - 1)) % Capacity] = e
    <3>1. Capacity - 1 \in 0 .. Capacity - 1 /\ 1 + (Capacity - 1) = Capacity
          OBVIOUS
    <3>2. (head' + (Capacity - 1)) % Capacity = h
          BY <2>3, <2>4, <3>1
    <3> QED
        BY <2>1, <3>2
  <2>7. c - o = Capacity - 1 /\ c - o - 1 = Capacity - 2 /\ c + 1 - o = c
        BY <1>2, <2>1
  <2> QED
      BY <2>1, <2>2, <2>5, <2>6, <2>7
<1> QED
    BY <1>1, <1>2

-----------------------------------------------------------------------------
(* Steps of the ring are steps of the reference. *)

LEMMA SeenOfOrder ==
  ASSUME count' \in Nat
  PROVE  RingSeen' = {RingOrder'[i].nonce : i \in 1 .. count'}
<1> DEFINE c == count'
           slot(i) == slots'[(head' + i) % Capacity]
<1>1. \A i \in 1 .. c : RingOrder'[i] = slot(i - 1)
      BY DEF RingOrder, At, Capacity
<1>2. RingSeen' = {slot(i).nonce : i \in 0 .. c - 1}
      BY DEF RingSeen, Live, Capacity
<1>3. c \in Nat
      OBVIOUS
<1> HIDE DEF c, slot
<1>4. /\ \A i \in 0 .. c - 1 : i + 1 \in 1 .. c /\ (i + 1) - 1 = i
      /\ \A i \in 1 .. c : i - 1 \in 0 .. c - 1
      BY ONLY <1>3
<1>5. {slot(i).nonce : i \in 0 .. c - 1} = {slot(i - 1).nonce : i \in 1 .. c}
      BY ONLY <1>4
<1>6. RingSeen' = {RingOrder'[i].nonce : i \in 1 .. c}
      BY <1>1, <1>2, <1>5
<1> QED
    BY <1>6 DEF c

LEMMA RejectSeenMaps ==
  ASSUME RingInv, NEW ts \in Stamps, NEW n \in Nonces, RejectSeen(ts, n)
  PROVE  RingGuard!RejectSeen(ts, n) /\ TypeOK'
<1> PICK k \in PruneCounts : /\ SeenIn(At(k), count - k, n)
                             /\ head' = At(k) /\ count' = count - k
    BY DEF RejectSeen
<1>1. /\ UNCHANGED <<now, synced, window, boot, high, log, slots>>
      /\ window # 0 /\ Fresh(ts) /\ Answer(ts, n, FALSE)
      BY DEF RejectSeen
<1>2. k \in RingGuard!PruneCounts /\ k \in 0 .. count /\ n \in RingGuard!SeenAfter(k)
      BY SamePruneCounts, SameSeen DEF PruneCounts
<1>3. /\ RingGuard!Kept(k) \in Seq(Entry) /\ Len(RingGuard!Kept(k)) = count - k
      /\ \A i \in 1 .. count - k : RingGuard!Kept(k)[i] = RingOrder[k + i]
      /\ RingGuard!SeenAfter(k) = {RingOrder[i].nonce : i \in k + 1 .. count}
      BY <1>2, OrderFacts, Constants, RingGuard!PruneProperties DEF RingGuard!Entry, RingGuard!Stamps, Entry, Stamps
<1>4. TypeOK' /\ count' \in Nat
  <2>1. count - k \in 0 .. Capacity /\ At(k) \in 0 .. Capacity - 1
        BY <1>2, OrderFacts, Constants, LiveIsOrder
  <2> QED
      BY <1>1, <2>1, Constants DEF RingInv, TypeOK, Capacity, Entry, Stamps, NullEntry
<1>5. RingOrder' = RingGuard!Kept(k)
  <2>1. RingOrder' = [i \in 1 .. count - k |-> slots[(At(k) + (i - 1)) % Capacity]]
        BY <1>1 DEF RingOrder, At, Capacity
  <2>2. ASSUME NEW i \in 1 .. count - k PROVE RingOrder'[i] = RingGuard!Kept(k)[i]
    <3>1. i - 1 \in 0 .. count - k - 1 /\ k + (i - 1) + 1 = k + i
          BY <1>2, OrderFacts
    <3> QED
        BY <1>2, <1>3, <2>1, <3>1, LiveIsOrder
  <2>3. count - k \in Nat
        BY <1>4
  <2> QED
      BY <1>3, <2>1, <2>2, <2>3
<1>6. RingSeen' = RingGuard!SeenAfter(k)
  <2>1. RingSeen' = {RingGuard!Kept(k)[i].nonce : i \in 1 .. count - k}
        BY <1>4, <1>5, SeenOfOrder
  <2>2. RingSeen' = {RingOrder[k + i].nonce : i \in 1 .. count - k}
        BY <1>3, <2>1
  <2>3. /\ \A i \in 1 .. count - k : k + i \in k + 1 .. count
        /\ \A i \in k + 1 .. count : i - k \in 1 .. count - k /\ k + (i - k) = i
        BY <1>2, OrderFacts
  <2> QED
      BY <1>3, <2>2, <2>3
<1> QED
    BY <1>1, <1>2, <1>4, <1>5, <1>6
    DEF RingGuard!RejectSeen, Fresh, RingGuard!Fresh, Answer, RingGuard!Answer

LEMMA AcceptNewMaps ==
  ASSUME RingInv, NEW ts \in Stamps, NEW n \in Nonces, AcceptNew(ts, n)
  PROVE  RingGuard!AcceptNew(ts, n) /\ TypeOK'
<1> DEFINE e == [ts |-> ts, nonce |-> n]
<1> PICK k \in PruneCounts : /\ ~SeenIn(At(k), count - k, n)
                             /\ Record(At(k), count - k, e)
    BY DEF AcceptNew
<1>1. /\ UNCHANGED <<now, synced, window, boot, high>>
      /\ window # 0 /\ Fresh(ts) /\ Answer(ts, n, TRUE) /\ Remember(ts, n)
      BY DEF AcceptNew
<1>2. k \in RingGuard!PruneCounts /\ k \in 0 .. count /\ n \notin RingGuard!SeenAfter(k)
      BY SamePruneCounts, SameSeen DEF PruneCounts
<1>3. e \in Entry /\ e \in RingGuard!Entry /\ e.nonce = n
      BY DEF Entry, Stamps, RingGuard!Entry, RingGuard!Stamps
<1> DEFINE o == RingGuard!Spill(k)
           g == RingGuard!Grown(k, e)
<1> HIDE DEF e
<1>4. /\ g \in Seq(Entry) /\ Len(g) = count - k + 1 - o
      /\ \A i \in 1 .. count - k - o : g[i] = RingOrder[k + o + i]
      /\ g[count - k + 1 - o] = e
      /\ RingGuard!SeenGrown(k, e) = {g[i].nonce : i \in 1 .. Len(g)}
  <2>1. e \in RingGuard!Entry /\ e.nonce \notin RingGuard!SeenAfter(k) /\ k \in RingGuard!PruneCounts
        BY <1>2, <1>3
  <2>2. RingGuard!Entry = Entry
        BY DEF RingGuard!Entry, RingGuard!Stamps, Entry, Stamps
  <2>3. RingGuard!TypeOK /\ RingGuard!CacheAgrees /\ RingGuard!EnvAssumption /\ Len(RingOrder) = count
        BY OrderFacts, Constants
  <2> HIDE DEF o, g
  <2> QED
      BY <2>1, <2>2, <2>3, RingGuard!GrowProperties DEF o, g
<1>5. o \in {0, 1} /\ (o = 1 <=> count - k = Capacity)
  <2>1. Len(RingGuard!Kept(k)) = count - k
        BY <1>2, OrderFacts, Constants, RingGuard!PruneProperties
  <2>2. count - k \in 0 .. Capacity
        BY <1>2, OrderFacts, Constants
  <2> QED
      BY <2>1, <2>2, Constants DEF RingGuard!Spill, RingGuard!Overflows
<1> HIDE DEF o, g
<1>6. At(k) \in 0 .. Capacity - 1 /\ count - k \in 0 .. Capacity
      BY <1>2, OrderFacts, Constants, LiveIsOrder
<1>7. /\ slots' \in [0 .. Capacity - 1 -> Entry \union {NullEntry}]
      /\ head' \in 0 .. Capacity - 1
      /\ count' = count - k + 1 - o
      /\ \A i \in 0 .. count - k - o - 1 :
           slots'[(head' + i) % Capacity] = slots[(At(k) + (o + i)) % Capacity]
      /\ slots'[(head' + (count - k - o)) % Capacity] = e
  <2> DEFINE h == At(k)
             c == count - k
  <2>1. /\ h \in 0 .. Capacity - 1 /\ c \in 0 .. Capacity
        /\ slots \in [0 .. Capacity - 1 -> Entry \union {NullEntry}]
        /\ Record(h, c, e) /\ o \in {0, 1} /\ (o = 1 <=> c = Capacity) /\ e \in Entry
        BY <1>3, <1>5, <1>6 DEF RingInv, TypeOK
  <2> HIDE DEF h, c
  <2>2. /\ slots' \in [0 .. Capacity - 1 -> Entry \union {NullEntry}]
        /\ head' \in 0 .. Capacity - 1
        /\ count' = c + 1 - o
        /\ \A i \in 0 .. c - o - 1 :
             slots'[(head' + i) % Capacity] = slots[(h + (o + i)) % Capacity]
        /\ slots'[(head' + (c - o)) % Capacity] = e
    <3>1. /\ slots' \in [0 .. Capacity - 1 -> Entry \union {NullEntry}]
          /\ head' \in 0 .. Capacity - 1
          /\ count' = c + 1 - o
          /\ slots'[(head' + (c - o)) % Capacity] = e
          BY ONLY <2>1, RingGrows
    <3>2. ASSUME NEW i \in 0 .. c - o - 1
          PROVE  slots'[(head' + i) % Capacity] = slots[(h + (o + i)) % Capacity]
          BY ONLY <2>1, <3>2, RingGrows
    <3> QED
        BY <3>1, <3>2
  <2> QED
      BY <2>2 DEF h, c
<1>8. TypeOK' /\ count' \in Nat
  <2>1. count - k + 1 - o \in 0 .. Capacity
        BY <1>5, <1>6, Constants
  <2> QED
      BY <1>7, <2>1 DEF TypeOK, Capacity, Entry, Stamps, NullEntry
<1>9. RingOrder' = g
  <2>1. RingOrder' = [i \in 1 .. count' |-> slots'[(head' + (i - 1)) % Capacity]]
        BY DEF RingOrder, At, Capacity
  <2>2. ASSUME NEW i \in 1 .. count' PROVE RingOrder'[i] = g[i]
    <3>1. CASE i = count - k + 1 - o
      <4>1. i - 1 = count - k - o
            BY <1>5, <1>6, <3>1
      <4> QED
          BY <1>4, <1>7, <2>1, <3>1, <4>1
    <3>2. CASE i # count - k + 1 - o
      <4>1. /\ i \in 1 .. count - k - o /\ i - 1 \in 0 .. count - k - o - 1
            /\ o + (i - 1) \in 0 .. count - k - 1 /\ k + (o + (i - 1)) + 1 = k + o + i
            BY <1>2, <1>5, <1>6, <1>7, <3>2
      <4>2. slots[(At(k) + (o + (i - 1))) % Capacity] = RingOrder[k + (o + (i - 1)) + 1]
            BY <1>2, <4>1, LiveIsOrder
      <4> QED
          BY <1>4, <1>7, <2>1, <4>1, <4>2
    <3> QED
        BY <3>1, <3>2
  <2> QED
      BY <1>4, <1>7, <1>8, <2>1, <2>2
<1>10. RingSeen' = RingGuard!SeenGrown(k, e)
      BY <1>4, <1>7, <1>8, <1>9, SeenOfOrder
<1> QED
    BY <1>1, <1>2, <1>8, <1>9, <1>10
    DEF RingGuard!AcceptNew, Fresh, RingGuard!Fresh, Answer, RingGuard!Answer, Remember, RingGuard!Remember, e, g

(* The environment's operators are those of the reference.                 *)
LEMMA SameEnvironment ==
  /\ Tick <=> RingGuard!Tick
  /\ SetBack <=> RingGuard!SetBack
  /\ Sync <=> RingGuard!Sync
  /\ Restart <=> RingGuard!Restart
  /\ EnvInit <=> RingGuard!EnvInit
  BY DEF Tick, SetBack, Sync, Restart, EnvInit, Times,
         RingGuard!Tick, RingGuard!SetBack, RingGuard!Sync, RingGuard!Restart, RingGuard!EnvInit, RingGuard!Times

LEMMA EmptyRingIsEmptyDeque ==
  /\ EmptyRing => TypeOK /\ RingOrder = << >> /\ RingSeen = {}
  /\ Reboot => TypeOK' /\ RingOrder' = << >> /\ RingSeen' = {}
<1>1. ASSUME EmptyRing PROVE TypeOK /\ RingOrder = << >> /\ RingSeen = {}
      BY <1>1, Constants DEF EmptyRing, TypeOK, RingOrder, RingSeen, Live
<1>2. ASSUME Reboot PROVE TypeOK' /\ RingOrder' = << >> /\ RingSeen' = {}
  <2>1. slots' = [i \in 0 .. Capacity - 1 |-> NullEntry] /\ head' = 0 /\ count' = 0
        BY <1>2 DEF Reboot
  <2> QED
      BY <2>1, Constants
      DEF TypeOK, RingOrder, RingSeen, Live, Capacity, Entry, Stamps, NullEntry
<1> QED
    BY <1>1, <1>2

LEMMA RingInit == Init => RingInv /\ RingGuard!Init
<1> SUFFICES ASSUME Init PROVE RingInv /\ RingGuard!Init
    OBVIOUS
<1>1. TypeOK /\ RingGuard!Init
      BY EmptyRingIsEmptyDeque, SameEnvironment DEF Init, RingGuard!Init
<1> QED
    BY <1>1, Constants, RingGuard!InitInv DEF RingInv

LEMMA RingStep == RingInv /\ [Next]_vars => RingInv' /\ [RingGuard!Next]_RingGuard!vars
<1> SUFFICES ASSUME RingInv, [Next]_vars PROVE TypeOK' /\ [RingGuard!Next]_RingGuard!vars
    BY Constants, RingGuard!NextInv DEF RingInv
<1>1. ASSUME UNCHANGED ringVars
      PROVE  TypeOK' /\ RingOrder' = RingOrder /\ RingSeen' = RingSeen
      BY <1>1 DEF ringVars, RingInv, TypeOK, RingOrder, RingSeen, Live, At,
                  Capacity, Entry, Stamps, NullEntry
<1>2. ASSUME NEW ts \in Stamps, NEW n \in Nonces, Accept(ts, n)
      PROVE  TypeOK' /\ RingGuard!Accept(ts, n)
  <2>1. CASE AcceptDisabled(ts, n)
    <3>1. TypeOK' /\ RingOrder' = RingOrder /\ RingSeen' = RingSeen
          BY <1>1, <2>1 DEF AcceptDisabled, ringVars
    <3> QED
        BY <2>1, <3>1 DEF AcceptDisabled, Answer, Fresh,
                          RingGuard!Accept, RingGuard!AcceptDisabled, RingGuard!Answer, RingGuard!Fresh
  <2>2. CASE RejectStale(ts, n)
    <3>1. TypeOK' /\ RingOrder' = RingOrder /\ RingSeen' = RingSeen
          BY <1>1, <2>2 DEF RejectStale, ringVars
    <3> QED
        BY <2>2, <3>1 DEF RejectStale, Answer, Fresh,
                          RingGuard!Accept, RingGuard!RejectStale, RingGuard!Answer, RingGuard!Fresh
  <2>3. CASE RejectSeen(ts, n)
        BY <2>3, RejectSeenMaps DEF RingGuard!Accept
  <2>4. CASE AcceptNew(ts, n)
        BY <2>4, AcceptNewMaps DEF RingGuard!Accept
  <2> QED
      BY <1>2, <2>1, <2>2, <2>3, <2>4 DEF Accept
<1>3. CASE ClockStep
  <2>1. TypeOK' /\ RingGuard!ClockStep
        BY <1>1, <1>3, SameEnvironment DEF ClockStep, RingGuard!ClockStep
  <2> QED
      BY <2>1 DEF RingGuard!Next
<1>4. CASE Reboot
  <2>1. TypeOK' /\ RingGuard!Reboot
        BY <1>4, EmptyRingIsEmptyDeque, SameEnvironment DEF Reboot, RingGuard!Reboot
  <2> QED
      BY <2>1 DEF RingGuard!Next
<1>5. CASE UNCHANGED vars
      BY <1>1, <1>5 DEF vars, ringVars, RingGuard!vars
<1> QED
    BY <1>2, <1>3, <1>4, <1>5 DEF Next, RingGuard!Next, RingGuard!Stamps, Stamps

LEMMA RingInvariant == Spec => []RingInv
  BY RingInit, RingStep, PTL DEF Spec

(* head_ and count_ stay inside the array for every capacity               *)
(* (replay_guard.h:66-82, 94-104).                                         *)
THEOREM RingTypeCorrect == Spec => []TypeOK
<1>1. RingInv => TypeOK
      BY DEF RingInv
<1> QED
    BY RingInvariant, <1>1, PTL

LEMMA RingIsGuard == Spec => RingGuard!Spec
  BY RingInit, RingStep, PTL DEF Spec, RingGuard!Spec

LEMMA SameReference ==
  /\ RingGuard!Init <=> Reference!Init
  /\ [RingGuard!Next]_RingGuard!vars <=> [Reference!Next]_Reference!vars
<1>1. RingGuard!Init <=> Reference!Init
      BY DEF RingGuard!Init, RingGuard!EnvInit, RingGuard!Times, Reference!Init, Reference!EnvInit,
             Reference!Times, RingSeen
<1>2. ASSUME NEW ts, NEW n
      PROVE  RingGuard!Accept(ts, n) <=> Reference!Accept(ts, n)
      BY DEF RingGuard!Accept, RingGuard!AcceptDisabled, RingGuard!RejectStale, RingGuard!RejectSeen, RingGuard!AcceptNew,
             RingGuard!Answer, RingGuard!Fresh, RingGuard!Remember, RingGuard!PruneCounts, RingGuard!Expired, RingGuard!Kept,
             RingGuard!SeenAfter, RingGuard!Overflows, RingGuard!Grown, RingGuard!SeenGrown,
             Reference!Accept, Reference!AcceptDisabled, Reference!RejectStale,
             Reference!RejectSeen, Reference!AcceptNew, Reference!Answer, Reference!Fresh,
             Reference!Remember, Reference!PruneCounts, Reference!Expired, Reference!Kept,
             Reference!SeenAfter, Reference!Overflows, Reference!Grown, Reference!SeenGrown,
             RingSeen
<1>3. RingGuard!ClockStep <=> Reference!ClockStep
      BY DEF RingGuard!ClockStep, RingGuard!Tick, RingGuard!SetBack, RingGuard!Sync, Reference!ClockStep,
             Reference!Tick, Reference!SetBack, Reference!Sync, RingSeen
<1>4. RingGuard!Reboot <=> Reference!Reboot
      BY DEF RingGuard!Reboot, RingGuard!Restart, Reference!Reboot, Reference!Restart, RingSeen
<1>5. UNCHANGED RingGuard!vars <=> UNCHANGED Reference!vars
      BY DEF RingGuard!vars, Reference!vars, RingSeen
<1>6. RingGuard!Next <=> Reference!Next
      BY <1>2, <1>3, <1>4 DEF RingGuard!Next, Reference!Next, RingGuard!Stamps, Reference!Stamps
<1> QED
    BY <1>1, <1>5, <1>6

(* For every capacity, and through any wrap-around, overwriting, pruning   *)
(* and reboot: accept() of the ring gives the verdict of the reference and *)
(* remembers what the reference remembers (replay_guard.h:26, 55-104).     *)
THEOREM RingRefinesReference == Spec => ImplementsReference
<1>1. RingGuard!Spec => Reference!Spec
      BY SameReference, PTL DEF RingGuard!Spec, Reference!Spec
<1> QED
    BY RingIsGuard, <1>1 DEF ImplementsReference

(* What the reference promises, the ring keeps: a datagram is accepted a   *)
(* second time only if Capacity newer ones were recorded or the clock was  *)
(* set back, a nonce only if it was forgotten, and a fresh datagram is     *)
(* refused only for a nonce among the latest records                       *)
(* (replay_guard.h:66-82).                                                 *)
THEOREM RingKeepsPromises ==
  Spec => [](RingGuard!AtMostOnce /\ RingGuard!NonceReuse) /\ RingGuard!NoFalseDrop
<1>1. RingGuard!Spec => []RingGuard!AtMostOnce
      BY Constants, RingGuard!AcceptedAtMostOnce
<1>2. RingGuard!Spec => []RingGuard!NonceReuse
      BY Constants, RingGuard!NonceReuseSafe
<1>3. RingGuard!Spec => RingGuard!NoFalseDrop
      BY Constants, RingGuard!NoPublicationLost
<1> QED
    BY RingIsGuard, <1>1, <1>2, <1>3, PTL

-----------------------------------------------------------------------------
(* The guard of the Go bridge. *)

CONSTANT Width

VARIABLES order, seen

Go == INSTANCE ReplayGo

(* The deque and the dict of the reference are the slice and the map.      *)
GoGuard == INSTANCE ReplayGuardProofs

(* The least the clock may read. A bridge whose clock stands within one    *)
(* window of 1970 computes a cutoff that wraps, and forgets too much.      *)
PastEpoch == \A w \in Windows : w <= MinTime

LEMMA GoFacts ==
  ASSUME GoGuard!IInv
  PROVE  /\ now \in Times /\ window \in Windows /\ order \in Seq(Entry)
         /\ Len(order) \in Nat /\ \A i \in 1 .. Len(order) : order[i].ts \in Int
<1>1. GoGuard!TypeOK /\ GoGuard!EnvAssumption
      BY Constants DEF GoGuard!IInv, GoGuard!EnvAssumption, RingGuard!EnvAssumption
<1>2. Len(order) \in Nat /\ \A i \in 1 .. Len(order) : order[i].ts \in Int
      BY <1>1, GoGuard!ValueTypes
<1> QED
    BY <1>1, <1>2 DEF GoGuard!TypeOK, GoGuard!Times, Times, GoGuard!Entry,
                      GoGuard!Stamps, Entry, Stamps

(* now - g.window in uint32 is the difference of the integers.             *)
LEMMA CutoffDoesNotWrap ==
  ASSUME Go!GoAssumption, PastEpoch, GoGuard!IInv
  PROVE  Go!Cutoff = now - window /\ now - window \in Nat
<1>1. /\ 2 ^ Width \in Nat /\ MaxTime < 2 ^ Width
      /\ now \in MinTime .. MaxTime /\ window \in Nat /\ window <= MinTime
      /\ MinTime \in Nat /\ MaxTime \in Nat
  <2>1. now \in Times /\ window \in Windows
        BY GoFacts
  <2>2. 2 ^ Width \in Nat /\ MaxTime < 2 ^ Width
        BY DEF Go!GoAssumption
  <2>3. window \in Nat /\ window <= MinTime
        BY <2>1, Constants DEF PastEpoch
  <2> QED
      BY <2>1, <2>2, <2>3, Constants DEF Times
<1>2. now - window \in Nat /\ now - window < 2 ^ Width
      BY <1>1
<1>3. ASSUME NEW m \in Nat, NEW x \in Nat, x < m PROVE x % m = x
      BY <1>3
<1>4. (now - window) % (2 ^ Width) = now - window
      BY <1>1, <1>2, <1>3
<1> QED
    BY <1>2, <1>4 DEF Go!Cutoff

LEMMA GoAccepts ==
  ASSUME Go!GoAssumption, PastEpoch, GoGuard!IInv, NEW ts \in Stamps, NEW n \in Nonces,
         Go!Accept(ts, n)
  PROVE  GoGuard!Accept(ts, n)
<1>1. Go!PruneCounts = GoGuard!PruneCounts
  <2>1. Go!Cutoff = now - window /\ now - window \in Nat
        BY CutoffDoesNotWrap
  <2>2. Len(order) \in Nat /\ \A i \in 1 .. Len(order) : order[i].ts \in Int
        BY GoFacts
  <2> QED
      BY <2>1, <2>2 DEF Go!PruneCounts, GoGuard!PruneCounts, GoGuard!Expired
<1>2. /\ \A k : Go!Pruned(k) = GoGuard!Kept(k)
      /\ \A k : Go!SeenAfter(k) = GoGuard!SeenAfter(k)
      BY DEF Go!Pruned, Go!SeenAfter, GoGuard!Kept, GoGuard!SeenAfter
<1>3. ASSUME NEW k \in Go!PruneCounts, NEW e \in Entry, Go!Insert(k, e)
      PROVE  order' = GoGuard!Grown(k, e) /\ seen' = GoGuard!SeenGrown(k, e)
  <2>1. Go!Pruned(k) \in Seq(Entry)
        BY GoFacts DEF Go!PruneCounts, Go!Pruned
  <2>2. Len(Append(Go!Pruned(k), e)) = Len(Go!Pruned(k)) + 1
        BY <2>1
  <2> QED
      BY <1>2, <1>3, <2>2
      DEF Go!Insert, GoGuard!Grown, GoGuard!SeenGrown, GoGuard!Overflows
<1>4. CASE Go!AcceptNew(ts, n)
  <2>1. [ts |-> ts, nonce |-> n] \in Entry
        BY DEF Entry
  <2> QED
      BY <1>1, <1>2, <1>3, <1>4, <2>1
      DEF Go!AcceptNew, Go!Fresh, Go!Answer, Go!Remember, GoGuard!Accept,
          GoGuard!AcceptNew, GoGuard!Fresh, GoGuard!Answer,
          GoGuard!Remember
<1>5. CASE Go!RejectSeen(ts, n)
      BY <1>1, <1>2, <1>5
      DEF Go!RejectSeen, Go!Fresh, Go!Answer, GoGuard!Accept,
          GoGuard!RejectSeen, GoGuard!Fresh, GoGuard!Answer
<1>6. CASE Go!AcceptDisabled(ts, n) \/ Go!RejectStale(ts, n)
      BY <1>6
      DEF Go!AcceptDisabled, Go!RejectStale, Go!Fresh, Go!Answer, GoGuard!Accept,
          GoGuard!AcceptDisabled, GoGuard!RejectStale, GoGuard!Fresh,
          GoGuard!Answer
<1> QED
    BY <1>4, <1>5, <1>6 DEF Go!Accept

LEMMA GoInit == Go!Init => GoGuard!Init
  BY DEF Go!Init, Go!EnvInit, Go!Times, GoGuard!Init, GoGuard!EnvInit, GoGuard!Times

LEMMA GoStep ==
  ASSUME Go!GoAssumption, PastEpoch
  PROVE  GoGuard!IInv /\ [Go!Next]_Go!vars => GoGuard!IInv' /\ [GoGuard!Next]_GoGuard!vars
<1> SUFFICES ASSUME GoGuard!IInv, [Go!Next]_Go!vars PROVE [GoGuard!Next]_GoGuard!vars
    BY GoGuard!NextInv, Constants DEF GoGuard!EnvAssumption, RingGuard!EnvAssumption
<1>1. CASE \E ts \in Go!Stamps, n \in Nonces : Go!Accept(ts, n)
      BY <1>1, GoAccepts DEF GoGuard!Next, Go!Stamps, GoGuard!Stamps, Stamps
<1>2. CASE Go!ClockStep \/ Go!Reboot \/ UNCHANGED Go!vars
      BY <1>2 DEF Go!ClockStep, Go!Tick, Go!SetBack, Go!Sync, Go!Reboot, Go!Restart, Go!vars,
                  GoGuard!Next, GoGuard!ClockStep, GoGuard!Tick, GoGuard!SetBack,
                  GoGuard!Sync, GoGuard!Reboot, GoGuard!Restart, GoGuard!vars
<1> QED
    BY <1>1, <1>2 DEF Go!Next

LEMMA GoIsGuard ==
  ASSUME Go!GoAssumption, PastEpoch
  PROVE  Go!Spec => GoGuard!Spec /\ []GoGuard!IInv
<1>1. GoGuard!Init => GoGuard!IInv
      BY GoGuard!InitInv, Constants DEF GoGuard!EnvAssumption, RingGuard!EnvAssumption
<1> QED
    BY GoInit, <1>1, GoStep, PTL DEF Go!Spec, GoGuard!Spec

(* The slice never exceeds maxEntries, and the map holds nonces            *)
(* (replay.go:71-79).                                                      *)
THEOREM GoTypeCorrect ==
  ASSUME Go!GoAssumption, PastEpoch
  PROVE  Go!Spec => []Go!TypeOK
<1>1. GoGuard!IInv => Go!TypeOK
      BY DEF GoGuard!IInv, GoGuard!TypeOK, GoGuard!CacheAgrees, GoGuard!Entry, GoGuard!Stamps,
             Go!TypeOK, Go!Entry, Go!Stamps
<1> QED
    BY GoIsGuard, <1>1, PTL

LEMMA SameGoReference ==
  /\ GoGuard!Init <=> Go!Reference!Init
  /\ [GoGuard!Next]_GoGuard!vars <=> [Go!Reference!Next]_Go!Reference!vars
<1>1. GoGuard!Init <=> Go!Reference!Init
      BY DEF GoGuard!Init, GoGuard!EnvInit, GoGuard!Times,
             Go!Reference!Init, Go!Reference!EnvInit, Go!Reference!Times
<1>2. ASSUME NEW ts, NEW n
      PROVE  GoGuard!Accept(ts, n) <=> Go!Reference!Accept(ts, n)
      BY DEF GoGuard!Accept, GoGuard!AcceptDisabled, GoGuard!RejectStale, GoGuard!RejectSeen, GoGuard!AcceptNew,
             GoGuard!Answer, GoGuard!Fresh, GoGuard!Remember, GoGuard!PruneCounts, GoGuard!Expired, GoGuard!Kept,
             GoGuard!SeenAfter, GoGuard!Overflows, GoGuard!Grown, GoGuard!SeenGrown,
             Go!Reference!Accept, Go!Reference!AcceptDisabled, Go!Reference!RejectStale,
             Go!Reference!RejectSeen, Go!Reference!AcceptNew, Go!Reference!Answer, Go!Reference!Fresh,
             Go!Reference!Remember, Go!Reference!PruneCounts, Go!Reference!Expired, Go!Reference!Kept,
             Go!Reference!SeenAfter, Go!Reference!Overflows, Go!Reference!Grown, Go!Reference!SeenGrown
<1>3. GoGuard!ClockStep <=> Go!Reference!ClockStep
      BY DEF GoGuard!ClockStep, GoGuard!Tick, GoGuard!SetBack, GoGuard!Sync, Go!Reference!ClockStep,
             Go!Reference!Tick, Go!Reference!SetBack, Go!Reference!Sync
<1>4. GoGuard!Reboot <=> Go!Reference!Reboot
      BY DEF GoGuard!Reboot, GoGuard!Restart, Go!Reference!Reboot, Go!Reference!Restart
<1>5. UNCHANGED GoGuard!vars <=> UNCHANGED Go!Reference!vars
      BY DEF GoGuard!vars, Go!Reference!vars
<1>6. GoGuard!Next <=> Go!Reference!Next
      BY <1>2, <1>3, <1>4 DEF GoGuard!Next, Go!Reference!Next, GoGuard!Stamps, Go!Reference!Stamps
<1> QED
    BY <1>1, <1>5, <1>6

(* For every window, capacity and width of the clock: accept() of the Go   *)
(* guard gives the verdict of the reference and remembers what the         *)
(* reference remembers, once the clock is a window past the epoch          *)
(* (replay.go:46-95).                                                      *)
THEOREM GoRefinesReference ==
  ASSUME Go!GoAssumption, PastEpoch
  PROVE  Go!Spec => Go!ImplementsReference
<1>1. GoGuard!Spec => Go!Reference!Spec
      BY SameGoReference, PTL DEF GoGuard!Spec, Go!Reference!Spec
<1> QED
    BY GoIsGuard, <1>1, PTL DEF Go!ImplementsReference

(* So the bridge keeps the promises of the reference (replay.go:46-80).    *)
THEOREM GoKeepsPromises ==
  ASSUME Go!GoAssumption, PastEpoch
  PROVE  Go!Spec => [](GoGuard!AtMostOnce /\ GoGuard!NonceReuse) /\ GoGuard!NoFalseDrop
<1>1. GoGuard!EnvAssumption
      BY Constants DEF GoGuard!EnvAssumption, RingGuard!EnvAssumption
<1>2. GoGuard!Spec => []GoGuard!AtMostOnce
      BY <1>1, GoGuard!AcceptedAtMostOnce
<1>3. GoGuard!Spec => []GoGuard!NonceReuse
      BY <1>1, GoGuard!NonceReuseSafe
<1>4. GoGuard!Spec => GoGuard!NoFalseDrop
      BY <1>1, GoGuard!NoPublicationLost
<1> QED
    BY GoIsGuard, <1>2, <1>3, <1>4, PTL

=============================================================================
