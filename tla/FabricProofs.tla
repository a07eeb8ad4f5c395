------------------------------ MODULE FabricProofs ------------------------------
(***************************************************************************)
(* For any window, capacity, topics and number of publications: the fabric *)
(* implements Delivery. The guard forgets nonces by pruning and overflow;  *)
(* the abstract node remembers its last MaxEntries publications. The two   *)
(* agree because the deque is the tail of what was taken, and what was     *)
(* taken before that is out of its window and stays so while the clock is  *)
(* not set back (TakenIsCached).                                           *)
(*                                                                         *)
(* What is known of the guard by itself is cited from ReplayGuardProofs.   *)
(***************************************************************************)
EXTENDS Fabric, TLAPS

GP == INSTANCE ReplayGuardProofs

LEMMA Constants ==
  /\ GP!EnvAssumption
  /\ Windows \subseteq Nat /\ MaxEntries \in Nat /\ MaxEntries > 0
  /\ MinTime \in Nat /\ MinTime > 0 /\ MaxTime \in Nat /\ MaxBoots \in Nat
  /\ Nonces \subseteq Nat \ {0} /\ 0 \notin Nonces
  /\ MaxPublished \in Nat
  BY FabricAssumption DEF FabricAssumption, Guard!EnvAssumption, GP!EnvAssumption

(* Pairs the deque holds of publication p.                                 *)
Pair(p) == [ts |-> pub[p].ts, nonce |-> pub[p].nonce]

Past == Len(taken) - Len(order)

TakenIsCached ==
  /\ Len(taken) <= MaxEntries /\ Len(order) <= Len(taken)
  /\ \A i \in 1 .. Len(order) : order[i] = Pair(taken[Past + i])
  /\ \A i \in 1 .. Past : pub[taken[i]].ts + window < now

(* Only what was published has sends ahead of it, and what is sealed has a *)
(* nonce.                                                                  *)
SenderOK ==
  /\ \A p \in Publications : left[p] > 0 => p \in DOMAIN pub
  /\ \A p \in DOMAIN pub : pub[p].sealed => pub[p].nonce \in Nonces

IInv == TypeOK /\ SenderOK /\ GP!IInv /\ TakenIsCached

LEMMA SeqFacts ==
  ASSUME IInv
  PROVE  /\ pub \in Seq(Datagram) /\ Len(pub) \in Nat /\ DOMAIN pub = 1 .. Len(pub)
         /\ taken \in Seq(1 .. Len(pub)) /\ Len(taken) \in Nat
         /\ \A i \in 1 .. Len(taken) : taken[i] \in 1 .. Len(pub)
         /\ \A p \in 1 .. Len(pub) : pub[p] \in Datagram /\ pub[p].ts \in Int
         /\ Len(order) \in Nat /\ now \in Int /\ now > 0 /\ window \in Nat
<1>1. pub \in Seq(Datagram) /\ Len(pub) \in Nat /\ DOMAIN pub = 1 .. Len(pub)
      BY DEF IInv, TypeOK
<1>2. taken \in Seq(1 .. Len(pub)) /\ Len(taken) \in Nat
      BY <1>1 DEF IInv, TypeOK
<1>3. \A p \in 1 .. Len(pub) : pub[p] \in Datagram /\ pub[p].ts \in Int
  <2>1. \A d \in Datagram : d.ts \in Int
        BY Constants DEF Datagram
  <2> QED
      BY <1>1, <2>1
<1>4. GP!TypeOK
      BY DEF IInv, GP!IInv
<1>5. Len(order) \in Nat /\ now \in Int /\ window \in Nat
      BY <1>4, Constants, GP!ValueTypes
<1>6. now > 0
      BY <1>4, Constants DEF GP!TypeOK, GP!Times
<1>7. \A i \in 1 .. Len(taken) : taken[i] \in 1 .. Len(pub)
      BY <1>2
<1> QED
    BY <1>1, <1>2, <1>3, <1>5, <1>6, <1>7

LEMMA InitHolds == Init => IInv
<1> SUFFICES ASSUME Init PROVE IInv
    OBVIOUS
<1>1. GP!Init
      BY DEF Init, Guard!Init, GP!Init, Guard!EnvInit, GP!EnvInit, Guard!Times, GP!Times
<1>2. GP!IInv
      BY <1>1, Constants, GP!InitInv
<1>3. TypeOK
      BY Constants DEF Init, TypeOK
<1>4. SenderOK
      BY DEF Init, SenderOK
<1>5. TakenIsCached
      BY Constants DEF Init, Guard!Init, TakenIsCached, Past
<1> QED
    BY <1>2, <1>3, <1>4, <1>5 DEF IInv

-----------------------------------------------------------------------------
(* The guard.                                                              *)

(* A reload leaves the clock valid, unlike a reboot.                       *)
LEMMA ReloadKeepsGuard ==
  ASSUME IInv, Reload
  PROVE  GP!IInv'
<1>1. /\ GP!TypeOK /\ GP!HistoryOK /\ GP!NonceReuse
      /\ boot' = boot + 1 /\ high' = now /\ boot < MaxBoots
      /\ order' = << >> /\ seen' = {}
      /\ UNCHANGED <<now, synced, window, log, last>>
      BY DEF IInv, GP!IInv, Reload
<1>2. /\ now \in Int /\ window \in Nat /\ boot \in Int
      /\ DOMAIN log = 1 .. Len(log) /\ Len(log) \in Nat
      /\ \A i \in 1 .. Len(log) : log[i].boot \in Int
      BY <1>1, Constants, GP!ValueTypes
<1>3. GP!TypeOK'
  <2>1. boot' \in 0 .. MaxBoots
        BY <1>1, Constants DEF GP!TypeOK
  <2> QED
      BY <1>1, <2>1 DEF GP!TypeOK
<1>4. GP!CacheAgrees'
      BY <1>1, Constants DEF GP!CacheAgrees
<1>5. \A i \in 1 .. Len(log) : log[i].boot < boot + 1
      BY <1>1, <1>2 DEF GP!HistoryOK
<1>6. GP!HistoryOK'
      BY <1>1, <1>2, <1>5 DEF GP!HistoryOK
<1>7. GP!CacheIsTail'
      BY <1>1, <1>2, <1>5 DEF GP!CacheIsTail, GP!Dropped, GP!LetGo
<1>8. GP!NonceReuse'
      BY <1>1 DEF GP!NonceReuse
<1> QED
    BY <1>3, <1>4, <1>6, <1>7, <1>8 DEF GP!IInv

LEMMA GuardStep ==
  ASSUME IInv, Guard!ClockStep \/ UNCHANGED guardVars
  PROVE  GP!IInv'
<1>1. GP!ClockStep \/ UNCHANGED GP!vars
      BY DEF Guard!ClockStep, GP!ClockStep, Guard!Tick, GP!Tick, Guard!SetBack, GP!SetBack,
             Guard!Sync, GP!Sync, guardVars, GP!vars
<1>2. [GP!Next]_GP!vars
      BY <1>1 DEF GP!Next
<1> QED
    BY <1>2, Constants, GP!NextInv DEF IInv

LEMMA AcceptStep ==
  ASSUME IInv, NEW ts \in GP!Stamps, NEW n \in Nonces, Guard!Accept(ts, n)
  PROVE  GP!Accept(ts, n) /\ GP!IInv'
<1>1. GP!Accept(ts, n)
      BY DEF Guard!Accept, GP!Accept, Guard!AcceptDisabled, GP!AcceptDisabled,
             Guard!RejectStale, GP!RejectStale, Guard!RejectSeen, GP!RejectSeen,
             Guard!AcceptNew, GP!AcceptNew, Guard!Fresh, GP!Fresh, Guard!Answer, GP!Answer,
             Guard!PruneCounts, GP!PruneCounts, Guard!Expired, GP!Expired,
             Guard!Kept, GP!Kept, Guard!SeenAfter, GP!SeenAfter, Guard!Overflows, GP!Overflows,
             Guard!Grown, GP!Grown, Guard!SeenGrown, GP!SeenGrown,
             Guard!Remember, GP!Remember
<1>2. GP!Next
      BY <1>1 DEF GP!Next
<1> QED
    BY <1>1, <1>2, Constants, GP!NextInv DEF IInv

-----------------------------------------------------------------------------
(* What accept() does to the deque, and the node to what it took.          *)

(* What was taken before is still beyond the window.                       *)
LEMMA CacheUntouched ==
  ASSUME IInv, now \in Int, now' \in Int, now <= now',
         UNCHANGED <<window, order, taken>>, pub' = pub
  PROVE  TakenIsCached'
<1>1. \A i \in 1 .. Past : pub[taken[i]].ts \in Int
      BY SeqFacts DEF Past, IInv, TakenIsCached
<1>2. ASSUME NEW i \in 1 .. Past PROVE pub[taken[i]].ts + window < now'
      BY <1>1, SeqFacts, SMTT(30) DEF IInv, TakenIsCached
<1> QED
    BY <1>2 DEF IInv, TakenIsCached, Past, Pair

LEMMA PostedCache ==
  ASSUME IInv, NEW d, pub' = Append(pub, d),
         UNCHANGED <<window, order, taken, now>>
  PROVE  TakenIsCached'
<1>1. \A p \in 1 .. Len(pub) : pub'[p] = pub[p]
      BY SeqFacts
<1>2. \A i \in 1 .. Len(taken) : pub'[taken[i]] = pub[taken[i]]
      BY <1>1, SeqFacts
<1>3. /\ \A i \in 1 .. Len(order) : Past + i \in 1 .. Len(taken)
      /\ 1 .. Past \subseteq 1 .. Len(taken)
      BY SeqFacts DEF IInv, TakenIsCached, Past
<1> QED
    BY <1>2, <1>3 DEF IInv, TakenIsCached, Past, Pair

LEMMA PrunedCache ==
  ASSUME IInv, NEW k \in GP!PruneCounts, order' = GP!Kept(k),
         UNCHANGED <<window, taken, now, pub>>
  PROVE  TakenIsCached'
<1>1. /\ k \in 0 .. Len(order) /\ Len(order') = Len(order) - k
      /\ \A i \in 1 .. k : order[i].ts + window < now
      /\ \A i \in 1 .. Len(order') : order'[i] = order[k + i]
      BY Constants, GP!PruneProperties DEF IInv, GP!IInv
<1>2. Past' = Past + k /\ Past \in Nat
      BY <1>1, SeqFacts DEF Past, IInv, TakenIsCached
<1>3. \A i \in 1 .. Len(order') : order'[i] = Pair(taken[Past' + i])
      BY <1>1, <1>2, SeqFacts DEF IInv, TakenIsCached
<1>4. ASSUME NEW i \in 1 .. Past' PROVE pub[taken[i]].ts + window < now
  <2>1. CASE i <= Past
        BY <2>1, <1>2 DEF IInv, TakenIsCached
  <2>2. CASE i > Past
    <3>1. i - Past \in 1 .. k /\ i - Past \in 1 .. Len(order) /\ Past + (i - Past) = i
          BY <1>1, <1>2, <2>2, SeqFacts
    <3>2. order[i - Past] = Pair(taken[i])
          BY <3>1 DEF IInv, TakenIsCached
    <3> QED
        BY <3>1, <3>2, <1>1 DEF Pair
  <2> QED
      BY <1>2, <2>1, <2>2
<1> QED
    BY <1>1, <1>2, <1>3, <1>4, SeqFacts, SMTT(30) DEF IInv, TakenIsCached, Pair

(* TakenAfter(p) forgets its oldest when the deque overflows or has room.  *)
LEMMA TakenProperties ==
  ASSUME IInv, window # 0, NEW p \in 1 .. Len(pub)
  PROVE  LET r == IF Len(taken) < MaxEntries THEN 0 ELSE 1
         IN  /\ TakenAfter(p) \in Seq(1 .. Len(pub))
             /\ Len(TakenAfter(p)) = Len(taken) + 1 - r
             /\ \A i \in 1 .. Len(taken) - r : TakenAfter(p)[i] = taken[r + i]
             /\ TakenAfter(p)[Len(taken) + 1 - r] = p
<1> DEFINE all == Append(taken, p)
<1>1. /\ all \in Seq(1 .. Len(pub)) /\ Len(all) = Len(taken) + 1
      /\ \A i \in 1 .. Len(taken) : all[i] = taken[i]
      /\ all[Len(taken) + 1] = p
      /\ Len(taken) \in Nat
      BY SeqFacts
<1>2. CASE Len(taken) < MaxEntries
      BY <1>1, <1>2 DEF TakenAfter
<1>3. CASE ~(Len(taken) < MaxEntries)
  <2>1. TakenAfter(p) = Tail(all)
        BY <1>3 DEF TakenAfter
  <2>2. all # << >>
        BY <1>1, SMTT(30)
  <2> HIDE DEF all
  <2>3. /\ Tail(all) \in Seq(1 .. Len(pub)) /\ Len(Tail(all)) = Len(taken)
        /\ \A i \in 1 .. Len(taken) : Tail(all)[i] = all[i + 1]
        BY <1>1, <2>2
  <2>4. Len(taken) \in 1 .. Len(taken)
        BY <1>1, <1>3, Constants
  <2>5. Tail(all)[Len(taken)] = p
        BY <1>1, <2>3, <2>4
  <2>6. \A i \in 1 .. Len(taken) - 1 : Tail(all)[i] = taken[1 + i]
        BY <1>1, <2>3
  <2>7. Len(taken) + 1 - 1 = Len(taken)
        BY <1>1
  <2> QED
      BY <1>3, <2>1, <2>3, <2>5, <2>6, <2>7
<1> QED
    BY <1>2, <1>3

LEMMA GrownCache ==
  ASSUME IInv, window # 0, NEW p \in 1 .. Len(pub), Pair(p) \in GP!Entry,
         NEW k \in GP!PruneCounts, pub[p].nonce \notin GP!SeenAfter(k),
         order' = GP!Grown(k, Pair(p)), taken' = TakenAfter(p),
         UNCHANGED <<window, now, pub>>
  PROVE  TakenIsCached'
<1> DEFINE m == Len(order)
           q == Len(taken)
           s == GP!Spill(k)
           r == IF q < MaxEntries THEN 0 ELSE 1
<1>1. /\ k \in 0 .. m /\ \A i \in 1 .. k : order[i].ts + window < now
      BY Constants, GP!PruneProperties DEF IInv, GP!IInv
<1>2. /\ Len(order') = m - k + 1 - s /\ Len(order') <= MaxEntries
      /\ \A i \in 1 .. m - k - s : order'[i] = order[k + s + i]
      /\ order'[m - k + 1 - s] = Pair(p)
      /\ s = 1 => m - k = MaxEntries
  <2>1. Pair(p).nonce \notin GP!SeenAfter(k)
        BY DEF Pair
  <2> QED
      BY <2>1, Constants, GP!GrowProperties DEF IInv, GP!IInv
<1>3. s \in {0, 1} /\ r \in {0, 1} /\ (r = 0 => q < MaxEntries) /\ (r = 1 => q >= MaxEntries)
      BY SeqFacts, Constants DEF GP!Spill
<1>4. /\ Len(taken') = q + 1 - r
      /\ \A i \in 1 .. q - r : taken'[i] = taken[r + i]
      /\ taken'[q + 1 - r] = p
      BY TakenProperties
<1>5. /\ m \in Nat /\ q \in Nat /\ q <= MaxEntries /\ m <= q /\ Past = q - m
      /\ \A i \in 1 .. m : order[i] = Pair(taken[Past + i])
      /\ \A i \in 1 .. Past : pub[taken[i]].ts + window < now
      BY SeqFacts DEF IInv, TakenIsCached, Past
<1> HIDE DEF m, q, s, r
<1>0. /\ m \in Nat /\ q \in Nat /\ k \in 0 .. m /\ m <= q /\ q <= MaxEntries
      /\ Past = q - m
      BY <1>1, <1>5
<1>6. Past' = Past + k + s - r
  <2>1. Past' = (q + 1 - r) - (m - k + 1 - s)
        BY <1>2, <1>4 DEF Past
  <2> QED
      BY <2>1, <1>0, <1>3
<1>7. s = 1 => k = 0 /\ Past = 0 /\ r = 1
      BY <1>0, <1>2, <1>3, Constants
<1>8. Past' >= 0 /\ Past' \in Int
  <2>1. m - k + 1 - s <= MaxEntries
        BY <1>2
  <2> QED
      BY <2>1, <1>0, <1>3, <1>6, <1>7, Constants
<1>9. Len(taken') <= MaxEntries /\ Len(order') <= Len(taken')
  <2>1. Len(taken') \in Int /\ Len(order') \in Int
        BY <1>1, <1>2, <1>3, <1>4, <1>5
  <2>2. Len(taken') - Len(order') >= 0
        BY <1>8 DEF Past
  <2> QED
      BY <2>1, <2>2, <1>3, <1>4, <1>5, Constants
<1>10. ASSUME NEW i \in 1 .. Len(order') PROVE order'[i] = Pair(taken'[Past' + i])
  <2>1. CASE i = m - k + 1 - s
    <3>1. Past' + i = q + 1 - r
          BY <2>1, <1>0, <1>3, <1>6
    <3> QED
        BY <2>1, <3>1, <1>2, <1>4
  <2>2. CASE i # m - k + 1 - s
    <3>1. i \in 1 .. m - k - s /\ k + s + i \in 1 .. m
      <4>1. i \in 1 .. m - k + 1 - s
            BY <1>2
      <4> QED
          BY <4>1, <2>2, <1>0, <1>3
    <3>2. Past' + i \in 1 .. q - r /\ r + (Past' + i) = Past + (k + s + i)
          BY <3>1, <1>0, <1>3, <1>6, <1>8
    <3> QED
        BY <3>1, <3>2, <1>2, <1>4, <1>5, SMTT(30)
  <2> QED
      BY <2>1, <2>2
<1>11. ASSUME NEW i \in 1 .. Past' PROVE pub[taken'[i]].ts + window < now
  <2>1. s = 0
        BY <1>0, <1>3, <1>6, <1>7
  <2>2. i \in 1 .. q - r /\ r + i \in 1 .. Past + k
        BY <2>1, <1>0, <1>3, <1>6
  <2>3. taken'[i] = taken[r + i]
        BY <2>2, <1>4
  <2>4. CASE r + i <= Past
        BY <2>2, <2>3, <2>4, <1>5
  <2>5. CASE r + i > Past
    <3>1. r + i - Past \in 1 .. k /\ r + i - Past \in 1 .. m
      <4>1. /\ r \in Int /\ i \in Int
            /\ r + i <= Past + k /\ r + i >= Past + 1
            BY <2>2, <2>5, <1>0, <1>3
      <4>2. Past \in Int /\ k \in Int /\ m \in Int /\ k <= m
            BY <1>0
      <4> QED
          BY <4>1, <4>2
    <3>2. Past + (r + i - Past) = r + i
      <4>1. r \in Int /\ i \in Int /\ Past \in Int
            BY <2>2, <1>0, <1>3
      <4> QED
          BY <4>1
    <3>3. order[r + i - Past] = Pair(taken[r + i])
          BY <3>1, <3>2, <1>5
    <3> QED
        BY <3>1, <3>3, <2>3, <1>1 DEF Pair
  <2> QED
      BY <2>2, <2>4, <2>5, <1>0
<1> QED
    BY <1>9, <1>10, <1>11 DEF TakenIsCached, Pair

-----------------------------------------------------------------------------
(* The invariant.                                                          *)

LEMMA EncodeType ==
  ASSUME IInv, NEW t \in Topics, NEW sealed \in BOOLEAN, NEW raw \in BOOLEAN,
         NEW ts \in Stamped, NEW n \in Nonces
  PROVE  /\ Encode(t, sealed, raw, ts, n) \in Datagram
         /\ Encode(t, sealed, raw, ts, n).topic = t
         /\ Encode(t, sealed, raw, ts, n).sealed => Encode(t, sealed, raw, ts, n).nonce \in Nonces
<1>1. now \in MinTime .. MaxTime
      BY DEF IInv, GP!IInv, GP!TypeOK, GP!Times
<1>2. ts \in 0 .. MaxTime
      BY <1>1, Constants DEF Stamped
<1> QED
    BY <1>2, Constants DEF Encode, Datagram

LEMMA PublishKeeps ==
  ASSUME IInv, NEW t \in Topics, NEW d \in Datagram, NEW count \in Counts,
         d.sealed => d.nonce \in Nonces, Publish(t, d, count)
  PROVE  IInv'
<1> DEFINE p == Len(pub) + 1
<1>0. count = Indefinite \/ count \in Nat \ {0}
      BY FabricAssumption DEF FabricAssumption
<1>1. /\ pub' = Append(pub, d) /\ wire' = wire \union {p}
      /\ chain' = [chain EXCEPT ![t] = IF count = Indefinite THEN p ELSE 0]
      /\ left' = [left EXCEPT ![p] = Left(count)]
      /\ UNCHANGED <<guardVars, node, taken, value>>
      /\ p \in Publications
      BY Constants, SeqFacts DEF Publish, Publications
<1>2. /\ pub' \in Seq(Datagram) /\ Len(pub') = p /\ DOMAIN pub' = 1 .. p
      /\ \A q \in 1 .. Len(pub) : pub'[q] = pub[q]
      /\ pub'[p] = d /\ Len(pub) \in Nat
      BY <1>1, SeqFacts
<1>3. TypeOK'
  <2>1. Left(count) \in Nat
        BY <1>0 DEF Left
  <2>2. left' \in [Publications -> Nat]
        BY <1>1, <2>1 DEF IInv, TypeOK
  <2>3. chain' \in [Topics -> 0 .. Len(pub')]
        BY <1>1, <1>2 DEF IInv, TypeOK
  <2>4. wire' \subseteq DOMAIN pub' /\ value' \in [Topics -> 0 .. Len(pub')]
        BY <1>1, <1>2, SeqFacts, SMTT(30) DEF IInv, TypeOK
  <2>5. taken' \in Seq(DOMAIN pub')
        BY <1>1, <1>2, SeqFacts
  <2>6. Len(pub') <= MaxPublished
        BY <1>1, <1>2, Constants DEF Publications
  <2> QED
      BY <1>1, <1>2, <2>2, <2>3, <2>4, <2>5, <2>6 DEF node, IInv, TypeOK
<1>4. SenderOK'
      BY <1>1, <1>2, SeqFacts, SMTT(30) DEF IInv, SenderOK, TypeOK
<1>5. GP!IInv'
      BY <1>1, GuardStep
<1>6. TakenIsCached'
      BY <1>1, PostedCache DEF guardVars
<1> QED
    BY <1>3, <1>4, <1>5, <1>6 DEF IInv

(* A step of the senders, the network or the subscribers: the guard and    *)
(* what was published and taken are as before.                             *)
LEMMA QuietKeeps ==
  ASSUME IInv, TypeOK', SenderOK', UNCHANGED <<guardVars, pub, taken>>
  PROVE  IInv'
<1>1. GP!IInv'
      BY GuardStep
<1>2. TakenIsCached'
      BY CacheUntouched, SeqFacts DEF guardVars
<1> QED
    BY <1>1, <1>2 DEF IInv

(* The verdict of the guard on publication p, and what it does to what the *)
(* deque and the node remember.                                            *)
LEMMA SealedStep ==
  ASSUME IInv, NEW p \in DOMAIN pub, HandleSealed(p), UNCHANGED pub
  PROVE  /\ GP!IInv' /\ TakenIsCached'
         /\ taken' \in Seq(DOMAIN pub)
         /\ window' = window
         /\ \/ UNCHANGED <<taken, value>>
            \/ Dispatch(p) /\ taken' = TakenAfter(p)
                 /\ (window # 0 => ~ \E i \in DOMAIN taken : taken[i] = p)
<1> DEFINE ts == pub[p].ts
           n == pub[p].nonce
<1>1. /\ ts \in GP!Stamps /\ n \in Nonces /\ pub[p] \in Datagram
      /\ p \in 1 .. Len(pub) /\ Guard!Accept(ts, n)
      BY SeqFacts DEF HandleSealed, IInv, SenderOK, Datagram, GP!Stamps
<1>2. GP!Accept(ts, n) /\ GP!IInv'
      BY <1>1, AcceptStep
<1>3. CASE GP!AcceptDisabled(ts, n)
  <2>1. /\ UNCHANGED <<now, window, order>> /\ window = 0
        /\ last'.ok = TRUE
        BY <1>3 DEF GP!AcceptDisabled, GP!Answer
  <2>2. Dispatch(p) /\ taken' = taken /\ taken' = TakenAfter(p)
        BY <2>1 DEF HandleSealed, TakenAfter
  <2>3. TakenIsCached'
        BY <2>1, <2>2, CacheUntouched, SeqFacts
  <2> QED
      BY <1>2, <2>1, <2>2, <2>3, SeqFacts
<1>4. CASE GP!RejectStale(ts, n)
  <2>1. UNCHANGED <<now, window, order>> /\ last'.ok = FALSE
        BY <1>4 DEF GP!RejectStale, GP!Answer
  <2>2. UNCHANGED <<taken, value>>
        BY <2>1 DEF HandleSealed
  <2>3. TakenIsCached'
        BY <2>1, <2>2, CacheUntouched, SeqFacts
  <2> QED
      BY <1>2, <2>1, <2>2, <2>3, SeqFacts
<1>5. CASE GP!RejectSeen(ts, n)
  <2>1. /\ UNCHANGED <<now, window>> /\ last'.ok = FALSE
        /\ \E k \in GP!PruneCounts : order' = GP!Kept(k)
        BY <1>5 DEF GP!RejectSeen, GP!Answer
  <2>2. UNCHANGED <<taken, value>>
        BY <2>1 DEF HandleSealed
  <2>3. TakenIsCached'
        BY <2>1, <2>2, PrunedCache
  <2> QED
      BY <1>2, <2>1, <2>2, <2>3, SeqFacts
<1>6. CASE GP!AcceptNew(ts, n)
  <2>1. /\ UNCHANGED <<now, window>> /\ last'.ok = TRUE /\ window # 0 /\ GP!Fresh(ts)
        BY <1>6 DEF GP!AcceptNew, GP!Answer
  <2>2. PICK k \in GP!PruneCounts : n \notin GP!SeenAfter(k) /\ order' = GP!Grown(k, Pair(p))
        BY <1>6 DEF GP!AcceptNew, Pair
  <2>3. Pair(p) \in GP!Entry
        BY <1>1 DEF Pair, GP!Entry
  <2>4. Dispatch(p) /\ taken' = TakenAfter(p)
        BY <2>1 DEF HandleSealed
  <2>5. TakenIsCached'
        BY <1>1, <2>1, <2>2, <2>3, <2>4, GrownCache
  <2>6. taken' \in Seq(DOMAIN pub)
        BY <1>1, <2>1, <2>4, TakenProperties, SeqFacts
  <2>7. ~(ts + window < now)
        BY <2>1, <1>1, SeqFacts DEF GP!Fresh
  <2>8. ASSUME NEW i \in DOMAIN taken, taken[i] = p PROVE FALSE
    <3>1. i \in 1 .. Len(taken) /\ Len(order) <= Len(taken)
          BY SeqFacts DEF IInv, TakenIsCached
    <3>2. i > Past
      <4>1. i \in 1 .. Past => ts + window < now
            BY <2>8 DEF IInv, TakenIsCached
      <4>2. i \in Int /\ i >= 1 /\ Past \in Int
            BY <3>1, SeqFacts DEF Past
      <4> QED
          BY <4>1, <4>2, <2>7
    <3>3. i - Past \in 1 .. Len(order) /\ Past + (i - Past) = i
          BY <3>1, <3>2, SeqFacts DEF Past
    <3>4. order[i - Past] = Pair(p)
          BY <2>8, <3>3 DEF IInv, TakenIsCached
    <3>5. /\ \A j \in 1 .. k : order[j].ts + window < now
          /\ GP!SeenAfter(k) = {order[j].nonce : j \in (k + 1) .. Len(order)}
          /\ k \in 0 .. Len(order)
          BY Constants, GP!PruneProperties DEF IInv, GP!IInv
    <3>6. ~(i - Past \in 1 .. k)
          BY <2>7, <3>4, <3>5 DEF Pair
    <3>7. i - Past \in (k + 1) .. Len(order)
          BY <3>3, <3>5, <3>6, SeqFacts
    <3> QED
        BY <2>2, <3>4, <3>5, <3>7 DEF Pair
  <2> QED
      BY <1>2, <2>1, <2>4, <2>5, <2>6, <2>8
<1> QED
    BY <1>2, <1>3, <1>4, <1>5, <1>6 DEF GP!Accept

LEMMA ReceiveKeeps ==
  ASSUME IInv, NEW p \in Publications, Receive(p)
  PROVE  IInv'
<1>1. /\ p \in DOMAIN pub /\ wire' \subseteq DOMAIN pub
      /\ UNCHANGED <<node, pub, left, chain>>
      BY DEF Receive, node, sender, IInv, TypeOK
<1>2. Dispatch(p) => value' \in [Topics -> 0 .. Len(pub)]
  <2>1. p \in 0 .. Len(pub) /\ value \in [Topics -> 0 .. Len(pub)]
        BY <1>1, SeqFacts DEF IInv, TypeOK
  <2> QED
      BY <2>1 DEF Dispatch
<1>3. SenderOK'
      BY <1>1 DEF IInv, SenderOK
<1>4. CASE HandlePlain(p)
  <2>1. TypeOK'
        BY <1>1, <1>2, <1>4 DEF HandlePlain, node, IInv, TypeOK
  <2> QED
      BY <1>1, <1>3, <1>4, <2>1, QuietKeeps DEF HandlePlain
<1>5. CASE HandleSealed(p)
  <2>1. /\ GP!IInv' /\ TakenIsCached' /\ taken' \in Seq(DOMAIN pub)
        /\ UNCHANGED value \/ Dispatch(p)
        BY <1>1, <1>5, SealedStep
  <2>2. TypeOK'
        BY <1>1, <1>2, <2>1 DEF node, IInv, TypeOK
  <2> QED
      BY <1>3, <2>1, <2>2 DEF IInv
<1> QED
    BY <1>4, <1>5 DEF Receive

LEMMA NextKeeps == IInv /\ [Next]_vars => IInv'
<1> SUFFICES ASSUME IInv, [Next]_vars PROVE IInv'
    OBVIOUS
<1>1. CASE Clock
  <2>1. /\ Guard!ClockStep /\ now <= now' /\ UNCHANGED <<window, order, taken, pub>>
        /\ UNCHANGED <<node, sender, wire, taken, value>>
        BY <1>1, SeqFacts DEF Clock, Guard!ClockStep, Guard!Tick, Guard!SetBack, Guard!Sync, node, sender
  <2>2. GP!IInv'
        BY <2>1, GuardStep
  <2>3. now' \in Int
        BY <2>2, Constants DEF GP!IInv, GP!TypeOK, GP!Times
  <2>4. TakenIsCached'
        BY <2>1, <2>3, CacheUntouched, SeqFacts
  <2>5. TypeOK' /\ SenderOK'
        BY <2>1 DEF node, sender, IInv, TypeOK, SenderOK
  <2> QED
      BY <2>2, <2>4, <2>5 DEF IInv
<1>2. CASE Reload
  <2>1. GP!IInv'
        BY <1>2, ReloadKeepsGuard
  <2>2. taken' = << >> /\ order' = << >> /\ UNCHANGED <<kind, keyed, sender, wire, value>>
        /\ listened' = {} /\ strict' = {}
        BY <1>2 DEF Reload
  <2>3. TakenIsCached'
        BY <2>2, Constants DEF TakenIsCached, Past
  <2>4. TypeOK' /\ SenderOK'
        BY <2>2 DEF node, sender, IInv, TypeOK, SenderOK
  <2> QED
      BY <2>1, <2>3, <2>4 DEF IInv
<1>3. ASSUME NEW t \in Topics, NEW count \in Counts, NEW sealed \in BOOLEAN,
             NEW raw \in BOOLEAN, NEW ts \in Stamped, NEW n \in Nonces,
             Publish(t, Encode(t, sealed, raw, ts, n), count)
      PROVE  IInv'
      BY <1>3, EncodeType, PublishKeeps
<1>4. ASSUME NEW p \in Publications, Retransmit(p) PROVE IInv'
  <2>1. /\ p \in DOMAIN pub /\ wire' = wire \union {p}
        /\ left' = [left EXCEPT ![p] = @ - 1] /\ left[p] > 0
        /\ UNCHANGED <<guardVars, node, pub, chain, taken, value>>
        BY <1>4 DEF Retransmit, IInv, SenderOK
  <2>2. TypeOK' /\ SenderOK'
        BY <2>1 DEF node, IInv, TypeOK, SenderOK
  <2> QED
      BY <2>1, <2>2, QuietKeeps
<1>5. ASSUME NEW p \in Publications, Lose(p) PROVE IInv'
  <2>1. TypeOK' /\ SenderOK'
        BY <1>5 DEF Lose, node, sender, IInv, TypeOK, SenderOK
  <2> QED
      BY <1>5, <2>1, QuietKeeps DEF Lose, node, sender
<1>6. ASSUME NEW t \in Topics, ChainTick(t) PROVE IInv'
  <2>1. chain[t] \in DOMAIN pub
        BY <1>6, SeqFacts DEF ChainTick, IInv, TypeOK
  <2>2. TypeOK' /\ SenderOK'
        BY <1>6, <2>1 DEF ChainTick, node, sender, IInv, TypeOK, SenderOK
  <2> QED
      BY <1>6, <2>2, QuietKeeps DEF ChainTick, node, sender
<1>7. ASSUME NEW t \in Topics, NEW demands \in BOOLEAN,
             Subscribe(t, demands) \/ Unsubscribe(t)
      PROVE  IInv'
  <2>1. TypeOK' /\ SenderOK'
        BY <1>7 DEF Subscribe, StrictAfter, Unsubscribe, sender, IInv, TypeOK, SenderOK
  <2> QED
      BY <1>7, <2>1, QuietKeeps DEF Subscribe, Unsubscribe, node, sender
<1>8. ASSUME NEW p \in Publications, Receive(p) PROVE IInv'
      BY <1>8, ReceiveKeeps
<1>9. CASE UNCHANGED vars
  <2>1. TypeOK' /\ SenderOK' /\ UNCHANGED <<guardVars, pub, taken>>
        BY <1>9 DEF vars, guardVars, IInv, TypeOK, SenderOK
  <2> QED
      BY <2>1, QuietKeeps
<1> QED
    BY <1>1, <1>2, <1>3, <1>4, <1>5, <1>6, <1>7, <1>8, <1>9 DEF Next

LEMMA Invariance == Spec => []IInv
  BY InitHolds, NextKeeps, PTL DEF Spec

(* The fabric is type correct for any window, capacity and publications.   *)
THEOREM TypeCorrect == Spec => []TypeOK
<1>1. IInv => TypeOK
      BY DEF IInv
<1> QED
    BY Invariance, <1>1, PTL

-----------------------------------------------------------------------------
(* The refinement.                                                         *)

LEMMA InitRefines == Init => Promise!Init
<1> SUFFICES ASSUME Init PROVE Promise!Init
    OBVIOUS
<1>1. posted = << >>
      BY DEF Init, posted
<1> QED
    BY <1>1 DEF Init, Promise!Init

LEMMA PublishRefines ==
  ASSUME IInv, NEW t \in Topics, NEW d, d.topic = t, d.sealed \in BOOLEAN,
         d.raw \in BOOLEAN, pub' = Append(pub, d), UNCHANGED <<window, keyed, strict, taken, value>>
  PROVE  Promise!Next
<1> DEFINE view(x) == [topic |-> x.topic, sealed |-> x.sealed, raw |-> x.raw,
                       once |-> Once(x), readable |-> Decodes(x)]
           p == Len(pub) + 1
<1>1. /\ DOMAIN pub' = 1 .. p /\ pub'[p] = d /\ p \in Nat
      /\ \A q \in 1 .. Len(pub) : pub'[q] = pub[q]
      BY SeqFacts
<1>2. posted = [q \in 1 .. Len(pub) |-> view(pub[q])]
      BY SeqFacts DEF posted
<1>3. posted' = [q \in 1 .. p |-> view(pub'[q])]
      BY <1>1 DEF posted, Once, Decodes
<1> HIDE DEF view
<1>4. posted \in Seq({view(pub[q]) : q \in 1 .. Len(pub)}) /\ Len(posted) = Len(pub)
      BY <1>2, SeqFacts
<1>5. posted' = Append(posted, view(d))
      BY <1>1, <1>2, <1>3, <1>4
<1>6. Once(d) \in BOOLEAN /\ Decodes(d) \in BOOLEAN /\ (Once(d) => d.sealed)
      BY DEF Once, Decodes, IInv, TypeOK
<1>7. view(d) \in Promise!Publications
      BY <1>6 DEF view, Promise!Publications
<1>8. posted' # posted
  <2>1. Len(posted') = Len(posted) + 1 /\ Len(posted) \in Nat
        BY <1>4, <1>5
  <2> QED
      BY <2>1
<1> QED
    BY <1>5, <1>7, <1>8 DEF Promise!Post, Promise!Next

LEMMA ReceiveRefines ==
  ASSUME IInv, NEW p \in Publications, Receive(p)
  PROVE  [Promise!Next]_Promise!vars
<1>1. /\ p \in DOMAIN pub /\ Decodes(pub[p]) /\ UNCHANGED <<keyed, strict, pub>>
      /\ HandlePlain(p) \/ HandleSealed(p)
      BY DEF Receive, node, sender, IInv, TypeOK
<1>2. /\ p \in DOMAIN posted /\ posted[p].readable
      /\ posted[p].once = Once(pub[p]) /\ posted[p].topic = pub[p].topic
      /\ posted[p].sealed = pub[p].sealed /\ posted[p].raw = pub[p].raw
      BY <1>1 DEF posted
<1>3. window' = window
      BY <1>1, SealedStep DEF HandlePlain, guardVars
<1>4. UNCHANGED posted
      BY <1>1, <1>3 DEF posted, Once, Decodes
<1>5. Dispatch(p) => \/ UNCHANGED value
                     \/ /\ Promise!Audible(p)
                        /\ value' = [value EXCEPT ![posted[p].topic] = p]
      BY <1>2 DEF Dispatch, Hears, Promise!Audible
<1>6. CASE HandlePlain(p)
  <2>1. ~Once(pub[p]) /\ UNCHANGED taken /\ Dispatch(p)
        BY <1>6 DEF HandlePlain, Once
  <2>2. Promise!Take(p)
        BY <2>1, <1>1, <1>2, <1>4, <1>5 DEF Promise!Take
  <2> QED
      BY <2>2, <1>2 DEF Promise!Next
<1>7. CASE HandleSealed(p)
  <2>1. CASE UNCHANGED <<taken, value>>
        BY <2>1, <1>1, <1>4 DEF Promise!vars
  <2>2. CASE /\ Dispatch(p) /\ taken' = TakenAfter(p)
             /\ window # 0 => ~ \E i \in DOMAIN taken : taken[i] = p
    <3>1. Once(pub[p]) <=> window # 0
          BY <1>7 DEF HandleSealed, Once
    <3>2. Once(pub[p]) => ~Promise!Recent(p)
          BY <3>1, <2>2 DEF Promise!Recent
    <3>3. taken' = IF Once(pub[p]) THEN Promise!Remember(taken, p) ELSE taken
          BY <3>1, <2>2 DEF TakenAfter, Promise!Remember
    <3>4. Promise!Take(p)
          BY <3>2, <3>3, <2>2, <1>1, <1>2, <1>4, <1>5 DEF Promise!Take
    <3> QED
        BY <3>4, <1>2 DEF Promise!Next
  <2> QED
      BY <1>1, <1>7, <2>1, <2>2, SealedStep
<1> QED
    BY <1>1, <1>6, <1>7

LEMMA StepRefines == IInv /\ [Next]_vars => [Promise!Next]_Promise!vars
<1> SUFFICES ASSUME IInv, [Next]_vars PROVE [Promise!Next]_Promise!vars
    OBVIOUS
<1>0. UNCHANGED <<pub, window, keyed, strict, taken, value>> => UNCHANGED Promise!vars
      BY DEF Promise!vars, posted, Once, Decodes
<1>1. CASE Clock
      BY <1>0, <1>1
      DEF Clock, Guard!ClockStep, Guard!Tick, Guard!SetBack, Guard!Sync, node, sender
<1>2. CASE Reload
  <2>1. taken' = << >> /\ strict' = {} /\ UNCHANGED <<pub, window, keyed, value>>
        BY <1>2 DEF Reload, node, sender
  <2>2. UNCHANGED posted
        BY <2>1 DEF posted, Once, Decodes
  <2> QED
      BY <2>1, <2>2 DEF Promise!Next, Promise!Forget
<1>3. ASSUME NEW t \in Topics, NEW count \in Counts, NEW sealed \in BOOLEAN,
             NEW raw \in BOOLEAN, NEW ts \in Stamped, NEW n \in Nonces,
             Publish(t, Encode(t, sealed, raw, ts, n), count)
      PROVE  Promise!Next
  <2>1. /\ pub' = Append(pub, Encode(t, sealed, raw, ts, n))
        /\ UNCHANGED <<window, keyed, strict, taken, value>>
        BY <1>3 DEF Publish, guardVars, node
  <2>2. /\ Encode(t, sealed, raw, ts, n).topic = t
        /\ Encode(t, sealed, raw, ts, n).sealed \in BOOLEAN
        /\ Encode(t, sealed, raw, ts, n).raw \in BOOLEAN
        BY DEF Encode
  <2> QED
      BY <2>1, <2>2, PublishRefines
<1>4. ASSUME NEW p \in Publications, Retransmit(p) \/ Lose(p) PROVE UNCHANGED Promise!vars
      BY <1>0, <1>4 DEF Retransmit, Lose, guardVars, node, sender
<1>5. ASSUME NEW t \in Topics, ChainTick(t) \/ Unsubscribe(t) PROVE UNCHANGED Promise!vars
      BY <1>0, <1>5 DEF ChainTick, Unsubscribe, guardVars, node, sender
<1>6. ASSUME NEW p \in Publications, Receive(p) PROVE [Promise!Next]_Promise!vars
      BY <1>6, ReceiveRefines
<1>7. ASSUME NEW t \in Topics, NEW demands \in BOOLEAN, Subscribe(t, demands)
      PROVE  [Promise!Next]_Promise!vars
  <2>1. UNCHANGED <<pub, window, keyed, taken, value>> /\ strict' = StrictAfter(t, demands)
        BY <1>7 DEF Subscribe, guardVars, sender
  <2>2. UNCHANGED posted
        BY <2>1 DEF posted, Once, Decodes
  <2>3. CASE demands
        BY <2>1, <2>2, <2>3 DEF StrictAfter, Promise!Demand, Promise!Next
  <2>4. CASE ~demands
        BY <1>0, <2>1, <2>4 DEF StrictAfter
  <2> QED
      BY <2>3, <2>4
<1>8. CASE UNCHANGED vars
      BY <1>0, <1>8 DEF vars
<1> QED
    BY <1>1, <1>2, <1>3, <1>4, <1>5, <1>6, <1>7, <1>8 DEF Next

(* Encoding, retransmissions, the network, the guard's pruning and         *)
(* overflow come down to Delivery: among any MaxEntries publications a     *)
(* guarded node takes a sealed one once, and never what it cannot read.    *)
THEOREM FabricImplementsDelivery == Spec => ImplementsDelivery
  BY Invariance, InitRefines, StepRefines, PTL DEF Spec, ImplementsDelivery, Promise!Spec

=============================================================================
