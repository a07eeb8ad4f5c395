------------------------- MODULE ReplayGuardProofs -------------------------
(***************************************************************************)
(* Proofs about ReplayGuard for every window, capacity, nonce set and      *)
(* bound. The argument: the deque is at all times the tail of the history  *)
(* of records (CacheIsTail), so a nonce that is accepted again belongs to  *)
(* a record that was let go, and a record is let go only by MaxEntries     *)
(* newer ones, by a reboot, or by a clock past the end of its window.      *)
(***************************************************************************)
EXTENDS ReplayGuard, TLAPS

(* What the history says of clocks and boots. *)
HistoryOK ==
  /\ now <= high
  /\ \A i \in DOMAIN log :
       /\ log[i].boot <= boot
       /\ log[i].at <= log[i].ts + window

IInv ==
  /\ TypeOK
  /\ CacheAgrees
  /\ CacheIsTail
  /\ HistoryOK
  /\ NonceReuse

-----------------------------------------------------------------------------

(* What the assumptions say of the constants, in the form the steps use.   *)
LEMMA ConstantTypes ==
  /\ Windows \subseteq Nat
  /\ MaxEntries \in Nat
  /\ MaxEntries > 0
  /\ MinTime \in Nat
  /\ MaxTime \in Nat
  /\ MaxBoots \in Nat
BY EnvAssumption DEF EnvAssumption

(* The types of the values that occur in the arithmetic below. *)
LEMMA ValueTypes ==
  ASSUME TypeOK
  PROVE  /\ now \in Int /\ high \in Int /\ window \in Nat /\ boot \in Int
         /\ order \in Seq(Entry)
         /\ DOMAIN order = 1 .. Len(order) /\ Len(order) \in Nat
         /\ \A i \in 1 .. Len(order) : order[i].ts \in Int
         /\ log \in Seq(LogEntry)
         /\ DOMAIN log = 1 .. Len(log) /\ Len(log) \in Nat
         /\ \A i \in 1 .. Len(log) :
              /\ log[i].ts \in Int /\ log[i].boot \in Int
              /\ log[i].at \in Int /\ log[i].high \in Int
<1>1. now \in Int /\ high \in Int /\ window \in Nat /\ boot \in Int
  BY ConstantTypes DEF TypeOK, Times
<1>2. \A e \in Entry : e.ts \in Int
  BY ConstantTypes DEF Entry, Stamps
<1>3. \A e \in LogEntry :
        /\ e.ts \in Int /\ e.boot \in Int /\ e.at \in Int /\ e.high \in Int
  BY ConstantTypes DEF LogEntry, Stamps, Times
<1>4. order \in Seq(Entry) /\ log \in Seq(LogEntry)
  BY DEF TypeOK
<1>5. \A i \in 1 .. Len(order) : order[i] \in Entry
  BY <1>4
<1>6. \A i \in 1 .. Len(log) : log[i] \in LogEntry
  BY <1>4
<1>7. QED
  BY <1>1, <1>2, <1>3, <1>4, <1>5, <1>6

(* The deque after _prune(k) is its suffix from k + 1 on, and the dict     *)
(* holds the nonces of that suffix.                                        *)
LEMMA PruneProperties ==
  ASSUME TypeOK, CacheAgrees, NEW k \in PruneCounts
  PROVE  /\ k \in 0 .. Len(order)
         /\ \A i \in 1 .. k : order[i].ts + window < now
         /\ Kept(k) \in Seq(Entry)
         /\ Len(Kept(k)) = Len(order) - k
         /\ \A i \in 1 .. (Len(order) - k) : Kept(k)[i] = order[k + i]
         /\ SeenAfter(k) = {order[i].nonce : i \in (k + 1) .. Len(order)}
<1>1. /\ k \in 0 .. Len(order)
      /\ \A i \in 1 .. k : Expired(order[i])
  BY DEF PruneCounts
<1>2. /\ order \in Seq(Entry)
      /\ Len(order) \in Nat
      /\ window \in Int /\ now \in Int
      /\ \A i \in 1 .. Len(order) : order[i].ts \in Int
  BY ValueTypes
<1>3. \A i \in 1 .. k : order[i].ts + window < now
  BY <1>1, <1>2 DEF Expired
<1>4. /\ Kept(k) \in Seq(Entry)
      /\ Len(Kept(k)) = Len(order) - k
      /\ \A i \in 1 .. (Len(order) - k) : Kept(k)[i] = order[k + i]
  BY <1>1, <1>2 DEF Kept
<1>5. SeenAfter(k) = {order[i].nonce : i \in (k + 1) .. Len(order)}
  BY <1>1, <1>2 DEF SeenAfter, CacheAgrees
<1>6. QED
  BY <1>1, <1>3, <1>4, <1>5

(* How many entries the overflow check drops after entry e joined. *)
Spill(k) == IF Overflows(k) THEN 1 ELSE 0

(* The deque after the append of e is the kept entries and e, without the  *)
(* oldest of them when there would be more than MaxEntries; the dict holds *)
(* the nonces of what is left.                                             *)
LEMMA GrowProperties ==
  ASSUME TypeOK, CacheAgrees, NEW k \in PruneCounts,
         NEW e \in Entry, e.nonce \notin SeenAfter(k)
  PROVE  /\ Grown(k, e) \in Seq(Entry)
         /\ Len(Grown(k, e)) = Len(order) - k + 1 - Spill(k)
         /\ Len(Grown(k, e)) <= MaxEntries
         /\ \A i \in 1 .. (Len(order) - k - Spill(k)) :
              Grown(k, e)[i] = order[k + Spill(k) + i]
         /\ Grown(k, e)[Len(order) - k + 1 - Spill(k)] = e
         /\ Spill(k) = 1 => Len(order) - k = MaxEntries
         /\ SeenGrown(k, e) = {Grown(k, e)[i].nonce : i \in 1 .. Len(Grown(k, e))}
         /\ \A i, j \in 1 .. Len(Grown(k, e)) :
              Grown(k, e)[i].nonce = Grown(k, e)[j].nonce => i = j
<1> DEFINE kept  == Kept(k)
           m     == Len(order) - k
           all   == Append(kept, e)
<1>1. /\ k \in 0 .. Len(order)
      /\ kept \in Seq(Entry)
      /\ Len(kept) = m
      /\ \A i \in 1 .. m : kept[i] = order[k + i]
      /\ SeenAfter(k) = {order[i].nonce : i \in (k + 1) .. Len(order)}
  BY PruneProperties
<1>2. /\ order \in Seq(Entry)
      /\ Len(order) \in Nat
      /\ m \in Nat
      /\ Len(order) <= MaxEntries
      /\ MaxEntries \in Nat
      /\ MaxEntries > 0
      /\ \A i, j \in 1 .. Len(order) : order[i].nonce = order[j].nonce => i = j
  <2>1. order \in Seq(Entry) /\ Len(order) \in Nat /\ DOMAIN order = 1 .. Len(order)
    BY ValueTypes
  <2>2. m \in Nat
    BY <1>1, <2>1
  <2>3. QED
    BY <2>1, <2>2, ConstantTypes DEF CacheAgrees
<1>3. SeenAfter(k) = {kept[i].nonce : i \in 1 .. m}
  <2>1. \A i \in (k + 1) .. Len(order) : i - k \in 1 .. m /\ kept[i - k] = order[i]
    BY <1>1, <1>2
  <2>2. \A i \in 1 .. m : k + i \in (k + 1) .. Len(order)
    BY <1>1, <1>2
  <2>3. {order[i].nonce : i \in (k + 1) .. Len(order)} \subseteq {kept[i].nonce : i \in 1 .. m}
    <3> HIDE DEF kept, m
    <3>1. QED BY <2>1
  <2>4. {kept[i].nonce : i \in 1 .. m} \subseteq {order[i].nonce : i \in (k + 1) .. Len(order)}
    <3> HIDE DEF kept, m
    <3>1. QED BY <2>2, <1>1
  <2>5. QED
    BY <1>1, <2>3, <2>4
<1>4. /\ all \in Seq(Entry)
      /\ Len(all) = m + 1
      /\ \A i \in 1 .. m : all[i] = kept[i]
      /\ all[m + 1] = e
      /\ SeenAfter(k) \union {e.nonce} = {all[i].nonce : i \in 1 .. (m + 1)}
  <2> HIDE DEF kept, m
  <2>1. /\ all \in Seq(Entry)
        /\ Len(all) = m + 1
        /\ \A i \in 1 .. m : all[i] = kept[i]
        /\ all[m + 1] = e
    BY <1>1, <1>2
  <2>2. QED
    BY <2>1, <1>2, <1>3
<1>5. \A i, j \in 1 .. (m + 1) : all[i].nonce = all[j].nonce => i = j
  <2>1. \A i \in 1 .. m : all[i].nonce # e.nonce
    BY <1>3, <1>4
  <2>2. \A i, j \in 1 .. m : kept[i].nonce = kept[j].nonce => i = j
    BY <1>1, <1>2
  <2> HIDE DEF kept, m, all
  <2>3. QED
    BY <2>1, <2>2, <1>2, <1>4
<1>6. CASE Overflows(k)
  <2>1. /\ m = MaxEntries
        /\ Spill(k) = 1
        /\ Grown(k, e) = Tail(all)
        /\ SeenGrown(k, e) = (SeenAfter(k) \union {e.nonce}) \ {all[1].nonce}
    BY <1>1, <1>2, <1>4, <1>6 DEF Overflows, Spill, Grown, SeenGrown
  <2>2. /\ Tail(all) \in Seq(Entry)
        /\ Len(Tail(all)) = m
        /\ \A i \in 1 .. m : Tail(all)[i] = all[i + 1]
    <3> HIDE DEF all, m
    <3>1. QED BY <1>2, <1>4
  <2>3. SeenGrown(k, e) = {Tail(all)[i].nonce : i \in 1 .. m}
    <3> HIDE DEF all, m, kept
    <3>1. \A i \in 1 .. (m + 1) : i # 1 => i - 1 \in 1 .. m /\ Tail(all)[i - 1] = all[i]
      BY <1>2, <2>2
    <3>2. \A i \in 1 .. m : i + 1 \in 1 .. (m + 1) /\ all[i + 1].nonce # all[1].nonce
      BY <1>2, <1>5
    <3>3. QED BY <1>4, <2>1, <2>2, <3>1, <3>2
  <2>4. \A i \in 1 .. (m - 1) : Tail(all)[i] = order[k + 1 + i]
    <3>1. ASSUME NEW i \in 1 .. (m - 1)
          PROVE  /\ i + 1 \in 1 .. m
                 /\ i \in 1 .. m
                 /\ k + (i + 1) = k + 1 + i
      BY <1>1, <1>2
    <3> HIDE DEF all, kept, m
    <3>2. QED BY <3>1, <2>2, <1>4, <1>1, SMTT(30)
  <2>5. Tail(all)[m] = e
    <3> HIDE DEF all, kept, m
    <3>1. m \in 1 .. m
      BY <1>2, <2>1
    <3>2. QED BY <3>1, <2>2, <1>4
  <2>6. \A i, j \in 1 .. m : Tail(all)[i].nonce = Tail(all)[j].nonce => i = j
    <3> HIDE DEF all, kept, m
    <3>1. QED BY <1>2, <1>5, <2>2
  <2>7. /\ Len(order) - k = m
        /\ Len(order) - k + 1 - Spill(k) = m
        /\ Len(order) - k - Spill(k) = m - 1
        /\ k + Spill(k) = k + 1
    BY <1>1, <1>2, <2>1
  <2>8. QED
    <3> HIDE DEF all, kept, m
    <3>1. /\ Len(Grown(k, e)) = m
          /\ m <= MaxEntries
      BY <1>2, <2>1, <2>2
    <3>2. \A i \in 1 .. (m - 1) : Grown(k, e)[i] = order[k + Spill(k) + i]
      BY <2>1, <2>4, <2>7
    <3>3. /\ Grown(k, e) \in Seq(Entry)
          /\ Grown(k, e)[m] = e
          /\ SeenGrown(k, e) = {Grown(k, e)[i].nonce : i \in 1 .. m}
          /\ \A i, j \in 1 .. m : Grown(k, e)[i].nonce = Grown(k, e)[j].nonce => i = j
      <4>1. Grown(k, e) = Tail(all)
        BY <2>1
      <4>2. SeenGrown(k, e) = {Grown(k, e)[i].nonce : i \in 1 .. m}
        BY <4>1, <2>3
      <4>3. Grown(k, e) \in Seq(Entry) /\ Grown(k, e)[m] = e
        BY <4>1, <2>2, <2>5
      <4>4. \A i, j \in 1 .. m : Grown(k, e)[i].nonce = Grown(k, e)[j].nonce => i = j
        BY ONLY <4>1, <2>6
      <4>5. QED BY ONLY <4>2, <4>3, <4>4
    <3>4. QED BY <2>1, <2>7, <3>1, <3>2, <3>3
<1>7. CASE ~Overflows(k)
  <2>1. /\ m + 1 <= MaxEntries
        /\ Spill(k) = 0
        /\ Grown(k, e) = all
        /\ SeenGrown(k, e) = SeenAfter(k) \union {e.nonce}
    BY <1>1, <1>2, <1>7 DEF Overflows, Spill, Grown, SeenGrown
  <2>2. /\ Len(order) - k = m
        /\ Len(order) - k + 1 - Spill(k) = m + 1
        /\ Len(order) - k - Spill(k) = m
        /\ k + Spill(k) = k
    BY <1>1, <1>2, <2>1
  <2>3. QED
    <3> HIDE DEF all, kept, m
    <3>1. /\ Len(Grown(k, e)) = m + 1
          /\ m + 1 <= MaxEntries
      BY <1>4, <2>1
    <3>2. \A i \in 1 .. m : Grown(k, e)[i] = order[k + Spill(k) + i]
      BY <1>1, <1>4, <2>1, <2>2
    <3>3. /\ Grown(k, e) \in Seq(Entry)
          /\ Grown(k, e)[m + 1] = e
          /\ SeenGrown(k, e) = {Grown(k, e)[i].nonce : i \in 1 .. (m + 1)}
          /\ \A i, j \in 1 .. (m + 1) :
               Grown(k, e)[i].nonce = Grown(k, e)[j].nonce => i = j
      BY <1>4, <1>5, <2>1
    <3>4. QED BY <2>1, <2>2, <3>1, <3>2, <3>3
<1>8. QED
  BY <1>6, <1>7

-----------------------------------------------------------------------------

(* The invariant holds at the start.                                       *)
LEMMA InitInv == Init => IInv
<1> SUFFICES ASSUME Init PROVE IInv
  OBVIOUS
<1>1. TypeOK
  <2>1. last \in Verdict
    BY DEF Init, EnvInit, Verdict
  <2>2. log \in Seq(LogEntry) /\ order \in Seq(Entry) /\ seen \subseteq Nonces
    BY DEF Init, EnvInit
  <2>3. boot \in 0 .. MaxBoots
    BY ConstantTypes DEF Init, EnvInit
  <2>4. QED
    BY <2>1, <2>2, <2>3 DEF Init, EnvInit, TypeOK
<1>2. log = <<>> /\ order = <<>> /\ seen = {} /\ now = high /\ now \in Int
  BY ValueTypes, <1>1 DEF Init, EnvInit
<1>3. CacheAgrees
  BY <1>2, ConstantTypes DEF CacheAgrees
<1>4. CacheIsTail
  BY <1>2 DEF CacheIsTail, Dropped
<1>5. HistoryOK
  BY <1>2 DEF HistoryOK
<1>6. NonceReuse
  BY <1>2 DEF NonceReuse
<1>7. QED
  BY <1>1, <1>3, <1>4, <1>5, <1>6 DEF IInv

(* Whatever leaves the cache, the history and the boot alone preserves the *)
(* invariant as long as the high-water mark of the clock is kept up.       *)
LEMMA CacheUntouched ==
  ASSUME IInv, TypeOK', high <= high', now' <= high',
         UNCHANGED <<window, boot, log, order, seen>>
  PROVE  IInv'
<1>1. TypeOK
  BY DEF IInv
<1>2. high \in Int /\ high' \in Int /\ window \in Int
  BY <1>1, ValueTypes, ConstantTypes DEF TypeOK, Times
<1>3. CacheAgrees'
  BY DEF IInv, CacheAgrees
<1>4. CacheIsTail'
  <2>1. \A i \in 1 .. Dropped : LetGo(i) => LetGo(i)'
    <3> SUFFICES ASSUME NEW i \in 1 .. Dropped, LetGo(i) PROVE LetGo(i)'
      OBVIOUS
    <3>1. i \in 1 .. Len(log)
      BY <1>1, ValueTypes DEF IInv, CacheIsTail, Dropped
    <3>2. log[i].ts \in Int
      BY <1>1, <3>1, ValueTypes
    <3>3. QED
      BY <1>2, <3>2 DEF LetGo
  <2>2. QED
    BY <2>1 DEF IInv, CacheIsTail, Dropped
<1>5. HistoryOK'
  BY DEF IInv, HistoryOK
<1>6. NonceReuse'
  BY DEF IInv, NonceReuse
<1>7. QED
  BY <1>3, <1>4, <1>5, <1>6 DEF IInv

(* Every answer is a verdict.                                              *)
LEMMA VerdictType ==
  ASSUME NEW ts \in Stamps, NEW n \in Nonces, NEW ok \in BOOLEAN, Answer(ts, n, ok)
  PROVE  last' \in Verdict
BY DEF Answer, Verdict, Fresh

(* accept() that touches nothing: the guard is off, or the stamp is stale. *)
LEMMA AcceptDisabledInv ==
  ASSUME IInv, NEW ts \in Stamps, NEW n \in Nonces, AcceptDisabled(ts, n)
  PROVE  IInv'
<1>1. last' \in Verdict
  BY VerdictType DEF AcceptDisabled
<1>2. TypeOK'
  BY <1>1 DEF IInv, TypeOK, AcceptDisabled
<1>3. high \in Int /\ now <= high
  BY ValueTypes DEF IInv, HistoryOK
<1>4. QED
  BY <1>2, <1>3, CacheUntouched DEF AcceptDisabled

(* Refusing a stale stamp keeps the invariant.                             *)
LEMMA RejectStaleInv ==
  ASSUME IInv, NEW ts \in Stamps, NEW n \in Nonces, RejectStale(ts, n)
  PROVE  IInv'
<1>1. last' \in Verdict
  BY VerdictType DEF RejectStale
<1>2. TypeOK'
  BY <1>1 DEF IInv, TypeOK, RejectStale
<1>3. high \in Int /\ now <= high
  BY ValueTypes DEF IInv, HistoryOK
<1>4. QED
  BY <1>2, <1>3, CacheUntouched DEF RejectStale

(* The clock keeps the invariant: what was let go stays let go.            *)
LEMMA ClockStepInv == ASSUME IInv, ClockStep PROVE IInv'
<1>1. /\ TypeOK
      /\ now \in Int /\ high \in Int /\ now <= high
      /\ UNCHANGED <<window, boot, log, last, order, seen>>
  BY ValueTypes DEF IInv, HistoryOK, ClockStep, Tick, SetBack, Sync
<1>2. CASE Tick
  <2>1. now' \in Times /\ high' \in Times /\ high <= high' /\ now' <= high'
    BY <1>1, <1>2, ConstantTypes DEF Tick, TypeOK, Times
  <2>2. TypeOK'
    BY <1>1, <1>2, <2>1 DEF Tick, TypeOK
  <2>3. QED
    BY <1>1, <2>1, <2>2, CacheUntouched
<1>3. CASE SetBack
  <2>1. now' \in Times /\ high' = high /\ now' <= high'
    BY <1>1, <1>3, EnvAssumption, ConstantTypes DEF SetBack, TypeOK, Times
  <2>2. TypeOK'
    BY <1>1, <1>3, <2>1 DEF SetBack, TypeOK
  <2>3. QED
    BY <1>1, <2>1, <2>2, CacheUntouched
<1>4. CASE Sync
  <2>1. TypeOK' /\ high' = high /\ now' = now
    BY <1>1, <1>4 DEF Sync, TypeOK
  <2>2. QED
    BY <1>1, <2>1, CacheUntouched
<1>5. QED
  BY <1>2, <1>3, <1>4 DEF ClockStep

(* A reboot empties the cache; every record is then from an earlier boot.  *)
LEMMA RebootInv == ASSUME IInv, Reboot PROVE IInv'
<1>1. /\ TypeOK
      /\ boot' = boot + 1 /\ high' = now
      /\ order' = <<>> /\ seen' = {}
      /\ UNCHANGED <<now, window, log, last>>
  BY DEF IInv, Reboot, Restart
<1>2. TypeOK'
  <2>1. order' \in Seq(Entry) /\ seen' \subseteq Nonces
    BY <1>1
  <2>2. boot' \in 0 .. MaxBoots
    BY <1>1, ConstantTypes DEF TypeOK, Reboot, Restart
  <2>3. QED
    BY <1>1, <2>1, <2>2 DEF TypeOK, Reboot, Restart
<1>3. CacheAgrees'
  BY <1>1, ConstantTypes DEF CacheAgrees
<1>4. HistoryOK'
  <2>1. TypeOK /\ HistoryOK
    BY DEF IInv
  <2>2. \A i \in DOMAIN log : log[i].boot <= boot + 1 /\ log[i].at <= log[i].ts + window
    BY <2>1, ValueTypes DEF HistoryOK
  <2>3. now <= now
    BY <2>1, ValueTypes
  <2>4. QED
    BY <1>1, <2>2, <2>3 DEF HistoryOK
<1>5. CacheIsTail'
  <2>1. Len(log) \in Nat
    BY <1>1, ValueTypes
  <2>2. \A i \in 1 .. Len(log) : log[i].boot < boot + 1
    BY <1>1, ValueTypes DEF IInv, HistoryOK
  <2>3. QED
    BY <1>1, <2>1, <2>2 DEF CacheIsTail, Dropped, LetGo
<1>6. NonceReuse'
  BY <1>1 DEF IInv, NonceReuse
<1>7. QED
  BY <1>2, <1>3, <1>4, <1>5, <1>6 DEF IInv

(* A pruned entry is let go because its window is over, and what was let   *)
(* go before stays so.                                                     *)
LEMMA PrunedLetGo ==
  ASSUME IInv, NEW k \in PruneCounts, NEW i \in 1 .. (Dropped + k)
  PROVE  LetGo(i) /\ i \in 1 .. Len(log)
<1>1. /\ TypeOK /\ CacheAgrees /\ CacheIsTail /\ HistoryOK
  BY DEF IInv
<1>2. /\ k \in 0 .. Len(order)
      /\ \A q \in 1 .. k : order[q].ts + window < now
  BY <1>1, PruneProperties
<1>3. /\ Dropped = Len(log) - Len(order)
      /\ Dropped \in Nat
      /\ Len(order) \in Nat /\ Len(log) \in Nat
  BY <1>1, ValueTypes DEF CacheIsTail, Dropped
<1>4. i \in 1 .. Len(log)
  BY <1>2, <1>3
<1>5. CASE i <= Dropped
  BY <1>1, <1>3, <1>4, <1>5 DEF CacheIsTail
<1>6. CASE i > Dropped
  <2>1. i - Dropped \in 1 .. k /\ i - Dropped \in 1 .. Len(order)
    BY <1>2, <1>3, <1>6
  <2>2. order[i - Dropped].ts = log[Dropped + (i - Dropped)].ts
    BY <1>1, <2>1, ValueTypes DEF CacheIsTail
  <2>3. Dropped + (i - Dropped) = i
    BY <1>3, <1>4
  <2>4. log[i].ts + window < now
    BY <1>2, <2>1, <2>2, <2>3
  <2>5. log[i].ts \in Int /\ now <= high /\ now \in Int /\ high \in Int /\ window \in Int
    BY <1>1, <1>4, ValueTypes DEF HistoryOK
  <2>6. QED
    BY <1>4, <2>4, <2>5 DEF LetGo
<1>7. QED
  BY <1>3, <1>4, <1>5, <1>6

(* Refusing a known nonce keeps the invariant, though it prunes.           *)
LEMMA RejectSeenInv ==
  ASSUME IInv, NEW ts \in Stamps, NEW n \in Nonces, RejectSeen(ts, n)
  PROVE  IInv'
<1> PICK k \in PruneCounts : order' = Kept(k) /\ seen' = SeenAfter(k)
  BY DEF RejectSeen
<1>1. /\ TypeOK /\ CacheAgrees /\ CacheIsTail /\ HistoryOK /\ NonceReuse
      /\ UNCHANGED <<now, synced, window, boot, high, log>>
      /\ last' \in Verdict
  BY VerdictType DEF IInv, RejectSeen
<1>2. /\ k \in 0 .. Len(order)
      /\ order' \in Seq(Entry)
      /\ Len(order') = Len(order) - k
      /\ \A i \in 1 .. (Len(order) - k) : order'[i] = order[k + i]
      /\ seen' = {order[i].nonce : i \in (k + 1) .. Len(order)}
  BY <1>1, PruneProperties
<1>3. /\ Len(order) \in Nat /\ Len(log) \in Nat
      /\ DOMAIN order = 1 .. Len(order)
      /\ DOMAIN order' = 1 .. (Len(order) - k)
      /\ Len(order) <= MaxEntries /\ MaxEntries \in Nat
      /\ Len(order) <= Len(log)
  BY <1>1, <1>2, ValueTypes, ConstantTypes DEF CacheAgrees, CacheIsTail
<1>4. \A i \in 1 .. (Len(order) - k) : k + i \in 1 .. Len(order)
  BY <1>2, <1>3
<1>5. TypeOK'
  <2>1. seen' \subseteq Nonces
    BY <1>1 DEF TypeOK, SeenAfter
  <2>2. QED
    BY <1>1, <1>2, <2>1 DEF TypeOK
<1>6. CacheAgrees'
  <2>1. Len(order') <= MaxEntries
    BY <1>2, <1>3
  <2>2. \A i, j \in DOMAIN order' : order'[i].nonce = order'[j].nonce => i = j
    BY <1>1, <1>2, <1>3, <1>4 DEF CacheAgrees
  <2>3. seen' = {order'[i].nonce : i \in DOMAIN order'}
    <3>1. \A q \in (k + 1) .. Len(order) : q - k \in 1 .. (Len(order) - k) /\ k + (q - k) = q
      BY <1>2, <1>3
    <3>2. \A i \in 1 .. (Len(order) - k) : k + i \in (k + 1) .. Len(order)
      BY <1>2, <1>3
    <3>3. \A q \in (k + 1) .. Len(order) : order'[q - k] = order[q]
      BY <1>2, <3>1
    <3>4. \A i \in 1 .. (Len(order) - k) : order'[i] = order[k + i]
      BY <1>2
    <3>5. {order[q].nonce : q \in (k + 1) .. Len(order)}
            = {order'[i].nonce : i \in 1 .. (Len(order) - k)}
      BY ONLY <3>1, <3>2, <3>3, <3>4
    <3>6. QED
      BY <1>2, <1>3, <3>5
  <2>4. QED
    BY <2>1, <2>2, <2>3 DEF CacheAgrees
<1>7. CacheIsTail'
  <2>1. Dropped' = Dropped + k /\ Dropped \in Nat
    BY <1>1, <1>2, <1>3 DEF Dropped
  <2>2. ASSUME NEW i \in DOMAIN order'
        PROVE  /\ order'[i] = [ts |-> log[Dropped' + i].ts, nonce |-> log[Dropped' + i].nonce]
               /\ log[Dropped' + i].boot = boot
    <3>1. k + i \in DOMAIN order /\ order'[i] = order[k + i]
      BY <1>2, <1>3, <1>4
    <3>2. Dropped + (k + i) = Dropped' + i
      BY <1>2, <1>3, <2>1
    <3>3. QED
      BY <1>1, <3>1, <3>2 DEF CacheIsTail
  <2>3. ASSUME NEW i \in 1 .. Dropped' PROVE LetGo(i)'
    <3>1. LetGo(i)
      BY <2>1, PrunedLetGo
    <3>2. QED
      BY <1>1, <3>1 DEF LetGo
  <2>4. QED
    BY <1>1, <1>2, <1>3, <2>2, <2>3 DEF CacheIsTail
<1>8. HistoryOK' /\ NonceReuse'
  BY <1>1 DEF HistoryOK, NonceReuse
<1>9. QED
  BY <1>5, <1>6, <1>7, <1>8 DEF IInv

(* The interesting step. The record of a nonce that is in the history but  *)
(* not in the cache was let go, for one of the reasons NonceReuse allows.  *)
LEMMA AcceptNewInv ==
  ASSUME IInv, NEW ts \in Stamps, NEW n \in Nonces, AcceptNew(ts, n)
  PROVE  IInv'
<1> DEFINE e == [ts |-> ts, nonce |-> n]
           r == [ts |-> ts, nonce |-> n, at |-> now, high |-> high, boot |-> boot]
<1> PICK k \in PruneCounts :
      n \notin SeenAfter(k) /\ order' = Grown(k, e) /\ seen' = SeenGrown(k, e)
  BY DEF AcceptNew
<1>1. /\ TypeOK /\ CacheAgrees /\ CacheIsTail /\ HistoryOK /\ NonceReuse
      /\ UNCHANGED <<now, synced, window, boot, high>>
      /\ last' \in Verdict
      /\ log' = Append(log, r)
      /\ Fresh(ts)
  BY VerdictType DEF IInv, AcceptNew, Remember
<1>2. e \in Entry /\ e.nonce = n /\ r \in LogEntry
  BY <1>1 DEF Entry, LogEntry, TypeOK
<1>3. /\ k \in 0 .. Len(order)
      /\ SeenAfter(k) = {order[i].nonce : i \in (k + 1) .. Len(order)}
  BY <1>1, PruneProperties
<1> DEFINE o == Spill(k)
           m == Len(order) - k + 1 - o
<1>4. /\ order' \in Seq(Entry)
      /\ Len(order') = m
      /\ m <= MaxEntries
      /\ \A i \in 1 .. (Len(order) - k - o) : order'[i] = order[k + o + i]
      /\ order'[m] = e
      /\ o = 1 => Len(order) - k = MaxEntries
      /\ seen' = {order'[i].nonce : i \in 1 .. m}
      /\ \A i, j \in 1 .. m : order'[i].nonce = order'[j].nonce => i = j
  BY <1>1, <1>2, GrowProperties
<1>5. /\ log' \in Seq(LogEntry)
      /\ Len(log') = Len(log) + 1
      /\ DOMAIN log' = 1 .. (Len(log) + 1)
      /\ \A i \in 1 .. Len(log) : log'[i] = log[i]
      /\ log'[Len(log) + 1] = r
  <2> HIDE DEF r
  <2>1. QED BY <1>1, <1>2, ValueTypes
<1>6. /\ Len(order) \in Nat /\ Len(log) \in Nat
      /\ DOMAIN order = 1 .. Len(order)
      /\ DOMAIN log = 1 .. Len(log)
      /\ Len(order) <= Len(log)
      /\ MaxEntries \in Nat
      /\ Dropped = Len(log) - Len(order)
      /\ o \in {0, 1}
  BY <1>1, ValueTypes, ConstantTypes DEF CacheIsTail, Dropped, Spill
<1>7. m \in Nat /\ DOMAIN order' = 1 .. m
  BY <1>4
<1>8. TypeOK'
  <2>1. seen' \subseteq Nonces
    <3>1. \A i \in 1 .. m : order'[i] \in Entry
      BY <1>4, <1>7
    <3>2. QED
      BY <1>4, <3>1 DEF Entry
  <2>2. QED
    BY <1>1, <1>4, <1>5, <2>1 DEF TypeOK
<1>9. CacheAgrees'
  <2> HIDE DEF m, o, e, r
  <2>1. QED BY <1>4, <1>7 DEF CacheAgrees
<1>10. Dropped' = Dropped + k + o /\ Dropped \in Nat /\ k \in Nat /\ o \in Nat
  <2>1. Dropped' = Len(log') - Len(order')
    BY DEF Dropped
  <2>2. Len(order') = Len(order) - k + 1 - o
    BY <1>4
  <2>3. Len(log') = Len(log) + 1
    BY <1>5
  <2>4. Dropped = Len(log) - Len(order) /\ Len(order) <= Len(log)
    BY <1>6
  <2> HIDE DEF o
  <2>5. QED BY <1>3, <1>6, <2>1, <2>2, <2>3, <2>4
<1>11. CacheIsTail'
  <2>1. Len(order') <= Len(log')
    BY <1>3, <1>4, <1>5, <1>6
  <2>2. ASSUME NEW i \in DOMAIN order'
        PROVE  /\ order'[i] = [ts |-> log'[Dropped' + i].ts, nonce |-> log'[Dropped' + i].nonce]
               /\ log'[Dropped' + i].boot = boot
    <3>1. CASE i = m
      <4>1. Dropped' + i = Len(log) + 1
        BY <1>3, <1>6, <1>10, <3>1
      <4>2. QED
        BY <1>4, <1>5, <3>1, <4>1
    <3>2. CASE i # m
      <4>1. /\ i \in 1 .. (Len(order) - k - o)
            /\ k + o + i \in DOMAIN order
            /\ Dropped + (k + o + i) = Dropped' + i
            /\ Dropped' + i \in 1 .. Len(log)
        <5>1. i \in 1 .. (Len(order) - k + 1 - o) /\ i # Len(order) - k + 1 - o
          BY <1>7, <3>2
        <5>2. /\ k \in Nat /\ o \in Nat /\ Len(order) \in Nat /\ Len(log) \in Nat
              /\ Dropped = Len(log) - Len(order)
              /\ Dropped' = Dropped + k + o
          BY <1>6, <1>10
        <5> HIDE DEF o, m, e, r
        <5>3. QED BY ONLY <1>6, <5>1, <5>2
      <4>2. order'[i] = order[k + o + i]
        BY <1>4, <4>1
      <4>3. log'[Dropped' + i] = log[Dropped' + i]
        BY <1>5, <4>1
      <4>4. /\ order[k + o + i]
                 = [ts |-> log[Dropped' + i].ts, nonce |-> log[Dropped' + i].nonce]
            /\ log[Dropped' + i].boot = boot
        BY <1>1, <4>1 DEF CacheIsTail
      <4>5. QED
        BY <4>2, <4>3, <4>4
    <3>3. QED
      BY <3>1, <3>2
  <2>3. ASSUME NEW i \in 1 .. Dropped' PROVE LetGo(i)'
    <3>1. CASE i <= Dropped + k
      <4>1. LetGo(i) /\ i \in 1 .. Len(log)
        BY <1>3, <1>6, <1>10, <3>1, PrunedLetGo
      <4>2. log'[i] = log[i]
        BY <1>5, <4>1
      <4>3. QED
        BY <1>1, <1>5, <1>6, <4>1, <4>2 DEF LetGo
    <3>2. CASE i > Dropped + k
      <4>1. o = 1 /\ i + MaxEntries <= Len(log')
        <5>1. /\ o = 1 => Len(order) - k = MaxEntries
              /\ Len(log') = Len(log) + 1
          BY <1>4, <1>5
        <5>2. /\ k \in Nat /\ o \in {0, 1} /\ Len(order) \in Nat /\ Len(log) \in Nat
              /\ Dropped = Len(log) - Len(order)
              /\ Dropped' = Dropped + k + o
              /\ i \in 1 .. Dropped' /\ i > Dropped + k /\ i \in Int
              /\ MaxEntries \in Nat
          BY <1>6, <1>10, <3>2
        <5> HIDE DEF o, m, e, r
        <5>3. o = 1
          BY ONLY <5>2
        <5>4. i = Len(log) - Len(order) + k + 1
          BY ONLY <5>2, <5>3
        <5>5. MaxEntries = Len(order) - k /\ Len(log') = Len(log) + 1
          BY ONLY <5>1, <5>3
        <5>6. QED BY ONLY <5>2, <5>3, <5>4, <5>5
      <4>2. QED
        BY <4>1 DEF LetGo
    <3>3. QED
      BY <1>3, <1>6, <1>10, <3>1, <3>2
  <2>4. QED
    BY <1>1, <2>1, <2>2, <2>3 DEF CacheIsTail
<1>12. HistoryOK'
  <2>1. r.at <= r.ts + window /\ r.boot <= boot
    BY <1>1, ValueTypes, ConstantTypes DEF Fresh, Stamps
  <2>2. \A i \in 1 .. Len(log) : log[i].boot <= boot /\ log[i].at <= log[i].ts + window
    BY <1>1, <1>6 DEF HistoryOK
  <2>3. \A i \in 1 .. (Len(log) + 1) : i \in 1 .. Len(log) \/ i = Len(log) + 1
    BY <1>6
  <2> HIDE DEF r
  <2>4. QED
    BY <1>1, <1>5, <2>1, <2>2, <2>3 DEF HistoryOK
<1>13. NonceReuse'
  <2> SUFFICES ASSUME NEW i \in DOMAIN log', NEW j \in DOMAIN log', i < j,
                      log'[i].nonce = log'[j].nonce, log'[i].boot = log'[j].boot
               PROVE  j - i >= MaxEntries \/ log'[j].high > log'[i].ts + window
    BY <1>1 DEF NonceReuse
  <2>1. i \in 1 .. Len(log) /\ log'[i] = log[i]
    BY <1>5, <1>6
  <2>2. CASE j \in 1 .. Len(log)
    BY <1>1, <1>5, <1>6, <2>1, <2>2 DEF NonceReuse
  <2>3. CASE j = Len(log) + 1
    <3>1. log[i].nonce = n /\ log[i].boot = boot /\ log'[j].high = high
      BY <1>5, <2>1, <2>3
    <3>2. i <= Dropped + k
      <4> SUFFICES ASSUME i > Dropped + k PROVE FALSE
        BY <1>10, <2>1
      <4>1. i - Dropped \in (k + 1) .. Len(order) /\ i - Dropped \in DOMAIN order
        BY <1>3, <1>6, <2>1
      <4>2. Dropped + (i - Dropped) = i
        BY <1>6, <2>1
      <4>3. order[i - Dropped].nonce = n
        BY <1>1, <3>1, <4>1, <4>2 DEF CacheIsTail
      <4>4. QED
        BY <1>3, <4>1, <4>3
    <3>3. LetGo(i)
      BY <1>3, <1>6, <2>1, <3>2, PrunedLetGo
    <3>4. boot \in Int
      BY <1>1, ValueTypes
    <3>5. QED
      BY <1>6, <2>1, <2>3, <3>1, <3>3, <3>4 DEF LetGo
  <2>4. QED
    BY <1>5, <1>6, <2>2, <2>3
<1>14. QED
  BY <1>8, <1>9, <1>11, <1>12, <1>13 DEF IInv

-----------------------------------------------------------------------------

(* Every step keeps the invariant.                                         *)
LEMMA NextInv == IInv /\ [Next]_vars => IInv'
<1> SUFFICES ASSUME IInv, [Next]_vars PROVE IInv'
  OBVIOUS
<1>1. CASE \E ts \in Stamps, n \in Nonces : Accept(ts, n)
  <2> PICK ts \in Stamps, n \in Nonces : Accept(ts, n)
    BY <1>1
  <2>1. CASE AcceptDisabled(ts, n)
    BY <2>1, AcceptDisabledInv
  <2>2. CASE RejectStale(ts, n)
    BY <2>2, RejectStaleInv
  <2>3. CASE RejectSeen(ts, n)
    BY <2>3, RejectSeenInv
  <2>4. CASE AcceptNew(ts, n)
    BY <2>4, AcceptNewInv
  <2>5. QED
    BY <2>1, <2>2, <2>3, <2>4 DEF Accept
<1>2. CASE ClockStep
  BY <1>2, ClockStepInv
<1>3. CASE Reboot
  BY <1>3, RebootInv
<1>4. CASE UNCHANGED vars
  <2>1. TypeOK' /\ high \in Int /\ now <= high
    BY <1>4, ValueTypes DEF vars, IInv, TypeOK, HistoryOK
  <2>2. QED
    BY <1>4, <2>1, CacheUntouched DEF vars
<1>5. QED
  BY <1>1, <1>2, <1>3, <1>4 DEF Next

(* The invariant holds in every reachable state.                           *)
LEMMA Invariance == Spec => []IInv
BY InitInv, NextInv, PTL DEF Spec

(* Every variable of the guard and its environment keeps its type          *)
(* (reference.py:436-475).                                                 *)
THEOREM TypeCorrect == Spec => []TypeOK
<1>1. IInv => TypeOK
  BY DEF IInv
<1>2. QED
  BY <1>1, Invariance, PTL

(* The deque and the dict never disagree and never exceed the capacity,    *)
(* and what they no longer hold was let go for a reason                    *)
(* (reference.py:464-475).                                                 *)
THEOREM CacheCorrect == Spec => [](CacheAgrees /\ CacheIsTail)
<1>1. IInv => CacheAgrees /\ CacheIsTail
  BY DEF IInv
<1>2. QED
  BY <1>1, Invariance, PTL

(* accept() takes a nonce again only when it had to forget it              *)
(* (reference.py:461-469).                                                 *)
THEOREM NonceReuseSafe == Spec => []NonceReuse
<1>1. IInv => NonceReuse
  BY DEF IInv
<1>2. QED
  BY <1>1, Invariance, PTL

(* A datagram is accepted at most once within a boot unless the cache      *)
(* overflowed or the clock was set back in between (reference.py:442-469). *)
THEOREM AcceptedAtMostOnce == Spec => []AtMostOnce
<1>1. ASSUME IInv PROVE AtMostOnce
  <2> SUFFICES ASSUME NEW i \in DOMAIN log, NEW j \in DOMAIN log, i < j,
                      log[i].nonce = log[j].nonce, log[i].ts = log[j].ts,
                      log[i].boot = log[j].boot
               PROVE  j - i >= MaxEntries \/ log[j].at < log[j].high
    BY DEF AtMostOnce
  <2>1. j - i >= MaxEntries \/ log[j].high > log[i].ts + window
    BY <1>1 DEF IInv, NonceReuse
  <2>2. log[j].at <= log[j].ts + window
    BY <1>1 DEF IInv, HistoryOK
  <2>3. /\ window \in Int
        /\ log[j].ts \in Int /\ log[j].at \in Int /\ log[j].high \in Int
    BY <1>1, ValueTypes DEF IInv
  <2>4. QED
    BY <2>1, <2>2, <2>3
<1>2. QED
  BY <1>1, Invariance, PTL

(* A fresh datagram is refused only for a nonce among the latest           *)
(* MaxEntries records of this boot (reference.py:461-463).                 *)
THEOREM NoPublicationLost == Spec => NoFalseDrop
<1>1. ASSUME IInv, [Next]_vars PROVE [last' # last => NoFalseDropStep]_vars
  <2> SUFFICES ASSUME Next, last'.fresh, ~last'.ok, last' # last
               PROVE  \E i \in DOMAIN log : RefusedFor(last', i)
    BY <1>1 DEF NoFalseDropStep
  <2>1. \E ts \in Stamps, n \in Nonces : Accept(ts, n)
    BY DEF Next, ClockStep, Tick, SetBack, Sync, Reboot, Restart
  <2> PICK ts \in Stamps, n \in Nonces : Accept(ts, n)
    BY <2>1
  <2>2. RejectSeen(ts, n)
    BY DEF Accept, AcceptDisabled, RejectStale, AcceptNew, Answer
  <2> PICK k \in PruneCounts : n \in SeenAfter(k)
    BY <2>2 DEF RejectSeen
  <2>3. TypeOK /\ CacheAgrees /\ CacheIsTail
    BY <1>1 DEF IInv
  <2>4. /\ k \in 0 .. Len(order)
        /\ SeenAfter(k) = {order[i].nonce : i \in (k + 1) .. Len(order)}
    BY <2>3, PruneProperties
  <2> PICK i \in (k + 1) .. Len(order) : order[i].nonce = n
    BY <2>4
  <2>5. /\ Len(order) \in Nat /\ Len(log) \in Nat /\ MaxEntries \in Nat
        /\ DOMAIN order = 1 .. Len(order) /\ DOMAIN log = 1 .. Len(log)
        /\ Len(order) <= MaxEntries /\ Len(order) <= Len(log)
        /\ Dropped = Len(log) - Len(order)
    BY <2>3, ValueTypes, ConstantTypes DEF CacheAgrees, CacheIsTail, Dropped
  <2>6. i \in DOMAIN order /\ Dropped + i \in DOMAIN log /\ Dropped + i > Len(log) - MaxEntries
    BY <2>4, <2>5
  <2>7. log[Dropped + i].nonce = n /\ log[Dropped + i].boot = boot
    BY <2>3, <2>6 DEF CacheIsTail
  <2>8. last'.nonce = n
    BY <2>2 DEF RejectSeen, Answer
  <2>9. QED
    BY <2>6, <2>7, <2>8 DEF RefusedFor
<1>2. QED
  BY <1>1, Invariance, PTL DEF Spec, NoFalseDrop

=============================================================================
