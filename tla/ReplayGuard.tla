---------------------------- MODULE ReplayGuard ----------------------------
(***************************************************************************)
(* The Python reference ReplayGuard: a freshness window plus a bounded     *)
(* cache of nonces, kept as a deque in arrival order and a dict for the    *)
(* membership test. It is the specification the C++ ring (ReplayRing) and  *)
(* the Go guard (ReplayGo) are shown to implement.                         *)
(***************************************************************************)
EXTENDS ReplayEnv

VARIABLES
  order,  (* _order: (nonce, stamp) pairs in arrival order *)
  seen    (* _seen: the keys of the dict                   *)

vars == <<now, synced, window, boot, high, log, last, order, seen>>

-----------------------------------------------------------------------------
(* An operator whose name says what it gets wrong, like ExpiredAtTheEdge,  *)
(* is a faulty form of the operator below it. No specification uses it: it *)
(* is there to be put in that operator's place, which must break a         *)
(* property.                                                               *)

Init ==
  /\ EnvInit
  /\ order = <<>>
  /\ seen = {}

ExpiredAtTheEdge(e) == e.ts <= now - window

Expired(e) == e.ts < now - window

(* _prune pops from the left while the leftmost entry is expired: the     *)
(* numbers of entries it may pop, of which there is exactly one.           *)
PruneCounts ==
  {k \in 0 .. Len(order) :
     /\ \A i \in 1 .. k : Expired(order[i])
     /\ k < Len(order) => ~Expired(order[k + 1])}

Kept(k) == SubSeq(order, k + 1, Len(order))

SeenUnpruned(k) == seen

SeenAfter(k) == seen \ {order[i].nonce : i \in 1 .. k}

(* The dict and the deque after a new entry e joined the kept ones: over   *)
(* max_entries the leftmost pair leaves both.                              *)
Overflows(k) == Len(Kept(k)) + 1 > MaxEntries

GrownDropsNewest(k, e) == IF Overflows(k) THEN Kept(k) ELSE Append(Kept(k), e)

Grown(k, e) ==
  LET grown == Append(Kept(k), e)
  IN IF Overflows(k) THEN Tail(grown) ELSE grown

SeenKeyedByStamp(k, e) == SeenAfter(k) \union {e.ts}

SeenNeverShrinks(k, e) == SeenAfter(k) \union {e.nonce}

SeenGrown(k, e) ==
  LET oldest == Head(Append(Kept(k), e)).nonce
      all    == SeenAfter(k) \union {e.nonce}
  IN IF Overflows(k) THEN all \ {oldest} ELSE all

-----------------------------------------------------------------------------
(* The ways out of accept(). *)

AcceptDisabled(ts, n) ==
  /\ window = 0
  /\ Answer(ts, n, TRUE)
  /\ UNCHANGED <<now, synced, window, boot, high, log, order, seen>>

RejectStale(ts, n) ==
  /\ window # 0
  /\ ~Fresh(ts)
  /\ Answer(ts, n, FALSE)
  /\ UNCHANGED <<now, synced, window, boot, high, log, order, seen>>

RejectSeen(ts, n) ==
  /\ window # 0
  /\ Fresh(ts)
  /\ \E k \in PruneCounts :
       /\ n \in SeenAfter(k)
       /\ order' = Kept(k)
       /\ seen' = SeenAfter(k)
  /\ Answer(ts, n, FALSE)
  /\ UNCHANGED <<now, synced, window, boot, high, log>>

AcceptNew(ts, n) ==
  /\ window # 0
  /\ Fresh(ts)
  /\ \E k \in PruneCounts :
       /\ n \notin SeenAfter(k)
       /\ order' = Grown(k, [ts |-> ts, nonce |-> n])
       /\ seen' = SeenGrown(k, [ts |-> ts, nonce |-> n])
  /\ Remember(ts, n)
  /\ Answer(ts, n, TRUE)
  /\ UNCHANGED <<now, synced, window, boot, high>>

Accept(ts, n) ==
  \/ AcceptDisabled(ts, n)
  \/ RejectStale(ts, n)
  \/ RejectSeen(ts, n)
  \/ AcceptNew(ts, n)

(* The cache lives in RAM only. *)
Reboot ==
  /\ Restart
  /\ order' = <<>>
  /\ seen' = {}

ClockStep == (Tick \/ SetBack \/ Sync) /\ UNCHANGED <<order, seen>>

Next ==
  \/ \E ts \in Stamps, n \in Nonces : Accept(ts, n)
  \/ ClockStep
  \/ Reboot

Spec == Init /\ [][Next]_vars

-----------------------------------------------------------------------------
(* Type invariant. *)
TypeOK ==
  /\ now \in Times
  /\ high \in Times
  /\ synced \in BOOLEAN
  /\ window \in Windows
  /\ boot \in 0 .. MaxBoots
  /\ log \in Seq(LogEntry)
  /\ last \in Verdict
  /\ order \in Seq(Entry)
  /\ seen \subseteq Nonces

(* The dict and the deque describe the same bounded cache, and no nonce is *)
(* in the deque twice. Pruning and overflow update the two separately; a   *)
(* nonce left in the dict alone would be refused for ever.                 *)
CacheAgrees ==
  /\ Len(order) <= MaxEntries
  /\ seen = {order[i].nonce : i \in DOMAIN order}
  /\ \A i, j \in DOMAIN order : order[i].nonce = order[j].nonce => i = j

(* The cache is the tail of the history of records, so what it no longer   *)
(* holds was let go for one of three reasons: MaxEntries newer records, a  *)
(* reboot, or a clock that passed the end of the record's window.          *)
Dropped == Len(log) - Len(order)

LetGo(i) ==
  \/ i + MaxEntries <= Len(log)
  \/ log[i].boot < boot
  \/ high > log[i].ts + window

CacheIsTail ==
  /\ Len(order) <= Len(log)
  /\ \A i \in DOMAIN order :
       /\ order[i] = [ts |-> log[Dropped + i].ts, nonce |-> log[Dropped + i].nonce]
       /\ log[Dropped + i].boot = boot
  /\ \A i \in 1 .. Dropped : LetGo(i)

(* accept() records a nonce a second time within one boot only if it had   *)
(* to forget it: MaxEntries records were made since, or the clock once     *)
(* ran past the end of the first record's window.                          *)
NonceReuse ==
  \A i, j \in DOMAIN log :
    /\ i < j
    /\ log[i].nonce = log[j].nonce
    /\ log[i].boot = log[j].boot
    => \/ j - i >= MaxEntries
       \/ log[j].high > log[i].ts + window

(* At-most-once acceptance, the promise of the guard: a datagram that is   *)
(* duplicated, retransmitted or delayed is accepted a second time within   *)
(* one boot only if the cache overflowed in between or the clock had been  *)
(* set back.                                                               *)
AtMostOnce ==
  \A i, j \in DOMAIN log :
    /\ i < j
    /\ log[i].nonce = log[j].nonce
    /\ log[i].ts = log[j].ts
    /\ log[i].boot = log[j].boot
    => \/ j - i >= MaxEntries
       \/ log[j].at < log[j].high

(* The guard never loses a publication of its own accord: a fresh datagram *)
(* is refused only when one of the latest MaxEntries records, made since   *)
(* the boot, has its nonce.                                                *)
RefusedFor(v, i) ==
  /\ log[i].nonce = v.nonce
  /\ log[i].boot = boot
  /\ i > Len(log) - MaxEntries

NoFalseDropStep ==
  last'.fresh /\ ~last'.ok => \E i \in DOMAIN log : RefusedFor(last', i)

NoFalseDrop == [][last' # last => NoFalseDropStep]_vars

=============================================================================
