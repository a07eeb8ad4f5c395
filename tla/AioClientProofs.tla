---------------------------- MODULE AioClientProofs ----------------------------
(***************************************************************************)
(* The safety of the asyncio client, for any topics, CRC function,         *)
(* configuration and number of calls. Four inductive invariants carry it,  *)
(* each about the state that one group of handlers shares:                 *)
(*   GroupsInv    the sockets and groups of start(), stop(), subscribe()   *)
(*                and unsubscribe;                                         *)
(*   TimersInv    the handles of publish(), the timers and stop();         *)
(*   TablesInv    the lists of callbacks and the CRC index;                *)
(*   HandlingInv  what is left of the datagram being handled, on top of    *)
(*                TablesInv.                                               *)
(***************************************************************************)
EXTENDS AioClient, FiniteSetTheorems, SequenceTheorems, TLAPS

LEMMA MaxStartsType == MaxStarts \in Nat
  BY AioClientAssumption DEF AioClientAssumption

(* A socket that no start() made yet is in no group.                       *)
GroupsInv ==
  /\ sock \in 0 .. MaxStarts
  /\ phase \in [Sockets -> {"unused", "opening", "reading", "started", "closed"}]
  /\ joined \in [Sockets -> SUBSET Topics]
  /\ sock # 0 => phase[sock] # "unused"
  /\ \A s \in Sockets : phase[s] = "unused" => joined[s] = {}
  /\ GroupsFollowSubs

LEMMA NoTopics == DOMAIN << >> = {}
  OBVIOUS

LEMMA GroupsInit == Init => GroupsInv
  BY MaxStartsType DEF Init, GroupsInv, GroupsFollowSubs, Sockets

LEMMA SubscribeKeepsGroups ==
  ASSUME GroupsInv, NEW s \in Subscribers, NEW t \in Topics, Subscribe(s, t)
  PROVE  GroupsInv'
<1> USE DEF GroupsInv, GroupsFollowSubs, Sockets
<1>0. UNCHANGED <<sock, phase>>
      BY DEF Subscribe, sockets
<1>1. CASE SubscribeMore(s, t)
  <2>1. DOMAIN subs' = DOMAIN subs /\ subs # << >>
        BY <1>1, NoTopics DEF SubscribeMore
  <2> QED
      BY <1>0, <1>1, <2>1 DEF SubscribeMore
<1>2. CASE Join(s, t)
  <2>1. DOMAIN subs' = DOMAIN subs \union {t}
        BY <1>2 DEF Join, With
  <2>2. sock \in Sockets /\ joined' = [joined EXCEPT ![sock] = @ \union {t}]
        BY <1>2 DEF Join
  <2>3. lost' = lost /\ t \notin lost
        BY <1>2 DEF Join
  <2> QED
      BY <1>0, <2>1, <2>2, <2>3
<1> QED
    BY <1>1, <1>2 DEF Subscribe

LEMMA UnsubscribedKeepsGroups ==
  ASSUME GroupsInv, NEW s, Unsubscribed(s), UNCHANGED <<sock, phase>>
  PROVE  GroupsInv'
<1> USE DEF GroupsInv, GroupsFollowSubs, Sockets
<1>1. CASE LeaveTopic(s)
  <2>1. DOMAIN subs' = DOMAIN subs /\ subs # << >>
        BY <1>1, NoTopics DEF LeaveTopic, Listens
  <2> QED
      BY <1>1, <2>1 DEF LeaveTopic
<1>2. CASE LeaveTopicLast(s)
  <2>1. DOMAIN subs' = DOMAIN subs \ {made[s]} /\ subs # << >>
        BY <1>2, NoTopics DEF LeaveTopicLast, Listens, Without
  <2>2. sock # 0
        BY <2>1
  <2>3. joined' = [r \in Sockets |-> IF r = sock THEN joined[r] \ {made[s]} ELSE joined[r]]
        BY <1>2 DEF LeaveTopicLast, LeaveGroup
  <2>4. lost' = lost \ {made[s]}
        BY <1>2 DEF LeaveTopicLast
  <2> QED
      BY <2>1, <2>2, <2>3, <2>4
<1>3. CASE UNCHANGED tables
      BY <1>3 DEF tables
<1> QED
    BY <1>1, <1>2, <1>3 DEF Unsubscribed

LEMMA GroupsPreserved == GroupsInv /\ [Next]_vars => GroupsInv'
<1> SUFFICES ASSUME GroupsInv, [Next]_vars PROVE GroupsInv'
    OBVIOUS
<1>1. ASSUME NEW s \in Sockets, Start(s) PROVE GroupsInv'
  <2>1. /\ s # 0 /\ phase[s] = "unused" /\ UNCHANGED <<joined, subs>>
        /\ sock' = s /\ lost' = DOMAIN subs /\ phase' = [phase EXCEPT ![s] = "opening"]
        BY <1>1, MaxStartsType DEF Start, Sockets
  <2>2. joined'[s] = DOMAIN subs' \ lost'
        BY <2>1 DEF GroupsInv
  <2> QED
      BY <2>1, <2>2 DEF GroupsInv, GroupsFollowSubs, Sockets
<1>2. ASSUME NEW s \in Sockets, EndpointReads(s) \/ StartResumes(s) PROVE GroupsInv'
  <2>1. /\ UNCHANGED <<sock, joined, lost, subs>>
        /\ phase' = [phase EXCEPT ![s] = "reading"] \/ phase' = [phase EXCEPT ![s] = "started"]
        /\ phase[s] # "unused"
        BY <1>2 DEF EndpointReads, StartResumes, tables
  <2>2. /\ phase' \in [Sockets -> {"unused", "opening", "reading", "started", "closed"}]
        /\ \A r \in Sockets : phase'[r] = "unused" <=> phase[r] = "unused"
        BY <2>1 DEF GroupsInv
  <2>3. sock # 0 => sock \in Sockets
        BY MaxStartsType DEF GroupsInv, Sockets
  <2> QED
      BY <2>1, <2>2, <2>3 DEF GroupsInv, GroupsFollowSubs
<1>3. CASE Stop
      BY <1>3, MaxStartsType DEF Stop, GroupsInv, GroupsFollowSubs, Sockets
<1>4. ASSUME NEW s \in Subscribers, NEW t \in Topics, Subscribe(s, t) PROVE GroupsInv'
      BY <1>4, SubscribeKeepsGroups
<1>5. ASSUME NEW s \in Subscribers, Unsubscribe(s) PROVE GroupsInv'
      BY <1>5, UnsubscribedKeepsGroups DEF Unsubscribe, sockets
<1>6. CASE Dispatch
      BY <1>6 DEF Dispatch, sockets, tables, GroupsInv, GroupsFollowSubs
<1>7. ASSUME NEW c \in Crcs, Handle(c) PROVE GroupsInv'
      BY <1>7 DEF Handle, sockets, tables, GroupsInv, GroupsFollowSubs
<1>8. ASSUME NEW t \in Topics, NEW qos \in 0 .. 2, Publish(t, qos) PROVE GroupsInv'
      BY <1>8 DEF Publish, sockets, tables, GroupsInv, GroupsFollowSubs
<1>9. ASSUME NEW h \in armed, Fire(h) \/ Tick(h) PROVE GroupsInv'
      BY <1>9 DEF Fire, Tick, sockets, tables, GroupsInv, GroupsFollowSubs
<1>10. CASE NextTopic \/ HandleReturns
      BY <1>10 DEF NextTopic, HandleReturns, sockets, tables, GroupsInv, GroupsFollowSubs
<1>11. CASE UNCHANGED vars
      BY <1>11 DEF vars, GroupsInv, GroupsFollowSubs
<1>12. ASSUME NEW s \in Sockets, StartFails(s) PROVE GroupsInv'
  <2>1. /\ phase' = [phase EXCEPT ![s] = "closed"] /\ phase[s] # "unused"
        /\ joined' = [joined EXCEPT ![s] = {}]
        /\ lost' = IF s = sock THEN DOMAIN subs ELSE lost
        /\ UNCHANGED <<sock, subs>>
        BY <1>12 DEF StartFails
  <2>2. sock # 0 => sock \in Sockets
        BY MaxStartsType DEF GroupsInv, Sockets
  <2>3. GroupsFollowSubs'
        BY <2>1, <2>2 DEF GroupsInv, GroupsFollowSubs
  <2> QED
      BY <2>1, <2>2, <2>3 DEF GroupsInv
<1> QED
    BY <1>1, <1>2, <1>3, <1>4, <1>5, <1>6, <1>7, <1>8, <1>9, <1>10, <1>11, <1>12 DEF Next

(* Whatever is subscribed, unsubscribed, started (once more, or in vain)   *)
(* and stopped in whatever order, also by a callback while a datagram is   *)
(* handled, the groups of the socket are the topics that have a listener,  *)
(* but for those whose socket start() lost.                                *)
THEOREM GroupsAlwaysFollow == Spec => []GroupsFollowSubs
<1>1. GroupsInv => GroupsFollowSubs
      BY DEF GroupsInv
<1> QED
    BY GroupsInit, GroupsPreserved, <1>1, PTL DEF Spec

-----------------------------------------------------------------------------
(* A chain is the latest publication of its topic, and an indefinite one.  *)
ChainInv ==
  /\ chain \in [Topics -> 0 .. Len(pub)]
  /\ \A t \in Topics : chain[t] # 0 =>
       /\ pub[chain[t]] = t /\ count[chain[t]] = Indefinite
       /\ \A p \in DOMAIN pub : pub[p] = t => p <= chain[t]

FiniteOf(p) == {h \in finite : h.pub = p}

(* The timers of a finite publication are those of the sends it still has  *)
(* ahead of it: the first of them fires first.                             *)
FiniteInv ==
  \A p \in DOMAIN pub : FiniteOf(p) # {} =>
    /\ sent[p] \in 1 .. count[p] /\ count[p] <= MaxSent
    /\ FiniteOf(p) = {Timer(p, i) : i \in sent[p] .. count[p] - 1}

SendingType ==
  /\ base \in Bases
  /\ pub \in Seq(Topics) /\ count \in Seq(Int)
  /\ Len(pub) = Len(count) /\ Len(pub) <= MaxPublished
  /\ finite \subseteq [pub : 1 .. Len(pub), nth : Nat \ {0}]
  /\ sent \in [Publications -> Nat]
  /\ \A p \in Publications : p > Len(pub) => sent[p] = 0

TimersInv == SendingType /\ ChainInv /\ FiniteInv /\ TimersTracked

LEMMA Bounds ==
  /\ MaxPublished \in Nat /\ MaxSent \in Nat /\ MaxSent >= 3
  /\ \A n \in Bases : n \in Int /\ (n = Indefinite \/ n >= 1) /\ n <= MaxSent
  BY AioClientAssumption DEF AioClientAssumption, Indefinite

LEMMA TimerFields ==
  ASSUME NEW p, NEW i
  PROVE  Timer(p, i).pub = p /\ Timer(p, i).nth = i
  BY DEF Timer

LEMMA TimersInit == Init => TimersInv
<1> SUFFICES ASSUME Init PROVE TimersInv
    OBVIOUS
<1>1. SendingType
      BY Bounds DEF Init, SendingType, Publications
<1>2. ChainInv
      BY DEF Init, ChainInv
<1>3. FiniteInv
      BY DEF Init, FiniteInv, FiniteOf
<1>4. TimersTracked
      BY DEF Init, TimersTracked, Cancelled, ChainTimers
<1> QED
    BY <1>1, <1>2, <1>3, <1>4 DEF TimersInv

(* Everything but the transport is as before.                              *)
LEMMA SendingUnchanged ==
  ASSUME TimersInv, UNCHANGED <<base, pub, count, armed, finite, chain, sent>>,
         transport = 0 \/ transport' # 0
  PROVE  TimersInv'
<1>1. SendingType' /\ ChainInv' /\ TimersTracked'
      BY DEF TimersInv, SendingType, ChainInv, TimersTracked, Cancelled, ChainTimers
<1>2. FiniteInv'
      BY DEF TimersInv, FiniteInv, FiniteOf
<1> QED
    BY <1>1, <1>2 DEF TimersInv

LEMMA StopKeepsTimers == TimersInv /\ Stop => TimersInv'
<1> SUFFICES ASSUME TimersInv, Stop PROVE TimersInv'
    OBVIOUS
<1>1. /\ finite' = {} /\ chain' = [t \in Topics |-> 0]
      /\ armed' = {}
      /\ UNCHANGED <<base, pub, count, sent>>
      BY DEF Stop, config, TimersInv, TimersTracked
<1>2. SendingType'
      BY <1>1 DEF TimersInv, SendingType
<1>3. ChainInv'
      BY <1>1 DEF TimersInv, SendingType, ChainInv
<1>4. FiniteInv' /\ TimersTracked'
      BY <1>1 DEF FiniteInv, FiniteOf, TimersTracked, Cancelled, ChainTimers
<1> QED
    BY <1>2, <1>3, <1>4 DEF TimersInv

LEMMA EffectiveCount ==
  ASSUME base \in Bases, NEW qos \in 0 .. 2
  PROVE  /\ EffectiveRetransmitCount(qos) \in Int
         /\ EffectiveRetransmitCount(qos) = Indefinite \/ EffectiveRetransmitCount(qos) >= 1
         /\ EffectiveRetransmitCount(qos) <= MaxSent
  BY Bounds DEF EffectiveRetransmitCount, Indefinite

LEMMA PublishKeepsTimers ==
  ASSUME TimersInv, NEW t \in Topics, NEW qos \in 0 .. 2, Publish(t, qos)
  PROVE  TimersInv'
<1> DEFINE p == Len(pub) + 1
           n == EffectiveRetransmitCount(qos)
<1>1. /\ p \in Publications /\ p \in Nat \ {0}
      /\ n \in Int /\ (n = Indefinite \/ n >= 1) /\ n <= MaxSent
      BY EffectiveCount, Bounds, SMTT(30) DEF Publish, TimersInv, SendingType, Publications
<1>2. /\ pub' = Append(pub, t) /\ count' = Append(count, n)
      /\ sent' = [sent EXCEPT ![p] = IF @ < MaxSent THEN @ + 1 ELSE @]
      /\ chain' = [chain EXCEPT ![t] = IF n = Indefinite THEN p ELSE 0]
      /\ finite' = finite \union Retransmits(p, n)
      /\ armed' = (armed \ Superseded(t)) \union Retransmits(p, n)
                    \union (IF n = Indefinite THEN {Timer(p, 0)} ELSE {})
      /\ transport # 0 /\ UNCHANGED <<base, transport>>
      BY DEF Publish, Transmitted, config, sockets
<1> HIDE DEF n
<1>3. /\ Len(pub') = p /\ Len(count') = p
      /\ pub' \in Seq(Topics) /\ count' \in Seq(Int)
      /\ \A q \in 1 .. Len(pub) : pub'[q] = pub[q] /\ count'[q] = count[q]
      /\ pub'[p] = t /\ count'[p] = n
      BY <1>1, <1>2 DEF TimersInv, SendingType
<1>4. /\ Retransmits(p, n) = {Timer(p, i) : i \in 1 .. n - 1}
      /\ Retransmits(p, n) \subseteq [pub : {p}, nth : Nat \ {0}]
      BY <1>1 DEF Retransmits, Timer
<1>5. sent'[p] = 1 /\ \A q \in 1 .. Len(pub) : sent'[q] = sent[q]
  <2>1. /\ sent \in [Publications -> Nat] /\ sent[p] = 0
        /\ 1 .. Len(pub) \subseteq Publications \ {p}
        BY <1>1, Bounds, SMTT(30) DEF TimersInv, SendingType, Publications
  <2>2. (IF sent[p] < MaxSent THEN sent[p] + 1 ELSE sent[p]) = 1
        BY <2>1, Bounds
  <2> QED
      BY <1>1, <1>2, <2>1, <2>2
<1>6. SendingType'
  <2>1. finite' \subseteq [pub : 1 .. Len(pub'), nth : Nat \ {0}]
        BY <1>1, <1>2, <1>3, <1>4 DEF TimersInv, SendingType
  <2>2. /\ sent' \in [Publications -> Nat]
        /\ \A q \in Publications : q > Len(pub') => sent'[q] = 0
        BY <1>1, <1>2, <1>3, Bounds, SMTT(30) DEF TimersInv, SendingType, Publications
  <2>3. base' \in Bases /\ Len(pub') <= MaxPublished
        BY <1>1, <1>2, <1>3, Bounds DEF TimersInv, SendingType, Publications
  <2> QED
      BY <1>3, <2>1, <2>2, <2>3 DEF SendingType
<1>7. ChainInv'
  <2>1. chain' \in [Topics -> 0 .. Len(pub')]
        BY <1>1, <1>2, <1>3 DEF TimersInv, ChainInv, SendingType
  <2>2. ASSUME NEW u \in Topics, chain'[u] # 0
        PROVE  /\ pub'[chain'[u]] = u /\ count'[chain'[u]] = Indefinite
               /\ \A q \in DOMAIN pub' : pub'[q] = u => q <= chain'[u]
    <3>0. DOMAIN pub' = 1 .. p /\ DOMAIN pub = 1 .. Len(pub) /\ Len(pub) \in Nat
          BY <1>3, <1>1 DEF TimersInv, SendingType
    <3>1. CASE u = t
      <4>1. chain'[u] = p /\ n = Indefinite
            BY <1>2, <3>1, <2>2 DEF TimersInv, ChainInv
      <4> QED
          BY <4>1, <3>1, <3>0, <1>3
    <3>2. CASE u # t
      <4>1. chain'[u] = chain[u] /\ chain[u] \in 1 .. Len(pub)
            BY <1>2, <3>2, <3>0, <2>2 DEF TimersInv, ChainInv
      <4>2. /\ pub[chain[u]] = u /\ count[chain[u]] = Indefinite
            /\ \A q \in 1 .. Len(pub) : pub[q] = u => q <= chain[u]
            BY <4>1, <3>0 DEF TimersInv, ChainInv
      <4>3. \A q \in 1 .. p : q \in 1 .. Len(pub) \/ q = p
            BY <3>0
      <4> HIDE DEF p
      <4> QED
          BY <4>1, <4>2, <4>3, <3>2, <3>0, <1>3
    <3> QED
        BY <3>1, <3>2
  <2> QED
      BY <2>1, <2>2 DEF ChainInv
<1>8. FiniteInv'
  <2> SUFFICES ASSUME NEW q \in DOMAIN pub', FiniteOf(q)' # {}
               PROVE  /\ sent'[q] \in 1 .. count'[q] /\ count'[q] <= MaxSent
                      /\ FiniteOf(q)' = {Timer(q, i) : i \in sent'[q] .. count'[q] - 1}
      BY DEF FiniteInv
  <2>0. q \in 1 .. p /\ Len(pub) \in Nat /\ DOMAIN pub = 1 .. Len(pub)
        BY <1>1, <1>3 DEF TimersInv, SendingType
  <2>1. CASE q = p
    <3>1. FiniteOf(q)' = Retransmits(p, n)
          BY <2>1, <2>0, <1>2, <1>4 DEF FiniteOf, TimersInv, SendingType
    <3>2. n >= 1
          BY <3>1, <1>1, <1>4 DEF Indefinite
    <3> QED
        BY <2>1, <3>1, <3>2, <1>1, <1>3, <1>4, <1>5
  <2>2. CASE q # p
    <3>1. q \in 1 .. Len(pub)
          BY <2>0, <2>2
    <3>2. FiniteOf(q)' = FiniteOf(q)
          BY <2>2, <1>2, <1>4 DEF FiniteOf
    <3> QED
        BY <2>0, <3>1, <3>2, <1>3, <1>5 DEF TimersInv, FiniteInv
  <2> QED
      BY <2>1, <2>2
<1>9. TimersTracked'
  <2>1. \A u \in Topics : chain[u] # 0 /\ u # t => chain[t] = 0 \/ chain[u] # chain[t]
        BY DEF TimersInv, ChainInv
  <2>2. ChainTimers' = (ChainTimers \ Superseded(t))
                         \union (IF n = Indefinite THEN {Timer(p, 0)} ELSE {})
        BY <2>1, <1>1, <1>2 DEF ChainTimers, Superseded, Timer, TimersInv, ChainInv
  <2>3. finite \cap Superseded(t) = {}
        BY TimerFields DEF Superseded, TimersInv, SendingType
  <2> QED
      BY <1>2, <2>2, <2>3 DEF TimersTracked, TimersInv, Cancelled
<1> QED
    BY <1>6, <1>7, <1>8, <1>9 DEF TimersInv

LEMMA FireKeepsTimers ==
  ASSUME TimersInv, NEW h \in armed, Fire(h)
  PROVE  TimersInv'
<1> DEFINE p == h.pub
           k == sent[p]
<1>1. h \in finite
      BY TimerFields DEF Fire, TimersInv, TimersTracked, Cancelled, ChainTimers
<1>2. /\ p \in DOMAIN pub /\ p \in Publications /\ p \in Nat
      /\ h.nth \in Nat \ {0} /\ h = Timer(p, h.nth)
      BY <1>1, Bounds DEF TimersInv, SendingType, Publications, Timer
<1>3. /\ k \in 1 .. count[p] /\ count[p] <= MaxSent /\ count[p] \in Int
      /\ FiniteOf(p) = {Timer(p, i) : i \in k .. count[p] - 1}
      BY <1>1, <1>2 DEF TimersInv, SendingType, FiniteInv, FiniteOf
<1>4. PICK j \in k .. count[p] - 1 : h = Timer(p, j)
      BY <1>1, <1>2, <1>3 DEF FiniteOf
<1>5. h = Timer(p, k) /\ k \in 1 .. count[p] - 1
  <2>1. Timer(p, k) \in armed
        BY <1>3, <1>4 DEF FiniteOf, TimersInv, TimersTracked, Cancelled
  <2>2. Timer(p, k).pub <= h.pub /\ Timer(p, k).nth > 0 /\ Timer(p, k).nth <= h.nth
        BY <1>2, <1>3, <1>4, TimerFields
  <2> QED
      BY <1>3, <1>4, <2>1, <2>2 DEF Fire, First
<1>6. /\ armed' = armed \ {h} /\ finite' = finite \ {h}
      /\ sent' = [sent EXCEPT ![p] = k + 1]
      /\ UNCHANGED <<base, pub, count, chain, transport>>
  <2>1. /\ armed' = armed \ {h} /\ finite' = finite \ {h}
        /\ sent' = [sent EXCEPT ![p] = IF @ < MaxSent THEN @ + 1 ELSE @]
        /\ UNCHANGED <<base, pub, count, chain, transport>>
        BY DEF Fire, Discarded, Transmitted, config, sockets
  <2>2. (IF k < MaxSent THEN k + 1 ELSE k) = k + 1
        BY <1>3, <1>5, Bounds
  <2> QED
      BY <2>1, <2>2
<1>7. SendingType'
  <2>1. /\ sent' \in [Publications -> Nat]
        /\ \A q \in Publications : q # p => sent'[q] = sent[q]
        BY <1>2, <1>3, <1>6 DEF TimersInv, SendingType
  <2>2. p <= Len(pub)
        BY <1>2 DEF TimersInv, SendingType
  <2> HIDE DEF p
  <2> QED
      BY <1>2, <1>6, <2>1, <2>2 DEF TimersInv, SendingType
<1>8. ChainInv'
      BY <1>6 DEF TimersInv, ChainInv
<1>9. FiniteInv'
  <2> SUFFICES ASSUME NEW q \in DOMAIN pub, FiniteOf(q)' # {}
               PROVE  /\ sent'[q] \in 1 .. count[q] /\ count[q] <= MaxSent
                      /\ FiniteOf(q)' = {Timer(q, i) : i \in sent'[q] .. count[q] - 1}
      BY <1>6 DEF FiniteInv
  <2>1. CASE q = p
    <3>1. sent'[p] = k + 1
          BY <1>2, <1>6 DEF TimersInv, SendingType
    <3>2. FiniteOf(p)' = {Timer(p, i) : i \in k .. count[p] - 1} \ {Timer(p, k)}
          BY <1>3, <1>5, <1>6 DEF FiniteOf
    <3>3. FiniteOf(p)' = {Timer(p, i) : i \in k + 1 .. count[p] - 1}
          BY <1>3, <1>5, <3>2, TimerFields
    <3> QED
        BY <2>1, <1>3, <1>5, <3>1, <3>3
  <2>2. CASE q # p
    <3>1. FiniteOf(q)' = FiniteOf(q) /\ sent'[q] = sent[q]
          BY <2>2, <1>6, Bounds, SMTT(30) DEF FiniteOf, TimersInv, SendingType, Publications
    <3> QED
        BY <2>2, <3>1 DEF TimersInv, FiniteInv
  <2> QED
      BY <2>1, <2>2
<1>10. TimersTracked'
  <2>1. h \notin ChainTimers
        BY TimerFields DEF Fire, ChainTimers
  <2> QED
      BY <1>6, <2>1 DEF TimersInv, TimersTracked, Cancelled, ChainTimers
<1> QED
    BY <1>7, <1>8, <1>9, <1>10 DEF TimersInv

(* The publication of a chain has no finite timer, so its count is free.   *)
LEMMA TickKeepsTimers ==
  ASSUME TimersInv, NEW h \in armed, Tick(h)
  PROVE  TimersInv'
<1>1. h \in ChainTimers
      BY DEF Tick, TimersInv, SendingType, TimersTracked, Cancelled
<1>2. PICK t \in Topics : chain[t] # 0 /\ h = Timer(chain[t], 0)
      BY <1>1 DEF ChainTimers
<1>3. /\ h.pub = chain[t] /\ h.pub \in 1 .. Len(pub) /\ h.pub \in Publications
      /\ pub[h.pub] = t /\ count[h.pub] = Indefinite /\ DOMAIN pub = 1 .. Len(pub)
      BY <1>2, TimerFields, Bounds, SMTT(30) DEF TimersInv, SendingType, ChainInv, Publications
<1>4. /\ chain' = chain
      /\ UNCHANGED <<base, pub, count, armed, finite, transport>>
      /\ sent' = [sent EXCEPT ![h.pub] = IF @ < MaxSent THEN @ + 1 ELSE @]
      BY <1>2, <1>3 DEF Tick, Transmitted, config, sockets, TimersInv, ChainInv
<1>5. SendingType'
  <2>1. /\ sent' \in [Publications -> Nat]
        /\ \A q \in Publications : q # h.pub => sent'[q] = sent[q]
        BY <1>3, <1>4, Bounds DEF TimersInv, SendingType
  <2>2. h.pub <= Len(pub)
        BY <1>3
  <2> QED
      BY <1>3, <1>4, <2>1, <2>2 DEF TimersInv, SendingType
<1>6. FiniteInv'
  <2>1. FiniteOf(h.pub) = {}
        BY <1>3 DEF TimersInv, FiniteInv, Indefinite
  <2>2. \A q \in DOMAIN pub : q # h.pub => sent'[q] = sent[q]
        BY <1>4, Bounds DEF TimersInv, SendingType, Publications
  <2> QED
      BY <1>4, <2>1, <2>2 DEF TimersInv, FiniteInv, FiniteOf
<1>7. ChainInv' /\ TimersTracked'
      BY <1>4 DEF TimersInv, ChainInv, TimersTracked, Cancelled, ChainTimers
<1> QED
    BY <1>5, <1>6, <1>7 DEF TimersInv

(* Sockets count from 1: transport holds none of them when it is 0.        *)
LEMMA TimersPreserved == TimersInv /\ [Next]_vars => TimersInv'
<1> SUFFICES ASSUME TimersInv, [Next]_vars PROVE TimersInv'
    OBVIOUS
<1> USE SendingUnchanged
<1>1. ASSUME NEW s \in Sockets, Start(s) \/ EndpointReads(s) \/ StartResumes(s)
                                   \/ StartFails(s)
      PROVE  TimersInv'
  <2>1. UNCHANGED <<base, pub, count, armed, finite, chain, sent>>
        BY <1>1 DEF Start, EndpointReads, StartResumes, StartFails, config, sending
  <2>2. transport' = transport \/ transport' = s
        BY <1>1 DEF Start, EndpointReads, StartResumes, StartFails
  <2>3. s # 0
        BY MaxStartsType DEF Sockets
  <2> QED
      BY <2>1, <2>2, <2>3
<1>2. CASE Stop
      BY <1>2, StopKeepsTimers
<1>3. ASSUME NEW s \in Subscribers, NEW t \in Topics, Subscribe(s, t) PROVE TimersInv'
      BY <1>3 DEF Subscribe, config, sockets, sending
<1>4. ASSUME NEW s \in Subscribers, Unsubscribe(s) PROVE TimersInv'
      BY <1>4 DEF Unsubscribe, config, sockets, sending
<1>5. ASSUME NEW c \in Crcs, Handle(c) PROVE TimersInv'
      BY <1>5 DEF Handle, config, sockets, sending
<1>6. CASE NextTopic \/ Dispatch \/ HandleReturns
      BY <1>6 DEF NextTopic, Dispatch, HandleReturns, config, sockets, sending
<1>7. ASSUME NEW t \in Topics, NEW qos \in 0 .. 2, Publish(t, qos) PROVE TimersInv'
      BY <1>7, PublishKeepsTimers
<1>8. ASSUME NEW h \in armed, Fire(h) \/ Tick(h) PROVE TimersInv'
      BY <1>8, FireKeepsTimers, TickKeepsTimers
<1>9. CASE UNCHANGED vars
      BY <1>9 DEF vars
<1> QED
    BY <1>1, <1>2, <1>3, <1>4, <1>5, <1>6, <1>7, <1>8, <1>9 DEF Next

THEOREM TimersInductive == Spec => []TimersInv
  BY TimersInit, TimersPreserved, PTL DEF Spec

(* For all configurations: no timer of the client is beyond the reach of   *)
(* stop(), and none is left without a transport to send through.           *)
THEOREM TimersAlwaysTracked == Spec => []TimersTracked
<1>1. TimersInv => TimersTracked
      BY DEF TimersInv
<1> QED
    BY TimersInductive, <1>1, PTL

(* A chain of _start_indefinite() never repeats a superseded publication.  *)
THEOREM ChainRepeatsLatest == Spec => []ChainIsLatest
<1>1. TimersInv => ChainIsLatest
  <2> SUFFICES ASSUME TimersInv, NEW h \in armed, h.nth = 0, NEW p \in DOMAIN pub,
                      pub[p] = pub[h.pub]
               PROVE  p <= h.pub
      BY DEF ChainIsLatest
  <2>1. h \in ChainTimers
        BY DEF TimersInv, SendingType, TimersTracked, Cancelled
  <2>2. PICK t \in Topics : chain[t] # 0 /\ h = Timer(chain[t], 0)
        BY <2>1 DEF ChainTimers
  <2> QED
      BY <2>2, TimerFields DEF TimersInv, ChainInv
<1> QED
    BY TimersInductive, <1>1, PTL

LEMMA TimersOfOne ==
  ASSUME NEW p, NEW a \in Nat, NEW b \in Int, a <= b
  PROVE  Cardinality({Timer(p, i) : i \in a .. b - 1}) = b - a
<1> DEFINE S == a .. b - 1
           T == {Timer(p, i) : i \in S}
           f == [i \in S |-> Timer(p, i)]
<1>1. IsFiniteSet(S) /\ Cardinality(S) = b - a
  <2>1. IsFiniteSet(S) /\ Cardinality(S) = IF a > b - 1 THEN 0 ELSE b - 1 - a + 1
        BY FS_Interval
  <2> QED
      BY <2>1
<1>2. f \in Bijection(S, T)
  <2>1. f \in Injection(S, T)
        BY TimerFields DEF Injection, IsInjective
  <2>2. f \in Surjection(S, T)
        BY DEF Surjection
  <2> QED
      BY <2>1, <2>2 DEF Bijection
<1>3. ExistsBijection(S, T)
      BY <1>2 DEF ExistsBijection
<1> QED
    BY <1>1, <1>3, FS_Bijection

(* For every count: a finite publication of publish() has exactly the      *)
(* transmissions ahead of it that it still owes.                           *)
THEOREM FiniteAlwaysAccounted == Spec => []FiniteAccounted
<1>1. TimersInv => FiniteAccounted
  <2> SUFFICES ASSUME TimersInv, NEW p \in DOMAIN pub,
                      {h \in armed : h.pub = p /\ h.nth > 0} # {}
               PROVE  sent[p] + Cardinality({h \in armed : h.pub = p /\ h.nth > 0})
                        = count[p]
      BY DEF FiniteAccounted
  <2>1. {h \in armed : h.pub = p /\ h.nth > 0} = FiniteOf(p)
    <3>1. \A h \in ChainTimers : ~(h.nth > 0)
          BY TimerFields DEF ChainTimers
    <3>2. \A h \in finite : h.nth > 0
          BY DEF TimersInv, SendingType
    <3> QED
        BY <3>1, <3>2 DEF FiniteOf, TimersInv, TimersTracked, Cancelled
  <2>2. /\ sent[p] \in 1 .. count[p] /\ count[p] \in Int
        /\ FiniteOf(p) = {Timer(p, i) : i \in sent[p] .. count[p] - 1}
        BY <2>1 DEF TimersInv, SendingType, FiniteInv
  <2>3. Cardinality(FiniteOf(p)) = count[p] - sent[p]
        BY <2>2, TimersOfOne
  <2>4. sent[p] + Cardinality(FiniteOf(p)) = count[p]
        BY <2>2, <2>3
  <2> QED
      BY <2>1, <2>4
<1> QED
    BY TimersInductive, <1>1, PTL

-----------------------------------------------------------------------------
(* Lists without repetitions, and what taking one out of them leaves.      *)

LEMMA EmptyList ==
  /\ ToSet(<< >>) = {} /\ NoRepeats(<< >>)
  /\ \A T : \A s \in Seq(T) : ToSet(s) \subseteq T /\ (ToSet(s) = {} <=> s = << >>)
<1>1. ToSet(<< >>) = {} /\ NoRepeats(<< >>)
      BY DEF ToSet, NoRepeats
<1>2. ASSUME NEW T, NEW s \in Seq(T)
      PROVE  ToSet(s) \subseteq T /\ (ToSet(s) = {} <=> s = << >>)
  <2>1. DOMAIN s = 1 .. Len(s) /\ Len(s) \in Nat /\ \A i \in 1 .. Len(s) : s[i] \in T
        OBVIOUS
  <2>2. s # << >> => 1 \in 1 .. Len(s)
        BY EmptySeq
  <2> QED
      BY <1>1, <2>1, <2>2 DEF ToSet
<1> QED
    BY <1>1, <1>2

LEMMA SingletonList ==
  ASSUME NEW T, NEW x \in T
  PROVE  <<x>> \in Seq(T) /\ <<x>> # << >> /\ NoRepeats(<<x>>) /\ ToSet(<<x>>) = {x}
  BY DEF ToSet, NoRepeats

LEMMA AppendToList ==
  ASSUME NEW T, NEW s \in Seq(T), NEW x \in T, x \notin ToSet(s), NoRepeats(s)
  PROVE  /\ Append(s, x) \in Seq(T) /\ Append(s, x) # << >> /\ NoRepeats(Append(s, x))
         /\ ToSet(Append(s, x)) = ToSet(s) \union {x}
<1> DEFINE r == Append(s, x)
           n == Len(s)
<1>1. /\ r \in Seq(T) /\ r # << >> /\ Len(r) = n + 1
      /\ \A i \in 1 .. n : r[i] = s[i]
      /\ r[n + 1] = x
      BY AppendProperties
<1>2. n \in Nat /\ DOMAIN s = 1 .. n
      OBVIOUS
<1>3. DOMAIN r = 1 .. n + 1
      BY <1>1
<1>4. \A i \in 1 .. n + 1 : i \in 1 .. n \/ i = n + 1
      BY <1>2
<1> HIDE DEF r, n
<1>5. ToSet(s) = {s[i] : i \in 1 .. n} /\ ToSet(r) = {r[i] : i \in 1 .. n + 1}
      BY <1>2, <1>3 DEF ToSet
<1>6. n + 1 \in 1 .. n + 1 /\ \A i \in 1 .. n : i \in 1 .. n + 1
      BY <1>2
<1>7. ToSet(r) = ToSet(s) \union {x}
      BY <1>1, <1>4, <1>5, <1>6
<1>8. NoRepeats(r)
  <2> SUFFICES ASSUME NEW i \in 1 .. n + 1, NEW j \in 1 .. n + 1, r[i] = r[j] PROVE i = j
      BY <1>3 DEF NoRepeats
  <2>1. CASE i \in 1 .. n /\ j \in 1 .. n
        BY <1>1, <1>2, <2>1 DEF NoRepeats
  <2>2. CASE i = n + 1 \/ j = n + 1
        BY <1>1, <1>4, <1>5, <2>2
  <2> QED
      BY <1>4, <2>1, <2>2
<1> QED
    BY <1>1, <1>7, <1>8 DEF r

LEMMA TailOfList ==
  ASSUME NEW T, NEW s \in Seq(T), s # << >>, NoRepeats(s)
  PROVE  /\ Tail(s) \in Seq(T) /\ NoRepeats(Tail(s))
         /\ Head(s) \in ToSet(s) /\ Head(s) \in T
         /\ ToSet(Tail(s)) = ToSet(s) \ {Head(s)}
<1> DEFINE r == Tail(s)
           n == Len(s)
<1>1. /\ r \in Seq(T) /\ Len(r) = n - 1
      /\ \A i \in 1 .. n - 1 : r[i] = s[i + 1]
      /\ Head(s) = s[1] /\ Head(s) \in T
      BY HeadTailProperties
<1>2. n \in Nat /\ n >= 1 /\ DOMAIN s = 1 .. n
      BY EmptySeq
<1>3. DOMAIN r = 1 .. n - 1
      BY <1>1
<1> HIDE DEF r, n
<1>4. ToSet(s) = {s[i] : i \in 1 .. n} /\ ToSet(r) = {r[i] : i \in 1 .. n - 1}
      BY <1>2, <1>3 DEF ToSet
<1>5. /\ 1 \in 1 .. n /\ \A i \in 1 .. n - 1 : i + 1 \in 1 .. n /\ i + 1 # 1
      /\ \A i \in 1 .. n : i # 1 => i - 1 \in 1 .. n - 1 /\ (i - 1) + 1 = i
      BY <1>2
<1>6. \A i, j \in 1 .. n : s[i] = s[j] => i = j
      BY <1>2 DEF NoRepeats
<1>7. ToSet(r) = ToSet(s) \ {Head(s)}
  <2>1. \A i \in 1 .. n - 1 : r[i] \in ToSet(s) \ {Head(s)}
        BY <1>1, <1>4, <1>5, <1>6
  <2>2. \A i \in 1 .. n : s[i] # Head(s) => s[i] = r[i - 1] /\ i - 1 \in 1 .. n - 1
        BY <1>1, <1>5
  <2> QED
      BY <1>4, <2>1, <2>2
<1>8. NoRepeats(r)
  <2> SUFFICES ASSUME NEW i \in 1 .. n - 1, NEW j \in 1 .. n - 1, r[i] = r[j] PROVE i = j
      BY <1>3 DEF NoRepeats
  <2>1. i + 1 = j + 1
        BY <1>1, <1>5, <1>6
  <2> QED
      BY <1>2, <2>1
<1> QED
    BY <1>1, <1>4, <1>5, <1>7, <1>8 DEF r

LEMMA RemoveFirstIndex ==
  ASSUME NEW T, NEW s \in Seq(T), NEW x \in ToSet(s), NoRepeats(s)
  PROVE  \E i \in 1 .. Len(s) :
           /\ s[i] = x
           /\ RemoveFirst(s, x) = SubSeq(s, 1, i - 1) \o SubSeq(s, i + 1, Len(s))
<1>1. DOMAIN s = 1 .. Len(s)
      OBVIOUS
<1>2. PICK i \in 1 .. Len(s) : s[i] = x
      BY <1>1 DEF ToSet
<1>3. {j \in 1 .. Len(s) : s[j] = x} = {i}
      BY <1>1, <1>2 DEF NoRepeats
<1>4. i \in Int
      OBVIOUS
<1>5. Min({i}) = i
      BY <1>4 DEF Min
<1>6. SelectInSeq(s, LAMBDA v : v = x) = i
      BY <1>3, <1>5 DEF SelectInSeq
<1> QED
    BY <1>2, <1>6 DEF RemoveFirst, RemoveAt

LEMMA RemoveFirstFacts ==
  ASSUME NEW T, NEW s \in Seq(T), NEW x \in ToSet(s), NoRepeats(s)
  PROVE  /\ RemoveFirst(s, x) \in Seq(T)
         /\ Len(RemoveFirst(s, x)) = Len(s) - 1
         /\ NoRepeats(RemoveFirst(s, x))
         /\ ToSet(RemoveFirst(s, x)) = ToSet(s) \ {x}
<1> DEFINE r == RemoveFirst(s, x)
           n == Len(s)
<1>1. PICK i \in 1 .. n : /\ s[i] = x
                          /\ r = SubSeq(s, 1, i - 1) \o SubSeq(s, i + 1, n)
      BY RemoveFirstIndex
<1>2. n \in Nat /\ DOMAIN s = 1 .. n /\ s \in Seq(T)
      OBVIOUS
<1> HIDE DEF r, n
<1>3. /\ r \in Seq(T) /\ Len(r) = n - 1
      /\ \A j \in 1 .. n - 1 : r[j] = IF j < i THEN s[j] ELSE s[j + 1]
  <2> DEFINE a == SubSeq(s, 1, i - 1)
             b == SubSeq(s, i + 1, n)
  <2>1. /\ a \in Seq(T) /\ Len(a) = i - 1
        /\ \A j \in 1 .. i - 1 : a[j] = s[j]
        BY <1>2
  <2>2. /\ b \in Seq(T) /\ Len(b) = n - i
        /\ \A j \in 1 .. n - i : b[j] = s[i + j]
    <3>1. i + 1 \in Int /\ n \in Int /\ \A j \in i + 1 .. n : s[j] \in T
          BY <1>2
    <3>2. /\ b \in Seq(T) /\ Len(b) = IF i + 1 <= n THEN n - (i + 1) + 1 ELSE 0
          /\ \A j \in 1 .. n - (i + 1) + 1 : b[j] = s[i + 1 + j - 1]
          BY <3>1, SubSeqProperties
    <3>3. n - (i + 1) + 1 = n - i /\ \A j \in 1 .. n - i : i + 1 + j - 1 = i + j
          BY <1>2
    <3> QED
        BY <1>2, <3>2, <3>3
  <2> HIDE DEF a, b
  <2>3. /\ a \o b \in Seq(T) /\ Len(a \o b) = n - 1
        /\ \A j \in 1 .. n - 1 : (a \o b)[j] = IF j < i THEN a[j] ELSE b[j - (i - 1)]
    <3>1. Len(a) + Len(b) = n - 1
          BY <1>2, <2>1, <2>2
    <3>2. \A j \in 1 .. n - 1 : j <= Len(a) <=> j < i
          BY <1>2, <2>1
    <3> QED
        BY <2>1, <2>2, <3>1, <3>2, ConcatProperties
  <2>4. ASSUME NEW j \in 1 .. n - 1
        PROVE  (a \o b)[j] = IF j < i THEN s[j] ELSE s[j + 1]
    <3>1. CASE j < i
      <4>1. j \in 1 .. i - 1
            BY <1>2, <3>1
      <4> QED
          BY <2>1, <2>3, <3>1, <4>1
    <3>2. CASE ~(j < i)
      <4>1. j - (i - 1) \in 1 .. n - i /\ i + (j - (i - 1)) = j + 1
            BY <1>2, <3>2
      <4> QED
          BY <2>2, <2>3, <3>2, <4>1
    <3> QED
        BY <3>1, <3>2
  <2> QED
      BY <1>1, <2>3, <2>4 DEF a, b
<1>4. DOMAIN r = 1 .. n - 1
      BY <1>3
<1>5. NoRepeats(r)
  <2> SUFFICES ASSUME NEW j \in 1 .. n - 1, NEW k \in 1 .. n - 1, r[j] = r[k] PROVE j = k
      BY <1>4 DEF NoRepeats
  <2> DEFINE at(m) == IF m < i THEN m ELSE m + 1
  <2>1. at(j) \in 1 .. n /\ at(k) \in 1 .. n /\ s[at(j)] = s[at(k)]
        BY <1>2, <1>3
  <2>2. at(j) = at(k)
        BY <1>2, <2>1 DEF NoRepeats
  <2> QED
      BY <1>2, <2>2
<1>6. ToSet(r) = ToSet(s) \ {x}
  <2>1. ASSUME NEW j \in 1 .. n - 1
        PROVE  r[j] \in ToSet(s) \ {x}
    <3>1. PICK m \in 1 .. n : m # i /\ r[j] = s[m]
          BY <1>2, <1>3
    <3> QED
        BY <1>1, <1>2, <3>1 DEF ToSet, NoRepeats
  <2>2. ASSUME NEW m \in 1 .. n, s[m] # x
        PROVE  \E j \in 1 .. n - 1 : r[j] = s[m]
    <3>1. CASE m < i
      <4>1. m \in 1 .. n - 1
            BY <1>2, <3>1
      <4> QED
          BY <1>3, <3>1, <4>1
    <3>2. CASE m > i
      <4>1. m - 1 \in 1 .. n - 1 /\ ~(m - 1 < i) /\ (m - 1) + 1 = m
            BY <1>2, <3>2
      <4> QED
          BY <1>3, <4>1
    <3> QED
        BY <1>1, <1>2, <2>2, <3>1, <3>2
  <2>3. ToSet(r) = {r[j] : j \in 1 .. n - 1} /\ ToSet(s) = {s[m] : m \in 1 .. n}
        BY <1>2, <1>4 DEF ToSet
  <2> QED
      BY <2>1, <2>2, <2>3
<1> QED
    BY <1>3, <1>5, <1>6 DEF r, n
-----------------------------------------------------------------------------
(* The two tables: lists of subscribers by topic and of topics by CRC,     *)
(* which say the same.                                                     *)

TablesInv ==
  /\ crc \in [Topics -> Crcs]
  /\ made \in Seq(Topics) /\ Len(made) <= MaxSubscribed
  /\ DOMAIN subs \subseteq Topics /\ \A t \in DOMAIN subs : subs[t] \in Seq(Subscribers)
  /\ DOMAIN index \subseteq Crcs /\ \A c \in DOMAIN index : index[c] \in Seq(Topics)
  /\ TablesAgree

LEMMA MadeFacts ==
  ASSUME TablesInv
  PROVE  /\ Len(made) \in Nat /\ DOMAIN made = 1 .. Len(made) /\ DOMAIN made \subseteq Subscribers
         /\ \A t \in DOMAIN subs : ToSet(subs[t]) \subseteq DOMAIN made
  <1>1. MaxSubscribed \in Nat
        BY AioClientAssumption DEF AioClientAssumption
  <1> QED
      BY <1>1 DEF TablesInv, TablesAgree, Subscribers

LEMMA TablesUnchanged ==
  ASSUME TablesInv, UNCHANGED <<crc, made, subs, index>>
  PROVE  TablesInv'
<1>1. TablesAgree'
      BY DEF TablesInv, TablesAgree
<1> QED
    BY <1>1 DEF TablesInv, Subscribers

(* One topic's list of callbacks changes and stays good.                   *)
LEMMA CallbacksChange ==
  ASSUME TablesInv, NEW t \in DOMAIN subs, NEW r \in Seq(Subscribers),
         subs' = [subs EXCEPT ![t] = r],
         r # << >>, NoRepeats(r), \A s \in ToSet(r) : s \in DOMAIN made' /\ made'[s] = t,
         made' \in Seq(Topics), Len(made') <= MaxSubscribed,
         \A s \in DOMAIN made : s \in DOMAIN made' /\ made'[s] = made[s],
         UNCHANGED <<crc, index>>
  PROVE  TablesInv'
<1>1. /\ DOMAIN subs' = DOMAIN subs
      /\ subs'[t] = r /\ \A u \in DOMAIN subs : u # t => subs'[u] = subs[u]
      OBVIOUS
<1>2. \A u \in DOMAIN subs' :
        /\ subs'[u] # << >> /\ NoRepeats(subs'[u])
        /\ \A s \in ToSet(subs'[u]) : s \in DOMAIN made' /\ made'[s] = u
      BY <1>1 DEF TablesInv, TablesAgree
<1>3. /\ \A c \in DOMAIN index : index[c] # << >> /\ NoRepeats(index[c])
      /\ DOMAIN index = {crc[u] : u \in DOMAIN subs'}
      /\ \A c \in DOMAIN index : ToSet(index[c]) = {u \in DOMAIN subs' : crc[u] = c}
      BY <1>1 DEF TablesInv, TablesAgree
<1>4. TablesAgree'
      BY <1>2, <1>3 DEF TablesAgree
<1> QED
    BY <1>1, <1>4 DEF TablesInv, Subscribers

LEMMA JoinKeepsTables ==
  ASSUME TablesInv, NEW s \in Subscribers, NEW t \in Topics, s \notin DOMAIN made,
         Join(s, t), UNCHANGED crc,
         made' \in Seq(Topics), Len(made') <= MaxSubscribed,
         \A r \in DOMAIN made : r \in DOMAIN made' /\ made'[r] = made[r],
         s \in DOMAIN made', made'[s] = t
  PROVE  TablesInv'
<1> DEFINE c == crc[t]
           l == IF c \in DOMAIN index THEN Append(index[c], t) ELSE <<t>>
<1>1. /\ t \notin DOMAIN subs
      /\ DOMAIN subs' = DOMAIN subs \union {t}
      /\ subs'[t] = <<s>> /\ \A u \in DOMAIN subs : subs'[u] = subs[u]
      BY DEF Join, With
<1>2. /\ DOMAIN index' = DOMAIN index \union {c}
      /\ index'[c] = l /\ \A d \in DOMAIN index : d # c => index'[d] = index[d]
      BY DEF Join, Indexed, With
<1>3. /\ l \in Seq(Topics) /\ l # << >> /\ NoRepeats(l)
      /\ ToSet(l) = {u \in DOMAIN subs : crc[u] = c} \union {t}
  <2>1. CASE c \in DOMAIN index
    <3>1. /\ index[c] \in Seq(Topics) /\ NoRepeats(index[c]) /\ t \notin ToSet(index[c])
          /\ ToSet(index[c]) = {u \in DOMAIN subs : crc[u] = c}
          BY <1>1, <2>1 DEF TablesInv, TablesAgree
    <3> QED
        BY <2>1, <3>1, AppendToList
  <2>2. CASE c \notin DOMAIN index
    <3>1. {u \in DOMAIN subs : crc[u] = c} = {}
          BY <2>2 DEF TablesInv, TablesAgree
    <3> QED
        BY <2>2, <3>1, SingletonList
  <2> QED
      BY <2>1, <2>2
<1>4. c \in Crcs
      BY DEF TablesInv
<1> HIDE DEF l
<1>5. \A u \in DOMAIN subs' :
        /\ subs'[u] # << >> /\ NoRepeats(subs'[u]) /\ subs'[u] \in Seq(Subscribers)
        /\ \A r \in ToSet(subs'[u]) : r \in DOMAIN made' /\ made'[r] = u
  <2>1. /\ <<s>> \in Seq(Subscribers) /\ <<s>> # << >> /\ NoRepeats(<<s>>)
        /\ ToSet(<<s>>) = {s}
        BY SingletonList
  <2>2. ASSUME NEW u \in DOMAIN subs
        PROVE  /\ subs'[u] # << >> /\ NoRepeats(subs'[u]) /\ subs'[u] \in Seq(Subscribers)
               /\ \A r \in ToSet(subs'[u]) : r \in DOMAIN made' /\ made'[r] = u
    <3>1. /\ subs[u] # << >> /\ NoRepeats(subs[u]) /\ subs[u] \in Seq(Subscribers)
          /\ \A r \in ToSet(subs[u]) : r \in DOMAIN made /\ made[r] = u
          BY DEF TablesInv, TablesAgree
    <3>2. subs'[u] = subs[u]
          BY <1>1
    <3> QED
        BY <3>1, <3>2
  <2>3. /\ subs'[t] # << >> /\ NoRepeats(subs'[t]) /\ subs'[t] \in Seq(Subscribers)
        /\ \A r \in ToSet(subs'[t]) : r \in DOMAIN made' /\ made'[r] = t
        BY <1>1, <2>1
  <2> QED
      BY <1>1, <2>2, <2>3
<1>6. \A d \in DOMAIN index' :
        /\ index'[d] \in Seq(Topics) /\ index'[d] # << >> /\ NoRepeats(index'[d])
        /\ ToSet(index'[d]) = {u \in DOMAIN subs' : crc[u] = d}
  <2>1. ASSUME NEW d \in DOMAIN index, d # c
        PROVE  {u \in DOMAIN subs' : crc[u] = d} = {u \in DOMAIN subs : crc[u] = d}
        BY <1>1, <2>1
  <2>2. {u \in DOMAIN subs' : crc[u] = c} = {u \in DOMAIN subs : crc[u] = c} \union {t}
        BY <1>1
  <2>3. ASSUME NEW d \in DOMAIN index, d # c
        PROVE  /\ index'[d] \in Seq(Topics) /\ index'[d] # << >> /\ NoRepeats(index'[d])
               /\ ToSet(index'[d]) = {u \in DOMAIN subs' : crc[u] = d}
    <3>1. /\ index[d] \in Seq(Topics) /\ index[d] # << >> /\ NoRepeats(index[d])
          /\ ToSet(index[d]) = {u \in DOMAIN subs : crc[u] = d}
          BY DEF TablesInv, TablesAgree
    <3>2. index'[d] = index[d]
          BY <1>2, <2>3
    <3> QED
        BY <2>1, <2>3, <3>1, <3>2
  <2>4. /\ index'[c] \in Seq(Topics) /\ index'[c] # << >> /\ NoRepeats(index'[c])
        /\ ToSet(index'[c]) = {u \in DOMAIN subs' : crc[u] = c}
        BY <1>2, <1>3, <2>2
  <2> HIDE DEF c
  <2> QED
      BY <1>2, <2>3, <2>4
<1>7. DOMAIN index' = {crc[u] : u \in DOMAIN subs'}
      BY <1>1, <1>2 DEF TablesInv, TablesAgree
<1>8. TablesAgree'
      BY <1>5, <1>6, <1>7 DEF TablesAgree
<1> QED
    BY <1>1, <1>2, <1>4, <1>5, <1>6, <1>8 DEF TablesInv, Subscribers

LEMMA SubscribeKeepsTables ==
  ASSUME TablesInv, NEW s \in Subscribers, NEW t \in Topics, Subscribe(s, t)
  PROVE  TablesInv'
<1>1. /\ made' = Append(made, t) /\ s = Len(made) + 1 /\ UNCHANGED crc
      /\ SubscribeMore(s, t) \/ Join(s, t)
      BY DEF Subscribe, config
<1>2. made \in Seq(Topics) /\ Len(made) \in Nat /\ DOMAIN made = 1 .. Len(made)
      BY DEF TablesInv
<1>3. /\ made' \in Seq(Topics) /\ Len(made') = Len(made) + 1
      /\ \A r \in 1 .. Len(made) : made'[r] = made[r]
      /\ made'[Len(made) + 1] = t
      BY <1>1, <1>2, AppendProperties
<1>4. DOMAIN made' = 1 .. Len(made) + 1
      BY <1>3
<1>5. /\ Len(made') <= MaxSubscribed /\ s \notin DOMAIN made /\ s \in DOMAIN made'
      /\ made'[s] = t
      /\ \A r \in DOMAIN made : r \in DOMAIN made' /\ made'[r] = made[r]
      BY <1>1, <1>2, <1>3, <1>4 DEF Subscribers
<1>6. CASE Join(s, t)
      BY <1>1, <1>3, <1>5, <1>6, JoinKeepsTables
<1>7. CASE SubscribeMore(s, t)
  <2>1. /\ t \in DOMAIN subs /\ subs' = [subs EXCEPT ![t] = Append(subs[t], s)]
        /\ UNCHANGED index
        BY <1>7 DEF SubscribeMore
  <2>2. /\ subs[t] \in Seq(Subscribers) /\ NoRepeats(subs[t]) /\ s \notin ToSet(subs[t])
        /\ \A r \in ToSet(subs[t]) : r \in DOMAIN made /\ made[r] = t
        BY <1>5, <2>1 DEF TablesInv, TablesAgree
  <2> DEFINE l == Append(subs[t], s)
  <2>3. /\ l \in Seq(Subscribers) /\ l # << >> /\ NoRepeats(l)
        /\ ToSet(l) = ToSet(subs[t]) \union {s}
        BY <2>2, AppendToList
  <2>4. subs' = [subs EXCEPT ![t] = l]
        BY <2>1
  <2> HIDE DEF l
  <2>5. \A r \in ToSet(l) : r \in DOMAIN made' /\ made'[r] = t
        BY <1>5, <2>2, <2>3
  <2> QED
      BY <1>1, <1>3, <1>5, <2>1, <2>3, <2>4, <2>5, CallbacksChange
<1> QED
    BY <1>1, <1>6, <1>7

LEMMA RemainingFacts ==
  ASSUME TablesInv, NEW s \in DOMAIN made, Listens(s)
  PROVE  /\ made[s] \in DOMAIN subs /\ made[s] \in Topics
         /\ Remaining(s) \in Seq(Subscribers) /\ NoRepeats(Remaining(s))
         /\ ToSet(Remaining(s)) = ToSet(subs[made[s]]) \ {s}
<1>1. /\ made[s] \in DOMAIN subs /\ made[s] \in Topics /\ s \in ToSet(subs[made[s]])
      /\ subs[made[s]] \in Seq(Subscribers) /\ NoRepeats(subs[made[s]])
      BY DEF Listens, TablesInv, TablesAgree
<1> QED
    BY <1>1, RemoveFirstFacts DEF Remaining

LEMMA UnindexedFacts ==
  ASSUME TablesInv, NEW t \in DOMAIN subs
  PROVE  /\ DOMAIN Unindexed(t) = {crc[u] : u \in DOMAIN subs \ {t}}
         /\ \A c \in DOMAIN Unindexed(t) :
              /\ Unindexed(t)[c] \in Seq(Topics) /\ Unindexed(t)[c] # << >>
              /\ NoRepeats(Unindexed(t)[c])
              /\ ToSet(Unindexed(t)[c]) = {u \in DOMAIN subs \ {t} : crc[u] = c}
<1> DEFINE c == crc[t]
           l == RemoveFirst(index[c], t)
<1>1. /\ c \in DOMAIN index /\ index[c] \in Seq(Topics) /\ NoRepeats(index[c])
      /\ ToSet(index[c]) = {u \in DOMAIN subs : crc[u] = c} /\ t \in ToSet(index[c])
      /\ DOMAIN index = {crc[u] : u \in DOMAIN subs}
  <2>1. /\ DOMAIN index = {crc[u] : u \in DOMAIN subs}
        /\ \A d \in DOMAIN index :
             /\ index[d] \in Seq(Topics) /\ NoRepeats(index[d])
             /\ ToSet(index[d]) = {u \in DOMAIN subs : crc[u] = d}
        BY DEF TablesInv, TablesAgree
  <2>2. c \in DOMAIN index
        BY <2>1
  <2>3. /\ index[c] \in Seq(Topics) /\ NoRepeats(index[c])
        /\ ToSet(index[c]) = {u \in DOMAIN subs : crc[u] = c}
        BY <2>1, <2>2
  <2>4. t \in ToSet(index[c])
        BY <2>3
  <2> QED
      BY <2>1, <2>2, <2>3, <2>4
<1>2. /\ l \in Seq(Topics) /\ NoRepeats(l)
      /\ ToSet(l) = {u \in DOMAIN subs \ {t} : crc[u] = c}
  <2>1. l \in Seq(Topics) /\ NoRepeats(l) /\ ToSet(l) = ToSet(index[c]) \ {t}
        BY <1>1, RemoveFirstFacts
  <2> QED
      BY <1>1, <2>1
<1>3. Unindexed(t) = IF l = << >> THEN Without(index, c) ELSE [index EXCEPT ![c] = l]
      BY DEF Unindexed
<1> HIDE DEF l
<1>4. \A d \in DOMAIN index : d # c =>
        /\ index[d] \in Seq(Topics) /\ index[d] # << >> /\ NoRepeats(index[d])
        /\ ToSet(index[d]) = {u \in DOMAIN subs \ {t} : crc[u] = d}
  <2>1. ASSUME NEW d \in DOMAIN index, d # c
        PROVE  {u \in DOMAIN subs \ {t} : crc[u] = d} = {u \in DOMAIN subs : crc[u] = d}
        BY <2>1
  <2> QED
      BY <2>1 DEF TablesInv, TablesAgree
<1>5. CASE l = << >>
  <2>1. \A u \in DOMAIN subs \ {t} : crc[u] # c
        BY <1>2, <1>5, EmptyList
  <2>2. /\ DOMAIN Unindexed(t) = DOMAIN index \ {c}
        /\ \A d \in DOMAIN index \ {c} : Unindexed(t)[d] = index[d]
        BY <1>3, <1>5 DEF Without
  <2> QED
      BY <1>1, <1>4, <2>1, <2>2
<1>6. CASE l # << >>
  <2>1. \E u \in DOMAIN subs \ {t} : crc[u] = c
        BY <1>2, <1>6, EmptyList
  <2>2. /\ DOMAIN Unindexed(t) = DOMAIN index
        /\ Unindexed(t)[c] = l
        /\ \A d \in DOMAIN index : d # c => Unindexed(t)[d] = index[d]
        BY <1>1, <1>3, <1>6
  <2> QED
      BY <1>1, <1>2, <1>4, <1>6, <2>1, <2>2
<1> QED
    BY <1>5, <1>6

LEMMA UnsubscribedKeepsTables ==
  ASSUME TablesInv, NEW s \in DOMAIN made, Unsubscribed(s), UNCHANGED <<crc, made>>
  PROVE  TablesInv'
<1>1. CASE LeaveTopic(s)
  <2>1. /\ Listens(s) /\ Remaining(s) # << >> /\ UNCHANGED index
        /\ subs' = [subs EXCEPT ![made[s]] = Remaining(s)]
        BY <1>1 DEF LeaveTopic
  <2>2. \A r \in ToSet(Remaining(s)) : r \in DOMAIN made' /\ made'[r] = made[s]
        BY <2>1, RemainingFacts DEF TablesInv, TablesAgree
  <2>3. made' \in Seq(Topics) /\ Len(made') <= MaxSubscribed
        BY DEF TablesInv
  <2> QED
      BY <2>1, <2>2, <2>3, RemainingFacts, CallbacksChange
<1>2. CASE LeaveTopicLast(s)
  <2>1. PICK t \in DOMAIN subs : t = made[s]
        BY <1>2 DEF LeaveTopicLast, Listens
  <2>2. /\ index' = Unindexed(t)
        /\ DOMAIN subs' = DOMAIN subs \ {t}
        /\ \A u \in DOMAIN subs \ {t} : subs'[u] = subs[u]
        BY <1>2, <2>1 DEF LeaveTopicLast, Without
  <2>3. /\ DOMAIN index' = {crc[u] : u \in DOMAIN subs'}
        /\ \A c \in DOMAIN index' :
             /\ index'[c] \in Seq(Topics) /\ index'[c] # << >> /\ NoRepeats(index'[c])
             /\ ToSet(index'[c]) = {u \in DOMAIN subs' : crc[u] = c}
        BY <2>2, UnindexedFacts
  <2>4. \A u \in DOMAIN subs' :
          /\ subs'[u] # << >> /\ NoRepeats(subs'[u]) /\ subs'[u] \in Seq(Subscribers)
          /\ \A r \in ToSet(subs'[u]) : r \in DOMAIN made /\ made[r] = u
        BY <2>2 DEF TablesInv, TablesAgree
  <2>5. TablesAgree'
        BY <2>3, <2>4 DEF TablesAgree
  <2>6. DOMAIN subs' \subseteq Topics /\ DOMAIN index' \subseteq Crcs
        BY <2>2, <2>3 DEF TablesInv
  <2> QED
      BY <2>3, <2>4, <2>5, <2>6 DEF TablesInv, Subscribers
<1>3. CASE UNCHANGED tables
      BY <1>3, TablesUnchanged DEF tables
<1> QED
    BY <1>1, <1>2, <1>3 DEF Unsubscribed

LEMMA TablesInit == Init => TablesInv
<1> SUFFICES ASSUME Init PROVE TablesInv
    OBVIOUS
<1>1. MaxSubscribed \in Nat
      BY AioClientAssumption DEF AioClientAssumption
<1>2. /\ crc \in [Topics -> Crcs] /\ subs = << >> /\ index = << >> /\ made = << >>
      BY DEF Init
<1> QED
    BY <1>1, <1>2 DEF TablesInv, TablesAgree

LEMMA TablesPreserved == TablesInv /\ [Next]_vars => TablesInv'
<1> SUFFICES ASSUME TablesInv, [Next]_vars PROVE TablesInv'
    OBVIOUS
<1>1. ASSUME NEW s \in Sockets, Start(s) \/ EndpointReads(s) \/ StartResumes(s)
                                   \/ StartFails(s)
      PROVE  TablesInv'
      BY <1>1, TablesUnchanged DEF Start, EndpointReads, StartResumes, StartFails, config, tables
<1>2. CASE Stop
  <2>1. subs' = << >> /\ index' = << >> /\ UNCHANGED <<crc, made>>
        BY <1>2 DEF Stop, config
  <2> QED
      BY <2>1 DEF TablesInv, TablesAgree
<1>3. ASSUME NEW s \in Subscribers, NEW t \in Topics, Subscribe(s, t) PROVE TablesInv'
      BY <1>3, SubscribeKeepsTables
<1>4. ASSUME NEW s \in Subscribers, Unsubscribe(s) PROVE TablesInv'
      BY <1>4, UnsubscribedKeepsTables DEF Unsubscribe, config
<1>5. ASSUME NEW c \in Crcs, Handle(c) PROVE TablesInv'
      BY <1>5, TablesUnchanged DEF Handle, config, tables
<1>6. CASE NextTopic \/ Dispatch \/ HandleReturns
      BY <1>6, TablesUnchanged DEF NextTopic, Dispatch, HandleReturns, config, tables
<1>7. ASSUME NEW t \in Topics, NEW qos \in 0 .. 2, Publish(t, qos) PROVE TablesInv'
      BY <1>7, TablesUnchanged DEF Publish, config, tables
<1>8. ASSUME NEW h \in armed, Fire(h) \/ Tick(h) PROVE TablesInv'
      BY <1>8, TablesUnchanged DEF Fire, Tick, config, tables
<1>9. CASE UNCHANGED vars
      BY <1>9, TablesUnchanged DEF vars
<1> QED
    BY <1>1, <1>2, <1>3, <1>4, <1>5, <1>6, <1>7, <1>8, <1>9 DEF Next

LEMMA TablesInductive == Spec => []TablesInv
  BY TablesInit, TablesPreserved, PTL DEF Spec

(* Whatever is subscribed and unsubscribed in whatever order, and however  *)
(* the CRCs collide: _subs and _crc_index describe the same subscriptions, *)
(* without an entry that is empty, missing or double (aio.py:304-346).     *)
THEOREM TablesAlwaysAgree == Spec => []TablesAgree
<1>1. TablesInv => TablesAgree
      BY DEF TablesInv
<1> QED
    BY TablesInductive, <1>1, PTL

-----------------------------------------------------------------------------
(* The datagram that is being handled. *)

(* Of the subscribers it came for, each who still listens was reached, is  *)
(* in the copy that is being walked, or waits with its topic.              *)
Awaited ==
  \A s \in due : Listens(s) =>
    s \in reached \/ s \in ToSet(batch) \/ made[s] \in ToSet(todo)

(* A topic is still to come only for subscribers none of whom was visited. *)
VisitedOnce ==
  /\ reached \cap ToSet(batch) = {}
  /\ \A s \in reached \union ToSet(batch) : made[s] \notin ToSet(todo)

(* No datagram is being handled when nobody is due.                        *)
HandlingType ==
  /\ todo \in Seq(Topics) /\ batch \in Seq(Subscribers) /\ calling \in BOOLEAN
  /\ due \subseteq DOMAIN made /\ reached \subseteq DOMAIN made
  /\ ToSet(batch) \subseteq DOMAIN made
  /\ NoRepeats(todo) /\ NoRepeats(batch)
  /\ ToSet(todo) \subseteq DOMAIN subs
  /\ due = {} => todo = << >> /\ batch = << >> /\ reached = {}

HandlingInv == HandlingType /\ VisitedOnce /\ Awaited

LEMMA HandlingInit == Init => HandlingInv
<1> SUFFICES ASSUME Init PROVE HandlingInv
    OBVIOUS
<1>1. /\ todo = << >> /\ batch = << >> /\ calling = FALSE /\ due = {} /\ reached = {}
      BY DEF Init
<1>2. << >> \in Seq(Topics) /\ << >> \in Seq(Subscribers)
      OBVIOUS
<1>3. ToSet(todo) = {} /\ ToSet(batch) = {} /\ NoRepeats(todo) /\ NoRepeats(batch)
      BY <1>1, EmptyList
<1>4. HandlingType
      BY <1>1, <1>2, <1>3 DEF HandlingType
<1>5. VisitedOnce /\ Awaited
      BY <1>1, <1>3 DEF VisitedOnce, Awaited
<1> QED
    BY <1>4, <1>5 DEF HandlingInv

LEMMA HandlingUnchanged ==
  ASSUME HandlingInv, UNCHANGED <<made, subs, todo, batch, calling, due, reached>>
  PROVE  HandlingInv'
<1>1. HandlingType' /\ VisitedOnce'
      BY DEF HandlingInv, HandlingType, VisitedOnce, Subscribers
<1>2. Awaited'
      BY DEF HandlingInv, Awaited, Listens
<1> QED
    BY <1>1, <1>2 DEF HandlingInv

(* Who subscribes meanwhile is not among those the datagram came for.      *)
LEMMA SubscribeKeepsHandling ==
  ASSUME TablesInv, HandlingInv, NEW s \in Subscribers, NEW t \in Topics, Subscribe(s, t)
  PROVE  HandlingInv'
<1>1. /\ made' = Append(made, t) /\ s = Len(made) + 1
      /\ SubscribeMore(s, t) \/ Join(s, t)
      /\ UNCHANGED <<todo, batch, calling, due, reached>>
      BY DEF Subscribe, handling
<1>2. made \in Seq(Topics) /\ Len(made) \in Nat /\ DOMAIN made = 1 .. Len(made)
      BY DEF TablesInv
<1>3. /\ DOMAIN made' = 1 .. Len(made) + 1
      /\ \A r \in DOMAIN made : r \in DOMAIN made' /\ made'[r] = made[r]
      /\ s \notin DOMAIN made
      BY <1>1, <1>2, AppendProperties
<1>4. /\ DOMAIN subs \subseteq DOMAIN subs'
      /\ \A r \in DOMAIN made : made[r] \in DOMAIN subs' /\ r \in ToSet(subs'[made[r]])
                                  => Listens(r)
  <2>1. CASE SubscribeMore(s, t)
    <3>1. /\ DOMAIN subs' = DOMAIN subs
          /\ subs'[t] = Append(subs[t], s) /\ \A u \in DOMAIN subs : u # t => subs'[u] = subs[u]
          /\ subs[t] \in Seq(Subscribers) /\ NoRepeats(subs[t]) /\ s \notin ToSet(subs[t])
          BY <1>3, <2>1 DEF SubscribeMore, TablesInv, TablesAgree
    <3>2. ToSet(subs'[t]) = ToSet(subs[t]) \union {s}
          BY <3>1, AppendToList
    <3> QED
        BY <1>3, <3>1, <3>2 DEF Listens
  <2>2. CASE Join(s, t)
    <3>1. /\ DOMAIN subs' = DOMAIN subs \union {t}
          /\ subs'[t] = <<s>> /\ \A u \in DOMAIN subs : subs'[u] = subs[u]
          BY <2>2 DEF Join, With
    <3>2. ToSet(<<s>>) = {s}
          BY SingletonList
    <3> QED
        BY <1>3, <3>1, <3>2 DEF Listens
  <2> QED
      BY <1>1, <2>1, <2>2
<1>5. HandlingType'
      BY <1>1, <1>3, <1>4 DEF HandlingInv, HandlingType, Subscribers
<1>6. VisitedOnce'
      BY <1>1, <1>3 DEF HandlingInv, HandlingType, VisitedOnce
<1>7. Awaited'
  <2> SUFFICES ASSUME NEW r \in due, Listens(r)'
               PROVE  r \in reached \/ r \in ToSet(batch) \/ made'[r] \in ToSet(todo)
      BY <1>1 DEF Awaited
  <2>1. r \in DOMAIN made /\ made'[r] = made[r]
        BY <1>3 DEF HandlingInv, HandlingType
  <2>2. Listens(r)
        BY <1>4, <2>1 DEF Listens
  <2> QED
      BY <2>1, <2>2 DEF HandlingInv, Awaited
<1> QED
    BY <1>5, <1>6, <1>7 DEF HandlingInv

LEMMA UnsubscribeKeepsHandling ==
  ASSUME TablesInv, HandlingInv, NEW s \in Subscribers, Unsubscribe(s)
  PROVE  HandlingInv'
<1>1. /\ s \in DOMAIN made /\ Unsubscribed(s)
      /\ UNCHANGED <<made, batch, calling, due, reached>>
      BY DEF Unsubscribe
<1>2. CASE ~Listens(s) /\ UNCHANGED <<tables, todo>>
      BY <1>1, <1>2, HandlingUnchanged DEF tables
<1>3. CASE LeaveTopic(s)
  <2>1. /\ subs' = [subs EXCEPT ![made[s]] = Remaining(s)] /\ UNCHANGED todo
        /\ Listens(s) /\ made[s] \in DOMAIN subs
        BY <1>3 DEF LeaveTopic, Listens
  <2>2. ToSet(Remaining(s)) \subseteq ToSet(subs[made[s]])
        BY <1>1, <2>1, RemainingFacts
  <2>3. /\ DOMAIN subs' = DOMAIN subs
        /\ \A u \in DOMAIN subs : ToSet(subs'[u]) \subseteq ToSet(subs[u])
    <3>1. /\ DOMAIN subs' = DOMAIN subs /\ subs'[made[s]] = Remaining(s)
          /\ \A u \in DOMAIN subs : u # made[s] => subs'[u] = subs[u]
          BY <2>1
    <3> QED
        BY <2>2, <3>1
  <2>4. HandlingType' /\ VisitedOnce'
        BY <1>1, <2>1, <2>3 DEF HandlingInv, HandlingType, VisitedOnce, Subscribers
  <2>5. \A r \in due : Listens(r)' => Listens(r)
        BY <1>1, <2>3 DEF Listens
  <2>6. Awaited'
        BY <1>1, <2>1, <2>5 DEF HandlingInv, Awaited
  <2> QED
      BY <2>4, <2>6 DEF HandlingInv
<1>4. CASE LeaveTopicLast(s)
  <2>1. PICK t \in DOMAIN subs : t = made[s]
        BY <1>4 DEF LeaveTopicLast, Listens
  <2>2. /\ DOMAIN subs' = DOMAIN subs \ {t} /\ \A u \in DOMAIN subs \ {t} : subs'[u] = subs[u]
        /\ todo' = RemoveFirst(todo, t)
        BY <1>4, <2>1 DEF LeaveTopicLast, Without
  <2>3. todo \in Seq(Topics) /\ NoRepeats(todo) /\ ToSet(todo) \subseteq DOMAIN subs
        BY DEF HandlingInv, HandlingType
  <2>4. /\ todo' \in Seq(Topics) /\ NoRepeats(todo')
        /\ ToSet(todo') = ToSet(todo) \ {t}
    <3>1. CASE t \in ToSet(todo)
          BY <2>2, <2>3, <3>1, RemoveFirstFacts
    <3>2. CASE t \notin ToSet(todo)
      <4>1. \A i \in 1 .. Len(todo) : todo[i] # t
            BY <2>3, <3>2 DEF ToSet
      <4> QED
          BY <2>2, <2>3, <3>2, <4>1 DEF RemoveFirst
    <3> QED
        BY <3>1, <3>2
  <2>5. todo = << >> => todo' = << >>
        BY <2>3, <2>4, EmptyList
  <2>6. HandlingType'
        BY <1>1, <2>2, <2>3, <2>4, <2>5 DEF HandlingInv, HandlingType, Subscribers
  <2>7. VisitedOnce'
        BY <1>1, <2>4 DEF HandlingInv, VisitedOnce
  <2>8. Awaited'
    <3> SUFFICES ASSUME NEW r \in due, Listens(r)'
                 PROVE  r \in reached \/ r \in ToSet(batch) \/ made[r] \in ToSet(todo')
        BY <1>1 DEF Awaited
    <3>1. made[r] # t /\ Listens(r)
          BY <1>1, <2>2 DEF Listens
    <3> QED
        BY <2>4, <3>1 DEF HandlingInv, Awaited
  <2> QED
      BY <2>6, <2>7, <2>8 DEF HandlingInv
<1> QED
    BY <1>1, <1>2, <1>3, <1>4 DEF Unsubscribed

(* The CRC has topics, and each of them listeners, so somebody is due.     *)
LEMMA HandleKeepsHandling ==
  ASSUME TablesInv, HandlingInv, NEW c \in Crcs, Handle(c)
  PROVE  HandlingInv'
<1>1. /\ c \in DOMAIN index /\ due = {} /\ todo' = index[c]
      /\ due' = UNION {ToSet(Callbacks(t)) : t \in ToSet(index[c])}
      /\ UNCHANGED <<made, subs, batch, calling, reached>>
      BY DEF Handle, Idle, tables
<1>2. batch = << >> /\ reached = {} /\ calling \in BOOLEAN
      BY <1>1 DEF HandlingInv, HandlingType
<1>3. /\ index[c] \in Seq(Topics) /\ index[c] # << >> /\ NoRepeats(index[c])
      /\ ToSet(index[c]) = {t \in DOMAIN subs : crc[t] = c} /\ ToSet(index[c]) # {}
      BY <1>1, EmptyList DEF TablesInv, TablesAgree
<1>4. \A t \in ToSet(index[c]) :
        /\ Callbacks(t) = subs[t] /\ ToSet(subs[t]) # {}
        /\ \A s \in ToSet(subs[t]) : s \in DOMAIN made /\ made[s] = t
      BY <1>3, EmptyList DEF Callbacks, TablesInv, TablesAgree
<1>5. due' # {} /\ \A s \in due' : s \in DOMAIN made /\ made[s] \in ToSet(index[c])
      BY <1>1, <1>3, <1>4
<1>6. HandlingType'
      BY <1>1, <1>2, <1>3, <1>5, EmptyList DEF HandlingType, Subscribers
<1>7. VisitedOnce' /\ Awaited'
      BY <1>1, <1>2, <1>5, EmptyList DEF VisitedOnce, Awaited
<1> QED
    BY <1>6, <1>7 DEF HandlingInv

LEMMA NextTopicKeepsHandling == TablesInv /\ HandlingInv /\ NextTopic => HandlingInv'
<1> SUFFICES ASSUME TablesInv, HandlingInv, NextTopic PROVE HandlingInv'
    OBVIOUS
<1> DEFINE t == Head(todo)
<1>1. /\ due # {} /\ batch = << >> /\ todo # << >>
      /\ batch' = Callbacks(t) /\ todo' = Tail(todo) /\ calling' = FALSE
      /\ UNCHANGED <<made, subs, due, reached>>
      BY DEF NextTopic, Idle, tables, HandlingInv, HandlingType
<1>2. todo \in Seq(Topics) /\ NoRepeats(todo) /\ ToSet(todo) \subseteq DOMAIN subs
      BY DEF HandlingInv, HandlingType
<1>3. /\ todo' \in Seq(Topics) /\ NoRepeats(todo') /\ t \in ToSet(todo)
      /\ ToSet(todo') = ToSet(todo) \ {t}
      BY <1>1, <1>2, TailOfList
<1> HIDE DEF t
<1>4. /\ batch' = subs[t] /\ t \in DOMAIN subs
      /\ subs[t] \in Seq(Subscribers) /\ NoRepeats(subs[t])
      /\ \A s \in ToSet(subs[t]) : s \in DOMAIN made /\ made[s] = t
      BY <1>1, <1>2, <1>3 DEF Callbacks, TablesInv, TablesAgree
<1>5. HandlingType'
      BY <1>1, <1>2, <1>3, <1>4 DEF HandlingInv, HandlingType, Subscribers
<1>6. VisitedOnce'
      BY <1>1, <1>3, <1>4 DEF HandlingInv, VisitedOnce
<1>7. Awaited'
  <2> SUFFICES ASSUME NEW s \in due, Listens(s)
               PROVE  s \in reached \/ s \in ToSet(batch') \/ made[s] \in ToSet(todo')
      BY <1>1 DEF Awaited, Listens
  <2>1. s \in reached \/ made[s] \in ToSet(todo)
        BY <1>1, EmptyList DEF HandlingInv, Awaited
  <2>2. made[s] = t => s \in ToSet(batch')
        BY <1>4 DEF Listens
  <2> QED
      BY <1>3, <2>1, <2>2
<1> QED
    BY <1>5, <1>6, <1>7 DEF HandlingInv

LEMMA DispatchKeepsHandling == HandlingInv /\ Dispatch => HandlingInv'
<1> SUFFICES ASSUME HandlingInv, Dispatch PROVE HandlingInv'
    OBVIOUS
<1> DEFINE s == Head(batch)
<1>1. /\ batch # << >> /\ batch' = Tail(batch)
      /\ calling' = TRUE /\ reached' = reached \union {s}
      /\ UNCHANGED <<made, subs, todo, due>>
      BY DEF Dispatch, Calls, tables
<1>2. batch \in Seq(Subscribers) /\ NoRepeats(batch)
      BY DEF HandlingInv, HandlingType
<1>3. /\ batch' \in Seq(Subscribers) /\ NoRepeats(batch') /\ s \in ToSet(batch)
      /\ ToSet(batch') = ToSet(batch) \ {s}
      BY <1>1, <1>2, TailOfList
<1> HIDE DEF s
<1>4. HandlingType'
      BY <1>1, <1>3 DEF HandlingInv, HandlingType, Subscribers
<1>5. VisitedOnce'
      BY <1>1, <1>3 DEF HandlingInv, VisitedOnce
<1>6. Awaited'
      BY <1>1, <1>3 DEF HandlingInv, Awaited, Listens
<1> QED
    BY <1>4, <1>5, <1>6 DEF HandlingInv

LEMMA HandlingPreserved ==
  TablesInv /\ HandlingInv /\ [Next]_vars => HandlingInv'
<1> SUFFICES ASSUME TablesInv, HandlingInv, [Next]_vars PROVE HandlingInv'
    OBVIOUS
<1>1. ASSUME NEW s \in Sockets, Start(s) \/ EndpointReads(s) \/ StartResumes(s)
                                   \/ StartFails(s)
      PROVE  HandlingInv'
      BY <1>1, HandlingUnchanged DEF Start, EndpointReads, StartResumes, StartFails, tables, handling
<1>2. CASE Stop
  <2>1. /\ due = {} /\ todo = << >> /\ batch = << >> /\ reached = {}
        /\ UNCHANGED <<made, todo, batch, calling, due, reached>>
        BY <1>2 DEF Stop, Idle, handling, HandlingInv, HandlingType
  <2>2. HandlingType'
        BY <2>1, EmptyList DEF HandlingInv, HandlingType, Subscribers
  <2> QED
      BY <2>1, <2>2, EmptyList DEF HandlingInv, VisitedOnce, Awaited
<1>3. ASSUME NEW s \in Subscribers, NEW t \in Topics, Subscribe(s, t) PROVE HandlingInv'
      BY <1>3, SubscribeKeepsHandling
<1>4. ASSUME NEW s \in Subscribers, Unsubscribe(s) PROVE HandlingInv'
      BY <1>4, UnsubscribeKeepsHandling
<1>5. ASSUME NEW c \in Crcs, Handle(c) PROVE HandlingInv'
      BY <1>5, HandleKeepsHandling
<1>6. CASE NextTopic
      BY <1>6, NextTopicKeepsHandling
<1>7. CASE Dispatch
      BY <1>7, DispatchKeepsHandling
<1>8. CASE HandleReturns
  <2>1. /\ batch = << >> /\ todo = << >> /\ due' = {} /\ reached' = {} /\ calling' = FALSE
        /\ UNCHANGED <<made, subs, todo, batch>>
        BY <1>8 DEF HandleReturns, tables
  <2>2. HandlingType'
        BY <2>1, EmptyList DEF HandlingInv, HandlingType, Subscribers
  <2> QED
      BY <2>1, <2>2, EmptyList DEF HandlingInv, VisitedOnce, Awaited
<1>9. ASSUME NEW t \in Topics, NEW qos \in 0 .. 2, Publish(t, qos) PROVE HandlingInv'
      BY <1>9, HandlingUnchanged DEF Publish, tables, handling
<1>10. ASSUME NEW h \in armed, Fire(h) \/ Tick(h) PROVE HandlingInv'
      BY <1>10, HandlingUnchanged DEF Fire, Tick, tables, handling
<1>11. CASE UNCHANGED vars
      BY <1>11, HandlingUnchanged DEF vars
<1> QED
    BY <1>1, <1>2, <1>3, <1>4, <1>5, <1>6, <1>7, <1>8, <1>9, <1>10, <1>11 DEF Next

LEMMA HandlingInductive == Spec => []HandlingInv
  BY TablesInductive, HandlingInit, HandlingPreserved, PTL DEF Spec

(* However the callbacks subscribe and unsubscribe while they are called:  *)
(* who listens from the arrival of a datagram until it has been handled is *)
(* reached, and nobody is reached twice (aio.py:382-386).                  *)
THEOREM NobodyIsSkipped == Spec => []NobodySkipped
<1>1. HandlingInv => NobodySkipped
  <2> SUFFICES ASSUME HandlingInv PROVE NobodySkipped
      OBVIOUS
  <2>1. todo = << >> => ToSet(todo) = {}
        BY EmptyList
  <2>2. batch = << >> => ToSet(batch) = {}
        BY EmptyList
  <2> QED
      BY <2>1, <2>2 DEF HandlingInv, VisitedOnce, Awaited, NobodySkipped
<1> QED
    BY HandlingInductive, <1>1, PTL

-----------------------------------------------------------------------------
(* The types the invariants above leave open.                              *)
RestType ==
  /\ promote \in BOOLEAN /\ transport \in 0 .. MaxStarts
  /\ count \in Seq({Indefinite} \union (Nat \ {0}))

LEMMA RestInit == Init => RestType
<1> SUFFICES ASSUME Init PROVE RestType
    OBVIOUS
<1>1. promote \in BOOLEAN /\ transport = 0 /\ count = << >>
      BY DEF Init
<1> QED
    BY <1>1, MaxStartsType DEF RestType

LEMMA RestPreserved == TimersInv /\ RestType /\ [Next]_vars => RestType'
<1> SUFFICES ASSUME TimersInv, RestType, [Next]_vars PROVE RestType'
    OBVIOUS
<1>1. ASSUME UNCHANGED <<promote, transport, count>> PROVE RestType'
      BY <1>1 DEF RestType
<1>2. ASSUME NEW s \in Sockets, Start(s) \/ EndpointReads(s) \/ StartResumes(s)
                                   \/ StartFails(s)
      PROVE  RestType'
  <2>1. UNCHANGED <<promote, count>> /\ (transport' = transport \/ transport' = s)
        BY <1>2 DEF Start, EndpointReads, StartResumes, StartFails, config, sending
  <2>2. s \in 0 .. MaxStarts
        BY MaxStartsType DEF Sockets
  <2> QED
      BY <2>1, <2>2 DEF RestType
<1>3. CASE Stop
  <2>1. UNCHANGED <<promote, count>> /\ transport' = 0
        BY <1>3 DEF Stop, config
  <2> QED
      BY <2>1, MaxStartsType DEF RestType
<1>4. ASSUME NEW s \in Subscribers, NEW t \in Topics, Subscribe(s, t) PROVE RestType'
      BY <1>1, <1>4 DEF Subscribe, config, sockets, sending
<1>5. ASSUME NEW s \in Subscribers, Unsubscribe(s) PROVE RestType'
      BY <1>1, <1>5 DEF Unsubscribe, config, sockets, sending
<1>6. ASSUME NEW c \in Crcs, Handle(c) PROVE RestType'
      BY <1>1, <1>6 DEF Handle, config, sockets, sending
<1>7. CASE NextTopic \/ Dispatch \/ HandleReturns
      BY <1>1, <1>7 DEF NextTopic, Dispatch, HandleReturns, config, sockets, sending
<1>8. ASSUME NEW t \in Topics, NEW qos \in 0 .. 2, Publish(t, qos) PROVE RestType'
  <2> DEFINE n == EffectiveRetransmitCount(qos)
  <2>1. n \in {Indefinite} \union (Nat \ {0})
        BY EffectiveCount DEF TimersInv, SendingType
  <2>2. count' = Append(count, n) /\ UNCHANGED <<promote, transport>>
        BY <1>8 DEF Publish, config, sockets
  <2> HIDE DEF n
  <2> QED
      BY <2>1, <2>2 DEF RestType
<1>9. ASSUME NEW h \in armed, Fire(h) \/ Tick(h) PROVE RestType'
      BY <1>1, <1>9 DEF Fire, Tick, config, sockets
<1>10. CASE UNCHANGED vars
      BY <1>1, <1>10 DEF vars
<1> QED
    BY <1>2, <1>3, <1>4, <1>5, <1>6, <1>7, <1>8, <1>9, <1>10 DEF Next

LEMMA TypesFollow ==
  ASSUME GroupsInv, TimersInv, TablesInv, HandlingInv, RestType
  PROVE  TypeOK
<1>1. /\ base \in Bases /\ promote \in BOOLEAN
      /\ {sock, transport} \subseteq 0 .. MaxStarts
      /\ phase \in [Sockets -> {"unused", "opening", "reading", "started", "closed"}]
      /\ joined \in [Sockets -> SUBSET Topics]
      BY DEF GroupsInv, TimersInv, SendingType, RestType
<1>2. /\ crc \in [Topics -> Crcs]
      /\ DOMAIN subs \subseteq Topics /\ \A t \in DOMAIN subs : subs[t] \in Seq(Subscribers)
      /\ DOMAIN index \subseteq Crcs /\ \A c \in DOMAIN index : index[c] \in Seq(Topics)
      /\ made \in Seq(Topics) /\ Len(made) <= MaxSubscribed
      BY DEF TablesInv
<1>3. /\ todo \in Seq(Topics) /\ batch \in Seq(Subscribers) /\ calling \in BOOLEAN
      /\ due \subseteq Subscribers /\ reached \subseteq Subscribers
      BY MadeFacts DEF HandlingInv, HandlingType
<1>4. /\ pub \in Seq(Topics) /\ count \in Seq({Indefinite} \union (Nat \ {0}))
      /\ Len(pub) = Len(count) /\ Len(pub) <= MaxPublished /\ Len(pub) \in Nat
      /\ sent \in [Publications -> Nat]
      BY DEF TimersInv, SendingType, RestType
<1>5. 0 .. Len(pub) \subseteq 0 .. MaxPublished /\ 1 .. Len(pub) \subseteq Publications
      BY <1>4, Bounds DEF Publications
<1>6. chain \in [Topics -> 0 .. MaxPublished]
      BY <1>5 DEF TimersInv, ChainInv
<1>7. finite \subseteq [pub : Publications, nth : Nat \ {0}]
      BY <1>5 DEF TimersInv, SendingType
<1>8. armed \subseteq [pub : Publications, nth : Nat]
  <2>1. \A t \in Topics : chain[t] # 0 => chain[t] \in Publications
        BY <1>6, Bounds DEF Publications
  <2>2. ChainTimers \subseteq [pub : Publications, nth : Nat]
        BY <2>1 DEF ChainTimers, Timer
  <2> QED
      BY <1>7, <2>2 DEF TimersInv, TimersTracked, Cancelled
<1>9. lost \subseteq Topics
      BY <1>2 DEF GroupsInv, GroupsFollowSubs
<1> QED
    BY <1>1, <1>2, <1>3, <1>4, <1>6, <1>7, <1>8, <1>9 DEF TypeOK

(* For all configurations: every table of the client keeps its type        *)
(* (aio.py:192-228).                                                       *)
THEOREM TypeCorrect == Spec => []TypeOK
<1>1. Spec => []GroupsInv
      BY GroupsInit, GroupsPreserved, PTL DEF Spec
<1>2. Spec => []RestType
      BY RestInit, RestPreserved, TimersInductive, PTL DEF Spec
<1> QED
    BY <1>1, <1>2, TimersInductive, TablesInductive, HandlingInductive, TypesFollow, PTL

=============================================================================
