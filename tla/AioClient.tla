------------------------------ MODULE AioClient ------------------------------
(***************************************************************************)
(* The plain asyncio client. One event loop runs everything, so a step is  *)
(* what happens between two suspension points: a public call, a timer      *)
(* callback, the part of start() before or after its await. A datagram is  *)
(* handled in one go as well, but it calls subscribers back, and each call *)
(* they make in turn is a step of its own; nothing else is interleaved     *)
(* with it.                                                                *)
(*                                                                         *)
(* A call that raises before it changes anything (a topic or payload that  *)
(* is refused, a client that is not started, a group that cannot be        *)
(* joined) is no step. sendto() failing with OSError is logged and counts  *)
(* as a transmission.                                                      *)
(***************************************************************************)
EXTENDS Integers, SequencesExt

CONSTANTS
  Topics,        (* topics that pass validate_topic()           *)
  Crcs,          (* values of TOPIC_CRC32                       *)
  MaxSubscribed, (* bound: subscriptions                        *)
  Bases,         (* configured retransmit_count values          *)
  MaxStarts,     (* bound: calls of start()                     *)
  MaxPublished,  (* bound: publications                         *)
  MaxCalls,      (* bound: calls of subscribe() and publish()   *)
  MaxSent        (* bound: transmissions counted; no finite     *)
                 (* publication has more                        *)

Indefinite == -1

ASSUME AioClientAssumption ==
  /\ Bases \subseteq {Indefinite} \union (Nat \ {0})
  /\ {MaxSubscribed, MaxStarts, MaxPublished, MaxCalls, MaxSent} \subseteq Nat
  /\ MaxSent >= 3 /\ \A n \in Bases : n <= MaxSent

VARIABLES
  crc,            (* topic_crc32                                             *)
  base, promote,  (* retransmit_count and promote_qos                        *)
  sock,           (* _sock: the number of the socket, or 0                   *)
  transport,      (* _transport: the number of its socket, or 0              *)
  phase,          (* how far each socket and the start() that made it are    *)
  joined,         (* the groups each socket is a member of, by topic         *)
  lost,           (* history: the topics whose socket start() lost           *)
  subs,           (* _subs: the callbacks of each topic that has any         *)
  index,          (* _crc_index: the topics subscribed to under each CRC     *)
  made,           (* history: the topic each _Subscription was made for      *)
  todo, batch,    (* what the datagram being handled still has to visit: the *)
                  (* copy of the topics, the copy of one topic's callbacks   *)
  calling,        (* the callback of a subscriber is running                 *)
  due, reached,   (* history: the subscribers it came for, those it reached  *)
  pub, count,     (* history: topic and retransmit count of each publication *)
  armed,          (* the timers the event loop holds                         *)
  finite, chain,  (* _finite, and _indefinite: the publication or 0          *)
  sent            (* history: transmissions of each publication              *)

config == <<crc, base, promote>>
sockets == <<sock, transport, phase>>
tables == <<joined, lost, subs, index>>
handling == <<todo, batch, calling, due, reached>>
sending == <<pub, count, armed, finite, chain, sent>>

vars == <<crc, base, promote, sock, transport, phase, joined, lost, subs, index, made,
          todo, batch, calling, due, reached, pub, count, armed, finite, chain, sent>>

Sockets == 1 .. MaxStarts

(* _Subscription objects, numbered in the order subscribe() makes them. *)
Subscribers == 1 .. MaxSubscribed

Publications == 1 .. MaxPublished

(* The i-th retransmission of a finite publication, or (0) the one timer   *)
(* of an indefinite chain.                                                 *)
Timer(p, i) == [pub |-> p, nth |-> i]

Without(f, x) == [y \in DOMAIN f \ {x} |-> f[y]]

With(f, x, v) == [y \in DOMAIN f \union {x} |-> IF y = x THEN v ELSE f[y]]

CallsLeft == Len(made) + Len(pub) < MaxCalls

Idle == todo = <<>> /\ batch = <<>> /\ due = {}

(* Whoever calls the client is the application or a callback.              *)
Called == Idle \/ calling

Init ==
  /\ crc \in [Topics -> Crcs]
  /\ base \in Bases /\ promote \in BOOLEAN
  /\ sock = 0 /\ transport = 0
  /\ phase = [s \in Sockets |-> "unused"]
  /\ joined = [s \in Sockets |-> {}] /\ lost = {}
  /\ subs = <<>> /\ index = <<>> /\ made = <<>>
  /\ todo = <<>> /\ batch = <<>> /\ calling = FALSE /\ due = {} /\ reached = {}
  /\ pub = <<>> /\ count = <<>>
  /\ armed = {} /\ finite = {}
  /\ chain = [t \in Topics |-> 0]
  /\ sent = [p \in Publications |-> 0]

-----------------------------------------------------------------------------
(* start() and stop(). Nothing in start() looks at what an earlier one     *)
(* left: it may be called on a client that is started, or whose start() is *)
(* suspended or has failed, and stop() may come while it is suspended.     *)

(* The new socket is in none of the groups the old one was in.             *)
Start(s) ==
  /\ Idle
  /\ phase[s] = "unused" /\ \A r \in 1 .. s - 1 : phase[r] # "unused"
  /\ sock' = s
  /\ lost' = DOMAIN subs
  /\ phase' = [phase EXCEPT ![s] = "opening"]
  /\ UNCHANGED <<config, transport, joined, subs, index, made, handling, sending>>

(* create_datagram_endpoint(): the loop reads from the socket before       *)
(* start() is resumed.                                                     *)
EndpointReads(s) ==
  /\ Idle
  /\ phase[s] = "opening"
  /\ phase' = [phase EXCEPT ![s] = "reading"]
  /\ UNCHANGED <<config, sock, transport, tables, made, handling, sending>>

StartResumes(s) ==
  /\ Idle
  /\ phase[s] = "reading"
  /\ transport' = s
  /\ phase' = [phase EXCEPT ![s] = "started"]
  /\ UNCHANGED <<config, sock, tables, made, handling, sending>>

(* The await raises, start() having been cancelled, say. asyncio closes the *)
(* endpoint and its socket; _sock still refers to it.                      *)
StartFails(s) ==
  /\ Idle
  /\ phase[s] \in {"opening", "reading"}
  /\ phase' = [phase EXCEPT ![s] = "closed"]
  /\ joined' = [joined EXCEPT ![s] = {}]
  /\ lost' = IF s = sock THEN DOMAIN subs ELSE lost
  /\ UNCHANGED <<config, sock, transport, subs, index, made, handling, sending>>

ChainTimers == {Timer(chain[t], 0) : t \in {u \in Topics : chain[u] # 0}}

(* A faulty form of Cancelled: only the indefinite chains are cancelled.   *)
CancelledChainsOnly == ChainTimers

Cancelled == ChainTimers \union finite

Stop ==
  /\ Idle
  /\ armed' = armed \ Cancelled
  /\ finite' = {} /\ chain' = [t \in Topics |-> 0]
  /\ phase' = [s \in Sockets |-> IF s = transport THEN "closed" ELSE phase[s]]
  /\ joined' = [s \in Sockets |-> IF s = transport THEN {} ELSE joined[s]]
  /\ transport' = 0 /\ sock' = 0
  /\ subs' = <<>> /\ index' = <<>> /\ lost' = {}
  /\ UNCHANGED <<config, made, handling, pub, count, sent>>

-----------------------------------------------------------------------------
(* subscribe() and the function it returns. *)

(* A faulty form of Indexed: the latest topic takes the place of others.   *)
IndexedAlone(t) == With(index, crc[t], <<t>>)

Indexed(t) ==
  With(index, crc[t], IF crc[t] \in DOMAIN index THEN Append(index[crc[t]], t) ELSE <<t>>)

SubscribeMore(s, t) ==
  /\ t \in DOMAIN subs
  /\ subs' = [subs EXCEPT ![t] = Append(@, s)]
  /\ UNCHANGED <<joined, lost, index>>

(* setsockopt() raises OSError on a socket that is closed.                 *)
Join(s, t) ==
  /\ t \notin DOMAIN subs
  /\ sock # 0 /\ phase[sock] # "closed"
  /\ joined' = [joined EXCEPT ![sock] = @ \union {t}]
  /\ subs' = With(subs, t, <<s>>)
  /\ index' = Indexed(t)
  /\ UNCHANGED lost

Subscribe(s, t) ==
  /\ Called /\ CallsLeft
  /\ s = Len(made) + 1
  /\ SubscribeMore(s, t) \/ Join(s, t)
  /\ made' = Append(made, t)
  /\ UNCHANGED <<config, sockets, handling, sending>>

Listens(s) == made[s] \in DOMAIN subs /\ s \in ToSet(subs[made[s]])

Remaining(s) == RemoveFirst(subs[made[s]], s)

(* A faulty form of Unindexed: the CRC goes with the first of its topics.  *)
UnindexedAll(t) == Without(index, crc[t])

Unindexed(t) ==
  LET siblings == RemoveFirst(index[crc[t]], t)
  IN IF siblings = <<>> THEN Without(index, crc[t]) ELSE [index EXCEPT ![crc[t]] = siblings]

(* A faulty form of LeaveGroup: the membership outlives the last listener. *)
LeaveGroupNever(t) == UNCHANGED joined

(* The kernel refuses to leave a group only when the socket is not in it   *)
(* (the topic is one of lost) or is closed: the OSError that is logged     *)
(* stands for no membership that goes on.                                  *)
LeaveGroup(t) ==
  joined' = [s \in Sockets |-> IF s = sock THEN joined[s] \ {t} ELSE joined[s]]

LeaveTopic(s) ==
  /\ Listens(s)
  /\ Remaining(s) # <<>>
  /\ subs' = [subs EXCEPT ![made[s]] = Remaining(s)]
  /\ UNCHANGED <<joined, lost, index, todo>>

(* The _TopicSub stays empty for the datagram that is being handled, too:  *)
(* who subscribes to the topic again gets another.                         *)
LeaveTopicLast(s) ==
  /\ Listens(s)
  /\ Remaining(s) = <<>>
  /\ subs' = Without(subs, made[s])
  /\ index' = Unindexed(made[s])
  /\ LeaveGroup(made[s])
  /\ lost' = lost \ {made[s]}
  /\ todo' = RemoveFirst(todo, made[s])

(* The second call, or one from before a stop(), finds nothing to do.      *)
Unsubscribed(s) ==
  LeaveTopic(s) \/ LeaveTopicLast(s) \/ (~Listens(s) /\ UNCHANGED <<tables, todo>>)

Unsubscribe(s) ==
  /\ Called
  /\ s \in DOMAIN made
  /\ Unsubscribed(s)
  /\ UNCHANGED <<config, sockets, made, batch, calling, due, reached, sending>>

-----------------------------------------------------------------------------
(* _handle_datagram() for a datagram that decodes, passes the replay guard *)
(* and is RAW. Any CRC may arrive: the socket is bound to the port, not to *)
(* its groups.                                                             *)

Callbacks(t) == IF t \in DOMAIN subs THEN subs[t] ELSE <<>>

Handle(c) ==
  /\ Idle
  /\ \E s \in Sockets : phase[s] \in {"reading", "started"}
  /\ c \in DOMAIN index
  /\ todo' = index[c]
  /\ due' = UNION {ToSet(Callbacks(t)) : t \in ToSet(index[c])}
  /\ UNCHANGED <<config, sockets, tables, made, batch, calling, reached, sending>>

NextTopic ==
  /\ ~Idle /\ batch = <<>> /\ todo # <<>>
  /\ batch' = Callbacks(Head(todo))
  /\ todo' = Tail(todo)
  /\ calling' = FALSE
  /\ UNCHANGED <<config, sockets, tables, made, due, reached, sending>>

(* The subscriber's callback begins. Until the next one does it may make   *)
(* any call that does not suspend. One whose codec cannot decode the       *)
(* payload, or whose callback raises, is passed over; a coroutine is only  *)
(* scheduled.                                                              *)
Calls(s) == calling' = TRUE /\ reached' = reached \union {s}

(* A faulty form of Dispatch: the list is not a copy, and a callback that  *)
(* unsubscribes itself moves the next one into its place.                  *)
DispatchLive ==
  /\ batch # <<>>
  /\ Calls(Head(batch))
  /\ \/ /\ Unsubscribed(Head(batch))
        /\ batch' = IF Len(batch) > 1 THEN Tail(Tail(batch)) ELSE <<>>
     \/ /\ UNCHANGED <<tables, todo>>
        /\ batch' = Tail(batch)
  /\ UNCHANGED <<config, sockets, made, due, sending>>

Dispatch ==
  /\ batch # <<>>
  /\ Calls(Head(batch))
  /\ batch' = Tail(batch)
  /\ UNCHANGED <<config, sockets, tables, made, todo, due, sending>>

HandleReturns ==
  /\ ~Idle /\ batch = <<>> /\ todo = <<>>
  /\ calling' = FALSE /\ due' = {} /\ reached' = {}
  /\ UNCHANGED <<config, sockets, tables, made, todo, batch, sending>>

-----------------------------------------------------------------------------
(* publish() and the timers. *)

EffectiveRetransmitCount(qos) ==
  IF ~promote \/ qos = 0 THEN base
  ELSE IF qos = 1 THEN IF base # Indefinite /\ base < 3 THEN 3 ELSE base
  ELSE Indefinite

Transmitted(p) == sent' = [sent EXCEPT ![p] = IF @ < MaxSent THEN @ + 1 ELSE @]

(* Faulty forms of Superseded. The handle is forgotten, not cancelled.     *)
SupersededRunsOn(t) == {}

(* The finite publications of the topic go along with the chain.           *)
SupersededAll(t) == {h \in armed : pub[h.pub] = t}

(* _cancel_indefinite() *)
Superseded(t) == IF chain[t] # 0 THEN {Timer(chain[t], 0)} ELSE {}

(* Faulty forms of Retransmits: range(count), range(1, count + 1).         *)
RetransmitsFromNow(p, n) == {Timer(p, i) : i \in 0 .. n - 1}

RetransmitsOneMore(p, n) == {Timer(p, i) : i \in 1 .. n}

Retransmits(p, n) == {Timer(p, i) : i \in 1 .. n - 1}

Publish(t, qos) ==
  LET p == Len(pub) + 1
      n == EffectiveRetransmitCount(qos)
  IN /\ Called /\ CallsLeft
     /\ transport # 0
     /\ p <= MaxPublished
     /\ pub' = Append(pub, t) /\ count' = Append(count, n)
     /\ Transmitted(p)
     /\ chain' = [chain EXCEPT ![t] = IF n = Indefinite THEN p ELSE 0]
     /\ finite' = finite \union Retransmits(p, n)
     /\ armed' = (armed \ Superseded(t)) \union Retransmits(p, n)
                   \union (IF n = Indefinite THEN {Timer(p, 0)} ELSE {})
     /\ UNCHANGED <<config, sockets, tables, made, handling>>

(* Timers of one delay fire in the order they were armed, and the i-th     *)
(* retransmission waits i delays.                                          *)
First(h) ==
  \A g \in armed : g.nth > 0 /\ g.pub <= h.pub /\ g.nth <= h.nth => g = h

(* A faulty form of Discarded: the fired handle stays in _finite.          *)
DiscardedNever(h) == finite

Discarded(h) == finite \ {h}

Fire(h) ==
  /\ Idle
  /\ h \in armed /\ h.nth > 0 /\ First(h)
  /\ armed' = armed \ {h}
  /\ finite' = Discarded(h)
  /\ Transmitted(h.pub)
  /\ UNCHANGED <<config, sockets, tables, made, handling, pub, count, chain>>

(* The chain's timer transmits and arms itself again. *)
Tick(h) ==
  /\ Idle
  /\ h \in armed /\ h.nth = 0
  /\ chain' = [chain EXCEPT ![pub[h.pub]] = h.pub]
  /\ Transmitted(h.pub)
  /\ UNCHANGED <<config, sockets, tables, made, handling, pub, count, armed, finite>>

-----------------------------------------------------------------------------
Next ==
  \/ \E s \in Sockets : Start(s) \/ EndpointReads(s) \/ StartResumes(s) \/ StartFails(s)
  \/ Stop
  \/ \E s \in Subscribers, t \in Topics : Subscribe(s, t)
  \/ \E s \in Subscribers : Unsubscribe(s)
  \/ \E c \in Crcs : Handle(c)
  \/ NextTopic \/ Dispatch \/ HandleReturns
  \/ \E t \in Topics, qos \in 0 .. 2 : Publish(t, qos)
  \/ \E h \in armed : Fire(h) \/ Tick(h)

Spec == Init /\ [][Next]_vars

(* The loop finishes the datagram it has begun to handle, and comes round  *)
(* to every timer that is due however often datagrams arrive in between    *)
(* (which disable Fire while they are handled).                            *)
Fairness ==
  /\ WF_vars(NextTopic) /\ WF_vars(Dispatch) /\ WF_vars(HandleReturns)
  /\ SF_vars(\E h \in armed : Fire(h))

FairSpec == Spec /\ Fairness

-----------------------------------------------------------------------------
(* Type invariant. *)
TypeOK ==
  /\ crc \in [Topics -> Crcs] /\ base \in Bases /\ promote \in BOOLEAN
  /\ {sock, transport} \subseteq 0 .. MaxStarts
  /\ phase \in [Sockets -> {"unused", "opening", "reading", "started", "closed"}]
  /\ joined \in [Sockets -> SUBSET Topics] /\ lost \subseteq Topics
  /\ DOMAIN subs \subseteq Topics /\ \A t \in DOMAIN subs : subs[t] \in Seq(Subscribers)
  /\ DOMAIN index \subseteq Crcs /\ \A c \in DOMAIN index : index[c] \in Seq(Topics)
  /\ made \in Seq(Topics) /\ Len(made) <= MaxSubscribed
  /\ todo \in Seq(Topics) /\ batch \in Seq(Subscribers) /\ calling \in BOOLEAN
  /\ due \subseteq Subscribers /\ reached \subseteq Subscribers
  /\ pub \in Seq(Topics) /\ count \in Seq({Indefinite} \union (Nat \ {0}))
  /\ Len(pub) = Len(count) /\ Len(pub) <= MaxPublished
  /\ armed \subseteq [pub : Publications, nth : Nat]
  /\ finite \subseteq [pub : Publications, nth : Nat \ {0}]
  /\ chain \in [Topics -> 0 .. MaxPublished]
  /\ sent \in [Publications -> Nat]

(* The two tables describe the same subscriptions, whatever was subscribed *)
(* and unsubscribed in whatever order and however the CRCs collide: no     *)
(* entry is left empty (aio.py:343-346), none is missing, none is double.  *)
(* A topic missing from the index is deaf; an empty entry, where the Home  *)
(* Assistant client reads existing[0], raises on the next subscribe.       *)
NoRepeats(s) == \A i, j \in DOMAIN s : s[i] = s[j] => i = j

TablesAgree ==
  /\ \A t \in DOMAIN subs :
       /\ subs[t] # <<>> /\ NoRepeats(subs[t])
       /\ \A s \in ToSet(subs[t]) : s \in DOMAIN made /\ made[s] = t
  /\ \A c \in DOMAIN index : index[c] # <<>> /\ NoRepeats(index[c])
  /\ DOMAIN index = {crc[t] : t \in DOMAIN subs}
  /\ \A c \in DOMAIN index : ToSet(index[c]) = {t \in DOMAIN subs : crc[t] = c}

(* While it has a socket the client is in exactly the groups of the topics *)
(* that have a listener, and without one it has no subscription, also when *)
(* stop() and start() overlap. Only a start() that failed, or a second one *)
(* without a stop(), leaves topics behind: their socket is gone, nothing   *)
(* joins their groups again, and they are deaf until the last of their     *)
(* listeners leaves.                                                       *)
GroupsFollowSubs ==
  /\ lost \subseteq DOMAIN subs
  /\ IF sock = 0 THEN subs = <<>> ELSE joined[sock] = DOMAIN subs \ lost

(* Everything the loop still holds can be cancelled: the timers are the    *)
(* handles in _finite and _indefinite, so none survives stop(), and none   *)
(* fires into a transport that is None, where _sendto() would raise        *)
(* AttributeError in the loop (aio.py:464-495).                            *)
TimersTracked ==
  /\ armed = Cancelled
  /\ armed # {} => transport # 0

(* A chain repeats the latest publication on its topic and nothing older:  *)
(* what aio.py:437 calls superseding. The Go bridge fails it for a moment. *)
ChainIsLatest ==
  \A h \in armed : h.nth = 0 =>
    \A p \in DOMAIN pub : pub[p] = pub[h.pub] => p <= h.pub

(* A finite publication has as many transmissions ahead of it as it is     *)
(* short of, unless stop() took them all.                                  *)
FiniteAccounted ==
  \A p \in DOMAIN pub :
    LET left == {h \in armed : h.pub = p /\ h.nth > 0}
    IN left # {} => sent[p] + Cardinality(left) = count[p]

(* A datagram reaches everyone who listens under its CRC when it arrives   *)
(* and still does when it has been handled, and nobody twice, although the *)
(* callbacks subscribe and unsubscribe, and so change the tables that are  *)
(* being walked (aio.py:382-386).                                          *)
NobodySkipped ==
  /\ ToSet(batch) \cap reached = {}
  /\ todo = <<>> /\ batch = <<>> => \A s \in due : Listens(s) => s \in reached

(* A finite publication that has begun is transmitted as often as it       *)
(* promised unless the client is stopped: no later publish, subscribe or   *)
(* datagram takes a retransmission away.                                   *)
Pending(p) == \E h \in armed : h.pub = p /\ h.nth > 0

TransmissionsComplete ==
  \A p \in Publications :
    Pending(p) ~> (transport = 0 \/ (p \in DOMAIN pub /\ sent[p] = count[p]))

=============================================================================
