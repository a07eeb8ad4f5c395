------------------------- MODULE GoPublisherProofs -------------------------
(***************************************************************************)
(* The Go bridge's publisher, for every set of topics and every bound: the *)
(* map of channels and the goroutines agree, no channel is closed twice,   *)
(* a finite publication keeps to its count, and a chain that is superseded *)
(* has been told so.                                                       *)
(***************************************************************************)
EXTENDS GoPublisher, TLAPS

(* What the handler may rely on: the message it works on was delivered and *)
(* encoded, has no goroutine yet, and once the cancel is done nobody but   *)
(* the handler itself puts its topic back into the map.                    *)
HandlerAlone ==
  handler.at # "idle" =>
    /\ handler.msg \in Delivered
    /\ count[handler.msg] # 0
    /\ chain[handler.msg] = "none"
    /\ left[handler.msg] = 0
    /\ handler.at \in {"cancel", "send"} => sent[handler.msg] = 0
    /\ handler.at = "schedule" => sent[handler.msg] <= 1
    /\ handler.at # "cancel" => jobs[topic[handler.msg]] = 0

(* Messages to come have left no trace. *)
NoTrace ==
  \A m \in Messages \ Delivered :
    chain[m] = "none" /\ left[m] = 0 /\ sent[m] = 0 /\ count[m] = 0

(* Only a message of indefinite count gets a chain, and only chains that   *)
(* were started have their channel closed.                                 *)
ChainIsIndefinite ==
  /\ \A m \in Messages : chain[m] # "none" => count[m] = Indefinite
  /\ \A m \in cancelled : chain[m] # "none"

(* The inductive invariant. *)
Inv ==
  /\ TypeOK
  /\ HandlerAlone
  /\ NoTrace
  /\ ChainIsIndefinite
  /\ JobIsChain
  /\ FiniteBounded

(* What the types say of the messages delivered and of the handler.        *)
LEMMA DeliveredFacts ==
  ASSUME TypeOK
  PROVE  /\ Len(topic) \in Nat /\ Len(topic) <= MaxMessages
         /\ Delivered = 1 .. Len(topic)
         /\ \A m \in Delivered : topic[m] \in Topics /\ m \in Messages
         /\ handler = [at |-> handler.at, msg |-> handler.msg]
BY GoPublisherAssumption DEF TypeOK, Delivered, Messages

(* A transmission counts for its message alone, and once at most.          *)
LEMMA TransmittedFacts ==
  ASSUME TypeOK, NEW m \in Messages, Transmitted(m)
  PROVE  /\ sent' \in [Messages -> 0 .. MaxSent]
         /\ sent'[m] <= sent[m] + 1
         /\ \A n \in Messages \ {m} : sent'[n] = sent[n]
BY GoPublisherAssumption DEF TypeOK, Transmitted

(* A message delivered is the next one, and the others keep their topics.  *)
LEMMA ReceiveFacts ==
  ASSUME TypeOK, NEW t \in Topics, Len(topic) < MaxMessages, topic' = Append(topic, t)
  PROVE  /\ topic' \in Seq(Topics)
         /\ Len(topic') \in Messages \ Delivered
         /\ DOMAIN topic' = Delivered \union {Len(topic')}
         /\ DOMAIN topic' \subseteq Messages
         /\ \A m \in Delivered : topic'[m] = topic[m]
<1>1. topic \in Seq(Topics) /\ Len(topic) \in Nat
  BY DEF TypeOK
<1>2. /\ topic' \in Seq(Topics)
      /\ Len(topic') = Len(topic) + 1
      /\ \A m \in 1 .. Len(topic) : topic'[m] = topic[m]
  BY <1>1
<1>3. DOMAIN topic = 1 .. Len(topic) /\ DOMAIN topic' = 1 .. Len(topic')
  BY <1>2
<1> QED BY <1>2, GoPublisherAssumption DEF Messages, Delivered

(* A running chain belongs to a message that was delivered. *)
LEMMA RunningDelivered ==
  ASSUME Inv, NEW m \in Messages, Running(m)
  PROVE  m \in Delivered
BY DEF Inv, NoTrace, Running

(* One lemma for each action, one step in it for each part of Inv. A       *)
(* delivered message is new to everything but the handler.                 *)
LEMMA ReceiveInv ==
  ASSUME Inv, NEW t \in Topics, NEW q \in 0 .. 2, Receive(t, q)
  PROVE  Inv'
<1>1. TypeOK'
  <2>1. EffectiveRetransmitCount(q) \in {Indefinite} \union Nat
    BY GoPublisherAssumption DEF Inv, TypeOK, EffectiveRetransmitCount
  <2>2. count' \in [Messages -> {Indefinite} \union Nat]
    BY <2>1 DEF Inv, TypeOK, Receive
  <2>3. handler' \in [at : {"idle", "cancel", "send", "schedule"},
                     msg : 0 .. MaxMessages]
    BY ReceiveFacts, SMTT(30) DEF Inv, TypeOK, Receive, Messages
  <2> QED BY <2>2, <2>3, ReceiveFacts DEF Inv, TypeOK, Delivered, config, run,
             chains, wire, Receive
<1>2. HandlerAlone'
  <2>1. EffectiveRetransmitCount(q) # 0
    BY GoPublisherAssumption DEF Inv, TypeOK, EffectiveRetransmitCount, Indefinite
  <2>2. CASE UNCHANGED <<handler, count>>
    BY <2>2 DEF Inv, HandlerAlone, Receive
  <2>3. CASE handler' = [at |-> "cancel", msg |-> Len(topic')]
             /\ count' = [count EXCEPT ![Len(topic')] = EffectiveRetransmitCount(q)]
    BY ReceiveFacts, <2>1 DEF Inv, TypeOK, HandlerAlone, NoTrace, Delivered,
       Receive, chains, wire
  <2> QED BY <2>2, <2>3 DEF Receive
<1>3. NoTrace'
  BY DEF Inv, TypeOK, NoTrace, Delivered, Receive, chains, wire
<1>4. ChainIsIndefinite'
  <2>1. chain[Len(topic')] = "none"
    BY ReceiveFacts DEF Inv, NoTrace, Receive
  <2> QED BY <2>1 DEF Inv, TypeOK, ChainIsIndefinite, Receive, chains
<1>5. JobIsChain'
  BY SMTT(30) DEF Inv, TypeOK, NoTrace, JobIsChain, Running, Messages, Delivered,
     chains, Receive
<1>6. FiniteBounded'
  <2> SUFFICES ASSUME NEW n \in Messages, count'[n] \in 1 .. MaxSent
               PROVE  sent'[n] + left'[n] <= count'[n]
    BY DEF FiniteBounded
  <2>1. count[n] \in 1 .. MaxSent => sent[n] + left[n] <= count[n]
    BY DEF Inv, FiniteBounded
  <2>2. sent'[n] = sent[n] /\ left'[n] = left[n]
    BY DEF Receive, wire
  <2>3. sent[Len(topic')] = 0 /\ left[Len(topic')] = 0
    BY ReceiveFacts DEF Inv, NoTrace, Receive
  <2>4. n = Len(topic') \/ count'[n] = count[n]
    BY DEF Inv, TypeOK, Receive
  <2> QED BY <2>1, <2>2, <2>3, <2>4
<1> QED BY <1>1, <1>2, <1>3, <1>4, <1>5, <1>6 DEF Inv

(* The cancel closes the channel it takes out of the map, and no other.    *)
LEMMA CancelInv ==
  ASSUME Inv, Cancel
  PROVE  Inv'
<1>1. TypeOK'
  <2>1. topic[handler.msg] \in Topics
    BY DeliveredFacts DEF Inv, HandlerAlone, Cancel
  <2>2. jobs' \in [Topics -> 0 .. MaxMessages]
    BY <2>1, GoPublisherAssumption DEF Inv, TypeOK, Cancel, CancelIndefinite
  <2>3. cancelled' \subseteq Messages
    BY <2>1 DEF Inv, TypeOK, Cancel, CancelIndefinite, Messages
  <2> QED BY <2>2, <2>3 DEF Inv, TypeOK, Delivered, config, run, history, wire,
             Cancel
<1>2. HandlerAlone'
  BY DEF Inv, TypeOK, HandlerAlone, Delivered, history, wire, Cancel,
     CancelIndefinite
<1>3. NoTrace'
  BY DEF Inv, NoTrace, Delivered, history, wire, Cancel
<1>4. ChainIsIndefinite'
  <2>1. topic[handler.msg] \in Topics
    BY DeliveredFacts DEF Inv, HandlerAlone, Cancel
  <2> QED BY <2>1 DEF Inv, ChainIsIndefinite, JobIsChain, Running, Cancel,
             CancelIndefinite, history
<1>5. JobIsChain'
  <2> DEFINE u == topic[handler.msg]
  <2>1. u \in Topics /\ jobs \in [Topics -> 0 .. MaxMessages]
    BY DeliveredFacts DEF Inv, TypeOK, HandlerAlone, Cancel
  <2>2. jobs' = [jobs EXCEPT ![u] = 0] /\ cancelled' \subseteq cancelled \union {jobs[u]}
    BY DEF Cancel, CancelIndefinite
  <2>3. /\ chain' = chain /\ topic' = topic
        /\ cancelled \subseteq cancelled'
        /\ jobs[u] # 0 => jobs[u] \in cancelled'
    BY DEF Cancel, CancelIndefinite, history
  <2>4. ASSUME NEW t \in Topics, jobs'[t] # 0
        PROVE  jobs'[t] \notin cancelled' /\ Running(jobs[t])' /\ topic'[jobs'[t]] = t
    <3>1. t # u /\ jobs'[t] = jobs[t] /\ jobs[t] # 0
      BY <2>1, <2>2, <2>4
    <3>2. jobs[t] \notin cancelled /\ Running(jobs[t]) /\ topic[jobs[t]] = t
      BY <3>1 DEF Inv, JobIsChain
    <3>3. jobs[t] # jobs[u]
      BY <2>1, <3>1 DEF Inv, JobIsChain
    <3> QED BY <2>2, <2>3, <3>2, <3>3 DEF Running
  <2>5. ASSUME NEW m \in Messages, Running(m)', m \notin cancelled'
        PROVE  jobs'[topic'[m]] = m
    <3>1. jobs[topic[m]] = m /\ m # 0
      BY <2>3, <2>5 DEF Inv, JobIsChain, Running, Messages
    <3>2. topic[m] \in Topics /\ topic[m] # u
      BY <2>3, <2>5, <3>1, RunningDelivered, DeliveredFacts DEF Inv, Running
    <3> QED BY <2>2, <2>3, <3>1, <3>2
  <2> QED BY <2>4, <2>5 DEF JobIsChain
<1>6. FiniteBounded'
  BY DEF Inv, FiniteBounded, history, wire, Cancel
<1> QED BY <1>1, <1>2, <1>3, <1>4, <1>5, <1>6 DEF Inv

(* The first transmission counts for the message the handler works on.     *)
LEMMA SendFirstInv ==
  ASSUME Inv, SendFirst
  PROVE  Inv'
<1>1. TypeOK'
  BY TransmittedFacts DEF Inv, TypeOK, HandlerAlone, Delivered, config, run,
     history, chains, SendFirst
<1>2. HandlerAlone'
  BY TransmittedFacts DEF Inv, TypeOK, HandlerAlone, Delivered, history,
     chains, SendFirst
<1>3. NoTrace'
  BY TransmittedFacts DEF Inv, TypeOK, HandlerAlone, NoTrace, Delivered,
     history, chains, SendFirst
<1>4. ChainIsIndefinite'
  BY DEF Inv, ChainIsIndefinite, history, chains, SendFirst
<1>5. JobIsChain'
  BY DEF Inv, JobIsChain, Running, history, chains, SendFirst
<1>6. FiniteBounded'
  <2> SUFFICES ASSUME NEW n \in Messages, count'[n] \in 1 .. MaxSent
               PROVE  sent'[n] + left'[n] <= count'[n]
    BY DEF FiniteBounded
  <2>1. count[n] \in 1 .. MaxSent => sent[n] + left[n] <= count[n]
    BY DEF Inv, FiniteBounded
  <2>2. handler.msg \in Messages
    BY DeliveredFacts DEF Inv, HandlerAlone, SendFirst
  <2>3. IF n = handler.msg THEN sent'[n] <= sent[n] + 1 ELSE sent'[n] = sent[n]
    BY <2>2, TransmittedFacts DEF Inv, SendFirst
  <2>4. sent'[n] \in Nat
    BY <2>2, TransmittedFacts DEF Inv, SendFirst
  <2> QED BY <2>1, <2>3, <2>4 DEF Inv, HandlerAlone, SendFirst, history
<1> QED BY <1>1, <1>2, <1>3, <1>4, <1>5, <1>6 DEF Inv

(* A failed first transmission leaves the message without a goroutine.     *)
LEMMA SendFirstFailsInv ==
  ASSUME Inv, SendFirstFails
  PROVE  Inv'
<1>1. TypeOK'
  BY GoPublisherAssumption DEF Inv, TypeOK, Idle, Delivered, config, run,
     history, chains, wire, SendFirstFails
<1>2. HandlerAlone'
  BY DEF Inv, HandlerAlone, Idle, SendFirstFails
<1>3. NoTrace'
  BY DEF Inv, NoTrace, Delivered, history, chains, wire, SendFirstFails
<1>4. ChainIsIndefinite'
  BY DEF Inv, ChainIsIndefinite, history, chains, SendFirstFails
<1>5. JobIsChain'
  BY DEF Inv, JobIsChain, Running, history, chains, SendFirstFails
<1>6. FiniteBounded'
  <2> SUFFICES ASSUME NEW n \in Messages, count'[n] \in 1 .. MaxSent
               PROVE  sent'[n] + left'[n] <= count'[n]
    BY DEF FiniteBounded
  <2>1. count[n] \in 1 .. MaxSent => sent[n] + left[n] <= count[n]
    BY DEF Inv, FiniteBounded
  <2> QED BY <2>1 DEF SendFirstFails, history, wire
<1> QED BY <1>1, <1>2, <1>3, <1>4, <1>5, <1>6 DEF Inv

(* A new chain enters the map, where the cancel left its place free.       *)
LEMMA StartIndefiniteInv ==
  ASSUME Inv, StartIndefinite
  PROVE  Inv'
<1>1. TypeOK'
  <2>1. handler' \in [at : {"idle", "cancel", "send", "schedule"},
                     msg : 0 .. MaxMessages]
    BY GoPublisherAssumption DEF Inv, StartIndefinite, Idle
  <2> QED BY <2>1 DEF Inv, TypeOK, Delivered, config, run, history, wire,
             StartIndefinite
<1>2. HandlerAlone'
  BY DEF Inv, HandlerAlone, Idle, StartIndefinite
<1>3. NoTrace'
  BY DEF Inv, NoTrace, Delivered, Indefinite, history, wire, StartIndefinite
<1>4. ChainIsIndefinite'
  BY DEF Inv, ChainIsIndefinite, history, StartIndefinite
<1>5. JobIsChain'
  BY SMTT(30) DEF Inv, TypeOK, HandlerAlone, ChainIsIndefinite, JobIsChain, Running,
     Messages, Delivered, history, StartIndefinite
<1>6. FiniteBounded'
  BY DEF Inv, FiniteBounded, history, wire, StartIndefinite
<1> QED BY <1>1, <1>2, <1>3, <1>4, <1>5, <1>6 DEF Inv

(* The first transmission and those left make up the count.                *)
LEMMA ScheduleFiniteInv ==
  ASSUME Inv, ScheduleFinite
  PROVE  Inv'
<1>1. TypeOK'
  <2>1. handler' \in [at : {"idle", "cancel", "send", "schedule"},
                     msg : 0 .. MaxMessages]
    BY GoPublisherAssumption DEF Inv, ScheduleFinite, Idle
  <2>2. count[handler.msg] - 1 \in Nat
    BY DEF Inv, TypeOK, HandlerAlone, ScheduleFinite
  <2>3. left' \in [Messages -> Nat]
    BY <2>2 DEF Inv, TypeOK, ScheduleFinite, FiniteRetransmits
  <2> QED BY <2>1, <2>3 DEF Inv, TypeOK, Delivered, config, run, history,
             chains, wire, ScheduleFinite
<1>2. HandlerAlone'
  BY DEF Inv, HandlerAlone, Idle, ScheduleFinite
<1>3. NoTrace'
  BY DEF Inv, HandlerAlone, NoTrace, Delivered, history, chains, wire,
     ScheduleFinite
<1>4. ChainIsIndefinite'
  BY DEF Inv, ChainIsIndefinite, history, chains, ScheduleFinite
<1>5. JobIsChain'
  BY DEF Inv, JobIsChain, Running, history, chains, ScheduleFinite
<1>6. FiniteBounded'
  BY DEF Inv, TypeOK, HandlerAlone, FiniteBounded, history, wire,
     ScheduleFinite, FiniteRetransmits
<1> QED BY <1>1, <1>2, <1>3, <1>4, <1>5, <1>6 DEF Inv

(* A starting chain keeps running, or its panic ends the process.          *)
LEMMA ChainStartInv ==
  ASSUME Inv, NEW m \in Messages, ChainStart(m)
  PROVE  Inv'
<1>1. TypeOK'
  BY DEF Inv, TypeOK, Delivered, config, history, wire, ChainStart
<1>2. HandlerAlone'
  BY DEF Inv, TypeOK, HandlerAlone, Delivered, history, wire, ChainStart
<1>3. NoTrace'
  BY DEF Inv, TypeOK, NoTrace, Delivered, history, wire, ChainStart
<1>4. ChainIsIndefinite'
  BY DEF Inv, TypeOK, ChainIsIndefinite, history, ChainStart
<1>5. JobIsChain'
  <2>1. \A n \in Messages : Running(n) <=> Running(n)'
    BY DEF Inv, TypeOK, Running, ChainStart
  <2>2. \A t \in Topics : jobs[t] # 0 => jobs[t] \in Messages
    BY DEF Inv, TypeOK, Messages
  <2> QED BY <2>1, <2>2 DEF Inv, JobIsChain, ChainStart, history
<1>6. FiniteBounded'
  BY DEF Inv, FiniteBounded, history, wire, ChainStart
<1> QED BY <1>1, <1>2, <1>3, <1>4, <1>5, <1>6 DEF Inv

(* Ticks change neither the map nor a count.                               *)
LEMMA TickInv ==
  ASSUME Inv, NEW m \in Messages, Tick(m)
  PROVE  Inv'
<1>1. TypeOK'
  BY DEF Inv, TypeOK, Delivered, config, run, history, wire, Tick
<1>2. HandlerAlone'
  BY DEF Inv, HandlerAlone, Delivered, history, wire, Tick
<1>3. NoTrace'
  BY DEF Inv, NoTrace, Delivered, history, wire, Tick
<1>4. ChainIsIndefinite'
  BY DEF Inv, ChainIsIndefinite, history, Tick
<1>5. JobIsChain'
  BY DEF Inv, JobIsChain, Running, history, Tick
<1>6. FiniteBounded'
  BY DEF Inv, FiniteBounded, history, wire, Tick
<1> QED BY <1>1, <1>2, <1>3, <1>4, <1>5, <1>6 DEF Inv

(* A chain ends only with its channel closed.                              *)
LEMMA ChainExitInv ==
  ASSUME Inv, NEW m \in Messages, ChainExit(m)
  PROVE  Inv'
<1>1. TypeOK'
  BY DEF Inv, TypeOK, Delivered, config, run, history, wire, ChainExit
<1>2. HandlerAlone'
  BY DEF Inv, HandlerAlone, Delivered, history, wire, ChainExit
<1>3. NoTrace'
  BY DEF Inv, NoTrace, Delivered, history, wire, ChainExit
<1>4. ChainIsIndefinite'
  BY DEF Inv, ChainIsIndefinite, history, ChainExit
<1>5. JobIsChain'
  BY DEF Inv, JobIsChain, Running, history, ChainExit
<1>6. FiniteBounded'
  BY DEF Inv, FiniteBounded, history, wire, ChainExit
<1> QED BY <1>1, <1>2, <1>3, <1>4, <1>5, <1>6 DEF Inv

(* A chain that wakes keeps running.                                       *)
LEMMA ChainWakeInv ==
  ASSUME Inv, NEW m \in Messages, ChainWake(m)
  PROVE  Inv'
<1>1. TypeOK'
  BY DEF Inv, TypeOK, Delivered, config, run, history, wire, ChainWake
<1>2. HandlerAlone'
  BY DEF Inv, HandlerAlone, Delivered, history, wire, ChainWake
<1>3. NoTrace'
  BY DEF Inv, NoTrace, Delivered, history, wire, ChainWake
<1>4. ChainIsIndefinite'
  BY DEF Inv, ChainIsIndefinite, history, ChainWake
<1>5. JobIsChain'
  BY DEF Inv, JobIsChain, Running, history, ChainWake
<1>6. FiniteBounded'
  BY DEF Inv, FiniteBounded, history, wire, ChainWake
<1> QED BY <1>1, <1>2, <1>3, <1>4, <1>5, <1>6 DEF Inv

(* A chain sends for a message whose count is not finite.                  *)
LEMMA ChainSendInv ==
  ASSUME Inv, NEW m \in Messages, ChainSend(m)
  PROVE  Inv'
<1>1. TypeOK'
  BY TransmittedFacts DEF Inv, TypeOK, Delivered, config, run, history, ChainSend
<1>2. HandlerAlone'
  BY TransmittedFacts DEF Inv, TypeOK, HandlerAlone, Delivered, history, ChainSend
<1>3. NoTrace'
  BY TransmittedFacts DEF Inv, NoTrace, Delivered, history, ChainSend
<1>4. ChainIsIndefinite'
  BY DEF Inv, ChainIsIndefinite, history, ChainSend
<1>5. JobIsChain'
  BY DEF Inv, JobIsChain, Running, history, ChainSend
<1>6. FiniteBounded'
  <2> SUFFICES ASSUME NEW n \in Messages, count'[n] \in 1 .. MaxSent
               PROVE  sent'[n] + left'[n] <= count'[n]
    BY DEF FiniteBounded
  <2>1. count[n] \in 1 .. MaxSent => sent[n] + left[n] <= count[n]
    BY DEF Inv, FiniteBounded
  <2> QED BY <2>1, TransmittedFacts DEF Indefinite, Inv, ChainIsIndefinite,
             ChainSend, history
<1> QED BY <1>1, <1>2, <1>3, <1>4, <1>5, <1>6 DEF Inv

(* A transmission sent is one fewer left, and never of the message in hand. *)
LEMMA FiniteSendInv ==
  ASSUME Inv, NEW m \in Messages, FiniteSend(m)
  PROVE  Inv'
<1>1. TypeOK'
  <2>1. left' \in [Messages -> Nat]
    BY DEF Inv, TypeOK, FiniteSend
  <2> QED BY <2>1, TransmittedFacts DEF Inv, TypeOK, Delivered, config, run,
             history, chains, FiniteSend
<1>2. HandlerAlone'
  <2>1. /\ left \in [Messages -> Nat] /\ left[m] > 0
        /\ left' = [left EXCEPT ![m] = left[m] - 1]
    BY DEF Inv, TypeOK, FiniteSend
  <2>2. handler.at # "idle" => handler.msg \in Messages \ {m}
    BY <2>1, DeliveredFacts DEF Inv, HandlerAlone
  <2>3. handler.at # "idle" => /\ left'[handler.msg] = left[handler.msg]
                              /\ sent'[handler.msg] = sent[handler.msg]
    BY <2>1, <2>2, TransmittedFacts DEF Inv, FiniteSend
  <2> QED BY <2>3 DEF Inv, HandlerAlone, Delivered, FiniteSend, history, chains
<1>3. NoTrace'
  BY TransmittedFacts DEF Inv, NoTrace, Delivered, history, chains, FiniteSend
<1>4. ChainIsIndefinite'
  BY DEF Inv, ChainIsIndefinite, history, chains, FiniteSend
<1>5. JobIsChain'
  BY DEF Inv, JobIsChain, Running, history, chains, FiniteSend
<1>6. FiniteBounded'
  <2> SUFFICES ASSUME NEW n \in Messages, count'[n] \in 1 .. MaxSent
               PROVE  sent'[n] + left'[n] <= count'[n]
    BY DEF FiniteBounded
  <2>1. count[n] \in {Indefinite} \union Nat /\ sent[n] \in 0 .. MaxSent /\ left[n] \in Nat
    BY DEF Inv, TypeOK
  <2>2. count[n] \in 1 .. MaxSent => sent[n] + left[n] <= count[n]
    BY DEF Inv, FiniteBounded
  <2>3. n = m \/ sent'[n] = sent[n]
    BY TransmittedFacts DEF Inv, FiniteSend
  <2>4. sent'[m] \in Nat /\ sent'[m] <= sent[m] + 1
    BY TransmittedFacts DEF Inv, FiniteSend
  <2>5. /\ left \in [Messages -> Nat] /\ left[m] > 0
        /\ left' = [left EXCEPT ![m] = left[m] - 1]
        /\ count' = count
    BY DEF Inv, TypeOK, FiniteSend, history
  <2> QED BY <2>1, <2>2, <2>3, <2>4, <2>5
<1> QED BY <1>1, <1>2, <1>3, <1>4, <1>5, <1>6 DEF Inv

(* A failed transmission leaves nothing to send.                           *)
LEMMA FiniteSendFailsInv ==
  ASSUME Inv, NEW m \in Messages, FiniteSendFails(m)
  PROVE  Inv'
<1>1. TypeOK'
  BY DEF Inv, TypeOK, Delivered, config, run, history, chains, wire, FiniteSendFails
<1>2. HandlerAlone'
  BY DEF Inv, HandlerAlone, Delivered, history, chains, wire, FiniteSendFails
<1>3. NoTrace'
  BY DEF Inv, NoTrace, Delivered, history, chains, wire, FiniteSendFails
<1>4. ChainIsIndefinite'
  BY DEF Inv, ChainIsIndefinite, history, chains, FiniteSendFails
<1>5. JobIsChain'
  BY DEF Inv, JobIsChain, Running, history, chains, FiniteSendFails
<1>6. FiniteBounded'
  <2> SUFFICES ASSUME NEW n \in Messages, count'[n] \in 1 .. MaxSent
               PROVE  sent'[n] + left'[n] <= count'[n]
    BY DEF FiniteBounded
  <2>1. count[n] \in {Indefinite} \union Nat /\ sent[n] \in 0 .. MaxSent /\ left[n] \in Nat
    BY DEF Inv, TypeOK
  <2>2. count[n] \in 1 .. MaxSent => sent[n] + left[n] <= count[n]
    BY DEF Inv, FiniteBounded
  <2> QED BY <2>1, <2>2 DEF Inv, FiniteSendFails, history, wire
<1> QED BY <1>1, <1>2, <1>3, <1>4, <1>5, <1>6 DEF Inv

(* The sweep closes each channel in the map and empties the map.           *)
LEMMA SweepInv ==
  ASSUME Inv, Sweep
  PROVE  Inv'
<1>1. TypeOK'
  <2>1. jobs' \in [Topics -> 0 .. MaxMessages]
    BY GoPublisherAssumption DEF Inv, Sweep
  <2>2. \A t \in Topics : jobs[t] # 0 => jobs[t] \in Messages
    BY DEF Inv, TypeOK, Messages
  <2>3. cancelled' \subseteq Messages
    BY <2>2 DEF Inv, TypeOK, Sweep
  <2> QED BY <2>1, <2>3 DEF Inv, TypeOK, Delivered, config, history, wire,
             Sweep, Shutdown
<1>2. HandlerAlone'
  BY DEF Inv, TypeOK, HandlerAlone, Delivered, history, wire, Sweep
<1>3. NoTrace'
  BY DEF Inv, NoTrace, Delivered, history, wire, Sweep
<1>4. ChainIsIndefinite'
  BY DEF Inv, ChainIsIndefinite, JobIsChain, Running, Sweep, history
<1>5. JobIsChain'
  <2>1. \A m \in Messages : Running(m)' => m \in cancelled'
    <3> SUFFICES ASSUME NEW m \in Messages, Running(m), m \notin cancelled
                 PROVE  m \in cancelled'
      BY DEF Sweep, Running
    <3>1. jobs[topic[m]] = m /\ m # 0
      BY DEF Inv, JobIsChain, Messages
    <3>2. topic[m] \in Topics
      BY RunningDelivered, DeliveredFacts DEF Inv
    <3> QED BY <3>1, <3>2 DEF Sweep
  <2> QED BY <2>1 DEF JobIsChain, Sweep
<1>6. FiniteBounded'
  BY DEF Inv, FiniteBounded, history, wire, Sweep
<1> QED BY <1>1, <1>2, <1>3, <1>4, <1>5, <1>6 DEF Inv

(* Of the shutdown's steps only the sweep touches what Inv is about. *)
LEMMA RunInv ==
  ASSUME Inv,
         \/ Interrupt \/ CloseSocket \/ Disconnect \/ Return
         \/ ReaderSeesContext \/ ReaderSeesClosed \/ UNCHANGED vars
  PROVE  Inv'
<1>1. /\ UNCHANGED <<base, promote, delay, handler, topic, count, jobs>>
      /\ UNCHANGED <<cancelled, chain, ticked, left, first, sent>>
  BY DEF Interrupt, CloseSocket, Disconnect, Return, ReaderSeesContext,
     ReaderSeesClosed, vars, config, history, chains, wire
<1>2. /\ proc' = proc \/ proc' \in {"stopping", "closed", "disconnected", "returned"}
      /\ reader' = reader \/ reader' = "done"
  BY DEF Interrupt, CloseSocket, Disconnect, Return, ReaderSeesContext,
     ReaderSeesClosed, vars, Shutdown
<1>3. TypeOK'
  BY <1>1, <1>2 DEF Inv, TypeOK, Delivered
<1>4. HandlerAlone' /\ NoTrace' /\ ChainIsIndefinite'
  BY <1>1 DEF Inv, HandlerAlone, NoTrace, ChainIsIndefinite, Delivered
<1>5. JobIsChain' /\ FiniteBounded'
  BY <1>1 DEF Inv, JobIsChain, FiniteBounded, Running
<1> QED BY <1>3, <1>4, <1>5 DEF Inv

(* Inv holds at the start.                                                 *)
LEMMA InitInv == Init => Inv
<1> SUFFICES ASSUME Init PROVE Inv
  OBVIOUS
<1>1. Delivered = {} /\ topic \in Seq(Topics)
  BY DEF Init, Delivered
<1>2. TypeOK
  BY <1>1, GoPublisherAssumption DEF Init, TypeOK, Idle
<1>3. HandlerAlone /\ NoTrace /\ ChainIsIndefinite
  BY DEF Init, Idle, HandlerAlone, NoTrace, ChainIsIndefinite
<1>4. JobIsChain /\ FiniteBounded
  BY DEF Init, JobIsChain, FiniteBounded, Running
<1> QED BY <1>2, <1>3, <1>4 DEF Inv

(* Every step keeps Inv.                                                   *)
LEMMA StepInv == Inv /\ [Next]_vars => Inv'
<1> SUFFICES ASSUME Inv, [Next]_vars PROVE Inv'
  OBVIOUS
<1>1. CASE \E t \in Topics, q \in 0 .. 2 : Receive(t, q)
  BY <1>1, ReceiveInv
<1>2. CASE Cancel \/ SendFirst \/ SendFirstFails \/ StartIndefinite \/ ScheduleFinite
  BY <1>2, CancelInv, SendFirstInv, SendFirstFailsInv, StartIndefiniteInv,
     ScheduleFiniteInv
<1>3. ASSUME NEW m \in Messages,
             \/ ChainStart(m) \/ Tick(m) \/ ChainExit(m) \/ ChainWake(m) \/ ChainSend(m)
             \/ FiniteSend(m) \/ FiniteSendFails(m)
      PROVE  Inv'
  BY <1>3, ChainStartInv, TickInv, ChainExitInv, ChainWakeInv, ChainSendInv,
     FiniteSendInv, FiniteSendFailsInv
<1>4. CASE Sweep
  BY <1>4, SweepInv
<1>5. CASE \/ Interrupt \/ CloseSocket \/ Disconnect \/ Return
           \/ ReaderSeesContext \/ ReaderSeesClosed \/ UNCHANGED vars
  BY <1>5, RunInv
<1> QED BY <1>1, <1>2, <1>3, <1>4, <1>5 DEF Next

(* Inv is an invariant.                                                    *)
LEMMA InvHolds == Spec => []Inv
BY InitInv, StepInv, PTL DEF Spec

(* Type correctness of the bridge's publisher. *)
THEOREM TypeCorrect == Spec => []TypeOK
<1>1. Inv => TypeOK
  BY DEF Inv
<1> QED BY <1>1, InvHolds, PTL

(* In every interleaving of handler, goroutines and shutdown the map of    *)
(* channels and the running chains agree: a publish or the shutdown closes *)
(* each channel once, and every chain it must stop can be reached.         *)
THEOREM JobIsChainAlways == Spec => []JobIsChain
<1>1. Inv => JobIsChain
  BY DEF Inv
<1> QED BY <1>1, InvHolds, PTL

(* A finite publication never puts more than its count of datagrams on the *)
(* wire, for any number of topics and messages in flight.                  *)
THEOREM FiniteBoundedAlways == Spec => []FiniteBounded
<1>1. Inv => FiniteBounded
  BY DEF Inv
<1> QED BY <1>1, InvHolds, PTL

-----------------------------------------------------------------------------
(* Supersession. *)

(* What holds of "Any new publish to a topic supersedes a prior indefinite *)
(* chain": before the datagram of a later message goes out, the chains of  *)
(* the earlier ones of its topic have been told to stop, whoever told them *)
(* (bridge.go:244-246, 340-349). CancelledStops says that they do.         *)
SupersededIsTold ==
  \A m \in Delivered : chain[m] # "none" /\ first[topic[m]] > m => m \in cancelled

(* The handler works on the last message delivered, nothing went out that  *)
(* was not delivered, and only chains that were told to stop have ended.   *)
TurnsInv ==
  /\ handler.at # "idle" => handler.msg = Len(topic)
  /\ \A t \in Topics : first[t] <= Len(topic)
  /\ \A m \in Messages : chain[m] = "done" => m \in cancelled
  /\ SupersededIsTold

(* Whatever a step does to the goroutines: it tells none of them to go on, *)
(* and starts none.                                                        *)
LEMMA GoroutinesKeepTurns ==
  ASSUME Inv, TurnsInv, UNCHANGED <<handler, topic, first>>, cancelled \subseteq cancelled',
         \A m \in Messages : chain'[m] # "none" => chain[m] # "none",
         \A m \in Messages : chain'[m] = "done" => m \in cancelled'
  PROVE  TurnsInv'
<1>1. \A m \in Delivered : m \in Messages
  BY DeliveredFacts DEF Inv
<1> QED BY <1>1 DEF TurnsInv, SupersededIsTold, Delivered

LEMMA ReceiveTurns ==
  ASSUME Inv, TurnsInv, NEW t \in Topics, NEW q \in 0 .. 2, Receive(t, q)
  PROVE  TurnsInv'
<1>1. /\ handler.at = "idle" /\ topic' = Append(topic, t) /\ UNCHANGED <<first, chain, cancelled>>
      /\ \/ handler' = [at |-> "cancel", msg |-> Len(topic')]
         \/ UNCHANGED handler
  BY DEF Receive, chains, wire
<1>2. /\ Len(topic) \in Nat /\ Len(topic') = Len(topic) + 1
      /\ DOMAIN topic' = Delivered \union {Len(topic')}
      /\ Len(topic') \in Messages \ Delivered
      /\ \A m \in Delivered : topic'[m] = topic[m]
  <2>1. topic \in Seq(Topics) /\ Len(topic) < MaxMessages
    BY DEF Inv, TypeOK, Receive
  <2> QED BY <1>1, <2>1, ReceiveFacts DEF Inv
<1>3. \A u \in Topics : first[u] \in Nat /\ first[u] <= Len(topic')
  BY <1>2, GoPublisherAssumption DEF Inv, TypeOK, TurnsInv
<1>4. chain[Len(topic')] = "none"
  BY <1>2 DEF Inv, NoTrace
<1>5. SupersededIsTold'
  BY <1>1, <1>2, <1>4 DEF TurnsInv, SupersededIsTold, Delivered
<1> QED BY <1>1, <1>3, <1>5 DEF TurnsInv

(* The handler told the chain in the map, and there is no other to tell.   *)
LEMMA SendFirstTurns ==
  ASSUME Inv, TurnsInv, SendFirst
  PROVE  TurnsInv'
<1> DEFINE n == handler.msg
<1>1. /\ n \in Delivered /\ n = Len(topic) /\ jobs[topic[n]] = 0 /\ topic[n] \in Topics
      /\ UNCHANGED <<topic, chain, cancelled>>
      /\ first' = [first EXCEPT ![topic[n]] = n]
      /\ handler'.msg = n
  BY DeliveredFacts DEF SendFirst, Inv, HandlerAlone, TurnsInv, history, chains
<1>2. \A u \in Topics : first'[u] <= Len(topic)
  BY <1>1, DeliveredFacts DEF Inv, TypeOK, TurnsInv
<1>3. ASSUME NEW m \in Delivered, chain[m] # "none", topic[m] = topic[n]
      PROVE  m \in cancelled
  <2>1. m \in Messages /\ m # 0
    BY DeliveredFacts DEF Inv, Messages
  <2>2. CASE chain[m] = "done"
    BY <2>1, <2>2 DEF TurnsInv
  <2>3. CASE Running(m)
    BY <1>1, <1>3, <2>1, <2>3 DEF Inv, JobIsChain
  <2> QED BY <1>3, <2>1, <2>2, <2>3 DEF Inv, TypeOK, Running
<1>4. SupersededIsTold'
  <2> SUFFICES ASSUME NEW m \in Delivered, chain[m] # "none", first'[topic[m]] > m
               PROVE  m \in cancelled
    BY <1>1 DEF SupersededIsTold, Delivered
  <2>1. topic[m] \in Topics
    BY DeliveredFacts DEF Inv
  <2>2. CASE topic[m] = topic[n]
    BY <1>3, <2>2
  <2>3. CASE topic[m] # topic[n]
    <3>1. first'[topic[m]] = first[topic[m]]
      BY <1>1, <2>1, <2>3 DEF Inv, TypeOK
    <3> QED BY <3>1 DEF TurnsInv, SupersededIsTold
  <2> QED BY <2>2, <2>3
<1> QED BY <1>1, <1>2, <1>4 DEF TurnsInv

(* Nothing later than the newest chain went out. *)
LEMMA StartIndefiniteTurns ==
  ASSUME Inv, TurnsInv, StartIndefinite
  PROVE  TurnsInv'
<1> DEFINE n == handler.msg
<1>1. /\ n \in Delivered /\ n = Len(topic) /\ topic[n] \in Topics /\ n \in Messages
      /\ UNCHANGED <<topic, first, cancelled>>
      /\ chain' = [chain EXCEPT ![n] = "starting"]
      /\ handler'.at = "idle"
  BY DeliveredFacts DEF StartIndefinite, Inv, HandlerAlone, TurnsInv, history, wire, Idle
<1>2. first[topic[n]] <= n /\ n \in Nat /\ first[topic[n]] \in Nat
  BY <1>1, DeliveredFacts, GoPublisherAssumption DEF Inv, TypeOK, TurnsInv
<1>3. \A m \in Messages : m # n => chain'[m] = chain[m]
  BY <1>1 DEF Inv, TypeOK
<1>4. chain'[n] = "starting"
  BY <1>1 DEF Inv, TypeOK
<1>5. SupersededIsTold'
  <2>1. \A m \in Delivered : m \in Messages
    BY DeliveredFacts DEF Inv
  <2> QED BY <1>1, <1>2, <1>3, <2>1 DEF TurnsInv, SupersededIsTold, Delivered
<1> QED BY <1>1, <1>3, <1>4, <1>5 DEF TurnsInv

LEMMA TurnsInit == Init => TurnsInv
<1> SUFFICES ASSUME Init PROVE TurnsInv
  OBVIOUS
<1>1. topic = << >> /\ Len(topic) = 0 /\ Delivered = {}
  BY DEF Init, Delivered
<1> QED BY <1>1 DEF Init, TurnsInv, SupersededIsTold, Idle

LEMMA TurnsStep == Inv /\ TurnsInv /\ [Next]_vars => TurnsInv'
<1> SUFFICES ASSUME Inv, TurnsInv, [Next]_vars PROVE TurnsInv'
  OBVIOUS
<1>1. CASE \E t \in Topics, q \in 0 .. 2 : Receive(t, q)
  BY <1>1, ReceiveTurns
<1>2. CASE SendFirst
  BY <1>2, SendFirstTurns
<1>3. CASE StartIndefinite
  BY <1>3, StartIndefiniteTurns
<1>4. CASE Cancel
  <2>1. /\ handler'.msg = handler.msg /\ handler.at # "idle" /\ cancelled \subseteq cancelled'
        /\ UNCHANGED <<topic, first, chain>>
    BY <1>4, DeliveredFacts DEF Cancel, CancelIndefinite, history, wire, Inv
  <2> QED BY <2>1 DEF TurnsInv, SupersededIsTold, Delivered
<1>5. CASE SendFirstFails \/ ScheduleFinite
  <2>1. handler'.at = "idle" /\ UNCHANGED <<topic, first, chain, cancelled>>
    BY <1>5 DEF SendFirstFails, ScheduleFinite, history, chains, wire, Idle
  <2> QED BY <2>1 DEF TurnsInv, SupersededIsTold, Delivered
<1>6. ASSUME NEW m \in Messages, ChainStart(m) \/ ChainExit(m) \/ ChainWake(m) \/ ChainSend(m)
      PROVE  TurnsInv'
  <2>1. /\ UNCHANGED <<handler, topic, first, cancelled>> /\ chain[m] # "none"
        /\ \/ chain' = chain
           \/ \E c \in {"select", "sending"} : chain' = [chain EXCEPT ![m] = c]
           \/ chain' = [chain EXCEPT ![m] = "done"] /\ m \in cancelled
    BY <1>6 DEF ChainStart, ChainExit, ChainWake, ChainSend, history, wire
  <2>2. \A k \in Messages : \/ chain'[k] = chain[k]
                            \/ k = m /\ chain'[k] \in {"select", "sending"}
                            \/ k = m /\ chain'[k] = "done" /\ m \in cancelled
    BY <2>1 DEF Inv, TypeOK
  <2>3. /\ \A k \in Messages : chain'[k] # "none" => chain[k] # "none"
        /\ \A k \in Messages : chain'[k] = "done" => k \in cancelled'
    BY <2>1, <2>2 DEF TurnsInv
  <2> QED BY <2>1, <2>3, GoroutinesKeepTurns
<1>7. ASSUME NEW m \in Messages, Tick(m) \/ FiniteSend(m) \/ FiniteSendFails(m)
      PROVE  TurnsInv'
  <2>1. UNCHANGED <<handler, topic, first, cancelled, chain>>
    BY <1>7 DEF Tick, FiniteSend, FiniteSendFails, history, wire, chains
  <2> QED BY <2>1, GoroutinesKeepTurns DEF TurnsInv
<1>8. CASE \/ Interrupt \/ Sweep \/ CloseSocket \/ Disconnect \/ Return
           \/ ReaderSeesContext \/ ReaderSeesClosed \/ UNCHANGED vars
  <2>1. UNCHANGED <<handler, topic, first, chain>> /\ cancelled \subseteq cancelled'
    BY <1>8 DEF Interrupt, Sweep, CloseSocket, Disconnect, Return, ReaderSeesContext,
       ReaderSeesClosed, vars, history, wire, chains
  <2> QED BY <2>1, GoroutinesKeepTurns DEF TurnsInv
<1> QED BY <1>1, <1>2, <1>3, <1>4, <1>5, <1>6, <1>7, <1>8 DEF Next

(* In every interleaving: when a later message of a topic goes out, every  *)
(* earlier chain of it has been told to stop (bridge.go:244-246).          *)
THEOREM SupersededAreTold == Spec => []SupersededIsTold
<1>1. TurnsInv => SupersededIsTold
  BY DEF TurnsInv
<1> QED BY <1>1, TurnsInit, TurnsStep, InvHolds, PTL DEF Spec

-----------------------------------------------------------------------------
(* The distance of a chain's datagrams. *)

(* The delay that validate() demands of an indefinite count is kept by     *)
(* every chain, unless promote_qos makes chains behind its back            *)
(* (config.go:268, bridge.go:267-286).                                     *)
SpacedUnlessPromoted ==
  ~promote => \A m \in Messages : Running(m) => delay >= 1000

(* Without promotion every message has the configured count, or none.      *)
CountsInv ==
  ValidConfig /\ (~promote => \A m \in Messages : count[m] \in {0, base})

LEMMA CountsStep == Inv /\ CountsInv /\ [Next]_vars => CountsInv'
<1> SUFFICES ASSUME Inv, CountsInv, [Next]_vars PROVE CountsInv'
  OBVIOUS
<1>1. UNCHANGED config
  BY DEF Next, Receive, Cancel, SendFirst, SendFirstFails, StartIndefinite, ScheduleFinite,
     ChainStart, Tick, ChainExit, ChainWake, ChainSend, FiniteSend, FiniteSendFails,
     Interrupt, Sweep, CloseSocket, Disconnect, Return, ReaderSeesContext,
     ReaderSeesClosed, vars, config
<1>2. ValidConfig'
  BY <1>1 DEF CountsInv, ValidConfig, config
<1>3. CASE UNCHANGED count
  BY <1>1, <1>2, <1>3 DEF CountsInv, config
<1>4. ASSUME NEW t \in Topics, NEW q \in 0 .. 2, Receive(t, q)
      PROVE  CountsInv'
  <2>1. CASE count' = [count EXCEPT ![Len(topic')] = EffectiveRetransmitCount(q)]
    BY <1>1, <1>2, <2>1 DEF CountsInv, Inv, TypeOK, EffectiveRetransmitCount, config
  <2> QED BY <1>3, <1>4, <2>1 DEF Receive
<1>5. (\E t \in Topics, q \in 0 .. 2 : Receive(t, q)) \/ UNCHANGED count
  BY DEF Next, Cancel, SendFirst, SendFirstFails, StartIndefinite, ScheduleFinite,
     ChainStart, Tick, ChainExit, ChainWake, ChainSend, FiniteSend, FiniteSendFails,
     Interrupt, Sweep, CloseSocket, Disconnect, Return, ReaderSeesContext,
     ReaderSeesClosed, vars, history
<1> QED BY <1>3, <1>4, <1>5

(* For every configuration that validate() lets pass: without promote_qos  *)
(* every chain keeps the delay that an indefinite count requires.          *)
THEOREM ChainsKeepTheDelay == Spec => []SpacedUnlessPromoted
<1>1. Init => CountsInv
  BY DEF Init, CountsInv
<1>2. Inv /\ CountsInv => SpacedUnlessPromoted
  <2> SUFFICES ASSUME Inv, CountsInv, ~promote, NEW m \in Messages, Running(m)
               PROVE  delay >= 1000
    BY DEF SpacedUnlessPromoted
  <2>1. count[m] = Indefinite /\ count[m] \in {0, base}
    BY DEF Inv, ChainIsIndefinite, CountsInv, Running
  <2> QED BY <2>1 DEF CountsInv, ValidConfig, Indefinite
<1> QED BY <1>1, <1>2, CountsStep, InvHolds, PTL DEF Spec

=============================================================================
