----------------------------- MODULE GoPublisher -----------------------------
(***************************************************************************)
(* The Go bridge's MQTT to mpubsub direction: the handler the MQTT client  *)
(* calls for one message at a time, one goroutine per indefinite and per   *)
(* finite publication, and Run(), which shuts all of it down. The          *)
(* goroutines share the map of cancel channels and the socket; a critical  *)
(* section under indefiniteMu is one step.                                 *)
(*                                                                         *)
(* Messages are numbered in the order the broker delivers them. The cancel *)
(* channel of a chain has the number of its message.                       *)
(***************************************************************************)
EXTENDS Integers, Sequences

CONSTANTS
  Topics,       (* mpubsub topics                             *)
  Bases,        (* configured retransmit_count values         *)
  Delays,       (* configured retransmit_delay values, in ms  *)
  MaxMessages,  (* bound: MQTT messages                       *)
  MaxSent       (* bound: datagrams counted per message       *)

Indefinite == -1

ASSUME GoPublisherAssumption ==
  /\ Bases \subseteq {Indefinite} \union (Nat \ {0})
  /\ Delays \subseteq Nat
  /\ MaxMessages \in Nat
  /\ MaxSent \in Nat

VARIABLES
  base, promote, delay,  (* the configuration                                 *)
  proc,       (* how far Run() has come                                       *)
  reader,     (* mcastReceiveLoop: "reading" or "done"                        *)
  handler,    (* the running handleMQTTMessage: where it is, for which message *)
  topic,      (* history: the topics of the messages delivered so far         *)
  count,      (* history: the effective retransmit_count of each message, or 0 *)
  jobs,       (* indefiniteJobs: the channel of each topic, or 0              *)
  cancelled,  (* the closed channels                                          *)
  chain,      (* the indefinite goroutine of each message                     *)
  ticked,     (* the tickers with a tick in their channel                     *)
  left,       (* transmissions left to the finite goroutine of each message   *)
  first,      (* history: the last message whose first transmission went out  *)
  sent        (* history: datagrams put on the wire, up to MaxSent            *)

config == <<base, promote, delay>>
run == <<proc, reader>>
history == <<topic, count>>
chains == <<jobs, cancelled, chain, ticked>>
wire == <<first, sent>>

vars == <<base, promote, delay, proc, reader, handler, topic, count, jobs,
          cancelled, chain, ticked, left, first, sent>>

Messages == 1 .. MaxMessages

Delivered == DOMAIN topic

Idle == [at |-> "idle", msg |-> 0]

(* validate() ties the count to the delay before any QoS is seen. *)
ValidConfig == base = Indefinite => delay >= 1000

Init ==
  /\ base \in Bases /\ promote \in BOOLEAN /\ delay \in Delays
  /\ ValidConfig
  /\ proc = "serving" /\ reader = "reading"
  /\ handler = Idle
  /\ topic = <<>>
  /\ count = [m \in Messages |-> 0]
  /\ jobs = [t \in Topics |-> 0]
  /\ cancelled = {} /\ ticked = {}
  /\ chain = [m \in Messages |-> "none"]
  /\ left = [m \in Messages |-> 0]
  /\ first = [t \in Topics |-> 0]
  /\ sent = [m \in Messages |-> 0]

Alive == proc \notin {"returned", "crashed"}

Connected == proc \in {"serving", "stopping", "swept", "closed"}

(* A faulty form of SocketOpen: a Run() that never closes the socket. *)
SocketNeverCloses == Alive

SocketOpen == proc \in {"serving", "stopping", "swept"}

Transmitted(m) == sent' = [sent EXCEPT ![m] = IF @ < MaxSent THEN @ + 1 ELSE @]

-----------------------------------------------------------------------------
(* handleMQTTMessage, for the QoS q the broker passes through. *)

EffectiveRetransmitCount(q) ==
  IF ~promote \/ q = 0 THEN base
  ELSE IF q = 1 THEN IF base # Indefinite /\ base < 3 THEN 3 ELSE base
  ELSE Indefinite

Receive(t, q) ==
  /\ Connected
  /\ handler.at = "idle"
  /\ Len(topic) < MaxMessages
  /\ topic' = Append(topic, t)
  /\ \/ /\ handler' = [at |-> "cancel", msg |-> Len(topic')]
        /\ count' = [count EXCEPT ![Len(topic')] = EffectiveRetransmitCount(q)]
     \/ UNCHANGED <<handler, count>>  (* it could not be encoded *)
  /\ UNCHANGED <<config, run, chains, left, wire>>

(* A faulty form of CancelIndefinite, which forgets the channel. *)
CancelWithoutClose(t) ==
  /\ cancelled' = cancelled
  /\ jobs' = [jobs EXCEPT ![t] = 0]

CancelIndefinite(t) ==
  /\ cancelled' = IF jobs[t] # 0 THEN cancelled \union {jobs[t]} ELSE cancelled
  /\ jobs' = [jobs EXCEPT ![t] = 0]

Cancel ==
  /\ Alive /\ handler.at = "cancel"
  /\ CancelIndefinite(topic[handler.msg])
  /\ handler' = [handler EXCEPT !.at = "send"]
  /\ UNCHANGED <<config, run, history, chain, ticked, left, wire>>

(* The synchronous transmission. *)
SendFirst ==
  /\ Alive /\ handler.at = "send"
  /\ SocketOpen
  /\ Transmitted(handler.msg)
  /\ first' = [first EXCEPT ![topic[handler.msg]] = handler.msg]
  /\ handler' = [handler EXCEPT !.at = "schedule"]
  /\ UNCHANGED <<config, run, history, chains, left>>

SendFirstFails ==
  /\ Alive /\ handler.at = "send"
  /\ handler' = Idle
  /\ UNCHANGED <<config, run, history, chains, left, wire>>

StartIndefinite ==
  /\ Alive /\ handler.at = "schedule"
  /\ count[handler.msg] = Indefinite
  /\ jobs' = [jobs EXCEPT ![topic[handler.msg]] = handler.msg]
  /\ chain' = [chain EXCEPT ![handler.msg] = "starting"]
  /\ handler' = Idle
  /\ UNCHANGED <<config, run, history, cancelled, ticked, left, wire>>

(* Faulty forms of FiniteRetransmits. *)
FiniteRetransmitsAll(c) == c

FiniteRetransmitsTooFew(c) == c - 2

FiniteRetransmits(c) == c - 1

ScheduleFinite ==
  /\ Alive /\ handler.at = "schedule"
  /\ count[handler.msg] # Indefinite
  /\ left' = [left EXCEPT ![handler.msg] = FiniteRetransmits(count[handler.msg])]
  /\ handler' = Idle
  /\ UNCHANGED <<config, run, history, chains, wire>>

-----------------------------------------------------------------------------
(* The goroutines. *)

(* NewTicker panics when the delay is 0. *)
ChainStart(m) ==
  /\ Alive /\ chain[m] = "starting"
  /\ \/ /\ delay > 0
        /\ chain' = [chain EXCEPT ![m] = "select"]
        /\ UNCHANGED proc
     \/ /\ delay = 0
        /\ proc' = "crashed"
        /\ UNCHANGED chain
  /\ UNCHANGED <<config, reader, handler, history, jobs, cancelled, ticked, left, wire>>

(* A ticker's channel holds one tick. *)
Tick(m) ==
  /\ Alive /\ chain[m] \in {"select", "sending"}
  /\ ticked' = ticked \union {m}
  /\ UNCHANGED <<config, run, handler, history, jobs, cancelled, chain, left, wire>>

(* A faulty form of ChainExit: a break that leaves the select only. *)
ChainBreaks(m) ==
  /\ Alive /\ chain[m] = "select" /\ m \in cancelled
  /\ UNCHANGED vars

(* select: with the channel closed and a tick ready, either may be taken. *)
ChainExit(m) ==
  /\ Alive /\ chain[m] = "select" /\ m \in cancelled
  /\ chain' = [chain EXCEPT ![m] = "done"]
  /\ UNCHANGED <<config, run, handler, history, jobs, cancelled, ticked, left, wire>>

ChainWake(m) ==
  /\ Alive /\ chain[m] = "select" /\ m \in ticked
  /\ chain' = [chain EXCEPT ![m] = "sending"]
  /\ ticked' = ticked \ {m}
  /\ UNCHANGED <<config, run, handler, history, jobs, cancelled, left, wire>>

(* A failed transmission is logged and the chain goes on. *)
ChainSend(m) ==
  /\ Alive /\ chain[m] = "sending"
  /\ (SocketOpen /\ Transmitted(m)) \/ UNCHANGED sent
  /\ chain' = [chain EXCEPT ![m] = "select"]
  /\ UNCHANGED <<config, run, handler, history, jobs, cancelled, ticked, left, first>>

FiniteSend(m) ==
  /\ Alive /\ left[m] > 0
  /\ SocketOpen
  /\ Transmitted(m)
  /\ left' = [left EXCEPT ![m] = @ - 1]
  /\ UNCHANGED <<config, run, handler, history, chains, first>>

(* A failed transmission ends a finite goroutine. *)
FiniteSendFails(m) ==
  /\ Alive /\ left[m] > 0
  /\ left' = [left EXCEPT ![m] = 0]
  /\ UNCHANGED <<config, run, handler, history, chains, wire>>

-----------------------------------------------------------------------------
(* Run() after its context is cancelled, and the receive loop it waits for. *)

Shutdown(from, to) == proc = from /\ proc' = to

Interrupt ==
  /\ Shutdown("serving", "stopping")
  /\ UNCHANGED <<config, reader, handler, history, chains, left, wire>>

Sweep ==
  /\ Shutdown("stopping", "swept")
  /\ cancelled' = cancelled \union {jobs[t] : t \in {u \in Topics : jobs[u] # 0}}
  /\ jobs' = [t \in Topics |-> 0]
  /\ UNCHANGED <<config, reader, handler, history, chain, ticked, left, wire>>

CloseSocket ==
  /\ Shutdown("swept", "closed")
  /\ UNCHANGED <<config, reader, handler, history, chains, left, wire>>

Disconnect ==
  /\ Shutdown("closed", "disconnected")
  /\ UNCHANGED <<config, reader, handler, history, chains, left, wire>>

Return ==
  /\ reader = "done"
  /\ Shutdown("disconnected", "returned")
  /\ UNCHANGED <<config, reader, handler, history, chains, left, wire>>

(* The loop looks at the context after a datagram, and a blocked Read()    *)
(* fails once the socket is closed.                                        *)
ReaderSeesContext ==
  /\ Alive /\ reader = "reading"
  /\ proc # "serving"
  /\ reader' = "done"
  /\ UNCHANGED <<config, proc, handler, history, chains, left, wire>>

ReaderSeesClosed ==
  /\ Alive /\ reader = "reading"
  /\ ~SocketOpen
  /\ reader' = "done"
  /\ UNCHANGED <<config, proc, handler, history, chains, left, wire>>

-----------------------------------------------------------------------------
Next ==
  \/ \E t \in Topics, q \in 0 .. 2 : Receive(t, q)
  \/ Cancel \/ SendFirst \/ SendFirstFails \/ StartIndefinite \/ ScheduleFinite
  \/ \E m \in Messages :
       \/ ChainStart(m) \/ Tick(m) \/ ChainExit(m) \/ ChainWake(m) \/ ChainSend(m)
       \/ FiniteSend(m) \/ FiniteSendFails(m)
  \/ Interrupt \/ Sweep \/ CloseSocket \/ Disconnect \/ Return
  \/ ReaderSeesContext \/ ReaderSeesClosed

Spec == Init /\ [][Next]_vars

(* Every goroutine that can run does, and a select whose cancel channel    *)
(* stays closed takes it in the end: it chooses at random among the ready. *)
Fairness ==
  /\ \A m \in Messages :
       WF_vars(ChainStart(m)) /\ WF_vars(ChainSend(m)) /\ SF_vars(ChainExit(m))
  /\ WF_vars(Sweep) /\ WF_vars(CloseSocket) /\ WF_vars(Disconnect) /\ WF_vars(Return)
  /\ WF_vars(ReaderSeesClosed)

FairSpec == Spec /\ Fairness

-----------------------------------------------------------------------------
(* Type invariant. *)
TypeOK ==
  /\ base \in Bases /\ promote \in BOOLEAN /\ delay \in Delays
  /\ proc \in {"serving", "stopping", "swept", "closed", "disconnected", "returned", "crashed"}
  /\ reader \in {"reading", "done"}
  /\ handler \in [at : {"idle", "cancel", "send", "schedule"}, msg : 0 .. MaxMessages]
  /\ topic \in Seq(Topics) /\ Delivered \subseteq Messages
  /\ count \in [Messages -> {Indefinite} \union Nat]
  /\ jobs \in [Topics -> 0 .. MaxMessages]
  /\ cancelled \subseteq Messages /\ ticked \subseteq Messages
  /\ chain \in [Messages -> {"none", "starting", "select", "sending", "done"}]
  /\ left \in [Messages -> Nat]
  /\ first \in [Topics -> 0 .. MaxMessages]
  /\ sent \in [Messages -> 0 .. MaxSent]

Running(m) == chain[m] \in {"starting", "select", "sending"}

(* The map of channels and the goroutines agree: a channel in the map is   *)
(* open and belongs to a running chain of that topic, and a running chain  *)
(* that nobody told to stop is in the map, so that the next publish on its *)
(* topic or the shutdown can reach it. A channel closed twice panics, a    *)
(* chain outside the map resends for ever (bridge.go:311-349).             *)
JobIsChain ==
  /\ \A t \in Topics : jobs[t] # 0 =>
       /\ jobs[t] \notin cancelled
       /\ Running(jobs[t])
       /\ topic[jobs[t]] = t
  /\ \A m \in Messages : Running(m) /\ m \notin cancelled => jobs[topic[m]] = m

(* A finite publication never puts more than its count of datagrams on the *)
(* wire, however its goroutine interleaves with later messages.            *)
FiniteBounded ==
  \A m \in Messages : count[m] \in 1 .. MaxSent => sent[m] + left[m] <= count[m]

(* A chain that was told to stop does, although every tick gives its       *)
(* select another way out.                                                 *)
CancelledStops ==
  \A m \in Messages : m \in cancelled ~> (chain[m] = "done" \/ ~Alive)

(* An interrupted bridge ends: the receive loop Run() waits for, which may *)
(* be blocked in a read, is let go (bridge.go:190-203).                    *)
ShutdownCompletes == proc = "stopping" ~> ~Alive

(* "Any new publish to a topic supersedes a prior indefinite chain for     *)
(* that topic, even if the new publish is finite" (bridge.go:244-245): once *)
(* a later message went out, the chain's old value does not.               *)
SupersededStep ==
  \A m \in Delivered :
    count[m] = Indefinite /\ first[topic[m]] > m => sent'[m] = sent[m]

SupersededIsSilent == [][SupersededStep]_vars

(* "-1 = indefinite: keep retransmitting at retransmit_delay [...]         *)
(* (requires retransmit_delay >= 1s)" (bridges/mqtt-go/README.md:40).      *)
IndefiniteIsSpaced == \A m \in Messages : Running(m) => delay >= 1000

=============================================================================
