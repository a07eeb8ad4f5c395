---------------------------- MODULE EspPublisher ----------------------------
(***************************************************************************)
(* The sending half of the ESPHome component: publish() and the            *)
(* retransmissions it schedules. An indefinite publication (count -1) is a *)
(* chain of timeouts under one scheduler id per topic CRC, each of which   *)
(* arms the next; a finite one is a set of anonymous timeouts that nothing *)
(* cancels. Everything runs on the one ESPHome loop, so a call and a       *)
(* timeout each are one atomic step.                                       *)
(*                                                                         *)
(* A publication is a pair <<topic, n>>: the n-th publish() call on topic. *)
(***************************************************************************)
EXTENDS Integers

CONSTANTS
  Topics,        (* topic names                                            *)
  Ids,           (* the 32-bit scheduler ids                               *)
  Crc,           (* topic_crc32: the scheduler id of a topic               *)
  Byte,          (* the values of a uint8_t: 256                           *)
  Half,          (* the negative values of an int16_t: 32768               *)
  Base,          (* retransmit_count of the component                      *)
  RawActions,    (* mpubsub.publish actions that set a count, in raw mode  *)
  TypedActions,  (* and with message:                                      *)
  MaxCalls,      (* bound: publish() calls per topic                       *)
  MaxTries       (* bound: transmissions counted per publication           *)

Indefinite == -1

(* _retransmit_count_validator looks at what is written in the YAML, not   *)
(* at what a template will return.                                         *)
ValidCount(c) == c = Indefinite \/ c \in 1 .. Byte - 1

PublishAction == [templated : BOOLEAN, count : Int]

ASSUME PublisherAssumption ==
  /\ Crc \in [Topics -> Ids]
  /\ Byte \in Nat \ {0} /\ Half \in Nat \ {0}
  /\ ValidCount(Base)
  /\ RawActions \subseteq PublishAction
  /\ TypedActions \subseteq PublishAction
  /\ \A a \in RawActions \union TypedActions : a.templated \/ ValidCount(a.count)
  /\ MaxCalls \in Nat
  /\ MaxTries \in Nat

(* The lambda of a template is generated to return a uint8_t in raw mode:  *)
(* a returned -1 is 255 when play() sets it. That of a message is to       *)
(* return an int16_t, which the generated action class takes.              *)
RawCount(a) == IF a.templated THEN a.count % Byte ELSE a.count

TypedCount(a) == ((a.count + Half) % (2 * Half)) - Half

(* The counts publish() may find, from the component or from an action.    *)
Counts ==
  {Base} \union {RawCount(a) : a \in RawActions} \union {TypedCount(a) : a \in TypedActions}

VARIABLES
  socket,   (* socket_: "unset" until setup(), then "ready", "failed" when *)
            (* it could not be made, "unbound" when bind() failed          *)
  jobs,     (* indefinite_jobs_: the publication each topic's entry resends, or 0 *)
  timer,    (* the timeout under each id: the publication its closure sends *)
  pending,  (* anonymous timeouts left, per publication                    *)
  calls,    (* history: publish() calls so far, per topic                  *)
  latest,   (* history: the last publish() that returned true, or 0        *)
  count,    (* history: the retransmit_count a publication was made with   *)
  tries     (* history: sendto() calls per publication, up to MaxTries     *)

vars == <<socket, jobs, timer, pending, calls, latest, count, tries>>

Numbers == 1 .. MaxCalls

None == <<>>

Publications == Topics \X Numbers

Zero == [p \in Publications |-> 0]

-----------------------------------------------------------------------------

Init ==
  /\ socket = "unset"
  /\ jobs = [t \in Topics |-> 0]
  /\ timer = [id \in Ids |-> None]
  /\ pending = Zero
  /\ calls = [t \in Topics |-> 0]
  /\ latest = [t \in Topics |-> 0]
  /\ count = Zero
  /\ tries = Zero

(* setup() gets a bound socket or marks the component failed. A socket     *)
(* that could not be bound stays in socket_.                               *)
Setup ==
  /\ socket = "unset"
  /\ socket' \in {"ready", "failed", "unbound"}
  /\ UNCHANGED <<jobs, timer, pending, calls, latest, count, tries>>

(* send_datagram_, whether or not the transport takes the datagram. *)
Send(p) == tries' = [tries EXCEPT ![p] = IF @ < MaxTries THEN @ + 1 ELSE @]

Call(t) ==
  /\ calls[t] < MaxCalls
  /\ calls' = [calls EXCEPT ![t] = @ + 1]

(* publish() without a socket or with an oversize payload returns false. *)
PublishRefused(t) ==
  /\ Call(t)
  /\ UNCHANGED <<socket, jobs, timer, pending, latest, count, tries>>

(* publish() looks at socket_ only, not at whether the component failed.   *)
HasSocket == socket \in {"ready", "unbound"}

(* publish() whose first transmission fails returns false as well. *)
PublishSendFails(t) ==
  /\ HasSocket
  /\ Call(t)
  /\ Send(<<t, calls'[t]>>)
  /\ UNCHANGED <<socket, jobs, timer, pending, latest, count>>

(* Like the other operators whose name says what they get wrong, faulty    *)
(* forms of the one below them, which no specification uses.               *)
TimerNotCancelled(t) == timer

JobsNotCancelled(t) == jobs

(* cancel_indefinite_retransmit_: the timeouts and the jobs without the    *)
(* topic's chain. Only a topic with a job has a timeout to cancel.         *)
TimerCancelled(t) ==
  IF jobs[t] # 0 THEN [timer EXCEPT ![Crc[t]] = None] ELSE timer

JobsCancelled(t) == [jobs EXCEPT ![t] = 0]

DeferredOneTooMany(c) == IF c > 1 THEN c ELSE 0

(* The deferred transmissions of a finite publication. *)
Deferred(c) == IF c > 1 THEN c - 1 ELSE 0

(* schedule_retransmits_ for publication p of topic t with count c: cancel *)
(* the topic's chain, then start a new one or the finite timeouts.         *)
ScheduleRetransmits(t, p, c) ==
  \/ /\ c = Indefinite
     /\ jobs' = [JobsCancelled(t) EXCEPT ![t] = p[2]]
     /\ timer' = [TimerCancelled(t) EXCEPT ![Crc[t]] = p]
     /\ UNCHANGED pending
  \/ /\ c # Indefinite
     /\ jobs' = JobsCancelled(t)
     /\ timer' = TimerCancelled(t)
     /\ pending' = [pending EXCEPT ![p] = Deferred(c)]

(* publish() that returns true. The count is the component's or, around a  *)
(* PublishAction, the action's: publish() reads it synchronously.          *)
Publish(t, c) ==
  /\ HasSocket
  /\ Call(t)
  /\ LET p == <<t, calls'[t]>>
     IN /\ Send(p)
        /\ ScheduleRetransmits(t, p, c)
        /\ latest' = [latest EXCEPT ![t] = calls'[t]]
        /\ count' = [count EXCEPT ![p] = c]
  /\ UNCHANGED socket

RearmedNever(t) == None

(* What the closure of topic t arms after its transmission: the topic's    *)
(* job if there still is one, however the transmission went.               *)
Rearmed(t) == IF jobs[t] # 0 THEN <<t, jobs[t]>> ELSE None

(* The scheduler runs no timeout of a component that has failed. *)
TimeoutsRun == socket = "ready"

(* The timeout of a chain. *)
FireChain(id) ==
  /\ TimeoutsRun
  /\ timer[id] # None
  /\ Send(timer[id])
  /\ timer' = [timer EXCEPT ![id] = Rearmed(timer[id][1])]
  /\ UNCHANGED <<socket, jobs, pending, calls, latest, count>>

FiredButKept(p) == pending

(* A timeout runs once. *)
Fired(p) == [pending EXCEPT ![p] = @ - 1]

FireFiniteUnguarded(p) ==
  /\ TimeoutsRun
  /\ Send(p)
  /\ pending' = Fired(p)
  /\ UNCHANGED <<socket, jobs, timer, calls, latest, count>>

(* One anonymous timeout of a finite publication. *)
FireFinite(p) ==
  /\ TimeoutsRun
  /\ pending[p] > 0
  /\ Send(p)
  /\ pending' = Fired(p)
  /\ UNCHANGED <<socket, jobs, timer, calls, latest, count>>

Next ==
  \/ Setup
  \/ \E t \in Topics : PublishRefused(t) \/ PublishSendFails(t)
  \/ \E t \in Topics, c \in Counts : Publish(t, c)
  \/ \E id \in Ids : FireChain(id)
  \/ \E p \in Publications : FireFinite(p)

Spec == Init /\ [][Next]_vars

(* The loop runs every timeout that is due. *)
Fairness ==
  /\ \A id \in Ids : WF_vars(FireChain(id))
  /\ \A p \in Publications : WF_vars(FireFinite(p))

FairSpec == Spec /\ Fairness

-----------------------------------------------------------------------------
(* Type invariant. *)
TypeOK ==
  /\ socket \in {"unset", "ready", "failed", "unbound"}
  /\ jobs \in [Topics -> 0 .. MaxCalls]
  /\ timer \in [Ids -> Publications \union {None}]
  /\ pending \in [Publications -> Nat]
  /\ calls \in [Topics -> 0 .. MaxCalls]
  /\ latest \in [Topics -> 0 .. MaxCalls]
  /\ count \in [Publications -> Counts \union {0}]
  /\ tries \in [Publications -> 0 .. MaxTries]

(* The map of jobs and the scheduler agree: a topic in indefinite_jobs_    *)
(* has its timeout armed with the same datagram, and a timeout under an id *)
(* belongs to a job. If the two drift apart a chain dies silently or can   *)
(* no longer be cancelled (multicast_pubsub.cpp:799-825).                  *)
ChainArmed ==
  /\ \A t \in Topics : jobs[t] # 0 => timer[Crc[t]] = <<t, jobs[t]>>
  /\ \A id \in Ids : timer[id] # None =>
       LET t == timer[id][1] IN Crc[t] = id /\ jobs[t] = timer[id][2]

(* A chain resends the value of the last publish() that returned true, and *)
(* exists only if that publish() was indefinite.                           *)
ChainIsLatest ==
  \A t \in Topics : jobs[t] # 0 =>
    /\ jobs[t] = latest[t]
    /\ count[<<t, jobs[t]>>] = Indefinite

(* An indefinite publication is never transmitted again once a later       *)
(* publish() on its topic returned true, whatever that one's count was     *)
(* (multicast_pubsub.h:81-84).                                             *)
SupersededStep ==
  \A p \in Publications :
    count[p] = Indefinite /\ latest'[p[1]] # p[2] => tries'[p] = tries[p]

SupersededIsSilent == [][SupersededStep]_vars

(* A publish() with count N > 1 that returned true hands its datagram to   *)
(* the transport N times in all; no other publication, cancellation or     *)
(* failed transmission takes one away or adds one.                         *)
ExactCount ==
  \A p \in Publications :
    count[p] \in 1 .. MaxTries => tries[p] + pending[p] = count[p]

(* Every finite retransmission a working component scheduled is eventually *)
(* made.                                                                   *)
FiniteCompletes ==
  \A p \in Publications : TimeoutsRun /\ pending[p] > 0 ~> pending[p] = 0

(* A working component's chain keeps transmitting, through failed          *)
(* transmissions too, until a publish() on its topic supersedes it.        *)
ChainPersists ==
  \A p \in Publications :
    TimeoutsRun /\ jobs[p[1]] = p[2] ~> (jobs[p[1]] # p[2] \/ tries[p] = MaxTries)

=============================================================================
