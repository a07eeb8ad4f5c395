------------------------- MODULE EspPublisherProofs -------------------------
(***************************************************************************)
(* Proofs about EspPublisher for every set of topics, every table of       *)
(* scheduler ids and every bound. Only ChainsStayArmed needs the ids to be *)
(* distinct: what a collision can break is the life of a chain, never the  *)
(* silence of a superseded one or the count of a finite publication.       *)
(***************************************************************************)
EXTENDS EspPublisher, TLAPS

(* A timeout belongs to the job of its topic. *)
TimerHasJob ==
  \A id \in Ids : timer[id] # None =>
    /\ timer[id] \in Publications
    /\ Crc[timer[id][1]] = id
    /\ jobs[timer[id][1]] = timer[id][2]

(* Nothing is known of a publication that was not made yet. *)
NotYet ==
  \A t \in Topics, n \in Numbers : n > calls[t] =>
    /\ latest[t] # n
    /\ count[<<t, n>>] = 0
    /\ pending[<<t, n>>] = 0
    /\ tries[<<t, n>>] = 0

(* Anonymous timeouts belong to finite publications. *)
PendingIsFinite ==
  \A p \in Publications : pending[p] > 0 => count[p] # Indefinite

IInv ==
  /\ TypeOK
  /\ ChainIsLatest
  /\ TimerHasJob
  /\ NotYet
  /\ PendingIsFinite
  /\ ExactCount

-----------------------------------------------------------------------------

(* What the assumptions say of the constants, in the form the steps use.   *)
LEMMA ConstantTypes ==
  /\ \A t \in Topics : Crc[t] \in Ids
  /\ Counts \subseteq Int
  /\ MaxCalls \in Nat
  /\ MaxTries \in Nat
  /\ Numbers \subseteq Nat \ {0}
  /\ Indefinite \in Int /\ Indefinite < 0
<1>1. Byte \in Nat \ {0} /\ Base \in Int
  BY PublisherAssumption DEF PublisherAssumption, ValidCount, Indefinite
<1>2. ASSUME NEW a \in RawActions
      PROVE  RawCount(a) \in Int
  <2>1. a.count \in Int
    BY PublisherAssumption DEF PublisherAssumption, PublishAction
  <2> QED
    BY <1>1, <2>1 DEF RawCount
<1>3. ASSUME NEW a \in TypedActions
      PROVE  TypedCount(a) \in Int
  <2>1. a.count \in Int /\ Half \in Nat \ {0}
    BY PublisherAssumption DEF PublisherAssumption, PublishAction
  <2>2. \A m \in Int, n \in Nat \ {0} : m % n \in Int
    OBVIOUS
  <2>3. a.count + Half \in Int /\ 2 * Half \in Nat \ {0}
    BY <2>1
  <2>4. (a.count + Half) % (2 * Half) \in Int
    BY <2>2, <2>3
  <2> QED
    BY <2>1, <2>4 DEF TypedCount
<1>4. Counts \subseteq Int
  BY <1>1, <1>2, <1>3 DEF Counts
<1> QED
  BY <1>4, PublisherAssumption DEF PublisherAssumption, Numbers, Indefinite

(* A publication is the pair of its topic and its number.                  *)
LEMMA PairTypes ==
  /\ \A t \in Topics, n \in Numbers : <<t, n>> \in Publications
  /\ \A p \in Publications :
       p[1] \in Topics /\ p[2] \in Numbers /\ p = <<p[1], p[2]>>
BY DEF Publications

(* The next number of a topic is one nothing is known of. *)
LEMMA NextNumber ==
  ASSUME TypeOK, NotYet, NEW t \in Topics, Call(t)
  PROVE  /\ calls' = [calls EXCEPT ![t] = calls[t] + 1]
         /\ calls'[t] = calls[t] + 1
         /\ calls'[t] \in Numbers
         /\ <<t, calls'[t]>> \in Publications
         /\ calls' \in [Topics -> 0 .. MaxCalls]
         /\ \A u \in Topics : calls'[u] >= calls[u]
         /\ latest[t] # calls'[t]
         /\ count[<<t, calls'[t]>>] = 0
         /\ pending[<<t, calls'[t]>>] = 0
         /\ tries[<<t, calls'[t]>>] = 0
<1>1. calls \in [Topics -> 0 .. MaxCalls] /\ calls[t] < MaxCalls
      /\ calls' = [calls EXCEPT ![t] = calls[t] + 1]
  BY DEF TypeOK, Call
<1>2. calls'[t] = calls[t] + 1 /\ calls'[t] \in Numbers
  BY <1>1, ConstantTypes DEF Numbers
<1>3. calls' \in [Topics -> 0 .. MaxCalls] /\ \A u \in Topics : calls'[u] >= calls[u]
  BY <1>1, ConstantTypes
<1>4. calls'[t] > calls[t]
  BY <1>1, <1>2, ConstantTypes
<1>5. /\ latest[t] # calls'[t]
      /\ count[<<t, calls'[t]>>] = 0
      /\ pending[<<t, calls'[t]>>] = 0
      /\ tries[<<t, calls'[t]>>] = 0
  BY <1>2, <1>4 DEF NotYet
<1> QED
  BY <1>1, <1>2, <1>3, <1>5, PairTypes

(* A transmission counts for its publication alone.                        *)
LEMMA SendType ==
  ASSUME TypeOK, NEW p \in Publications, Send(p)
  PROVE  /\ tries' \in [Publications -> 0 .. MaxTries]
         /\ tries'[p] = IF tries[p] < MaxTries THEN tries[p] + 1 ELSE tries[p]
         /\ \A q \in Publications : q # p => tries'[q] = tries[q]
BY ConstantTypes DEF TypeOK, Send

(* The invariant holds at the start.                                       *)
LEMMA InitInv == Init => IInv
<1> SUFFICES ASSUME Init PROVE IInv
  OBVIOUS
<1>1. TypeOK
  BY ConstantTypes DEF Init, TypeOK, Zero
<1>2. NotYet
  BY ConstantTypes, PairTypes DEF Init, NotYet, Zero
<1>3. ChainIsLatest /\ TimerHasJob
  BY DEF Init, ChainIsLatest, TimerHasJob
<1>4. PendingIsFinite /\ ExactCount
  BY ConstantTypes DEF Init, PendingIsFinite, ExactCount, Zero
<1> QED
  BY <1>1, <1>2, <1>3, <1>4 DEF IInv

-----------------------------------------------------------------------------
(* One lemma per action. *)

(* setup() keeps the invariant.                                            *)
LEMMA SetupInv == IInv /\ Setup => IInv'
<1> SUFFICES ASSUME IInv, Setup PROVE IInv'
  OBVIOUS
<1> USE DEF IInv, Setup
<1>1. TypeOK'
  BY DEF TypeOK
<1>2. (ChainIsLatest /\ TimerHasJob /\ NotYet /\ PendingIsFinite /\ ExactCount)'
  BY DEF ChainIsLatest, TimerHasJob, NotYet, PendingIsFinite, ExactCount
<1> QED
  BY <1>1, <1>2

(* A refused publish() keeps the invariant.                                *)
LEMMA PublishRefusedInv ==
  ASSUME IInv, NEW t \in Topics, PublishRefused(t)
  PROVE  IInv'
<1> USE DEF IInv, PublishRefused
<1>1. calls' \in [Topics -> 0 .. MaxCalls] /\ \A u \in Topics : calls'[u] >= calls[u]
  BY NextNumber
<1>2. TypeOK'
  BY <1>1 DEF TypeOK
<1>3. NotYet'
  BY <1>1, ConstantTypes DEF NotYet, TypeOK, Numbers
<1>4. (ChainIsLatest /\ TimerHasJob /\ PendingIsFinite /\ ExactCount)'
  BY DEF ChainIsLatest, TimerHasJob, PendingIsFinite, ExactCount
<1> QED
  BY <1>2, <1>3, <1>4

(* A publish() whose first transmission fails keeps the invariant.         *)
LEMMA PublishSendFailsInv ==
  ASSUME IInv, NEW t \in Topics, PublishSendFails(t)
  PROVE  IInv'
<1> DEFINE p == <<t, calls'[t]>>
<1> USE DEF IInv, PublishSendFails
<1>1. /\ p \in Publications /\ count[p] = 0
      /\ calls'[t] = calls[t] + 1
      /\ calls' \in [Topics -> 0 .. MaxCalls]
      /\ \A u \in Topics : calls'[u] >= calls[u]
  BY NextNumber
<1>2. /\ tries' \in [Publications -> 0 .. MaxTries]
      /\ \A q \in Publications : q # p => tries'[q] = tries[q]
  BY <1>1, SendType
<1>3. TypeOK'
  BY <1>1, <1>2 DEF TypeOK
<1>4. ASSUME NEW u \in Topics, NEW n \in Numbers, n > calls'[u]
      PROVE  n > calls[u] /\ <<u, n>> # p
  BY <1>1, <1>4, ConstantTypes DEF TypeOK, Numbers
<1>5. NotYet'
  BY <1>2, <1>4, PairTypes DEF NotYet
<1>6. (ChainIsLatest /\ TimerHasJob /\ PendingIsFinite)'
  BY DEF ChainIsLatest, TimerHasJob, PendingIsFinite
<1>7. ExactCount'
  BY <1>1, <1>2, ConstantTypes DEF ExactCount
<1> QED
  BY <1>3, <1>5, <1>6, <1>7


(* Cancelling topic t leaves the other topics' jobs and every timeout that *)
(* belongs to one of them, and no timeout of t.                            *)
LEMMA Cancelling ==
  ASSUME TypeOK, TimerHasJob, NEW t \in Topics
  PROVE  /\ JobsCancelled(t) \in [Topics -> 0 .. MaxCalls]
         /\ JobsCancelled(t)[t] = 0
         /\ \A u \in Topics : u # t => JobsCancelled(t)[u] = jobs[u]
         /\ TimerCancelled(t) \in [Ids -> Publications \union {None}]
         /\ \A id \in Ids : TimerCancelled(t)[id] # None =>
              /\ TimerCancelled(t)[id] = timer[id]
              /\ timer[id][1] # t
<1>1. jobs \in [Topics -> 0 .. MaxCalls]
      /\ timer \in [Ids -> Publications \union {None}]
  BY DEF TypeOK
<1>2. /\ JobsCancelled(t) \in [Topics -> 0 .. MaxCalls]
      /\ JobsCancelled(t)[t] = 0
      /\ \A u \in Topics : u # t => JobsCancelled(t)[u] = jobs[u]
  BY <1>1, ConstantTypes DEF JobsCancelled
<1>3. Crc[t] \in Ids
  BY ConstantTypes
<1>4. CASE jobs[t] # 0
  <2>1. TimerCancelled(t) = [timer EXCEPT ![Crc[t]] = None]
    BY <1>4 DEF TimerCancelled
  <2>2. ASSUME NEW id \in Ids, TimerCancelled(t)[id] # None
        PROVE  TimerCancelled(t)[id] = timer[id] /\ timer[id][1] # t
    <3>1. id # Crc[t] /\ TimerCancelled(t)[id] = timer[id]
      BY <1>1, <1>3, <2>1, <2>2
    <3>2. Crc[timer[id][1]] = id
      BY <2>2, <3>1 DEF TimerHasJob
    <3> QED
      BY <3>1, <3>2
  <2>3. TimerCancelled(t) \in [Ids -> Publications \union {None}]
    BY <1>1, <2>1
  <2> QED
    BY <1>2, <2>2, <2>3
<1>5. CASE jobs[t] = 0
  <2>1. TimerCancelled(t) = timer
    BY <1>5 DEF TimerCancelled
  <2>2. ASSUME NEW id \in Ids, timer[id] # None
        PROVE  timer[id][1] # t
    <3>1. jobs[timer[id][1]] = timer[id][2] /\ timer[id] \in Publications
      BY <2>2 DEF TimerHasJob
    <3>2. timer[id][2] # 0
      BY <3>1, PairTypes, ConstantTypes
    <3> QED
      BY <1>5, <3>1, <3>2
  <2> QED
    BY <1>1, <1>2, <2>1, <2>2
<1> QED
  BY <1>4, <1>5

(* publish() for topic t and count c. *)
LEMMA PublishInv ==
  ASSUME IInv, NEW t \in Topics, NEW c \in Counts, Publish(t, c)
  PROVE  IInv'
<1> DEFINE p == <<t, calls'[t]>>
<1>0. /\ TypeOK /\ ChainIsLatest /\ TimerHasJob /\ NotYet
      /\ PendingIsFinite /\ ExactCount
  BY DEF IInv
<1>1. /\ p \in Publications /\ calls'[t] \in Numbers
      /\ count[p] = 0 /\ pending[p] = 0 /\ tries[p] = 0
      /\ calls'[t] = calls[t] + 1
      /\ calls' \in [Topics -> 0 .. MaxCalls]
      /\ \A u \in Topics : calls'[u] >= calls[u]
  BY <1>0, NextNumber DEF Publish
<1>2. /\ Send(p)
      /\ ScheduleRetransmits(t, p, c)
      /\ latest' = [latest EXCEPT ![t] = calls'[t]]
      /\ count' = [count EXCEPT ![p] = c]
      /\ socket' = socket
  BY DEF Publish
<1>3. /\ tries' \in [Publications -> 0 .. MaxTries]
      /\ tries'[p] = IF tries[p] < MaxTries THEN tries[p] + 1 ELSE tries[p]
      /\ \A q \in Publications : q # p => tries'[q] = tries[q]
  BY <1>0, <1>1, <1>2, SendType
<1>4. /\ latest' \in [Topics -> 0 .. MaxCalls]
      /\ latest'[t] = calls'[t]
      /\ \A u \in Topics : u # t => latest'[u] = latest[u]
  BY <1>0, <1>1, <1>2, ConstantTypes DEF TypeOK, Numbers
<1>5. /\ count' \in [Publications -> Counts \union {0}]
      /\ count'[p] = c
      /\ \A q \in Publications : q # p => count'[q] = count[q]
  BY <1>0, <1>1, <1>2 DEF TypeOK
<1>6. /\ pending' \in [Publications -> Nat]
      /\ c # Indefinite => pending'[p] = Deferred(c)
      /\ c = Indefinite => pending'[p] = 0
      /\ \A q \in Publications : q # p => pending'[q] = pending[q]
  <2>1. Deferred(c) \in Nat
    BY ConstantTypes DEF Deferred
  <2> QED
    BY <1>0, <1>1, <1>2, <2>1 DEF TypeOK, ScheduleRetransmits
<1>7. /\ jobs' \in [Topics -> 0 .. MaxCalls]
      /\ jobs'[t] = IF c = Indefinite THEN calls'[t] ELSE 0
      /\ \A u \in Topics : u # t => jobs'[u] = jobs[u]
  <2>1. /\ JobsCancelled(t) \in [Topics -> 0 .. MaxCalls]
        /\ JobsCancelled(t)[t] = 0
        /\ \A u \in Topics : u # t => JobsCancelled(t)[u] = jobs[u]
    BY <1>0, ConstantTypes DEF TypeOK, JobsCancelled
  <2>2. p[2] = calls'[t] /\ p[2] \in 0 .. MaxCalls
    BY <1>1, ConstantTypes DEF Numbers
  <2>3. CASE c = Indefinite
    <3>1. jobs' = [JobsCancelled(t) EXCEPT ![t] = p[2]]
      BY <1>2, <2>3 DEF ScheduleRetransmits
    <3> HIDE DEF p
    <3> QED
      BY <2>1, <2>2, <2>3, <3>1
  <2>4. CASE c # Indefinite
    <3>1. jobs' = JobsCancelled(t)
      BY <1>2, <2>4 DEF ScheduleRetransmits
    <3> QED
      BY <2>1, <2>4, <3>1
  <2> QED
    BY <2>3, <2>4
<1>8. /\ timer' \in [Ids -> Publications \union {None}]
      /\ \A id \in Ids : timer'[id] # None =>
           \/ timer'[id] = timer[id] /\ timer[id][1] # t
           \/ timer'[id] = p /\ id = Crc[t] /\ c = Indefinite
  <2>1. /\ TimerCancelled(t) \in [Ids -> Publications \union {None}]
        /\ \A id \in Ids : TimerCancelled(t)[id] # None =>
             TimerCancelled(t)[id] = timer[id] /\ timer[id][1] # t
    BY <1>0, Cancelling
  <2>2. CASE c = Indefinite
    <3>1. timer' = [TimerCancelled(t) EXCEPT ![Crc[t]] = p]
      BY <1>2, <2>2 DEF ScheduleRetransmits
    <3>2. Crc[t] \in Ids
      BY ConstantTypes
    <3>3. timer' \in [Ids -> Publications \union {None}]
      BY <1>1, <2>1, <3>1
    <3>4. ASSUME NEW id \in Ids, timer'[id] # None
          PROVE  \/ timer'[id] = timer[id] /\ timer[id][1] # t
                 \/ timer'[id] = p /\ id = Crc[t] /\ c = Indefinite
      <4>1. CASE id = Crc[t]
        BY <2>1, <2>2, <3>1, <3>2, <4>1
      <4>2. CASE id # Crc[t]
        <5>1. timer'[id] = TimerCancelled(t)[id]
          BY <2>1, <3>1, <4>2
        <5> QED
          BY <2>1, <3>4, <5>1
      <4> QED
        BY <4>1, <4>2
    <3> QED
      BY <3>3, <3>4
  <2>3. CASE c # Indefinite
    <3>1. timer' = TimerCancelled(t)
      BY <1>2, <2>3 DEF ScheduleRetransmits
    <3> QED
      BY <2>1, <3>1
  <2> QED
    BY <2>2, <2>3
<1>9. TypeOK'
  BY <1>0, <1>1, <1>2, <1>3, <1>4, <1>5, <1>6, <1>7, <1>8 DEF TypeOK
<1>10. ChainIsLatest'
  <2>1. ASSUME NEW u \in Topics, jobs'[u] # 0
        PROVE  jobs'[u] = latest'[u] /\ count'[<<u, jobs'[u]>>] = Indefinite
    <3>1. CASE u = t
      BY <1>4, <1>5, <1>7, <2>1, <3>1
    <3>2. CASE u # t
      <4>1. jobs'[u] = jobs[u] /\ latest'[u] = latest[u] /\ jobs[u] \in Numbers
        BY <1>0, <1>4, <1>7, <2>1, <3>2, ConstantTypes DEF TypeOK, Numbers
      <4>2. <<u, jobs[u]>> # p /\ <<u, jobs[u]>> \in Publications
        BY <3>2, <4>1, PairTypes
      <4> QED
        BY <1>0, <1>5, <2>1, <4>1, <4>2 DEF ChainIsLatest
    <3> QED
      BY <3>1, <3>2
  <2> QED
    BY <2>1 DEF ChainIsLatest
<1>11. TimerHasJob'
  <2>1. ASSUME NEW id \in Ids, timer'[id] # None
        PROVE  /\ timer'[id] \in Publications
               /\ Crc[timer'[id][1]] = id
               /\ jobs'[timer'[id][1]] = timer'[id][2]
    <3>1. CASE timer'[id] = timer[id] /\ timer[id][1] # t
      <4>1. /\ timer[id] \in Publications
            /\ Crc[timer[id][1]] = id
            /\ jobs[timer[id][1]] = timer[id][2]
        BY <1>0, <2>1, <3>1 DEF TimerHasJob
      <4>2. timer[id][1] \in Topics
        BY <4>1, PairTypes
      <4> QED
        BY <1>7, <3>1, <4>1, <4>2
    <3>2. CASE timer'[id] = p /\ id = Crc[t] /\ c = Indefinite
      BY <1>1, <1>7, <3>2
    <3> QED
      BY <1>8, <2>1, <3>1, <3>2
  <2> QED
    BY <2>1 DEF TimerHasJob
<1>12. NotYet'
  <2>1. ASSUME NEW u \in Topics, NEW n \in Numbers, n > calls'[u]
        PROVE  n > calls[u] /\ <<u, n>> # p /\ <<u, n>> \in Publications /\ latest'[u] # n
    <3>1. n > calls[u] /\ <<u, n>> # p /\ <<u, n>> \in Publications
      BY <1>0, <1>1, <2>1, ConstantTypes, PairTypes DEF TypeOK, Numbers
    <3>2. latest'[u] # n
      BY <1>0, <1>1, <1>4, <2>1, <3>1 DEF NotYet
    <3> QED
      BY <3>1, <3>2
  <2> QED
    BY <1>0, <1>3, <1>5, <1>6, <2>1 DEF NotYet
<1>13. PendingIsFinite'
  BY <1>0, <1>5, <1>6 DEF PendingIsFinite
<1>14. ExactCount'
  <2>1. ASSUME c \in 1 .. MaxTries
        PROVE  tries'[p] + pending'[p] = c
    BY <1>1, <1>3, <1>6, <2>1, ConstantTypes DEF Deferred
  <2> QED
    BY <1>0, <1>3, <1>5, <1>6, <2>1 DEF ExactCount
<1> QED
  BY <1>9, <1>10, <1>11, <1>12, <1>13, <1>14 DEF IInv

(* A timeout of a chain: it fires for a publication that its topic's job   *)
(* holds, which is the latest one and indefinite.                          *)
LEMMA ChainFires ==
  ASSUME IInv, NEW id \in Ids, timer[id] # None
  PROVE  /\ timer[id] \in Publications
         /\ timer[id][1] \in Topics
         /\ Crc[timer[id][1]] = id
         /\ jobs[timer[id][1]] = timer[id][2]
         /\ latest[timer[id][1]] = timer[id][2]
         /\ count[timer[id]] = Indefinite
         /\ timer[id][2] <= calls[timer[id][1]]
         /\ Rearmed(timer[id][1]) = timer[id]
<1> DEFINE t == timer[id][1]
<1>1. timer[id] \in Publications /\ Crc[t] = id /\ jobs[t] = timer[id][2]
  BY DEF IInv, TimerHasJob
<1>2. t \in Topics /\ timer[id][2] \in Numbers /\ timer[id] = <<t, timer[id][2]>>
  BY <1>1, PairTypes
<1>3. jobs[t] # 0
  BY <1>1, <1>2, ConstantTypes
<1>4. latest[t] = timer[id][2] /\ count[timer[id]] = Indefinite
  BY <1>1, <1>2, <1>3 DEF IInv, ChainIsLatest
<1>5. timer[id][2] <= calls[t]
  <2>1. calls[t] \in Int /\ timer[id][2] \in Int
    BY <1>2, ConstantTypes DEF IInv, TypeOK
  <2>2. ~(timer[id][2] > calls[t])
    BY <1>2, <1>4 DEF IInv, NotYet
  <2> QED
    BY <2>1, <2>2
<1>6. Rearmed(t) = timer[id]
  BY <1>1, <1>2, <1>3 DEF Rearmed
<1> QED
  BY <1>1, <1>2, <1>4, <1>5, <1>6

(* A chain's timeout keeps the invariant.                                  *)
LEMMA FireChainInv ==
  ASSUME IInv, NEW id \in Ids, FireChain(id)
  PROVE  IInv'
<1> DEFINE p == timer[id]
<1>0. /\ TypeOK /\ ChainIsLatest /\ TimerHasJob /\ NotYet
      /\ PendingIsFinite /\ ExactCount
  BY DEF IInv
<1>1. /\ p \in Publications /\ p[1] \in Topics /\ count[p] = Indefinite
      /\ p[2] <= calls[p[1]] /\ Rearmed(p[1]) = p
  BY ChainFires DEF FireChain
<1>2. /\ tries' \in [Publications -> 0 .. MaxTries]
      /\ \A q \in Publications : q # p => tries'[q] = tries[q]
  BY <1>0, <1>1, SendType DEF FireChain
<1>3. timer' = timer
  BY <1>0, <1>1 DEF FireChain, TypeOK
<1>4. UNCHANGED <<socket, jobs, pending, calls, latest, count>>
  BY DEF FireChain
<1>5. TypeOK'
  BY <1>0, <1>2, <1>3, <1>4 DEF TypeOK
<1>6. NotYet'
  <2>1. ASSUME NEW u \in Topics, NEW n \in Numbers, n > calls[u]
        PROVE  <<u, n>> # p /\ <<u, n>> \in Publications
    BY <1>0, <1>1, <2>1, ConstantTypes, PairTypes DEF TypeOK, Numbers
  <2> QED
    BY <1>0, <1>2, <1>4, <2>1 DEF NotYet
<1>7. (ChainIsLatest /\ TimerHasJob /\ PendingIsFinite)'
  BY <1>0, <1>3, <1>4 DEF ChainIsLatest, TimerHasJob, PendingIsFinite
<1>8. ExactCount'
  BY <1>0, <1>1, <1>2, <1>4, ConstantTypes DEF ExactCount
<1> QED
  BY <1>5, <1>6, <1>7, <1>8 DEF IInv

(* The timeout of a finite retransmission keeps the invariant.             *)
LEMMA FireFiniteInv ==
  ASSUME IInv, NEW p \in Publications, FireFinite(p)
  PROVE  IInv'
<1>0. /\ TypeOK /\ ChainIsLatest /\ TimerHasJob /\ NotYet
      /\ PendingIsFinite /\ ExactCount
  BY DEF IInv
<1>1. /\ tries' \in [Publications -> 0 .. MaxTries]
      /\ tries'[p] = IF tries[p] < MaxTries THEN tries[p] + 1 ELSE tries[p]
      /\ \A q \in Publications : q # p => tries'[q] = tries[q]
  BY <1>0, SendType DEF FireFinite
<1>2. pending[p] > 0 /\ UNCHANGED <<socket, jobs, timer, calls, latest, count>>
  BY DEF FireFinite
<1>3. /\ pending' \in [Publications -> Nat]
      /\ pending'[p] = pending[p] - 1
      /\ \A q \in Publications : q # p => pending'[q] = pending[q]
  BY <1>0, <1>2 DEF FireFinite, Fired, TypeOK
<1>4. TypeOK'
  BY <1>0, <1>1, <1>2, <1>3 DEF TypeOK
<1>5. NotYet'
  BY <1>0, <1>1, <1>2, <1>3, PairTypes DEF NotYet
<1>6. (ChainIsLatest /\ TimerHasJob)'
  BY <1>0, <1>2 DEF ChainIsLatest, TimerHasJob
<1>7. PendingIsFinite'
  BY <1>0, <1>2, <1>3 DEF PendingIsFinite
<1>8. ExactCount'
  <2>1. ASSUME count[p] \in 1 .. MaxTries
        PROVE  tries'[p] + pending'[p] = count[p]
    <3>1. tries[p] + pending[p] = count[p] /\ tries[p] \in Nat /\ pending[p] \in Nat
      BY <1>0, <2>1, ConstantTypes DEF ExactCount, TypeOK
    <3> QED
      BY <1>1, <1>2, <1>3, <2>1, <3>1, ConstantTypes
  <2> QED
    BY <1>0, <1>1, <1>2, <1>3, <2>1 DEF ExactCount
<1> QED
  BY <1>4, <1>5, <1>6, <1>7, <1>8 DEF IInv

-----------------------------------------------------------------------------
(* Every step keeps the invariant.                                         *)
LEMMA NextInv == IInv /\ [Next]_vars => IInv'
<1> SUFFICES ASSUME IInv, [Next]_vars PROVE IInv'
  OBVIOUS
<1>1. CASE Setup
  BY <1>1, SetupInv
<1>2. CASE \E t \in Topics : PublishRefused(t) \/ PublishSendFails(t)
  BY <1>2, PublishRefusedInv, PublishSendFailsInv
<1>3. CASE \E t \in Topics, c \in Counts : Publish(t, c)
  BY <1>3, PublishInv
<1>4. CASE \E id \in Ids : FireChain(id)
  BY <1>4, FireChainInv
<1>5. CASE \E p \in Publications : FireFinite(p)
  BY <1>5, FireFiniteInv
<1>6. CASE UNCHANGED vars
  BY <1>6 DEF vars, IInv, TypeOK, ChainIsLatest, TimerHasJob, NotYet,
     PendingIsFinite, ExactCount
<1> QED
  BY <1>1, <1>2, <1>3, <1>4, <1>5, <1>6 DEF Next

(* The invariant holds in every reachable state.                           *)
LEMMA Invariance == Spec => []IInv
<1>1. Init => IInv
  BY InitInv
<1>2. IInv /\ [Next]_vars => IInv'
  BY NextInv
<1> QED
  BY <1>1, <1>2, PTL DEF Spec

(* The state always has its type. *)
THEOREM TypeCorrect == Spec => []TypeOK
<1>1. IInv => TypeOK
  BY DEF IInv
<1> QED
  BY <1>1, Invariance, PTL

(* A chain resends the last publish() that returned true, even when topics *)
(* share a scheduler id (multicast_pubsub.cpp:799-825).                    *)
THEOREM ChainsResendTheLatest == Spec => []ChainIsLatest
<1>1. IInv => ChainIsLatest
  BY DEF IInv
<1> QED
  BY <1>1, Invariance, PTL

(* A finite publication is handed to the transport exactly as often as it  *)
(* was asked for (multicast_pubsub.cpp:827-831).                           *)
THEOREM FiniteIsExact == Spec => []ExactCount
<1>1. IInv => ExactCount
  BY DEF IInv
<1> QED
  BY <1>1, Invariance, PTL

(* No timeout of a superseded indefinite publication ever transmits it     *)
(* (multicast_pubsub.h:81-84).                                             *)
LEMMA SupersededStepHolds == IInv /\ [Next]_vars => [SupersededStep]_vars
<1> SUFFICES ASSUME IInv, Next,
                    NEW p \in Publications,
                    count[p] = Indefinite, latest'[p[1]] # p[2]
             PROVE  tries'[p] = tries[p]
  BY DEF SupersededStep
<1>0. TypeOK /\ NotYet /\ PendingIsFinite
  BY DEF IInv
<1>1. CASE Setup
  BY <1>1 DEF Setup
<1>2. ASSUME NEW t \in Topics,
             PublishRefused(t) \/ PublishSendFails(t) \/ \E c \in Counts : Publish(t, c)
      PROVE  tries'[p] = tries[p]
  <2> DEFINE q == <<t, calls'[t]>>
  <2>1. q \in Publications /\ count[q] = 0
    BY <1>0, <1>2, NextNumber DEF PublishRefused, PublishSendFails, Publish
  <2>2. p # q
    BY <2>1, ConstantTypes
  <2>3. tries' = tries \/ Send(q)
    BY <1>2 DEF PublishRefused, PublishSendFails, Publish
  <2> QED
    BY <1>0, <2>1, <2>2, <2>3, SendType
<1>3. ASSUME NEW id \in Ids, FireChain(id)
      PROVE  tries'[p] = tries[p]
  <2>1. /\ timer[id] \in Publications
        /\ latest[timer[id][1]] = timer[id][2]
    BY <1>3, ChainFires DEF FireChain
  <2>2. latest' = latest /\ Send(timer[id])
    BY <1>3 DEF FireChain
  <2>3. p # timer[id]
    BY <2>1, <2>2
  <2> QED
    BY <1>0, <2>1, <2>2, <2>3, SendType
<1>4. ASSUME NEW q \in Publications, FireFinite(q)
      PROVE  tries'[p] = tries[p]
  <2>1. pending[q] > 0 /\ Send(q)
    BY <1>4 DEF FireFinite
  <2>2. p # q
    BY <1>0, <2>1 DEF PendingIsFinite
  <2> QED
    BY <1>0, <2>1, <2>2, SendType
<1> QED
  BY <1>1, <1>2, <1>3, <1>4 DEF Next

(* A superseded chain is silent, even when topics share a scheduler id.    *)
THEOREM SupersededStaysSilent == Spec => SupersededIsSilent
<1>1. IInv /\ [Next]_vars => [SupersededStep]_vars
  BY SupersededStepHolds
<1> QED
  BY <1>1, Invariance, PTL DEF Spec, SupersededIsSilent

-----------------------------------------------------------------------------
(* What needs the ids to be distinct. *)

DistinctIds == \A t, u \in Topics : Crc[t] = Crc[u] => t = u

(* A job has its timeout armed with the datagram it resends. *)
JobHasTimer == \A t \in Topics : jobs[t] # 0 => timer[Crc[t]] = <<t, jobs[t]>>

(* With distinct ids a publish() leaves every job with its timeout.        *)
LEMMA PublishArms ==
  ASSUME DistinctIds, IInv, JobHasTimer,
         NEW t \in Topics, NEW c \in Counts, Publish(t, c)
  PROVE  JobHasTimer'
<1> DEFINE p == <<t, calls'[t]>>
<1>0. TypeOK /\ TimerHasJob /\ NotYet
  BY DEF IInv
<1>1. ScheduleRetransmits(t, p, c) /\ calls'[t] \in Numbers
  BY <1>0, NextNumber DEF Publish
<1>2. Crc[t] \in Ids /\ timer \in [Ids -> Publications \union {None}]
  BY <1>0, ConstantTypes DEF TypeOK
<1>3. /\ JobsCancelled(t) \in [Topics -> 0 .. MaxCalls]
      /\ JobsCancelled(t)[t] = 0
      /\ \A u \in Topics : u # t => JobsCancelled(t)[u] = jobs[u]
      /\ TimerCancelled(t) \in [Ids -> Publications \union {None}]
  BY <1>0, Cancelling
<1>4. ASSUME NEW u \in Topics, u # t
      PROVE  TimerCancelled(t)[Crc[u]] = timer[Crc[u]] /\ Crc[u] # Crc[t]
  BY <1>2, <1>4, ConstantTypes DEF DistinctIds, TimerCancelled
<1>5. CASE c = Indefinite
  <2>1. /\ jobs' = [JobsCancelled(t) EXCEPT ![t] = calls'[t]]
        /\ timer' = [TimerCancelled(t) EXCEPT ![Crc[t]] = p]
    BY <1>1, <1>5 DEF ScheduleRetransmits
  <2>2. jobs'[t] = calls'[t] /\ timer'[Crc[t]] = p
    BY <1>2, <1>3, <2>1
  <2>3. ASSUME NEW u \in Topics, u # t
        PROVE  jobs'[u] = jobs[u] /\ timer'[Crc[u]] = timer[Crc[u]]
    BY <1>3, <1>4, <2>1, <2>3, ConstantTypes
  <2> QED
    BY <2>2, <2>3 DEF JobHasTimer
<1>6. CASE c # Indefinite
  <2>1. jobs' = JobsCancelled(t) /\ timer' = TimerCancelled(t)
    BY <1>1, <1>6 DEF ScheduleRetransmits
  <2> QED
    BY <1>3, <1>4, <2>1 DEF JobHasTimer
<1> QED
  BY <1>5, <1>6

(* A chain that fires arms its timeout again.                              *)
LEMMA FireChainKeepsArmed ==
  ASSUME IInv, JobHasTimer, NEW id \in Ids, FireChain(id)
  PROVE  JobHasTimer'
<1>1. Rearmed(timer[id][1]) = timer[id]
  BY ChainFires DEF FireChain
<1>2. timer' = timer /\ jobs' = jobs
  BY <1>1 DEF FireChain, IInv, TypeOK
<1> QED
  BY <1>2 DEF JobHasTimer

(* When no two topics share an id, the jobs and the scheduler never drift  *)
(* apart (multicast_pubsub.cpp:799-825).                                   *)
THEOREM ChainsStayArmed ==
  ASSUME DistinctIds
  PROVE  Spec => []ChainArmed
<1>1. Init => JobHasTimer
  BY DEF Init, JobHasTimer
<1>2. IInv /\ JobHasTimer /\ [Next]_vars => JobHasTimer'
  <2> SUFFICES ASSUME IInv, JobHasTimer, [Next]_vars PROVE JobHasTimer'
    OBVIOUS
  <2>1. CASE \E t \in Topics, c \in Counts : Publish(t, c)
    BY <2>1, PublishArms
  <2>2. CASE \E id \in Ids : FireChain(id)
    BY <2>2, FireChainKeepsArmed
  <2>3. CASE UNCHANGED <<jobs, timer>>
    BY <2>3 DEF JobHasTimer
  <2> QED
    BY <2>1, <2>2, <2>3 DEF Next, vars, Setup, PublishRefused, PublishSendFails, FireFinite
<1>3. IInv /\ JobHasTimer => ChainArmed
  <2> SUFFICES ASSUME IInv, JobHasTimer PROVE ChainArmed
    OBVIOUS
  <2>1. \A t \in Topics : jobs[t] # 0 => timer[Crc[t]] = <<t, jobs[t]>>
    BY DEF JobHasTimer
  <2>2. \A id \in Ids : timer[id] # None =>
          Crc[timer[id][1]] = id /\ jobs[timer[id][1]] = timer[id][2]
    BY DEF IInv, TimerHasJob
  <2> QED
    BY <2>1, <2>2 DEF ChainArmed
<1> QED
  BY <1>1, <1>2, <1>3, Invariance, PTL DEF Spec

=============================================================================
