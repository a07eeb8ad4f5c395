----------------------------- MODULE HaClientProofs -----------------------------
(***************************************************************************)
(* For any topics, options, services and number of reloads. Where the      *)
(* entry is in its life says what there is of a client (StageInv); what an *)
(* open client has is what it can give back (TablesInv, TimersInv); the    *)
(* options it runs with are the saved ones or will be (OptionsInv).        *)
(***************************************************************************)
EXTENDS HaClient, FiniteSetTheorems, TLAPS

Used == {c \in Clients : client[c] # "unused"}

Served == {"forwarding", "loaded", "unloading", "failed_unload"}

(* The clients made so far are 1 .. Latest. The latest is the only one     *)
(* that may be open, and hass.data has it from when it is opened until it  *)
(* is unloaded.                                                            *)
StageInv ==
  /\ stage \in Stages
  /\ client \in [Clients -> {"unused", "made", "socket", "open", "closed"}]
  /\ Latest \in 0 .. MaxClients /\ Used = 1 .. Latest
  /\ data = IF stage \in Served THEN Latest ELSE 0
  /\ stage \in Served => Latest # 0
  /\ services \in BOOLEAN /\ (services <=> data # 0)
  /\ hooked \in BOOLEAN /\ (hooked <=> data # 0)
  /\ stage = "making" => Latest # 0 /\ client[Latest] = "made"
  /\ stage = "opening" => Latest # 0 /\ client[Latest] = "socket"
  /\ \A c \in Clients :
       /\ client[c] = "open" => c = data
       /\ client[c] \in {"made", "socket"} => c = Latest /\ stage \in {"making", "opening"}

LEMMA Constants == MaxClients \in Nat /\ Entity \notin Listens /\ Delays \subseteq Nat
  BY HaClientAssumption DEF HaClientAssumption

LEMMA CardOfFirst ==
  ASSUME NEW n \in Nat
  PROVE  Cardinality(1 .. n) = n
  BY FS_Interval

LEMMA StageInit == Init => StageInv
<1> SUFFICES ASSUME Init PROVE StageInv
    OBVIOUS
<1>1. Used = 1 .. 0
      BY DEF Init, Used
<1>2. Latest = 0
      BY <1>1, CardOfFirst DEF Latest, Used
<1>3. /\ stage = "absent" /\ data = 0 /\ services = FALSE /\ hooked = FALSE
      /\ client = [c \in Clients |-> "unused"]
      BY DEF Init
<1>4. data = IF stage \in Served THEN Latest ELSE 0
      BY <1>3 DEF Served
<1>5. client \in [Clients -> {"unused", "made", "socket", "open", "closed"}]
      BY <1>3
<1>6. \A c \in Clients : client[c] = "unused"
      BY <1>3
<1>7. stage \notin Served
      BY <1>3 DEF Served
<1>8. Latest \in 0 .. MaxClients /\ Used = 1 .. Latest
      BY <1>1, <1>2, Constants
<1> QED
    BY <1>3, <1>4, <1>5, <1>6, <1>7, <1>8 DEF StageInv, Stages

(* A client that was made stays made.                                      *)
LEMMA LatestUnchanged ==
  ASSUME StageInv, client' \in [Clients -> {"unused", "made", "socket", "open", "closed"}],
         \A c \in Clients : client'[c] = "unused" <=> client[c] = "unused"
  PROVE  Latest' = Latest /\ Used' = Used
  BY DEF Latest, Used, StageInv

LEMMA CloseFacts ==
  ASSUME StageInv, data # 0, Close(data)
  PROVE  /\ data \in Clients
         /\ client' = [client EXCEPT ![data] = "closed"]
         /\ \A c \in Clients : client'[c] = "unused" <=> client[c] = "unused"
         /\ Latest' = Latest /\ Used' = Used
<1>1. data \in Clients /\ client[data] # "unused"
      BY Constants DEF StageInv, Clients, Used
<1>2. client' = [client EXCEPT ![data] = "closed"]
      BY DEF Close
<1>3. \A c \in Clients : client'[c] = "unused" <=> client[c] = "unused"
      BY <1>1, <1>2 DEF StageInv
<1> QED
    BY <1>1, <1>2, <1>3, LatestUnchanged DEF StageInv

LEMMA StageSame ==
  ASSUME StageInv, UNCHANGED <<stage, client, data, services, hooked>>
  PROVE  StageInv'
  BY DEF StageInv, Latest, Used

LEMMA StagePreserved == StageInv /\ [Next]_vars => StageInv'
<1> SUFFICES ASSUME StageInv, [Next]_vars PROVE StageInv'
    OBVIOUS
<1> USE DEF shared, tables, entry
<1>1. CASE SubmitForm \/ ProbeFails \/ CreateEntry \/ RemoveEntry
      BY <1>1 DEF SubmitForm, ProbeFails, CreateEntry, RemoveEntry, StageInv, Latest, Used,
                  Served, Stages
<1>2. CASE Setup
  <2>1. /\ Latest + 1 \in Clients /\ data = 0 /\ Latest \in Nat
        /\ client' = [client EXCEPT ![Latest + 1] = "made"]
        /\ stage' = "making" /\ UNCHANGED <<data, services, hooked>>
        BY <1>2, Constants DEF Setup, StageInv, Clients, Served
  <2>2. Used' = 1 .. Latest + 1
        BY <2>1 DEF StageInv, Used, Clients
  <2>3. Latest' = Latest + 1
    <3>1. Cardinality(1 .. Latest + 1) = Latest + 1
          BY <2>1, CardOfFirst
    <3>2. Latest' = Cardinality(Used')
          BY DEF Latest, Used
    <3> QED
        BY <2>2, <3>1, <3>2
  <2>4. \A c \in Clients : client[c] \notin {"made", "socket", "open"}
    <3>1. stage \notin {"making", "opening"}
          BY <1>2 DEF Setup
    <3>2. 0 \notin Clients
          BY Constants DEF Clients
    <3>3. \A c \in Clients :
            /\ client[c] = "open" => c = data
            /\ client[c] \in {"made", "socket"} => stage \in {"making", "opening"}
          BY DEF StageInv
    <3> QED
        BY <2>1, <3>1, <3>2, <3>3
  <2> QED
      BY <2>1, <2>2, <2>3, <2>4, <1>2, Constants DEF StageInv, Stages, Served, Clients
<1>3. CASE SetupFails \/ SocketMade \/ EndpointOpened
  <2>1. /\ Latest \in Clients /\ client[Latest] \in {"made", "socket"}
        /\ data = 0 /\ stage \in {"making", "opening"}
        /\ \/ client' = [client EXCEPT ![Latest] = "closed"]
           \/ client' = [client EXCEPT ![Latest] = "socket"]
           \/ client' = [client EXCEPT ![Latest] = "open"]
        BY <1>3, Constants DEF SetupFails, SocketMade, EndpointOpened, StageInv, Clients, Served
  <2>2. /\ Latest' = Latest /\ Used' = Used
        /\ client' \in [Clients -> {"unused", "made", "socket", "open", "closed"}]
    <3>1. \A c \in Clients : client'[c] = "unused" <=> client[c] = "unused"
          BY <2>1 DEF StageInv
    <3>2. client' \in [Clients -> {"unused", "made", "socket", "open", "closed"}]
          BY <2>1 DEF StageInv
    <3> QED
        BY <3>1, <3>2, LatestUnchanged
  <2>3. \A c \in Clients : client[c] # "open"
        BY <2>1, Constants DEF StageInv, Clients
  <2>4. CASE SetupFails
        BY <2>1, <2>2, <2>3, <2>4 DEF SetupFails, StageInv, Stages, Served
  <2>5. CASE SocketMade
        BY <2>1, <2>2, <2>3, <2>5 DEF SocketMade, StageInv, Stages, Served
  <2>6. CASE EndpointOpened
    <3>1. /\ stage' = "forwarding" /\ data' = Latest /\ Latest # 0
          /\ services' = TRUE /\ hooked' = TRUE
          /\ client' = [client EXCEPT ![Latest] = "open"]
          BY <2>6 DEF EndpointOpened, Hooks, StageInv
    <3> QED
        BY <2>1, <2>2, <2>3, <3>1 DEF StageInv, Stages, Served
  <2> QED
      BY <1>3, <2>4, <2>5, <2>6
<1>4. CASE Forwarded \/ Unload
  <2>1. UNCHANGED <<client, data, services, hooked>> /\ stage \in Served /\ stage' \in Served
        BY <1>4 DEF Forwarded, Unload, Subscribe, Unsubscribe, Served
  <2> QED
      BY <2>1 DEF StageInv, Latest, Used, Stages, Served
<1>5. CASE UnloadFails \/ ReloadIsOver
      BY <1>5 DEF UnloadFails, ReloadIsOver, StageInv, Latest, Used, Stages, Served
<1>6. CASE Unloaded
  <2>1. data # 0
        BY <1>6 DEF Unloaded, StageInv, Served
  <2> QED
      BY <1>6, <2>1, CloseFacts DEF Unloaded, StageInv, Stages, Served
<1>7. CASE HomeAssistantStops
  <2>1. CASE hooked
    <3>1. data # 0 /\ Close(data)
          BY <1>7, <2>1 DEF HomeAssistantStops, StageInv
    <3>2. UNCHANGED <<stage, data, services, hooked>>
          BY <1>7 DEF HomeAssistantStops
    <3> QED
        BY <3>1, <3>2, CloseFacts DEF StageInv, Served
  <2>2. CASE ~hooked
        BY <1>7, <2>2, StageSame DEF HomeAssistantStops
  <2> QED
      BY <2>1, <2>2
<1>8. ASSUME NEW o \in Options, Save(o) PROVE StageInv'
      BY <1>8, StageSame DEF Save
<1>9. ASSUME NEW l \in Listens, NEW t \in Topics, Listen(l, t) PROVE StageInv'
      BY <1>9, StageSame DEF Listen, Subscribe
<1>10. ASSUME NEW l \in Listens, ListenEnds(l) PROVE StageInv'
      BY <1>10, StageSame DEF ListenEnds, Unsubscribe
<1>11. ASSUME NEW t \in Topics, NEW qos \in 0 .. 2, PublishService(t, qos) PROVE StageInv'
      BY <1>11, StageSame DEF PublishService
<1>12. ASSUME NEW h \in armed, Fire(h) PROVE StageInv'
      BY <1>12, StageSame DEF Fire
<1>13. CASE UNCHANGED vars
      BY <1>13, StageSame DEF vars
<1> QED
    BY <1>1, <1>2, <1>3, <1>4, <1>5, <1>6, <1>7, <1>8, <1>9, <1>10, <1>11, <1>12, <1>13
    DEF Next

-----------------------------------------------------------------------------
(* Types. *)

TimerSet == [client : Clients, topic : Topics, kind : {"finite", "chain"},
             delay : Nat, promoted : BOOLEAN]

LEMMA RunningFields ==
  ASSUME NEW o \in RunningOptions
  PROVE  /\ o.count \in {Indefinite} \union Nat /\ o.count # 0
         /\ o.delay \in Nat /\ o.promote \in BOOLEAN
<1>1. o.count # 0 /\ (o \in Options \/ o = Default)
      BY DEF RunningOptions
<1>2. CASE o \in Options
  <2>1. o.count \in Counts /\ o.delay \in Delays /\ o.promote \in BOOLEAN
        BY <1>2 DEF Options
  <2> QED
      BY <1>1, <2>1, HaClientAssumption DEF HaClientAssumption
<1>3. CASE o = Default
      BY <1>3 DEF Default
<1> QED
    BY <1>1, <1>2, <1>3

LEMMA ServedClient ==
  ASSUME StageInv, data # 0
  PROVE  data \in Clients
  BY Constants DEF StageInv, Clients

LEMMA TypeInit == Init => TypeOK
<1> SUFFICES ASSUME Init PROVE TypeOK
    OBVIOUS
<1>1. Default \in RunningOptions /\ EntityTopic \in Topics
      BY HaClientAssumption DEF HaClientAssumption, RunningOptions, Default
<1>2. {key, yaml, reload, hooked, missed, down, services} \subseteq BOOLEAN
      BY DEF Init
<1>3. holds \in [Listens -> [client : 0 .. MaxClients, topic : Topics]]
      BY <1>1, Constants DEF Init, NotHeld
<1> QED
    BY <1>1, <1>2, <1>3, Constants DEF Init, TypeOK, Stages

LEMMA SubscribeTypes ==
  ASSUME TypeOK, NEW c \in Clients, NEW who \in Listens \union {Entity}, NEW t \in Topics,
         Subscribe(c, who, t)
  PROVE  /\ subs' \in [Clients -> SUBSET [who : Listens \union {Entity}, topic : Topics]]
         /\ joined' \in [Clients -> SUBSET Topics]
         /\ client' = client
  BY DEF Subscribe, TypeOK

LEMMA UnsubscribeTypes ==
  ASSUME TypeOK, NEW c, NEW who, NEW t, Unsubscribe(c, who, t)
  PROVE  /\ subs' \in [Clients -> SUBSET [who : Listens \union {Entity}, topic : Topics]]
         /\ joined' \in [Clients -> SUBSET Topics]
         /\ client' = client
  BY DEF Unsubscribe, TypeOK

LEMMA CloseTypes ==
  ASSUME TypeOK, NEW c \in Clients, Close(c)
  PROVE  /\ client' \in [Clients -> {"unused", "made", "socket", "open", "closed"}]
         /\ subs' \in [Clients -> SUBSET [who : Listens \union {Entity}, topic : Topics]]
         /\ joined' \in [Clients -> SUBSET Topics]
         /\ armed' \subseteq armed
         /\ finite' \in [Clients -> SUBSET Topics] /\ chain' \in [Clients -> SUBSET Topics]
  BY DEF Close, TypeOK

LEMMA PublishTypes ==
  ASSUME TypeOK, NEW c \in Clients, NEW t \in Topics, NEW qos, Publish(c, t, qos)
  PROVE  /\ \A h \in armed' :
              \/ h \in armed
              \/ \E kind \in {"chain", "finite"} : h = Timer(c, t, kind) /\ h \in TimerSet
         /\ finite' \in [Clients -> SUBSET Topics] /\ chain' \in [Clients -> SUBSET Topics]
<1>1. conf.delay \in Nat /\ Promoted \in BOOLEAN
      BY RunningFields DEF TypeOK, Promoted
<1>2. \A kind \in {"chain", "finite"} : Timer(c, t, kind) \in TimerSet
      BY <1>1 DEF Timer, TimerSet
<1>3. armed' \subseteq armed \union {Timer(c, t, kind) : kind \in {"chain", "finite"}}
      BY DEF Publish
<1>4. finite' \in [Clients -> SUBSET Topics] /\ chain' \in [Clients -> SUBSET Topics]
      BY DEF Publish, TypeOK
<1> QED
    BY <1>2, <1>3, <1>4

(* Steps that change nothing but flags and the stage.                      *)
LEMMA FlagSteps ==
  ASSUME TypeOK, UNCHANGED <<conf, data, client, subs, joined, holds, armed, finite, chain>>,
         options' \in RunningOptions, stage' \in Stages,
         {key, yaml, reload, hooked, missed, down, services}' \subseteq BOOLEAN
  PROVE  TypeOK'
  BY DEF TypeOK, Clients, RunningOptions, Options, Default

LEMMA TypePreserved == TypeOK /\ StageInv /\ StageInv' /\ [Next]_vars => TypeOK'
<1> SUFFICES ASSUME TypeOK, StageInv, StageInv', [Next]_vars PROVE TypeOK'
    OBVIOUS
<1> USE DEF shared, tables, timers, entry
<1>0. /\ stage' \in Stages /\ data' \in 0 .. MaxClients
      /\ client' \in [Clients -> {"unused", "made", "socket", "open", "closed"}]
      /\ {hooked', services'} \subseteq BOOLEAN
      BY Constants DEF StageInv
<1>1. CASE SubmitForm \/ ProbeFails \/ CreateEntry \/ RemoveEntry \/ UnloadFails
           \/ ReloadIsOver
  <2>1. options' \in RunningOptions
        BY <1>1 DEF SubmitForm, ProbeFails, CreateEntry, RemoveEntry, UnloadFails, ReloadIsOver,
                    TypeOK, RunningOptions, Default
  <2>2. UNCHANGED <<conf, data, client, subs, joined, holds, armed, finite, chain>>
        BY <1>1 DEF SubmitForm, ProbeFails, CreateEntry, RemoveEntry, UnloadFails, ReloadIsOver
  <2>3. {key, yaml, reload, hooked, missed, down, services}' \subseteq BOOLEAN
        BY <1>1 DEF SubmitForm, ProbeFails, CreateEntry, RemoveEntry, UnloadFails, ReloadIsOver,
                    TypeOK
  <2> QED
      BY <1>0, <2>1, <2>2, <2>3, FlagSteps
<1>2. CASE Setup \/ SetupFails \/ SocketMade \/ EndpointOpened
  <2>1. /\ UNCHANGED <<key, yaml, options, reload, down, subs, joined, holds, armed, finite,
                       chain>>
        /\ conf' \in {conf, options} /\ missed' \in {missed, FALSE}
        BY <1>2 DEF Setup, SetupFails, SocketMade, EndpointOpened
  <2> QED
      BY <1>0, <2>1 DEF TypeOK, Clients, RunningOptions, Options, Default
<1>3. CASE Forwarded \/ Unload
  <2>1. data \in Clients
        BY <1>3, ServedClient DEF Forwarded, Unload, StageInv, Served
  <2>2. EntityTopic \in Topics
        BY HaClientAssumption DEF HaClientAssumption
  <2>3. /\ subs' \in [Clients -> SUBSET [who : Listens \union {Entity}, topic : Topics]]
        /\ joined' \in [Clients -> SUBSET Topics]
        BY <1>3, <2>1, <2>2, SubscribeTypes, UnsubscribeTypes DEF Forwarded, Unload, TypeOK
  <2>4. UNCHANGED <<key, yaml, options, conf, missed, down, holds, armed, finite, chain>>
        /\ reload' \in {reload, FALSE}
        BY <1>3 DEF Forwarded, Unload
  <2> QED
      BY <1>0, <2>3, <2>4 DEF TypeOK, Clients, RunningOptions, Options, Default
<1>4. ASSUME data # 0, Close(data), UNCHANGED <<key, yaml, options, conf, reload, missed, holds>>,
             down' \in {down, TRUE}
      PROVE  TypeOK'
  <2>1. data \in Clients
        BY <1>4, ServedClient
  <2> QED
      BY <1>0, <1>4, <2>1, CloseTypes DEF TypeOK, Clients, RunningOptions, Options, Default
<1>5. CASE Unloaded
  <2>1. data # 0
        BY <1>5 DEF Unloaded, StageInv, Served
  <2> QED
      BY <1>4, <1>5, <2>1 DEF Unloaded
<1>6. CASE HomeAssistantStops
  <2>1. CASE hooked
        BY <1>4, <1>6, <2>1 DEF HomeAssistantStops, StageInv
  <2>2. CASE ~hooked
        BY <1>6, <2>2, FlagSteps DEF HomeAssistantStops, TypeOK
  <2> QED
      BY <2>1, <2>2
<1>7. ASSUME NEW o \in Options, Save(o) PROVE TypeOK'
  <2>1. options' \in RunningOptions
        BY <1>7 DEF Save, Accepted, RunningOptions
  <2>2. reload' \in BOOLEAN /\ missed' \in BOOLEAN
        BY <1>7 DEF Save
  <2> QED
      BY <1>7, <2>1, <2>2, FlagSteps DEF Save, TypeOK
<1>8. ASSUME NEW l \in Listens, NEW t \in Topics, Listen(l, t) PROVE TypeOK'
  <2>1. data \in Clients
        BY <1>8, ServedClient DEF Listen
  <2>2. holds' \in [Listens -> [client : 0 .. MaxClients, topic : Topics]]
        BY <1>8, <2>1 DEF Listen, TypeOK, Clients
  <2>3. UNCHANGED <<entry, shared, timers>> /\ Subscribe(data, l, t)
        BY <1>8 DEF Listen
  <2> QED
      BY <2>1, <2>2, <2>3, SubscribeTypes
      DEF TypeOK, Clients, RunningOptions, Options, Default
<1>9. ASSUME NEW l \in Listens, ListenEnds(l) PROVE TypeOK'
  <2>1. holds' \in [Listens -> [client : 0 .. MaxClients, topic : Topics]]
        BY <1>9, HaClientAssumption, Constants
        DEF ListenEnds, TypeOK, NotHeld, HaClientAssumption
  <2>2. UNCHANGED <<entry, shared, timers>>
        /\ Unsubscribe(holds[l].client, l, holds[l].topic)
        BY <1>9 DEF ListenEnds
  <2> QED
      BY <2>1, <2>2, UnsubscribeTypes DEF TypeOK, Clients, RunningOptions, Options, Default
<1>10. ASSUME NEW t \in Topics, NEW qos \in 0 .. 2, PublishService(t, qos) PROVE TypeOK'
  <2>1. data \in Clients
        BY <1>10, ServedClient DEF PublishService
  <2>2. UNCHANGED <<entry, shared, tables, holds>> /\ Publish(data, t, qos)
        BY <1>10 DEF PublishService
  <2>3. \A h \in armed' : h \in TimerSet
        BY <2>1, <2>2, PublishTypes DEF TypeOK, TimerSet
  <2> QED
      BY <2>1, <2>2, <2>3, PublishTypes
      DEF TypeOK, Clients, RunningOptions, Options, Default, TimerSet
<1>11. ASSUME NEW h \in armed, Fire(h) PROVE TypeOK'
       BY <1>11 DEF Fire, TypeOK, Clients, RunningOptions, Options, Default
<1>12. CASE UNCHANGED vars
       BY <1>12 DEF vars, TypeOK, Clients, RunningOptions, Options, Default
<1> QED
    BY <1>1, <1>2, <1>3, <1>5, <1>6, <1>7, <1>8, <1>9, <1>10, <1>11, <1>12 DEF Next

-----------------------------------------------------------------------------
(* The options: a chain's delay was looked at when they were saved.        *)

Spaced(o) == o.count = Indefinite => o.delay >= 1

OptionsInv ==
  /\ Spaced(options) /\ Spaced(conf)
  /\ stage \in {"making", "opening"} /\ conf # options => missed
  /\ OptionsInForce

LEMMA OptionsInit == Init => OptionsInv
  BY DEF Init, OptionsInv, Spaced, Default, Indefinite, OptionsInForce

LEMMA OptionsPreserved == OptionsInv /\ TypeOK /\ StageInv /\ StageInv' /\ [Next]_vars => OptionsInv'
<1> SUFFICES ASSUME OptionsInv, TypeOK, StageInv, StageInv', [Next]_vars PROVE OptionsInv'
    OBVIOUS
<1> USE DEF shared, tables, timers, entry, OptionsInv, OptionsInForce
<1>0. ASSUME UNCHANGED <<options, conf, stage, reload, missed, data>> PROVE OptionsInv'
      BY <1>0 DEF Spaced
<1>1. CASE SubmitForm \/ ProbeFails \/ CreateEntry \/ RemoveEntry
  <2>1. data = 0 /\ data' = 0 /\ conf' = conf /\ options' \in {options, Default}
        /\ stage' \notin {"making", "opening"}
        BY <1>1 DEF SubmitForm, ProbeFails, CreateEntry, RemoveEntry, StageInv, Served
  <2> QED
      BY <2>1 DEF Spaced, Default, Indefinite
<1>2. CASE Setup
  <2>1. conf' = options /\ options' = options
        BY <1>2 DEF Setup
  <2> QED
      BY <2>1 DEF Spaced
<1>3. CASE SetupFails \/ SocketMade \/ EndpointOpened
  <2>1. /\ UNCHANGED <<options, conf, missed, reload>> /\ stage \in {"making", "opening"}
        /\ \/ stage' = "retry" /\ data' = data
           \/ stage' = "opening" /\ data' = data
           \/ stage' = "forwarding"
        BY <1>3 DEF SetupFails, SocketMade, EndpointOpened
  <2>2. data = 0
        BY <2>1 DEF StageInv, Served
  <2> QED
      BY <2>1, <2>2 DEF Spaced
<1>4. CASE Forwarded \/ UnloadFails \/ Unload
      BY <1>4 DEF Forwarded, UnloadFails, Unload, Spaced
<1>5. CASE Unloaded
      BY <1>5 DEF Unloaded, Spaced
<1>6. CASE ReloadIsOver
      BY <1>6 DEF ReloadIsOver, Spaced, StageInv, Served
<1>7. CASE HomeAssistantStops
      BY <1>0, <1>7 DEF HomeAssistantStops
<1>8. ASSUME NEW o \in Options, Save(o) PROVE OptionsInv'
      BY <1>8 DEF Save, Accepted, Spaced, StageInv
<1>9. ASSUME NEW l \in Listens, NEW t \in Topics, Listen(l, t) PROVE OptionsInv'
      BY <1>0, <1>9 DEF Listen
<1>10. ASSUME NEW l \in Listens, ListenEnds(l) PROVE OptionsInv'
       BY <1>0, <1>10 DEF ListenEnds
<1>11. ASSUME NEW t \in Topics, NEW qos \in 0 .. 2, PublishService(t, qos) PROVE OptionsInv'
       BY <1>0, <1>11 DEF PublishService
<1>12. ASSUME NEW h \in armed, Fire(h) PROVE OptionsInv'
       BY <1>0, <1>12 DEF Fire
<1>13. CASE UNCHANGED vars
       BY <1>0, <1>13 DEF vars
<1> QED
    BY <1>1, <1>2, <1>3, <1>4, <1>5, <1>6, <1>7, <1>8, <1>9, <1>10, <1>11, <1>12, <1>13
    DEF Next

-----------------------------------------------------------------------------
(* The timers. Those of one client all have its configuration, so two of   *)
(* one topic and one kind are the same timer.                              *)

TimersInv ==
  /\ \A h \in armed :
       /\ client[h.client] = "open"
       /\ h.topic \in IF h.kind = "chain" THEN chain[h.client] ELSE finite[h.client]
       /\ h.delay = conf.delay /\ h.promoted = Promoted
  /\ ChainsAreSpaced

LEMMA TimersInit == Init => TimersInv
  BY DEF Init, TimersInv, ChainsAreSpaced

LEMMA TimersAreOfData ==
  ASSUME TypeOK, StageInv, TimersInv, NEW h \in armed
  PROVE  h \in TimerSet /\ h.client = data /\ data # 0
<1>1. h \in TimerSet
      BY DEF TypeOK, TimerSet
<1>2. h.client \in Clients /\ client[h.client] = "open"
      BY <1>1 DEF TimerSet, TimersInv
<1>3. h.client = data
      BY <1>2 DEF StageInv
<1> QED
    BY <1>1, <1>2, <1>3, Constants DEF Clients

LEMMA CloseCancelsAll ==
  ASSUME TypeOK, StageInv, TimersInv, Close(data)
  PROVE  armed' = {}
<1>1. ASSUME NEW h \in armed PROVE h \notin armed'
  <2>1. h.client = data
        BY TimersAreOfData
  <2>2. h.topic \in IF h.kind = "chain" THEN chain[data] ELSE finite[data]
        BY <2>1 DEF TimersInv
  <2> QED
      BY <2>1, <2>2 DEF Close
<1> QED
    BY <1>1 DEF Close

LEMMA PublishKeepsTimers ==
  ASSUME TypeOK, StageInv, TimersInv, OptionsInv, data # 0, NEW t \in Topics, NEW qos \in 0 .. 2,
         Publish(data, t, qos), UNCHANGED <<client, conf>>
  PROVE  TimersInv'
<1> DEFINE n == EffectiveRetransmitCount(qos)
<1> HIDE DEF n
<1>1. data \in Clients /\ client[data] = "open"
      BY ServedClient DEF Publish
<1>2. /\ n = Indefinite => conf.delay >= 1 \/ Promoted
      /\ Promoted' = Promoted
      BY DEF n, EffectiveRetransmitCount, OptionsInv, Spaced, Indefinite, Promoted
<1>3. /\ chain' = [chain EXCEPT ![data] = IF n = Indefinite THEN @ \union {t} ELSE @ \ {t}]
      /\ finite' = [finite EXCEPT ![data] = IF n > 1 THEN @ \union {t} ELSE @]
      BY DEF Publish, n
<1>4. ASSUME NEW h \in armed'
      PROVE  /\ client'[h.client] = "open"
             /\ h.topic \in IF h.kind = "chain" THEN chain'[h.client] ELSE finite'[h.client]
             /\ h.delay = conf'.delay /\ h.promoted = Promoted'
             /\ h.kind = "chain" => h.delay >= 1 \/ h.promoted
  <2>1. CASE h \in armed \ TimersOf(data, t, "chain")
    <3>1. h \in TimerSet /\ h.client = data
          BY <2>1, TimersAreOfData
    <3>2. h.kind = "chain" => h.topic # t
          BY <2>1, <3>1 DEF TimersOf
    <3>3. /\ h.topic \in IF h.kind = "chain" THEN chain[data] ELSE finite[data]
          /\ h.delay = conf.delay /\ h.promoted = Promoted
          /\ h.kind = "chain" => h.delay >= 1 \/ h.promoted
          BY <2>1, <3>1 DEF TimersInv, ChainsAreSpaced
    <3>4. /\ client'[h.client] = "open"
          /\ h.topic \in IF h.kind = "chain" THEN chain'[h.client] ELSE finite'[h.client]
          BY <1>1, <1>3, <3>1, <3>2, <3>3 DEF TypeOK
    <3> QED
        BY <1>2, <3>3, <3>4
  <2>2. CASE \E kind \in {"chain", "finite"} :
               /\ IF kind = "chain" THEN n = Indefinite ELSE n > 1
               /\ h = Timer(data, t, kind)
    <3>1. PICK kind \in {"chain", "finite"} :
               /\ IF kind = "chain" THEN n = Indefinite ELSE n > 1
               /\ h = Timer(data, t, kind)
          BY <2>2
    <3>2. /\ h.client = data /\ h.topic = t /\ h.kind = kind
          /\ h.delay = conf.delay /\ h.promoted = Promoted
          BY <3>1 DEF Timer
    <3>3. t \in IF h.kind = "chain" THEN chain'[data] ELSE finite'[data]
      <4>1. /\ chain \in [Clients -> SUBSET Topics] /\ finite \in [Clients -> SUBSET Topics]
            /\ kind = "chain" => n = Indefinite
            /\ kind # "chain" => n > 1
            BY <3>1 DEF TypeOK
      <4>2. CASE kind = "chain"
            BY <1>1, <1>3, <3>2, <4>1, <4>2
      <4>3. CASE kind # "chain"
            BY <1>1, <1>3, <3>2, <4>1, <4>3
      <4> QED
          BY <4>2, <4>3
    <3> QED
        BY <1>1, <1>2, <3>1, <3>2, <3>3
  <2>3. h \in (armed \ TimersOf(data, t, "chain"))
              \union {Timer(data, t, kind) :
                       kind \in {k \in {"chain", "finite"} :
                                   IF k = "chain" THEN n = Indefinite ELSE n > 1}}
        BY DEF Publish, n
  <2> QED
      BY <2>1, <2>2, <2>3
<1> QED
    BY <1>4 DEF TimersInv, ChainsAreSpaced

LEMMA FireKeepsTimers ==
  ASSUME TypeOK, StageInv, TimersInv, NEW h \in armed, Fire(h)
  PROVE  TimersInv'
<1>1. ASSUME NEW g \in armed'
      PROVE  g.topic \in IF g.kind = "chain" THEN chain[g.client] ELSE finite'[g.client]
  <2>1. g \in armed /\ g # h /\ h.kind = "finite"
        BY <1>1 DEF Fire
  <2>2. /\ g \in TimerSet /\ g.client = data /\ g.delay = conf.delay /\ g.promoted = Promoted
        /\ h \in TimerSet /\ h.client = data /\ h.delay = conf.delay /\ h.promoted = Promoted
        /\ data # 0
        BY <2>1, TimersAreOfData DEF TimersInv
  <2>3. g.kind = "finite" => g.topic # h.topic
    <3>1. /\ g = [client |-> g.client, topic |-> g.topic, kind |-> g.kind, delay |-> g.delay,
                  promoted |-> g.promoted]
          /\ h = [client |-> h.client, topic |-> h.topic, kind |-> h.kind, delay |-> h.delay,
                  promoted |-> h.promoted]
          BY <2>2 DEF TimerSet
    <3> QED
        BY <2>1, <2>2, <3>1
  <2>4. finite' = [finite EXCEPT ![data] = @ \ {h.topic}]
        BY <2>2 DEF Fire
  <2>5. g.topic \in IF g.kind = "chain" THEN chain[data] ELSE finite[data]
        BY <2>1, <2>2 DEF TimersInv
  <2> QED
      BY <2>2, <2>3, <2>4, <2>5, ServedClient DEF TypeOK, TimerSet
<1>2. UNCHANGED <<chain, client, conf>> /\ armed' \subseteq armed
      BY DEF Fire, entry, tables
<1>3. Promoted' = Promoted
      BY <1>2 DEF Promoted
<1> QED
    BY <1>1, <1>2, <1>3 DEF TimersInv, ChainsAreSpaced

LEMMA TimersPreserved ==
  TimersInv /\ OptionsInv /\ TypeOK /\ StageInv /\ [Next]_vars => TimersInv'
<1> SUFFICES ASSUME TimersInv, OptionsInv, TypeOK, StageInv, [Next]_vars PROVE TimersInv'
    OBVIOUS
<1> USE DEF shared, tables, timers, entry
<1>0. ASSUME UNCHANGED <<conf, client, armed, finite, chain>> PROVE TimersInv'
  <2>1. Promoted' = Promoted
        BY <1>0 DEF Promoted
  <2> QED
      BY <1>0, <2>1 DEF TimersInv, ChainsAreSpaced
<1>1. ASSUME armed' = {} PROVE TimersInv'
      BY <1>1 DEF TimersInv, ChainsAreSpaced
<1>2. CASE SubmitForm \/ ProbeFails \/ CreateEntry \/ RemoveEntry \/ UnloadFails
           \/ ReloadIsOver
      BY <1>0, <1>2 DEF SubmitForm, ProbeFails, CreateEntry, RemoveEntry, UnloadFails,
                        ReloadIsOver
<1>3. CASE Setup \/ SetupFails \/ SocketMade \/ EndpointOpened
  <2>1. data = 0 /\ armed' = armed
        BY <1>3 DEF Setup, SetupFails, SocketMade, EndpointOpened, StageInv, Served
  <2>2. armed = {}
        BY <2>1, TimersAreOfData
  <2> QED
      BY <1>1, <2>1, <2>2
<1>4. CASE Forwarded \/ Unload
      BY <1>0, <1>4 DEF Forwarded, Unload, Subscribe, Unsubscribe
<1>5. CASE Unloaded
      BY <1>1, <1>5, CloseCancelsAll DEF Unloaded
<1>6. CASE HomeAssistantStops
  <2>1. CASE hooked
        BY <1>1, <1>6, <2>1, CloseCancelsAll DEF HomeAssistantStops
  <2>2. CASE ~hooked
        BY <1>0, <1>6, <2>2 DEF HomeAssistantStops
  <2> QED
      BY <2>1, <2>2
<1>7. ASSUME NEW o \in Options, Save(o) PROVE TimersInv'
      BY <1>0, <1>7 DEF Save
<1>8. ASSUME NEW l \in Listens, NEW t \in Topics, Listen(l, t) PROVE TimersInv'
      BY <1>0, <1>8 DEF Listen, Subscribe
<1>9. ASSUME NEW l \in Listens, ListenEnds(l) PROVE TimersInv'
      BY <1>0, <1>9 DEF ListenEnds, Unsubscribe
<1>10. ASSUME NEW t \in Topics, NEW qos \in 0 .. 2, PublishService(t, qos) PROVE TimersInv'
      BY <1>10, PublishKeepsTimers DEF PublishService
<1>11. ASSUME NEW h \in armed, Fire(h) PROVE TimersInv'
      BY <1>11, FireKeepsTimers
<1>12. CASE UNCHANGED vars
      BY <1>0, <1>12 DEF vars
<1> QED
    BY <1>2, <1>3, <1>4, <1>5, <1>6, <1>7, <1>8, <1>9, <1>10, <1>11, <1>12 DEF Next

-----------------------------------------------------------------------------
(* The tables. What is in the open client's can be given back: by the      *)
(* entity on the topic it has, or by the call whose unsub names the very   *)
(* same client and topic. A client that was made is never one that somebody*)
(* holds already.                                                          *)

OpenTables(c) ==
  /\ joined[c] = TopicsOf(subs[c])
  /\ \A x \in subs[c] :
       IF x.who = Entity THEN stage = "loaded" /\ x.topic = EntityTopic
       ELSE holds[x.who] = [client |-> c, topic |-> x.topic]
  /\ \A l \in Listens : holds[l].client = c =>
       [who |-> l, topic |-> holds[l].topic] \in subs[c]

TablesInv ==
  /\ \A c \in Clients :
       IF client[c] = "open" THEN OpenTables(c) ELSE subs[c] = {} /\ joined[c] = {}
  /\ \A l \in Listens :
       \/ holds[l] = NotHeld
       \/ holds[l].client \in Clients /\ client[holds[l].client] \in {"open", "closed"}

LEMMA TablesInit == Init => TablesInv
  BY DEF Init, TablesInv

LEMMA TablesSame ==
  ASSUME TablesInv, UNCHANGED <<client, subs, joined, holds>>,
         (stage = "loaded") = (stage' = "loaded")
  PROVE  TablesInv'
  BY DEF TablesInv, OpenTables

(* A step of a client that is not open, or that opens one nobody holds.    *)
LEMMA SetupTables ==
  ASSUME TypeOK, StageInv, TablesInv, NEW c \in Clients, NEW s,
         client' = [client EXCEPT ![c] = s], UNCHANGED <<subs, joined, holds>>,
         client[c] \in {"unused", "made", "socket"}, data = 0
  PROVE  TablesInv'
<1>1. \A d \in Clients : client[d] # "open"
      BY Constants DEF StageInv, Clients
<1>2. \A d \in Clients : subs[d] = {} /\ joined[d] = {}
      BY <1>1 DEF TablesInv
<1>3. \A l \in Listens : holds[l].client # c
      BY Constants DEF TablesInv, NotHeld, Clients
<1>4. \A d \in Clients : client'[d] = IF d = c THEN s ELSE client[d]
      BY DEF StageInv
<1>5. ASSUME NEW d \in Clients, client'[d] = "open" PROVE OpenTables(d)'
  <2>1. d = c
        BY <1>1, <1>4, <1>5
  <2> QED
      BY <1>2, <1>3, <2>1 DEF OpenTables, TopicsOf
<1>6. ASSUME NEW l \in Listens, holds[l] # NotHeld
      PROVE  holds[l].client \in Clients /\ client'[holds[l].client] \in {"open", "closed"}
      BY <1>3, <1>4, <1>6 DEF TablesInv
<1> QED
    BY <1>2, <1>5, <1>6 DEF TablesInv

LEMMA CloseTables ==
  ASSUME TypeOK, StageInv, TablesInv, data # 0, Close(data), holds' = holds
  PROVE  TablesInv'
<1>1. data \in Clients
      BY ServedClient
<1>2. /\ client' = [client EXCEPT ![data] = "closed"]
      /\ subs' = [subs EXCEPT ![data] = {}] /\ joined' = [joined EXCEPT ![data] = {}]
      BY DEF Close
<1>3. \A d \in Clients : d # data => client[d] # "open"
      BY DEF StageInv
<1>4. \A d \in Clients : client'[d] # "open" /\ subs'[d] = {} /\ joined'[d] = {}
      BY <1>1, <1>2, <1>3 DEF TypeOK, TablesInv
<1>5. \A d \in Clients :
        client[d] \in {"open", "closed"} => client'[d] \in {"open", "closed"}
      BY <1>1, <1>2 DEF TypeOK
<1> QED
    BY <1>4, <1>5 DEF TablesInv

LEMMA UnsubscribeTables ==
  ASSUME TypeOK, StageInv, TablesInv, NEW c \in Clients, NEW who \in Listens \union {Entity},
         NEW t \in Topics, Unsubscribe(c, who, t)
  PROVE  /\ client' = client
         /\ subs' = [subs EXCEPT ![c] = @ \ {[who |-> who, topic |-> t]}]
         /\ \A d \in Clients :
              IF client[d] = "open" THEN joined'[d] = TopicsOf(subs'[d])
              ELSE subs'[d] = {} /\ joined'[d] = {}
<1> DEFINE left == subs[c] \ {[who |-> who, topic |-> t]}
<1>1. /\ client' = client /\ subs' = [subs EXCEPT ![c] = left]
      /\ joined' = IF left # subs[c] /\ t \notin TopicsOf(left) /\ client[c] = "open"
                   THEN [joined EXCEPT ![c] = @ \ {t}]
                   ELSE joined
      BY DEF Unsubscribe
<1>2. \A d \in Clients : d # c => subs'[d] = subs[d] /\ joined'[d] = joined[d]
      BY <1>1 DEF TypeOK
<1>3. subs'[c] = left
      BY <1>1 DEF TypeOK
<1>4. ASSUME NEW d \in Clients, d # c
      PROVE  IF client[d] = "open" THEN joined'[d] = TopicsOf(subs'[d])
             ELSE subs'[d] = {} /\ joined'[d] = {}
      BY <1>2, <1>4 DEF TablesInv, OpenTables
<1>5. ASSUME client[c] # "open"
      PROVE  subs'[c] = {} /\ joined'[c] = {}
  <2>1. subs[c] = {} /\ joined[c] = {}
        BY <1>5 DEF TablesInv
  <2> QED
      BY <1>1, <1>3, <1>5, <2>1
<1>6. ASSUME client[c] = "open"
      PROVE  joined'[c] = TopicsOf(left)
  <2>1. joined[c] = TopicsOf(subs[c])
        BY <1>6 DEF TablesInv, OpenTables
  <2>2. CASE left = subs[c]
    <3> HIDE DEF left
    <3> QED
        BY <1>1, <2>1, <2>2
  <2>3. CASE left # subs[c] /\ t \in TopicsOf(left)
    <3>1. TopicsOf(left) = TopicsOf(subs[c])
          BY <2>3 DEF TopicsOf
    <3> HIDE DEF left
    <3> QED
        BY <1>1, <2>1, <2>3, <3>1
  <2>4. CASE left # subs[c] /\ t \notin TopicsOf(left)
    <3>1. TopicsOf(left) = TopicsOf(subs[c]) \ {t}
          BY <2>4 DEF TopicsOf
    <3>2. joined'[c] = joined[c] \ {t}
          BY <1>1, <1>6, <2>4 DEF TypeOK
    <3> QED
        BY <2>1, <3>1, <3>2
  <2> QED
      BY <2>2, <2>3, <2>4
<1>7. ASSUME NEW d \in Clients
      PROVE  IF client[d] = "open" THEN joined'[d] = TopicsOf(subs'[d])
             ELSE subs'[d] = {} /\ joined'[d] = {}
  <2>1. CASE d # c
        BY <1>4, <2>1
  <2>2. CASE d = c
    <3> HIDE DEF left
    <3> QED
        BY <1>3, <1>5, <1>6, <2>2
  <2> QED
      BY <2>1, <2>2
<1> QED
    BY <1>1, <1>7

LEMMA TopicsOfOneMore ==
  ASSUME NEW s, NEW x
  PROVE  TopicsOf(s \union {x}) = TopicsOf(s) \union {x.topic}
  BY DEF TopicsOf

LEMMA SubscribeTables ==
  ASSUME TypeOK, StageInv, TablesInv, NEW c \in Clients, NEW who, NEW t, Subscribe(c, who, t)
  PROVE  /\ client' = client /\ client[c] = "open" /\ c = data
         /\ subs' = [subs EXCEPT ![c] = @ \union {[who |-> who, topic |-> t]}]
         /\ \A d \in Clients :
              IF client[d] = "open" THEN joined'[d] = TopicsOf(subs'[d])
              ELSE subs'[d] = {} /\ joined'[d] = {}
<1>1. /\ client' = client /\ client[c] = "open" /\ c = data
      /\ subs' = [subs EXCEPT ![c] = @ \union {[who |-> who, topic |-> t]}]
      /\ joined' = [joined EXCEPT ![c] = @ \union {t}]
      BY DEF Subscribe, StageInv
<1>2. /\ subs'[c] = subs[c] \union {[who |-> who, topic |-> t]}
      /\ joined'[c] = joined[c] \union {t}
      BY <1>1 DEF TypeOK
<1>3. TopicsOf(subs'[c]) = TopicsOf(subs[c]) \union {t}
  <2>1. TopicsOf(subs[c] \union {[who |-> who, topic |-> t]})
          = TopicsOf(subs[c]) \union {[who |-> who, topic |-> t].topic}
        BY TopicsOfOneMore
  <2>2. [who |-> who, topic |-> t].topic = t
        OBVIOUS
  <2> QED
      BY <1>2, <2>1, <2>2
<1>4. \A d \in Clients : d # c => subs'[d] = subs[d] /\ joined'[d] = joined[d]
      BY <1>1 DEF TypeOK
<1>5. joined[c] = TopicsOf(subs[c])
      BY <1>1 DEF TablesInv, OpenTables
<1>6. joined'[c] = TopicsOf(subs'[c])
      BY <1>2, <1>3, <1>5
<1>7. ASSUME NEW d \in Clients, d # c
      PROVE  IF client[d] = "open" THEN joined'[d] = TopicsOf(subs'[d])
             ELSE subs'[d] = {} /\ joined'[d] = {}
      BY <1>4, <1>7 DEF TablesInv, OpenTables
<1>8. \A d \in Clients :
        IF client[d] = "open" THEN joined'[d] = TopicsOf(subs'[d])
        ELSE subs'[d] = {} /\ joined'[d] = {}
      BY <1>1, <1>6, <1>7
<1> QED
    BY <1>1, <1>8

LEMMA ForwardedTables ==
  ASSUME TypeOK, StageInv, TablesInv, Forwarded
  PROVE  TablesInv'
<1>1. /\ data \in Clients /\ stage = "forwarding" /\ stage' = "loaded" /\ holds' = holds
      /\ EntityTopic \in Topics
      BY ServedClient, HaClientAssumption DEF Forwarded, StageInv, Served, HaClientAssumption
<1>2. CASE UNCHANGED tables
      BY <1>1, <1>2 DEF TablesInv, OpenTables, tables
<1>3. CASE Subscribe(data, Entity, EntityTopic)
  <2>1. /\ client' = client /\ client[data] = "open"
        /\ subs' = [subs EXCEPT ![data] = @ \union {[who |-> Entity, topic |-> EntityTopic]}]
        /\ \A d \in Clients :
             IF client[d] = "open" THEN joined'[d] = TopicsOf(subs'[d])
             ELSE subs'[d] = {} /\ joined'[d] = {}
        BY <1>1, <1>3, SubscribeTables
  <2>2. ASSUME NEW d \in Clients, client[d] = "open" PROVE OpenTables(d)'
    <3>1. d = data
          BY <2>2 DEF StageInv
    <3>2. subs'[d] = subs[d] \union {[who |-> Entity, topic |-> EntityTopic]}
          BY <1>1, <2>1, <3>1 DEF TypeOK
    <3>3. OpenTables(d)
          BY <2>2 DEF TablesInv
    <3>4. \A x \in subs'[d] :
            IF x.who = Entity THEN stage' = "loaded" /\ x.topic = EntityTopic
            ELSE holds'[x.who] = [client |-> d, topic |-> x.topic]
          BY <1>1, <3>2, <3>3 DEF OpenTables
    <3>5. \A l \in Listens : holds'[l].client = d =>
             [who |-> l, topic |-> holds'[l].topic] \in subs'[d]
          BY <1>1, <3>2, <3>3 DEF OpenTables
    <3> QED
        BY <2>1, <2>2, <3>4, <3>5 DEF OpenTables
  <2> QED
      BY <1>1, <2>1, <2>2 DEF TablesInv
<1> QED
    BY <1>2, <1>3 DEF Forwarded

LEMMA UnloadTables ==
  ASSUME TypeOK, StageInv, TablesInv, Unload
  PROVE  TablesInv'
<1>1. /\ data \in Clients /\ stage' # "loaded" /\ holds' = holds /\ EntityTopic \in Topics
      /\ Unsubscribe(data, Entity, EntityTopic)
      BY ServedClient, HaClientAssumption DEF Unload, StageInv, Served, HaClientAssumption
<1>2. /\ client' = client
      /\ subs' = [subs EXCEPT ![data] = @ \ {[who |-> Entity, topic |-> EntityTopic]}]
      /\ \A d \in Clients :
           IF client[d] = "open" THEN joined'[d] = TopicsOf(subs'[d])
           ELSE subs'[d] = {} /\ joined'[d] = {}
      BY <1>1, UnsubscribeTables
<1>3. ASSUME NEW d \in Clients, client[d] = "open" PROVE OpenTables(d)'
  <2>1. d = data
        BY <1>3 DEF StageInv
  <2>2. subs'[d] = subs[d] \ {[who |-> Entity, topic |-> EntityTopic]}
        BY <1>1, <1>2, <2>1 DEF TypeOK
  <2>3. \A x \in subs[d] : x = [who |-> x.who, topic |-> x.topic]
        BY DEF TypeOK
  <2>4. \A x \in subs'[d] : x \in subs[d] /\ x.who # Entity
        BY <1>3, <2>2, <2>3 DEF TablesInv, OpenTables
  <2>5. \A l \in Listens : [who |-> l, topic |-> holds[l].topic]
                            # [who |-> Entity, topic |-> EntityTopic]
        BY Constants
  <2> QED
      BY <1>1, <1>2, <1>3, <2>2, <2>4, <2>5 DEF TablesInv, OpenTables
<1> QED
    BY <1>1, <1>2, <1>3 DEF TablesInv

LEMMA ListenTables ==
  ASSUME TypeOK, StageInv, TablesInv, NEW l \in Listens, NEW t \in Topics, Listen(l, t)
  PROVE  TablesInv'
<1>1. /\ data \in Clients /\ stage' = stage /\ holds[l] = NotHeld /\ Subscribe(data, l, t)
      /\ holds' = [holds EXCEPT ![l] = [client |-> data, topic |-> t]]
      BY ServedClient DEF Listen, entry
<1>2. /\ client' = client /\ client[data] = "open"
      /\ subs' = [subs EXCEPT ![data] = @ \union {[who |-> l, topic |-> t]}]
      /\ \A d \in Clients :
           IF client[d] = "open" THEN joined'[d] = TopicsOf(subs'[d])
           ELSE subs'[d] = {} /\ joined'[d] = {}
      BY <1>1, SubscribeTables
<1>3. /\ holds'[l] = [client |-> data, topic |-> t]
      /\ \A k \in Listens : k # l => holds'[k] = holds[k]
      BY <1>1 DEF TypeOK
<1>4. ASSUME NEW d \in Clients, client[d] = "open" PROVE OpenTables(d)'
  <2>1. d = data
        BY <1>4 DEF StageInv
  <2>2. subs'[d] = subs[d] \union {[who |-> l, topic |-> t]}
        BY <1>1, <1>2, <2>1 DEF TypeOK
  <2>3. OpenTables(d)
        BY <1>4 DEF TablesInv
  <2>4. ASSUME NEW x \in subs'[d]
        PROVE  IF x.who = Entity THEN stage' = "loaded" /\ x.topic = EntityTopic
               ELSE holds'[x.who] = [client |-> d, topic |-> x.topic]
    <3>1. CASE x = [who |-> l, topic |-> t]
          BY <1>3, <2>1, <3>1, Constants
    <3>2. CASE x \in subs[d]
      <4>1. x.who \in Listens \union {Entity}
            BY <3>2 DEF TypeOK
      <4>2. x.who # l
        <5>1. x.who = l => holds[l] = [client |-> d, topic |-> x.topic]
              BY <2>3, <3>2, Constants DEF OpenTables
        <5>2. holds[l].client = 0 /\ 0 # d
              BY <1>1, Constants DEF NotHeld, Clients
        <5> QED
            BY <5>1, <5>2
      <4> QED
          BY <1>1, <1>3, <2>3, <3>2, <4>1, <4>2 DEF OpenTables
    <3> QED
        BY <2>2, <3>1, <3>2
  <2>5. \A k \in Listens : holds'[k].client = d =>
           [who |-> k, topic |-> holds'[k].topic] \in subs'[d]
        BY <1>3, <2>2, <2>3 DEF OpenTables
  <2> QED
      BY <1>2, <1>4, <2>4, <2>5 DEF OpenTables
<1>5. \A k \in Listens :
        \/ holds'[k] = NotHeld
        \/ holds'[k].client \in Clients /\ client[holds'[k].client] \in {"open", "closed"}
      BY <1>1, <1>2, <1>3 DEF TablesInv
<1> QED
    BY <1>2, <1>4, <1>5 DEF TablesInv

LEMMA ListenEndsTables ==
  ASSUME TypeOK, StageInv, TablesInv, NEW l \in Listens, ListenEnds(l)
  PROVE  TablesInv'
<1> DEFINE c == holds[l].client
           t == holds[l].topic
<1>1. /\ c \in Clients /\ t \in Topics /\ stage' = stage
      /\ Unsubscribe(c, l, t) /\ holds' = [holds EXCEPT ![l] = NotHeld]
      BY DEF ListenEnds, TablesInv, TypeOK, entry
<1>2. /\ client' = client
      /\ subs' = [subs EXCEPT ![c] = @ \ {[who |-> l, topic |-> t]}]
      /\ \A d \in Clients :
           IF client[d] = "open" THEN joined'[d] = TopicsOf(subs'[d])
           ELSE subs'[d] = {} /\ joined'[d] = {}
      BY <1>1, UnsubscribeTables
<1>3. /\ holds'[l] = NotHeld
      /\ \A k \in Listens : k # l => holds'[k] = holds[k]
      BY <1>1 DEF TypeOK
<1> HIDE DEF c, t
<1>4. ASSUME NEW d \in Clients, client[d] = "open" PROVE OpenTables(d)'
  <2>1. OpenTables(d)
        BY <1>4 DEF TablesInv
  <2>2. subs'[d] = IF d = c THEN subs[d] \ {[who |-> l, topic |-> t]} ELSE subs[d]
        BY <1>1, <1>2 DEF TypeOK
  <2>3. ASSUME NEW x \in subs'[d]
        PROVE  IF x.who = Entity THEN stage' = "loaded" /\ x.topic = EntityTopic
               ELSE holds'[x.who] = [client |-> d, topic |-> x.topic]
    <3>1. /\ x \in subs[d] /\ x.who \in Listens \union {Entity}
          /\ x = [who |-> x.who, topic |-> x.topic]
          BY <2>2, <2>3 DEF TypeOK
    <3>2. x.who # l
      <4>1. x.who = l => holds[l] = [client |-> d, topic |-> x.topic]
            BY <2>1, <3>1, Constants DEF OpenTables
      <4>2. x.who = l => d = c /\ x.topic = t
            BY <4>1 DEF c, t
      <4> QED
          BY <2>2, <2>3, <3>1, <4>2
    <3> QED
        BY <1>1, <1>3, <2>1, <3>1, <3>2 DEF OpenTables
  <2>4. \A k \in Listens : holds'[k].client = d =>
           [who |-> k, topic |-> holds'[k].topic] \in subs'[d]
    <3>1. ASSUME NEW k \in Listens, holds'[k].client = d
          PROVE  [who |-> k, topic |-> holds'[k].topic] \in subs'[d]
      <4>1. k # l
            BY <1>3, <3>1, Constants DEF NotHeld, Clients
      <4>2. holds'[k] = holds[k] /\ [who |-> k, topic |-> holds[k].topic] \in subs[d]
            BY <1>3, <2>1, <3>1, <4>1 DEF OpenTables
      <4>3. [who |-> k, topic |-> holds[k].topic] # [who |-> l, topic |-> t]
            BY <4>1
      <4> QED
          BY <2>2, <4>2, <4>3
    <3> QED
        BY <3>1
  <2> QED
      BY <1>2, <1>4, <2>3, <2>4 DEF OpenTables
<1>5. \A k \in Listens :
        \/ holds'[k] = NotHeld
        \/ holds'[k].client \in Clients /\ client[holds'[k].client] \in {"open", "closed"}
      BY <1>3 DEF TablesInv
<1> QED
    BY <1>2, <1>4, <1>5 DEF TablesInv

LEMMA TablesPreserved == TablesInv /\ TypeOK /\ StageInv /\ [Next]_vars => TablesInv'
<1> SUFFICES ASSUME TablesInv, TypeOK, StageInv, [Next]_vars PROVE TablesInv'
    OBVIOUS
<1> USE DEF shared, tables, timers, entry
<1>1. CASE SubmitForm \/ ProbeFails \/ CreateEntry \/ RemoveEntry \/ UnloadFails
           \/ ReloadIsOver
      BY <1>1, TablesSame DEF SubmitForm, ProbeFails, CreateEntry, RemoveEntry, UnloadFails,
                              ReloadIsOver
<1>2. CASE Setup
  <2>1. /\ Latest + 1 \in Clients /\ client[Latest + 1] = "unused" /\ data = 0
        BY <1>2, Constants DEF Setup, StageInv, Clients, Used, Served
  <2> QED
      BY <1>2, <2>1, SetupTables DEF Setup
<1>3. CASE SetupFails \/ SocketMade \/ EndpointOpened
  <2>1. /\ Latest \in Clients /\ client[Latest] \in {"made", "socket"} /\ data = 0
        BY <1>3, Constants DEF SetupFails, SocketMade, EndpointOpened, StageInv, Clients, Served
  <2> QED
      BY <1>3, <2>1, SetupTables DEF SetupFails, SocketMade, EndpointOpened
<1>4. CASE Forwarded
      BY <1>4, ForwardedTables
<1>5. CASE Unload
      BY <1>5, UnloadTables
<1>6. CASE Unloaded
      BY <1>6, CloseTables DEF Unloaded, StageInv, Served
<1>7. CASE HomeAssistantStops
  <2>1. CASE hooked
        BY <1>7, <2>1, CloseTables DEF HomeAssistantStops, StageInv
  <2>2. CASE ~hooked
        BY <1>7, <2>2, TablesSame DEF HomeAssistantStops
  <2> QED
      BY <2>1, <2>2
<1>8. ASSUME NEW o \in Options, Save(o) PROVE TablesInv'
      BY <1>8, TablesSame DEF Save
<1>9. ASSUME NEW l \in Listens, NEW t \in Topics, Listen(l, t) PROVE TablesInv'
      BY <1>9, ListenTables
<1>10. ASSUME NEW l \in Listens, ListenEnds(l) PROVE TablesInv'
       BY <1>10, ListenEndsTables
<1>11. ASSUME NEW t \in Topics, NEW qos \in 0 .. 2, PublishService(t, qos) PROVE TablesInv'
       BY <1>11, TablesSame DEF PublishService
<1>12. ASSUME NEW h \in armed, Fire(h) PROVE TablesInv'
       BY <1>12, TablesSame DEF Fire
<1>13. CASE UNCHANGED vars
       BY <1>13, TablesSame DEF vars
<1> QED
    BY <1>1, <1>2, <1>3, <1>4, <1>5, <1>6, <1>7, <1>8, <1>9, <1>10, <1>11, <1>12, <1>13
    DEF Next

-----------------------------------------------------------------------------
(* The invariant, and what follows from it. *)

IInv == StageInv /\ TypeOK /\ OptionsInv /\ TimersInv /\ TablesInv

(* All of these hold together in every state of the integration.           *)
THEOREM Inductive == Spec => []IInv
<1>1. Init => IInv
      BY StageInit, TypeInit, OptionsInit, TimersInit, TablesInit DEF IInv
<1>2. IInv /\ [Next]_vars => IInv'
      BY StagePreserved, TypePreserved, OptionsPreserved, TimersPreserved, TablesPreserved
      DEF IInv
<1> QED
    BY <1>1, <1>2, PTL DEF Spec

(* No option, however it was saved, gives a client the meaningless count   *)
(* 0, and what the client keeps has the form its code relies on.           *)
THEOREM TypeCorrect == Spec => []TypeOK
<1>1. IInv => TypeOK
      BY DEF IInv
<1> QED
    BY <1>1, Inductive, PTL

(* Any number of reloads, calls and stops leaves no socket, no group and   *)
(* no timer of a client that hass.data no longer has.                      *)
THEOREM NothingIsLeaked == Spec => []NothingLeaks
<1>1. ASSUME IInv PROVE NothingLeaks
  <2> USE <1>1 DEF IInv
  <2>1. services = (data # 0)
        BY DEF StageInv
  <2>2. \A c \in Clients : client[c] # "open" => subs[c] = {} /\ joined[c] = {}
        BY DEF TablesInv
  <2>3. \A h \in armed :
          /\ client[h.client] = "open"
          /\ h.topic \in IF h.kind = "chain" THEN chain[h.client] ELSE finite[h.client]
        BY DEF TimersInv
  <2> QED
      BY <2>1, <2>2, <2>3 DEF StageInv, NothingLeaks
<1> QED
    BY <1>1, Inductive, PTL

(* A listen call that sleeps through any number of reloads gives back what *)
(* it took, and nothing of the client that came in between.                *)
THEOREM ListenersGiveBack == Spec => []GroupsHaveListeners
<1>1. IInv => GroupsHaveListeners
      BY DEF IInv, TablesInv, OpenTables, GroupsHaveListeners
<1> QED
    BY <1>1, Inductive, PTL

(* The client runs with what the form saved, or a reload is under way,     *)
(* unless the save fell into the setup.                                    *)
THEOREM OptionsApply == Spec => []OptionsInForce
<1>1. IInv => OptionsInForce
      BY DEF IInv, OptionsInv
<1> QED
    BY <1>1, Inductive, PTL

(* A chain that promote_qos did not make keeps MIN_INDEFINITE_DELAY.       *)
THEOREM ChainsKeepDistance == Spec => []ChainsAreSpaced
<1>1. IInv => ChainsAreSpaced
      BY DEF IInv, TimersInv
<1> QED
    BY <1>1, Inductive, PTL

=============================================================================
