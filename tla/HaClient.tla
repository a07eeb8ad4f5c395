------------------------------- MODULE HaClient -------------------------------
(***************************************************************************)
(* The Home Assistant integration around its client: the config entry is   *)
(* made by the user's form, set up, its options are changed, which reloads *)
(* it, it is unloaded and removed, Home Assistant stops; meanwhile the     *)
(* entity and the services listen and publish with whatever client         *)
(* hass.data holds. Every setup makes a new client object, and whoever     *)
(* still holds something of an older one may use it.                       *)
(*                                                                         *)
(* All of this runs on one event loop: a step is what happens between two  *)
(* suspension points. Home Assistant sets up and unloads an entry under    *)
(* one lock, so these do not overlap, while services, timers, the options  *)
(* form and the stop event come in between. A call that raises before it   *)
(* changes anything is no step.                                            *)
(*                                                                         *)
(* The client's tables for colliding CRCs and the dispatch of a datagram   *)
(* are those of AioClient and are not repeated here.                       *)
(***************************************************************************)
EXTENDS Integers, FiniteSets

CONSTANTS
  Topics,       (* topics that pass valid_topic()                            *)
  EntityTopic,  (* the topic of the entity of the YAML configuration, if any *)
  Counts,       (* retransmit_count values the form lets through             *)
  Delays,       (* retransmit_delay values, in units of MIN_INDEFINITE_DELAY *)
  Windows,      (* replay_window values                                      *)
  Listens,      (* calls of the listen service that may run at once          *)
  MaxClients    (* bound: clients made                                       *)

Indefinite == -1

Entity == "entity"

ASSUME HaClientAssumption ==
  /\ EntityTopic \in Topics
  /\ Counts \subseteq {Indefinite} \union Nat
  /\ Delays \subseteq Nat /\ Windows \subseteq Nat
  /\ Entity \notin Listens
  /\ MaxClients \in Nat

VARIABLES
  key, yaml,  (* is there an encryption key, is there entity configuration   *)
  options,    (* entry.options                                               *)
  conf,       (* MpubsubConfig of the latest client, as far as it is options *)
  stage,      (* where the entry is in its life                              *)
  reload,     (* a task that reloads the entry waits for the lock            *)
  hooked,     (* update listener and stop listener of the entry are there    *)
  missed,     (* history: options were saved that this setup did not read    *)
  down,       (* EVENT_HOMEASSISTANT_STOP was fired                          *)
  data,       (* hass.data[DATA_MPUBSUB].client, or 0                        *)
  services,   (* publish and listen are registered                           *)
  client,     (* what has become of each client's socket                     *)
  subs,       (* _subs of each client: who listens, and to what              *)
  joined,     (* groups the socket of each client is a member of, by topic   *)
  holds,      (* the unsub of each sleeping listen call: client and topic    *)
  armed,      (* timers the loop holds                                       *)
  finite, chain  (* _finite and _indefinite of each client                   *)

entry == <<key, yaml, options, conf, stage, reload, hooked, missed, down>>
shared == <<data, services>>
tables == <<client, subs, joined>>
timers == <<armed, finite, chain>>

vars == <<key, yaml, options, conf, stage, reload, hooked, missed, down, data, services,
          client, subs, joined, holds, armed, finite, chain>>

Clients == 1 .. MaxClients

(* Clients made so far; the latest is the last. *)
Latest == Cardinality({c \in Clients : client[c] # "unused"})

NotHeld == [client |-> 0, topic |-> EntityTopic]

Options == [count : Counts, delay : Delays, promote : BOOLEAN, window : Windows]

(* What the form has when it is first opened, and what an entry without    *)
(* options runs with.                                                      *)
Default == [count |-> 1, delay |-> 0, promote |-> FALSE, window |-> 0]

Stages == {"absent", "probing", "not_loaded", "making", "opening", "forwarding",
           "loaded", "retry", "unloading", "failed_unload"}

Init ==
  /\ key = FALSE /\ yaml \in BOOLEAN
  /\ options = Default /\ conf = Default
  /\ stage = "absent"
  /\ reload = FALSE /\ hooked = FALSE /\ missed = FALSE /\ down = FALSE
  /\ data = 0 /\ services = FALSE
  /\ client = [c \in Clients |-> "unused"]
  /\ subs = [c \in Clients |-> {}]
  /\ joined = [c \in Clients |-> {}]
  /\ holds = [l \in Listens |-> NotHeld]
  /\ armed = {}
  /\ finite = [c \in Clients |-> {}]
  /\ chain = [c \in Clients |-> {}]

-----------------------------------------------------------------------------
(* The client: subscriptions. *)

TopicsOf(s) == {x.topic : x \in s}

(* async_subscribe() on client c. A group that cannot be joined is no step. *)
Subscribe(c, who, t) ==
  /\ client[c] = "open"
  /\ subs' = [subs EXCEPT ![c] = @ \union {[who |-> who, topic |-> t]}]
  /\ joined' = [joined EXCEPT ![c] = @ \union {t}]
  /\ UNCHANGED client

(* A faulty form of Unsubscribe: the group is left with every listener.    *)
UnsubscribeLeaves(c, who, t) ==
  /\ subs' = [subs EXCEPT ![c] = @ \ {[who |-> who, topic |-> t]}]
  /\ joined' = [joined EXCEPT ![c] = @ \ {t}]
  /\ UNCHANGED client

(* _unsubscribe() of client c, whatever has become of it in the meantime.  *)
Unsubscribe(c, who, t) ==
  LET left == subs[c] \ {[who |-> who, topic |-> t]}
  IN /\ subs' = [subs EXCEPT ![c] = left]
     /\ joined' = IF left # subs[c] /\ t \notin TopicsOf(left) /\ client[c] = "open"
                  THEN [joined EXCEPT ![c] = @ \ {t}]
                  ELSE joined
     /\ UNCHANGED client

-----------------------------------------------------------------------------
(* The client: publishing. The retransmissions of a finite publication are *)
(* one timer here, which fires as often as it has to.                      *)

(* A chain of this client is promote_qos's, whose count is a finite one.   *)
Promoted == conf.promote /\ conf.count # Indefinite

Timer(c, t, kind) ==
  [client |-> c, topic |-> t, kind |-> kind, delay |-> conf.delay, promoted |-> Promoted]

TimersOf(c, t, kind) ==
  {h \in armed : h.client = c /\ h.topic = t /\ h.kind = kind}

EffectiveRetransmitCount(qos) ==
  IF ~conf.promote \/ qos = 0 THEN conf.count
  ELSE IF qos = 1 THEN IF conf.count # Indefinite /\ conf.count < 3 THEN 3 ELSE conf.count
  ELSE Indefinite

(* async_publish() on client c, the latest. *)
Publish(c, t, qos) ==
  LET n == EffectiveRetransmitCount(qos)
      kept == armed \ TimersOf(c, t, "chain")
      sends(kind) == IF kind = "chain" THEN n = Indefinite ELSE n > 1
      new == {Timer(c, t, kind) : kind \in {k \in {"chain", "finite"} : sends(k)}}
  IN /\ client[c] = "open"
     /\ armed' = kept \union new
     /\ chain' = [chain EXCEPT ![c] = IF n = Indefinite THEN @ \union {t} ELSE @ \ {t}]
     /\ finite' = [finite EXCEPT ![c] = IF n > 1 THEN @ \union {t} ELSE @]

(* The last retransmission of a finite publication. The earlier ones, and  *)
(* a chain's, which arms its timer again, leave everything as it is.       *)
Fire(h) ==
  /\ h \in armed /\ h.kind = "finite"
  /\ armed' = armed \ {h}
  /\ finite' = [finite EXCEPT ![h.client] = @ \ {h.topic}]
  /\ UNCHANGED <<entry, shared, tables, holds, chain>>

(* A faulty form of Close: what is still to be sent is forgotten.          *)
CloseOnly(c) ==
  /\ client' = [client EXCEPT ![c] = "closed"]
  /\ subs' = [subs EXCEPT ![c] = {}]
  /\ joined' = [joined EXCEPT ![c] = {}]
  /\ chain' = [chain EXCEPT ![c] = {}]
  /\ finite' = [finite EXCEPT ![c] = {}]
  /\ UNCHANGED armed

(* async_stop() of client c: what its tables hold is cancelled.            *)
Close(c) ==
  /\ client' = [client EXCEPT ![c] = "closed"]
  /\ subs' = [subs EXCEPT ![c] = {}]
  /\ joined' = [joined EXCEPT ![c] = {}]
  /\ armed' = {h \in armed :
                 h.client = c => h.topic \notin IF h.kind = "chain" THEN chain[c] ELSE finite[c]}
  /\ chain' = [chain EXCEPT ![c] = {}]
  /\ finite' = [finite EXCEPT ![c] = {}]

-----------------------------------------------------------------------------
(* The user's form. One form is open at a time: the look at the entries    *)
(* there are comes before the executor probes the socket, so two forms     *)
(* that are submitted together would make two entries.                     *)

SubmitForm ==
  /\ stage = "absent"
  /\ stage' = "probing"
  /\ UNCHANGED <<key, yaml, options, conf, reload, hooked, missed, down, shared, tables, holds,
                 timers>>

(* The socket cannot be opened, and the form is shown again. *)
ProbeFails ==
  /\ stage = "probing"
  /\ stage' = "absent"
  /\ UNCHANGED <<key, yaml, options, conf, reload, hooked, missed, down, shared, tables, holds,
                 timers>>

CreateEntry ==
  /\ stage = "probing"
  /\ stage' = "not_loaded"
  /\ key' \in BOOLEAN
  /\ UNCHANGED <<yaml, options, conf, reload, hooked, missed, down, shared, tables, holds,
                 timers>>

(* Home Assistant removes an entry once it is unloaded. It also removes    *)
(* one that failed to unload, and asks for a restart: its client, data and *)
(* services stay, and the user is taken to restart before adding another,  *)
(* so that the removal changes nothing here.                               *)
RemoveEntry ==
  /\ stage \in {"not_loaded", "retry"}
  /\ stage' = "absent"
  /\ options' = Default
  /\ reload' = FALSE
  /\ UNCHANGED <<key, yaml, conf, hooked, missed, down, shared, tables, holds, timers>>

-----------------------------------------------------------------------------
(* async_setup_entry(). *)

(* The options are read, and the socket is made in the executor.           *)
Setup ==
  /\ stage \in {"not_loaded", "retry"}
  /\ Latest < MaxClients
  /\ stage' = "making"
  /\ client' = [client EXCEPT ![Latest + 1] = "made"]
  /\ conf' = options
  /\ missed' = FALSE
  /\ UNCHANGED <<key, yaml, options, reload, hooked, down, shared, subs, joined, holds,
                 timers>>

(* OSError becomes ConfigEntryNotReady, whether the executor raises it,    *)
(* having closed the socket, or create_datagram_endpoint(), when asyncio   *)
(* closes it with the endpoint.                                            *)
SetupFails ==
  /\ stage \in {"making", "opening"}
  /\ stage' = "retry"
  /\ client' = [client EXCEPT ![Latest] = "closed"]
  /\ UNCHANGED <<key, yaml, options, conf, reload, hooked, missed, down, shared, subs, joined,
                 holds, timers>>

SocketMade ==
  /\ stage = "making"
  /\ stage' = "opening"
  /\ client' = [client EXCEPT ![Latest] = "socket"]
  /\ UNCHANGED <<key, yaml, options, conf, reload, hooked, missed, down, shared, subs, joined,
                 holds, timers>>

(* Faulty forms of Hooks: the listeners are not added again by a reload.   *)
HooksOfFirst == Latest = 1

Hooks == TRUE

EndpointOpened ==
  /\ stage = "opening"
  /\ stage' = "forwarding"
  /\ client' = [client EXCEPT ![Latest] = "open"]
  /\ data' = Latest /\ services' = TRUE
  /\ hooked' = Hooks
  /\ UNCHANGED <<key, yaml, options, conf, reload, missed, down, subs, joined, holds, timers>>

(* The platforms are set up. The entity subscribes, or cannot.             *)
Forwarded ==
  /\ stage = "forwarding"
  /\ stage' = "loaded"
  /\ (yaml /\ Subscribe(data, Entity, EntityTopic)) \/ UNCHANGED tables
  /\ UNCHANGED <<key, yaml, options, conf, reload, hooked, missed, down, shared, holds,
                 timers>>

-----------------------------------------------------------------------------
(* async_unload_entry(), alone or as the first half of a reload, which the *)
(* next setup completes.                                                   *)

(* async_unload_platforms() begins and removes the entity. *)
Unload ==
  /\ stage = "loaded"
  /\ stage' = "unloading"
  /\ reload' = FALSE
  /\ Unsubscribe(data, Entity, EntityTopic)
  /\ UNCHANGED <<key, yaml, options, conf, hooked, missed, down, shared, holds, timers>>

(* A platform does not unload: the client and its services stay.           *)
UnloadFails ==
  /\ stage = "unloading" /\ yaml
  /\ stage' = "failed_unload"
  /\ UNCHANGED <<key, yaml, options, conf, reload, hooked, missed, down, shared, tables, holds,
                 timers>>

Unloaded ==
  /\ stage = "unloading"
  /\ stage' = "not_loaded"
  /\ Close(data)
  /\ data' = 0 /\ services' = FALSE
  /\ hooked' = FALSE
  /\ UNCHANGED <<key, yaml, options, conf, reload, missed, down, holds>>

(* A reload of an entry that waits to be retried, or cannot be unloaded.   *)
ReloadIsOver ==
  /\ reload /\ stage \in {"retry", "failed_unload"}
  /\ reload' = FALSE
  /\ UNCHANGED <<key, yaml, options, conf, stage, hooked, missed, down, shared, tables, holds,
                 timers>>

(* _stop(), the listener of the entry. *)
HomeAssistantStops ==
  /\ ~down
  /\ down' = TRUE
  /\ IF hooked THEN Close(data) ELSE UNCHANGED <<tables, timers>>
  /\ UNCHANGED <<key, yaml, options, conf, stage, reload, hooked, missed, shared, holds>>

-----------------------------------------------------------------------------
(* The options form. *)

(* Faulty forms of Accepted: the delay, or the count, is not looked at.    *)
AcceptedAnyDelay(o) == o.count # 0 /\ (o.window > 0 => key)

AcceptedAnyCount(o) ==
  (o.count = Indefinite => o.delay >= 1) /\ (o.window > 0 => key)

(* _validate_options() *)
Accepted(o) ==
  /\ o.count # 0
  /\ o.count = Indefinite => o.delay >= 1
  /\ o.window > 0 => key

Save(o) ==
  /\ stage \notin {"absent", "probing"}
  /\ Accepted(o) /\ o # options
  /\ options' = o
  /\ reload' = (reload \/ hooked)
  /\ missed' = (missed \/ stage \in {"making", "opening"})
  /\ UNCHANGED <<key, yaml, conf, stage, hooked, down, shared, tables, holds, timers>>

-----------------------------------------------------------------------------
(* The services. *)

(* _async_listen_service(), until it sleeps. *)
Listen(l, t) ==
  /\ services /\ data # 0
  /\ holds[l] = NotHeld
  /\ Subscribe(data, l, t)
  /\ holds' = [holds EXCEPT ![l] = [client |-> data, topic |-> t]]
  /\ UNCHANGED <<entry, shared, timers>>

(* It wakes up, or is cancelled: unsub() belongs to the client it had.     *)
ListenEnds(l) ==
  /\ holds[l] # NotHeld
  /\ Unsubscribe(holds[l].client, l, holds[l].topic)
  /\ holds' = [holds EXCEPT ![l] = NotHeld]
  /\ UNCHANGED <<entry, shared, timers>>

(* async_publish(), from the service or from an entity. *)
PublishService(t, qos) ==
  /\ data # 0
  /\ Publish(data, t, qos)
  /\ UNCHANGED <<entry, shared, tables, holds>>

Next ==
  \/ SubmitForm \/ ProbeFails \/ CreateEntry \/ RemoveEntry
  \/ Setup \/ SetupFails \/ SocketMade \/ EndpointOpened \/ Forwarded
  \/ Unload \/ UnloadFails \/ Unloaded \/ ReloadIsOver \/ HomeAssistantStops
  \/ \E o \in Options : Save(o)
  \/ \E l \in Listens, t \in Topics : Listen(l, t)
  \/ \E l \in Listens : ListenEnds(l)
  \/ \E t \in Topics, qos \in 0 .. 2 : PublishService(t, qos)
  \/ \E h \in armed : Fire(h)

Spec == Init /\ [][Next]_vars

-----------------------------------------------------------------------------
(* Type invariant. No client ever has the meaningless count 0. *)
RunningOptions == {o \in Options \union {Default} : o.count # 0}

TypeOK ==
  /\ {key, yaml, reload, hooked, missed, down, services} \subseteq BOOLEAN
  /\ options \in RunningOptions /\ conf \in RunningOptions
  /\ stage \in Stages
  /\ data \in 0 .. MaxClients
  /\ client \in [Clients -> {"unused", "made", "socket", "open", "closed"}]
  /\ subs \in [Clients -> SUBSET [who : Listens \union {Entity}, topic : Topics]]
  /\ joined \in [Clients -> SUBSET Topics]
  /\ holds \in [Listens -> [client : 0 .. MaxClients, topic : Topics]]
  /\ \A h \in armed : h \in [client : Clients, topic : Topics, kind : {"finite", "chain"},
                             delay : Nat, promoted : BOOLEAN]
  /\ finite \in [Clients -> SUBSET Topics] /\ chain \in [Clients -> SUBSET Topics]

(* However often the entry is reloaded, whatever is called meanwhile, and  *)
(* wherever in that the stop event comes: one socket at most is open, and  *)
(* it is the one hass.data has; a client that is not open is in no group,  *)
(* has no subscriber and no timer, so none sends through a transport that  *)
(* is None (client.py:474); the services are there when they can work.     *)
NothingLeaks ==
  /\ services = (data # 0)
  /\ \A c \in Clients :
       /\ client[c] = "open" => c = data
       /\ client[c] \in {"made", "socket"} => c = Latest /\ stage \in {"making", "opening"}
       /\ client[c] # "open" => subs[c] = {} /\ joined[c] = {}
  /\ \A h \in armed :
       /\ client[h.client] = "open"
       /\ h.topic \in IF h.kind = "chain" THEN chain[h.client] ELSE finite[h.client]

(* "A debug subscription that outlived its call would hold a multicast     *)
(* group open forever" (__init__.py:416-418): the open client is in the    *)
(* groups somebody listens to, and who listens is a call that still sleeps *)
(* or the entity. A call that began before a reload and ends after it      *)
(* leaves nothing and takes nothing from the client that came in between.  *)
GroupsHaveListeners ==
  \A c \in Clients : client[c] = "open" =>
    /\ joined[c] = TopicsOf(subs[c])
    /\ \A x \in subs[c] :
         IF x.who = Entity THEN stage = "loaded"
         ELSE holds[x.who] = [client |-> c, topic |-> x.topic]
    /\ \A l \in Listens : holds[l].client = c =>
         [who |-> l, topic |-> holds[l].topic] \in subs[c]

(* "An options change rebuilds the client" (__init__.py:222): the client   *)
(* runs with the saved options, or a reload is coming. It fails when the   *)
(* options are saved while a setup that has read the old ones awaits its   *)
(* socket: the listener that would reload is added after that (163-178).   *)
(* And it fails when the entry cannot be unloaded.                         *)
OptionsInForce ==
  data # 0 /\ conf # options =>
    reload \/ missed \/ stage \in {"unloading", "failed_unload"}

(* No chain repeats itself faster than MIN_INDEFINITE_DELAY allows, at any *)
(* moment between two reloads, unless it is promote_qos that made it: the  *)
(* form looks at the count it is given, not at what QoS 2 turns it into.   *)
ChainsAreSpaced ==
  \A h \in armed : h.kind = "chain" => h.delay >= 1 \/ h.promoted

=============================================================================
