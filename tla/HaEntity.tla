------------------------------- MODULE HaEntity -------------------------------
(***************************************************************************)
(* An entity of the Home Assistant integration, of any of its platforms:   *)
(* the subscriptions it makes when it is added, the messages it takes, the *)
(* timers it keeps (expire_after, off_delay) and its removal. Each handler *)
(* is a callback on the event loop and runs to its end.                    *)
(*                                                                         *)
(* Time is counted in the unit of the configured delays. A timer holds     *)
(* what is left of its delay; the loop runs a timer that has nothing left  *)
(* before the next unit passes, after or before a message of that moment.  *)
(* A message is what its payload is after value_template; a sensor's two   *)
(* values are "on" and "off" as well.                                      *)
(***************************************************************************)
EXTENDS Integers

CONSTANTS
  Delays,  (* values of expire_after and of off_delay                     *)
  MaxAge   (* bound: units counted since the latest state message         *)

(* Delays are told apart from longer ones.                                 *)
ASSUME HaEntityAssumption ==
  /\ Delays \subseteq Nat /\ MaxAge \in Nat
  /\ \A d \in Delays : d <= MaxAge

VARIABLES
  config,      (* the platform and the options that matter                 *)
  stage,       (* of the entity's life, as Home Assistant sees it          *)
  subscribed,  (* _sub_state: the topics it is subscribed to               *)
  available,   (* _attr_available                                          *)
  value,       (* _attr_native_value or _attr_is_on                        *)
  expiry,      (* _expire_cancel: what is left of that timer, or None      *)
  offIn,       (* _off_delay_cancel, likewise                              *)
  age,         (* history: units since the latest state message taken      *)
  shown        (* what async_write_ha_state() last told Home Assistant     *)

vars == <<config, stage, subscribed, available, value, expiry, offIn, age, shown>>

None == -1

Timeouts == Delays \union {None}

Platforms == {"sensor", "binary_sensor", "switch"}

(* What the platforms' schemas accept: off_delay is a binary_sensor's, and *)
(* only a switch does without a state_topic or is told to be optimistic.   *)
Configs ==
  {c \in [platform : Platforms, expire : Timeouts, off : Timeouts,
          availability : BOOLEAN, state : BOOLEAN, optimistic : {"unset", "yes", "no"}] :
     /\ c.platform # "binary_sensor" => c.off = None
     /\ c.platform = "switch" => c.expire = None
     /\ c.platform # "switch" => c.state /\ c.optimistic = "unset"}

Values == {"unknown", "on", "off"}

Topics(c) ==
  {t \in {"availability", "state"} : IF t = "state" THEN c.state ELSE c.availability}

Init ==
  /\ config \in Configs
  /\ stage = "new"
  /\ subscribed = {}
  /\ available = ~config.availability
  /\ value = "unknown"
  /\ expiry = None /\ offIn = None
  /\ age = MaxAge
  /\ shown = [available |-> FALSE, value |-> "unknown"]

-----------------------------------------------------------------------------
Show == shown' = [available |-> available', value |-> value']

(* async_added_to_hass(); Home Assistant shows the entity when it returns. *)
Add ==
  /\ stage = "new"
  /\ stage' = "added"
  /\ subscribed' = Topics(config)
  /\ UNCHANGED <<config, available, value, expiry, offIn, age>>
  /\ Show

(* A group cannot be joined: the availability topic, which comes first, or *)
(* the state topic. The entity is never shown, but is removed in the end.  *)
AddFails ==
  /\ stage = "new" /\ Topics(config) # {}
  /\ stage' = "failed"
  /\ subscribed' \in {Topics(config) \ {"state"}, {}} \ {Topics(config)}
  /\ UNCHANGED <<config, available, value, expiry, offIn, age, shown>>

(* A faulty form of CancelTimers: the timer of off_delay is left.          *)
CancelExpiryOnly == expiry' = None /\ UNCHANGED offIn

CancelTimers == expiry' = None /\ offIn' = None

(* async_will_remove_from_hass() *)
Remove ==
  /\ stage \in {"added", "failed"}
  /\ stage' = "removed"
  /\ CancelTimers
  /\ subscribed' = {}
  /\ UNCHANGED <<config, available, value, age, shown>>

-----------------------------------------------------------------------------
(* Messages. An unknown payload, and for a sensor an empty one, is no step. *)

Availability(online) ==
  /\ "availability" \in subscribed
  /\ available' = online
  /\ UNCHANGED <<config, stage, subscribed, value, expiry, offIn, age>>
  /\ Show

Take(v) ==
  /\ "state" \in subscribed
  /\ value' = v
  /\ age' = 0

(* Faulty forms of ResetExpiry: a timer that runs is left to run; an       *)
(* expired entity stays without one.                                       *)
ResetExpiryOnce == expiry' = IF expiry = None THEN config.expire ELSE expiry

ResetExpiryIfKnown == expiry' = IF value = "unknown" THEN expiry ELSE config.expire

ResetExpiry == expiry' = config.expire

(* A faulty form of ArmOffDelay: OFF does not cancel the timer of ON, and  *)
(* ON leaves a running timer alone.                                        *)
ArmOffDelayOnce(v) ==
  offIn' = IF v = "on" /\ offIn = None THEN config.off ELSE offIn

ArmOffDelay(v) == offIn' = IF v = "on" THEN config.off ELSE None

SensorMessage(v) ==
  /\ config.platform = "sensor"
  /\ Take(v)
  /\ ResetExpiry
  /\ UNCHANGED <<config, stage, subscribed, available, offIn>>
  /\ Show

BinarySensorMessage(v) ==
  /\ config.platform = "binary_sensor"
  /\ Take(v)
  /\ ResetExpiry
  /\ ArmOffDelay(v)
  /\ UNCHANGED <<config, stage, subscribed, available>>
  /\ Show

SwitchMessage(v) ==
  /\ config.platform = "switch"
  /\ Take(v)
  /\ UNCHANGED <<config, stage, subscribed, available, expiry, offIn>>
  /\ Show

(* async_turn_on() and async_turn_off(), once the command was published. A *)
(* switch that does not assume its state waits for a message.              *)
Assumes ==
  IF config.optimistic = "unset" THEN ~config.state ELSE config.optimistic = "yes"

Command(v) ==
  /\ config.platform = "switch"
  /\ stage = "added"
  /\ Assumes
  /\ value' = v
  /\ UNCHANGED <<config, stage, subscribed, available, expiry, offIn, age>>
  /\ Show

-----------------------------------------------------------------------------
(* Timers. *)

Expired ==
  /\ expiry = 0
  /\ expiry' = None
  /\ value' = "unknown"
  /\ UNCHANGED <<config, stage, subscribed, available, offIn, age>>
  /\ Show

Off ==
  /\ offIn = 0
  /\ offIn' = None
  /\ value' = "off"
  /\ UNCHANGED <<config, stage, subscribed, available, expiry, age>>
  /\ Show

(* A faulty form of Passed: no timer is not told from a timer.             *)
PassedAlways(t) == t - 1

Passed(t) == IF t = None THEN None ELSE t - 1

Tick ==
  /\ expiry # 0 /\ offIn # 0
  /\ expiry' = Passed(expiry) /\ offIn' = Passed(offIn)
  /\ age' = IF age < MaxAge THEN age + 1 ELSE age
  /\ UNCHANGED <<config, stage, subscribed, available, value, shown>>

Next ==
  \/ Add \/ AddFails \/ Remove
  \/ \E online \in BOOLEAN : Availability(online)
  \/ \E v \in {"on", "off"} :
       SensorMessage(v) \/ BinarySensorMessage(v) \/ SwitchMessage(v) \/ Command(v)
  \/ Expired \/ Off \/ Tick

Spec == Init /\ [][Next]_vars

-----------------------------------------------------------------------------
(* Type invariant. *)
TypeOK ==
  /\ config \in Configs
  /\ stage \in {"new", "added", "failed", "removed"}
  /\ subscribed \subseteq Topics(config)
  /\ available \in BOOLEAN
  /\ value \in Values
  /\ expiry \in Nat \union {None} /\ offIn \in Nat \union {None}
  /\ age \in 0 .. MaxAge
  /\ shown \in [available : BOOLEAN, value : Values]

(* An entity that was removed is deaf and has no timer left: a callback    *)
(* that ran now would write the state of an entity that is gone, or hold   *)
(* its group for ever. This holds for one whose adding failed half-way.    *)
RemovedIsQuiet ==
  stage \in {"new", "removed"} => subscribed = {} /\ expiry = None /\ offIn = None

(* expire_after is "the only liveness signal available"                    *)
(* (HOMEASSISTANT.md:153-156): a value that is shown was heard at most     *)
(* expire_after ago. The exception is the code's: an off_delay that is not *)
(* shorter puts an expired binary_sensor to "off", and nothing expires     *)
(* that again (binary_sensor.py:103-109).                                  *)
OffOutlivesExpiry == config.off # None /\ config.off >= config.expire

KnownIsRecent ==
  stage = "added" /\ config.expire # None /\ value # "unknown" =>
    \/ age <= config.expire
    \/ OffOutlivesExpiry /\ value = "off" /\ expiry = None /\ offIn = None

(* An "on" with an off_delay ends off_delay after the last ON, not after   *)
(* the first: each ON starts the delay again, an OFF in between stops it.  *)
OnIsBrief ==
  stage = "added" /\ config.off # None /\ value = "on" =>
    offIn # None /\ age + offIn = config.off

=============================================================================
