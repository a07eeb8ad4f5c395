---------------------------- MODULE HaEntityProofs ----------------------------
(***************************************************************************)
(* For all delays: the timers of an entity count from the latest message,  *)
(* hence what the entity shows is as recent as it was configured to be.    *)
(***************************************************************************)
EXTENDS HaEntity, TLAPS

(* A timer that runs was started by the latest message of the topic.       *)
TimersCountFromMessage ==
  /\ expiry # None => config.expire # None /\ age + expiry = config.expire
  /\ offIn # None => config.off # None /\ age + offIn = config.off

(* Only an entity that was added takes messages and has timers.            *)
OnlyAddedIsActive ==
  /\ "state" \in subscribed => stage = "added"
  /\ stage # "added" => expiry = None /\ offIn = None
  /\ stage \in {"new", "removed"} => subscribed = {}
  /\ stage = "new" => value = "unknown"

(* A value is shown without a timer to expire it only by the exception.    *)
ShownIsTimed ==
  stage = "added" /\ config.expire # None /\ value # "unknown" =>
    \/ expiry # None
    \/ OffOutlivesExpiry /\ value = "off" /\ offIn = None

(* The timer of off_delay is alone only when the other has fired.          *)
ExpiredBefore ==
  config.expire # None /\ expiry = None /\ offIn # None => age >= config.expire

OnIsTimed == stage = "added" /\ config.off # None /\ value = "on" => offIn # None

IInv ==
  /\ TypeOK /\ TimersCountFromMessage /\ OnlyAddedIsActive
  /\ ShownIsTimed /\ ExpiredBefore /\ OnIsTimed

LEMMA ConfigFacts ==
  ASSUME config \in Configs
  PROVE  /\ config.expire \in Nat \union {None} /\ config.off \in Nat \union {None}
         /\ config.expire <= MaxAge /\ config.off <= MaxAge
         /\ config.platform \in Platforms
         /\ config.platform # "binary_sensor" => config.off = None
         /\ config.platform = "switch" => config.expire = None
<1>1. /\ config.expire \in Timeouts /\ config.off \in Timeouts
      /\ config.platform \in Platforms
      /\ config.platform # "binary_sensor" => config.off = None
      /\ config.platform = "switch" => config.expire = None
      BY DEF Configs
<1>2. ASSUME NEW d \in Timeouts PROVE d \in Nat \union {None} /\ d <= MaxAge
  <2>1. CASE d \in Delays
        BY <2>1, HaEntityAssumption DEF HaEntityAssumption
  <2>2. CASE d = None
        BY <2>2, HaEntityAssumption DEF HaEntityAssumption, None
  <2> QED
      BY <2>1, <2>2 DEF Timeouts
<1> QED
    BY <1>1, <1>2

LEMMA InitHolds == Init => IInv
  BY HaEntityAssumption
  DEF Init, IInv, TypeOK, TimersCountFromMessage, OnlyAddedIsActive, ShownIsTimed,
      ExpiredBefore, OnIsTimed, Values, None

LEMMA TypePreserved == IInv /\ [Next]_vars => TypeOK'
<1> SUFFICES ASSUME IInv, [Next]_vars PROVE TypeOK'
    OBVIOUS
<1> USE DEF TypeOK, IInv
<1>1. CASE Add
      BY <1>1 DEF Add, Show, Topics, Values
<1>2. CASE AddFails
      BY <1>2 DEF AddFails, Topics
<1>3. CASE Remove
      BY <1>3 DEF Remove, CancelTimers
<1>4. ASSUME NEW online \in BOOLEAN, Availability(online) PROVE TypeOK'
      BY <1>4 DEF Availability, Show
<1>5. ASSUME NEW v \in {"on", "off"},
             SensorMessage(v) \/ BinarySensorMessage(v) \/ SwitchMessage(v)
      PROVE  TypeOK'
      BY <1>5, ConfigFacts, HaEntityAssumption
      DEF SensorMessage, BinarySensorMessage, SwitchMessage, Take, ResetExpiry, ArmOffDelay,
          Show, Values
<1>6. ASSUME NEW v \in {"on", "off"}, Command(v) PROVE TypeOK'
      BY <1>6 DEF Command, Show, Values
<1>7. CASE Expired \/ Off
      BY <1>7 DEF Expired, Off, Show, Values
<1>8. CASE Tick
      BY <1>8, HaEntityAssumption DEF Tick, Passed, None
<1>9. CASE UNCHANGED vars
      BY <1>9 DEF vars
<1> QED
    BY <1>1, <1>2, <1>3, <1>4, <1>5, <1>6, <1>7, <1>8, <1>9 DEF Next

LEMMA RestPreserved ==
  IInv /\ [Next]_vars =>
    /\ TimersCountFromMessage' /\ OnlyAddedIsActive'
    /\ ShownIsTimed' /\ ExpiredBefore' /\ OnIsTimed'
<1> DEFINE Rest == /\ TimersCountFromMessage /\ OnlyAddedIsActive
                   /\ ShownIsTimed /\ ExpiredBefore /\ OnIsTimed
<1> SUFFICES ASSUME IInv, [Next]_vars PROVE Rest'
    OBVIOUS
<1> USE DEF TimersCountFromMessage, OnlyAddedIsActive, ShownIsTimed, ExpiredBefore, OnIsTimed,
            OffOutlivesExpiry
<1>0. /\ config \in Configs
      /\ expiry \in Nat \union {None} /\ offIn \in Nat \union {None} /\ age \in 0 .. MaxAge
      /\ Rest
      BY DEF IInv, TypeOK
<1>1. CASE Add
      BY <1>0, <1>1, ConfigFacts DEF Add, None
<1>2. CASE AddFails
      BY <1>0, <1>2 DEF AddFails, Topics
<1>3. CASE Remove
      BY <1>0, <1>3 DEF Remove, CancelTimers, None
<1>4. ASSUME NEW online \in BOOLEAN, Availability(online) PROVE Rest'
      BY <1>0, <1>4 DEF Availability
<1>5. ASSUME NEW v \in {"on", "off"}, SensorMessage(v) PROVE Rest'
      BY <1>0, <1>5, ConfigFacts DEF SensorMessage, Take, ResetExpiry, None
<1>6. ASSUME NEW v \in {"on", "off"}, BinarySensorMessage(v) PROVE Rest'
      BY <1>0, <1>6, ConfigFacts DEF BinarySensorMessage, Take, ResetExpiry, ArmOffDelay, None
<1>7. ASSUME NEW v \in {"on", "off"}, SwitchMessage(v) \/ Command(v) PROVE Rest'
      BY <1>0, <1>7, ConfigFacts DEF SwitchMessage, Command, Take, None
<1>8. CASE Expired
      BY <1>0, <1>8, ConfigFacts DEF Expired, None
<1>9. CASE Off
      BY <1>0, <1>9, ConfigFacts DEF Off, None
<1>10. CASE Tick
  <2>1. /\ expiry # None => expiry' = expiry - 1 /\ expiry' # None
        /\ offIn # None => offIn' = offIn - 1 /\ offIn' # None
        /\ expiry = None => expiry' = None
        /\ offIn = None => offIn' = None
        BY <1>0, <1>10 DEF Tick, Passed, None
  <2>2. expiry # None \/ offIn # None => age' = age + 1
        BY <1>0, <1>10, ConfigFacts, HaEntityAssumption DEF Tick, None
  <2>3. age' >= age
        BY <1>0, <1>10, HaEntityAssumption DEF Tick
  <2> QED
      BY <1>0, <1>10, <2>1, <2>2, <2>3, ConfigFacts DEF Tick, None
<1>11. CASE UNCHANGED vars
      BY <1>0, <1>11 DEF vars
<1> QED
    BY <1>1, <1>2, <1>3, <1>4, <1>5, <1>6, <1>7, <1>8, <1>9, <1>10, <1>11 DEF Next

THEOREM Inductive == Spec => []IInv
<1>1. IInv /\ [Next]_vars => IInv'
      BY TypePreserved, RestPreserved DEF IInv
<1> QED
    BY InitHolds, <1>1, PTL DEF Spec

(* The entity is type correct for all configurations and delays.           *)
THEOREM TypeCorrect == Spec => []TypeOK
<1>1. IInv => TypeOK
      BY DEF IInv
<1> QED
    BY Inductive, <1>1, PTL

(* Whatever an entity went through, none of its callbacks runs after its   *)
(* removal (async_will_remove_from_hass), half-added entities included.    *)
THEOREM NothingAfterRemoval == Spec => []RemovedIsQuiet
<1>1. IInv => RemovedIsQuiet
      BY DEF IInv, OnlyAddedIsActive, RemovedIsQuiet
<1> QED
    BY Inductive, <1>1, PTL

(* For every expire_after, a value that is shown is no older, except the   *)
(* "off" of an off_delay that is not shorter.                              *)
THEOREM ShownIsRecent == Spec => []KnownIsRecent
<1>1. IInv => KnownIsRecent
      BY ConfigFacts DEF IInv, TypeOK, ShownIsTimed, TimersCountFromMessage, KnownIsRecent, None
<1> QED
    BY Inductive, <1>1, PTL

(* For every off_delay, an "on" lasts that long after the last ON.         *)
THEOREM OnEndsInTime == Spec => []OnIsBrief
<1>1. IInv => OnIsBrief
      BY DEF IInv, OnIsTimed, TimersCountFromMessage, OnIsBrief
<1> QED
    BY Inductive, <1>1, PTL

=============================================================================
