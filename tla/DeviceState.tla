---------------------------- MODULE DeviceState ----------------------------
(***************************************************************************)
(* The state of one device, as the bridge keeps and publishes it            *)
(* (src/bridge.rs, src/zigbee/zcl, src/homeassistant.rs), next to the       *)
(* device itself: a lamp that reports what it does or does not, an IAS zone *)
(* sensor, or a remote control. What the device sends is merged into the    *)
(* state and published; a set command is sent in up to four requests, and   *)
(* those accepted are published before the device has acted on them.        *)
(*                                                                          *)
(* Frames are what parse_message makes of them: the cluster, whether they   *)
(* report attributes or command, and a value. The radio keeps their order.  *)
(* Of a colour only its mode is modelled, which is all that a command for a *)
(* colour temperature and one for a colour both change; a state other than  *)
(* ON, OFF and TOGGLE, for which nothing is sent, is left out of payloads.  *)
(***************************************************************************)
EXTENDS Naturals, Sequences

CONSTANTS
  Kinds,      \* kinds of device
  Payloads,   \* payloads of set commands
  Presses,    \* what can be pressed on a remote control
  ZoneType,   \* zone types of sensors
  NoType, NoValue, NoPress,
  MaxSets,    \* bound on set commands
  MaxActs,    \* bound on what happens to the device by other hands
  MaxLost     \* bound on requests refused or timed out and on frames lost

Lamps == {"lamp", "silent lamp"}

ASSUME DeviceAssumption ==
  /\ Kinds \subseteq Lamps \union {"sensor", "remote", "none"}
  /\ {MaxSets, MaxActs, MaxLost} \subseteq Nat
  /\ ZoneType \subseteq {"contact", "motion", "smoke"} /\ NoType \notin ZoneType
  /\ NoPress \notin Presses /\ NoValue \notin {"ON", "OFF"}

\* What a payload and a press can say.
ASSUME PayloadAssumption ==
  /\ \A p \in Payloads :
       /\ "state" \in DOMAIN p => p["state"] \in {"ON", "OFF", "TOGGLE"}
       /\ "brightness" \in DOMAIN p => p["brightness"] \in Nat
       /\ "color_temp" \in DOMAIN p => p["color_temp"] = "color_temp"
       /\ "color" \in DOMAIN p => p["color"] \in {"hs", "xy"}
  /\ \A press \in Presses : press.button = "arrow_hold" => press.arg # "none"

VARIABLES
  kind,         \* the kind of device
  device,       \* what is true of it
  down, up,     \* frames under way to it and from it
  interviewed,  \* Device.interview_complete
  state,        \* Device.state
  zoneType,     \* Device.zone_type
  direction,    \* Device.arrow_hold_direction
  set,          \* handle_set: the requests to make and the optimistic state
  published,    \* the state last published
  discovered,   \* the alarms Home Assistant knows of
  sets, acts, losses,
  cause,        \* history: what was pressed, if that was last published
  astray,       \* history: what was last asked of the device or heard of it is
                \* not what it did
  untyped       \* history: "discovery", "status" were last published without
                \* the zone type

deviceVars == <<kind, device, down, up>>
recordVars == <<interviewed, state, zoneType, direction, set>>
mqttVars == <<published, discovered>>
stateBounds == <<sets, acts, losses>>
stateHistory == <<cause, astray, untyped>>
deviceStateVars == <<deviceVars, recordVars, mqttVars, stateBounds, stateHistory>>

Empty == <<>>

\* No set command is under way.
NoSet == Empty

Report(cluster, value) == [cluster |-> cluster, type |-> "report", value |-> value]
Command(cluster, value) == [cluster |-> cluster, type |-> "command", value |-> value]

\* Device::merge_state: a state with the values laid over it.
Merge(values, s) ==
  [k \in DOMAIN values \union DOMAIN s |-> IF k \in DOMAIN values THEN values[k] ELSE s[k]]

\* linkquality and last_seen; of their values nothing is modelled.
Heard == [linkquality |-> "some", last_seen |-> "now"]

\* A device before its interview.
StateInit ==
  /\ kind \in Kinds
  /\ device \in CASE kind \in Lamps ->
                       [state : {"ON", "OFF"}, brightness : {254}, color_mode : {"xy"}]
                  [] kind = "sensor" -> [type : ZoneType, alarm : BOOLEAN]
                  [] OTHER -> [held : {"none"}]
  /\ down = <<>> /\ up = <<>>
  /\ interviewed = FALSE /\ state = Empty
  /\ zoneType = NoType /\ direction = "none" /\ set = NoSet
  /\ published = Empty /\ discovered = {}
  /\ sets = 0 /\ acts = 0 /\ losses = 0
  /\ cause = NoPress /\ astray = FALSE /\ untyped = {}

-----------------------------------------------------------------------------
\* Clusters.

\* alarm1_field: the key of a zone's alarm, and its value in alarm.
Alarm1(type) ==
  CASE type = "motion" -> [field |-> "occupancy", on |-> TRUE]
    [] type = "smoke"  -> [field |-> "smoke", on |-> TRUE]
    [] OTHER           -> [field |-> "contact", on |-> FALSE]

\* decode_zone_status.
ZoneStatus(alarm, type) ==
  LET a == Alarm1(type) IN [k \in {a.field} |-> IF alarm THEN a.on ELSE ~a.on]

\* LevelCluster, in per cent of 254, rounded.
Level(v) == [brightness |-> v, brightness_percent |-> (v * 200 + 254) \div 508]

\* What a remote control's frames say: for the arrows of TRADFRI remotes, a
\* release takes its direction from the hold before.
Pressed(press, held) ==
  CASE press.button \in {"arrow_click", "arrow_hold"} ->
         [action |-> <<press.button, press.arg>>]
    [] press.button = "arrow_release" ->
         IF held = "none" THEN Empty
         ELSE [action |-> <<press.button, held>>, action_duration |-> "time"]
    [] press.button \in {"recall", "store"} ->
         [action |-> <<press.button>>, action_group |-> "group", action_scene |-> press.arg]
    [] OTHER -> [action |-> <<press.button>>]

\* parse_message.
Values(f) ==
  CASE f.cluster = "on_off"   -> [state |-> f.value]
    [] f.cluster = "level"    -> Level(f.value)
    [] f.cluster = "color"    -> [color_mode |-> f.value]
    [] f.cluster = "ias_zone" -> IF f.type = "read_rsp" THEN Empty
                                 ELSE ZoneStatus(f.value, zoneType)
    [] OTHER                  -> Pressed(f.value, direction)

\* The update of arrow_hold_direction.
DirectionAfter(f) ==
  IF f.cluster # "buttons" THEN direction
  ELSE CASE f.value.button = "arrow_hold" -> f.value.arg
         [] f.value.button = "arrow_release" -> "none"
         [] OTHER -> direction

-----------------------------------------------------------------------------
\* The device and the radio.

\* What a lamp reports of a change: each attribute in a frame of its own.
Reported(new) ==
  LET Of(key, cluster) ==
        IF kind = "lamp" /\ new[key] # device[key] THEN <<Report(cluster, new[key])>> ELSE <<>>
  IN Of("state", "on_off") \o Of("brightness", "level") \o Of("color_mode", "color")

\* A lamp carries out a command, also when it is off.
Obeyed(c) ==
  CASE c.cluster = "on_off" ->
         [device EXCEPT !.state = CASE c.value = "TOGGLE" -> IF @ = "ON" THEN "OFF" ELSE "ON"
                                    [] OTHER -> c.value]
    [] c.cluster = "level" ->
         [device EXCEPT !.brightness = c.value,
                        !.state = IF c.value = 0 THEN "OFF" ELSE "ON"]
    [] OTHER -> [device EXCEPT !.color_mode = c.value]

LampObeys ==
  /\ down # <<>>
  /\ device' = Obeyed(Head(down))
  /\ down' = Tail(down)
  /\ up' = up \o Reported(Obeyed(Head(down)))
  /\ UNCHANGED <<kind, recordVars, mqttVars, stateBounds, stateHistory>>

\* By hand, which a lamp that does not report keeps to itself.
LampSwitched ==
  /\ kind = "lamp" /\ acts < MaxActs
  /\ acts' = acts + 1
  /\ LET new == [device EXCEPT !.state = IF @ = "ON" THEN "OFF" ELSE "ON"]
     IN device' = new /\ up' = up \o Reported(new)
  /\ UNCHANGED <<kind, down, recordVars, mqttVars, sets, losses, stateHistory>>

AlarmChanges ==
  /\ kind = "sensor" /\ acts < MaxActs
  /\ acts' = acts + 1
  /\ device' = [device EXCEPT !.alarm = ~@]
  /\ up' = Append(up, Command("ias_zone", ~device.alarm))
  /\ UNCHANGED <<kind, down, recordVars, mqttVars, sets, losses, stateHistory>>

\* The answer to a read of the zone type, part of the setup of an endpoint.
SensorAnswers ==
  /\ kind = "sensor" /\ acts < MaxActs
  /\ acts' = acts + 1
  /\ up' = Append(up, [Report("ias_zone", device.type) EXCEPT !.type = "read_rsp"])
  /\ UNCHANGED <<kind, device, down, recordVars, mqttVars, sets, losses, stateHistory>>

\* An arrow held is released next, and says nothing of its direction.
ButtonPressed ==
  /\ kind = "remote" /\ acts < MaxActs
  /\ acts' = acts + 1
  /\ \E press \in Presses :
       /\ press.button = "arrow_release" <=> device.held # "none"
       /\ press.button = "arrow_release" => press.arg = device.held
       /\ device' = [held |-> IF press.button = "arrow_hold" THEN press.arg ELSE "none"]
       /\ up' = Append(up, Command("buttons", press))
  /\ UNCHANGED <<kind, down, recordVars, mqttVars, sets, losses, stateHistory>>

FrameLost ==
  /\ losses < MaxLost
  /\ losses' = losses + 1
  /\ \/ down # <<>> /\ down' = Tail(down) /\ UNCHANGED up
     \/ up # <<>> /\ up' = Tail(up) /\ UNCHANGED down
  /\ astray' = TRUE
  /\ UNCHANGED <<kind, device, recordVars, mqttVars, sets, acts, cause, untyped>>

-----------------------------------------------------------------------------
\* What the bridge publishes.

\* Dropping "action" alone.
StripActionOnly(s) == [k \in DOMAIN s \ {"action"} |-> s[k]]

ActionKeys == {"action", "action_duration", "action_group", "action_scene"}

\* strip_transient_action_fields.
StripTransientActionFields(s) == [k \in DOMAIN s \ ActionKeys |-> s[k]]

\* Discovery that takes every zone for a door.
DiscoveryAsDoor(type) == IF kind = "sensor" THEN {Alarm1(NoType)} ELSE {}

\* homeassistant::publish_discovery, as far as the alarm goes.
Discovery(type) == IF kind = "sensor" THEN {Alarm1(type)} ELSE {}

\* What is published without the zone type, now that it is published with this.
Untyped(what, type) == IF type = NoType THEN untyped \union {what} ELSE untyped \ {what}

PublishDiscovery(type) ==
  /\ discovered' = discovered \union Discovery(type)
  /\ untyped' = Untyped("discovery", type)

\* complete_interview.
CompleteInterview ==
  /\ set = NoSet /\ ~interviewed
  /\ interviewed' = TRUE
  /\ PublishDiscovery(zoneType)
  /\ UNCHANGED <<deviceVars, state, zoneType, direction, set, published, stateBounds,
                 cause, astray>>

\* The part of Bridge::run that handles a Message. A sensor's zone type is taken
\* from it first; then what it says is merged, with when and how well it was
\* heard, published, and stripped.
Message ==
  /\ set = NoSet /\ up # <<>>
  /\ up' = Tail(up)
  /\ LET f == Head(up)
         merged == Merge(Values(f), Merge(Heard, state))
     IN /\ zoneType' = IF f.type = "read_rsp" THEN f.value ELSE zoneType
        /\ direction' = DirectionAfter(f)
        /\ IF Values(f) = Empty
           THEN UNCHANGED <<state, published, cause, untyped>>
           ELSE /\ published' = merged
                /\ state' = StripTransientActionFields(merged)
                /\ cause' = IF f.cluster = "buttons" THEN f.value ELSE NoPress
                /\ untyped' = IF f.cluster = "ias_zone" THEN Untyped("status", zoneType)
                              ELSE untyped
  /\ UNCHANGED <<kind, device, down, interviewed, set, discovered, stateBounds, astray>>

\* MqttCommand::GetDevice.
GetDevice ==
  /\ set = NoSet
  /\ published' = state /\ cause' = NoPress
  /\ UNCHANGED <<deviceVars, recordVars, discovered, stateBounds, astray, untyped>>

\* republish_mqtt_state: nothing is published of a device nothing is known of.
Republished(type) ==
  /\ IF state = Empty THEN UNCHANGED <<published, cause>>
     ELSE published' = state /\ cause' = NoPress
  /\ IF interviewed THEN PublishDiscovery(type) ELSE UNCHANGED <<discovered, untyped>>

RepublishState ==
  /\ set = NoSet
  /\ Republished(zoneType)
  /\ UNCHANGED <<deviceVars, recordVars, stateBounds, astray>>

\* The process ends normally and starts again: state.json and database.db keep
\* the state and that the interview is complete, neither the zone type nor the
\* direction. What the adapter holds is lost.
RestartState ==
  /\ set = NoSet
  /\ zoneType' = NoType /\ direction' = "none"
  /\ Republished(NoType)
  /\ up' = <<>> /\ down' \in {down, <<>>}
  /\ astray' = (astray \/ up # <<>> \/ down' # down)
  /\ UNCHANGED <<kind, device, interviewed, state, set, stateBounds>>

-----------------------------------------------------------------------------
\* handle_set.

\* The requests a payload asks for, in their order.
Requests(p) ==
  LET Of(key, cluster) ==
        IF key \in DOMAIN p THEN <<Command(cluster, p[key])>> ELSE <<>>
  IN Of("state", "on_off") \o Of("brightness", "level")
       \o Of("color_temp", "color") \o Of("color", "color")

\* A level beyond the scale sent as it is.
Unclamped(c) == c

\* The conversions of the values; of colours only the mode matters here.
Encoded(c) ==
  IF c.cluster = "level" /\ c.value > 254 THEN [c EXCEPT !.value = 254] ELSE c

\* A payload whose brightness undoes its state.
Contradictory(p) ==
  /\ {"state", "brightness"} \subseteq DOMAIN p
  /\ p.state = "TOGGLE" \/ (p.state = "ON") # (p.brightness > 0)

\* optimistic_on_off: nothing is known of a toggle from an unknown state.
OptimisticOnOff(command, current) ==
  IF command # "TOGGLE" THEN [state |-> command]
  ELSE CASE current = "ON"  -> [state |-> "OFF"]
         [] current = "OFF" -> [state |-> "ON"]
         [] OTHER           -> Empty

\* What an accepted request adds to the optimistic state; a state already there
\* stands.
Optimistic(c, current, so_far) ==
  CASE c.cluster = "on_off" -> OptimisticOnOff(c.value, current)
    [] c.cluster = "level"  ->
         Merge(so_far, [brightness |-> c.value, state |-> IF c.value = 0 THEN "OFF" ELSE "ON"])
    [] OTHER -> Merge([color_mode |-> c.value], so_far)

\* A name or a device that is not ready ends it at once.
SetDevice(p) ==
  /\ set = NoSet /\ kind \in Lamps /\ interviewed
  /\ sets < MaxSets
  /\ sets' = sets + 1
  /\ set' = [requests |-> Requests(p), optimistic |-> Empty,
             current |-> IF "state" \in DOMAIN state THEN state["state"] ELSE NoValue]
  /\ astray' = (astray \/ (kind = "silent lamp" /\ Contradictory(p)))
  /\ UNCHANGED <<deviceVars, interviewed, state, zoneType, direction, mqttVars, acts, losses,
                 cause, untyped>>

Sending == set # NoSet /\ set.requests # <<>>

\* The optimistic state whatever became of the request.
CountedAnyway(c) == Optimistic(c, set.current, set.optimistic)

\* A request not accepted adds nothing.
NotAccepted(c) == set.optimistic

\* send_command, accepted.
SendAccepted ==
  /\ Sending
  /\ LET c == Encoded(Head(set.requests))
     IN /\ set' = [set EXCEPT !.requests = Tail(@),
                              !.optimistic = Optimistic(c, set.current, @)]
        /\ down' = Append(down, c)
  /\ UNCHANGED <<kind, device, up, interviewed, state, zoneType, direction, mqttVars,
                 stateBounds, stateHistory>>

\* send_command, refused or timed out; sent nonetheless, in the latter case.
SendFails ==
  /\ Sending /\ losses < MaxLost
  /\ losses' = losses + 1
  /\ LET c == Encoded(Head(set.requests))
     IN /\ set' = [set EXCEPT !.requests = Tail(@), !.optimistic = NotAccepted(c)]
        /\ \/ UNCHANGED <<down, astray>>
           \/ down' = Append(down, c) /\ astray' = (astray \/ kind = "silent lamp")
  /\ UNCHANGED <<kind, device, up, interviewed, state, zoneType, direction, mqttVars,
                 sets, acts, cause, untyped>>

SetEnds ==
  /\ set # NoSet /\ set.requests = <<>>
  /\ set' = NoSet
  /\ IF set.optimistic = Empty THEN UNCHANGED <<state, published, cause>>
     ELSE /\ state' = Merge(set.optimistic, state)
          /\ published' = state' /\ cause' = NoPress
  /\ UNCHANGED <<deviceVars, interviewed, zoneType, direction, discovered, stateBounds,
                 astray, untyped>>

Outside ==
  LampObeys \/ LampSwitched \/ AlarmChanges \/ SensorAnswers \/ ButtonPressed \/ FrameLost

SetHandling == SendAccepted \/ SendFails \/ SetEnds

StateNext ==
  \/ Outside
  \/ CompleteInterview \/ Message \/ GetDevice \/ RepublishState
  \/ \E p \in Payloads : SetDevice(p)
  \/ SetHandling \/ RestartState

StateSpec == StateInit /\ [][StateNext]_deviceStateVars

-----------------------------------------------------------------------------
\* Properties.

\* What is kept of a device.
Keys ==
  DOMAIN Heard \union
  CASE kind \in Lamps -> {"state", "brightness", "brightness_percent", "color_mode"}
    [] kind = "sensor" -> {"contact", "occupancy", "smoke"}
    [] OTHER -> {}

\* Frames, requests and states hold values of their kind, levels up to 254; the
\* bridge's record of a device agrees with what the device is.
StateTypeOK ==
  /\ kind \in Kinds /\ interviewed \in BOOLEAN /\ astray \in BOOLEAN
  /\ \A i \in DOMAIN down : down[i].cluster = "level" => down[i].value \in 0..254
  /\ {DOMAIN state, DOMAIN published \ ActionKeys} \subseteq SUBSET Keys
  /\ "brightness" \in DOMAIN state => state["brightness"] \in 0..254
  /\ zoneType # NoType => kind = "sensor" /\ zoneType = device.type
  /\ direction # "none" => kind = "remote"
  /\ sets \in 0..MaxSets /\ acts \in 0..MaxActs /\ losses \in 0..MaxLost

Quiet == set = NoSet /\ down = <<>> /\ up = <<>> /\ ~astray

\* What is published of a lamp once nothing is under way is what the lamp does,
\* as far as anything is known of it, whatever of a set command was refused and
\* however reports crossed it (bridge.rs 576-577): its state, brightness and
\* colour mode, the percentage left aside. Of a lamp that does not report this is
\* not said after a command whose brightness undoes its state or one carried
\* out after its request had timed out, and of neither after a frame was lost.
LampShown ==
  kind \in Lamps /\ Quiet =>
    \A k \in DOMAIN published \intersect DOMAIN device : published[k] = device[k]

\* A press is published when it is heard and never again, with what belongs to
\* it and nothing of an earlier one, and a release goes with the hold before it
\* (bridge.rs 711-718).
ActionShownOnce ==
  LET action == [k \in DOMAIN published \intersect ActionKeys |-> published[k]]
  IN IF cause = NoPress THEN action = Empty
     ELSE ~astray => action = Pressed(cause, cause.arg)

\* Once everything is heard, a sensor's alarm is published as it is, under the key
\* of the zone type if that was known when it was last heard of, of a door
\* otherwise; and Home Assistant has been told of that key, unless the zone type
\* became known, or was forgotten by a restart, between that and the last
\* discovery: in the usual order, with discovery first, Home Assistant is told
\* of a door until the next connection to the broker (homeassistant.rs 118-136).
AlarmReachesHA ==
  kind = "sensor" /\ Quiet /\ DOMAIN published # {} =>
    LET a == Alarm1(IF "status" \in untyped THEN NoType ELSE device.type)
    IN /\ a.field \in DOMAIN published /\ (published[a.field] = a.on) = device.alarm
       /\ interviewed /\ ("status" \in untyped <=> "discovery" \in untyped) => a \in discovered
=============================================================================
