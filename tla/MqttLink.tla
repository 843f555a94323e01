------------------------------ MODULE MqttLink ------------------------------
(***************************************************************************)
(* The MQTT side of the bridge (src/mqtt/mod.rs): publishes that go through *)
(* a bounded channel to the task that drives the connection, the outages of *)
(* that connection, the subscription, and the commands that come back. The  *)
(* main loop (src/bridge.rs) is here what it publishes: the latest version  *)
(* of each retained topic. The client library and the broker are external.  *)
(***************************************************************************)
EXTENDS Naturals, Sequences, Selection

CONSTANTS
  Name,         \* friendly names of the devices, each a sequence of segments
  Fields,       \* a device's state: for each key, the keys nested in it
  Output,       \* advanced.output
  Capacity,     \* MQTT_REQUEST_CAPACITY
  Unacked,      \* publishes the library leaves unacknowledged at a time
  MaxVersion,   \* bound on the versions of a topic
  MaxBreaks,    \* bound on the times the connection is lost
  MaxCommands   \* bound on commands of other clients

\* A topic below base_topic is a sequence of segments; a segment is a sequence
\* of keys, for those which flatten_into joins with a '-'.
StateTopic == << <<"bridge">>, <<"state">> >>
InfoTopic == << <<"bridge">>, <<"info">> >>
PermitTopic == << <<"bridge">>, <<"request">>, <<"permit_join">> >>
All == << <<"#">> >>
NoTopic == <<>>

\* flatten_attribute_output: a colour in red, green and blue is one value.
Flattened ==
  LET Single(k) == Fields[k] = {} \/ (k = "color" /\ {"r", "g", "b"} \subseteq Fields[k])
  IN {<<k>> : k \in {k \in DOMAIN Fields : Single(k)}}
       \union UNION {{<<k, s>> : s \in Fields[k]} : k \in {k \in DOMAIN Fields : ~Single(k)}}

\* publish_state: the whole, each attribute, or both.
DeviceTopics(name) ==
  (IF Output # "attribute" THEN {name} ELSE {})
    \union (IF Output # "json" THEN {Append(name, a) : a \in Flattened} ELSE {})

BridgeTopics == {StateTopic, InfoTopic}
Topic == BridgeTopics \union UNION {DeviceTopics(n) : n \in Name}

ASSUME LinkAssumption ==
  /\ {Capacity, Unacked, MaxVersion} \subseteq Nat \ {0}
  /\ {MaxBreaks, MaxCommands} \subseteq Nat
  /\ Output \in {"json", "attribute", "attribute_and_json"}
  /\ All \notin Topic /\ NoTopic \notin Topic

VARIABLES
  broker,      \* the broker can be reached
  session,     \* the connection: "none", "open" or "broken", not yet noticed
  connected,   \* LinkState.connected
  loop,        \* run_event_loop: "polling" or "asleep"
  breaks,      \* connections lost so far
  channel,     \* AsyncClient's requests
  unacked,     \* requests the library has sent and not seen acknowledged
  subscribed,  \* the broker has this session's subscription
  retained,    \* the version of each topic the broker retains; 0: none of these
  notify,      \* subscribe_and_notify tasks, by whom they notify
  cmds,        \* commands the main loop has not handled
  bridge,      \* "connecting", "opening" the coordinator, or "running"
  latest,      \* the version of each topic the bridge has; 0: nothing known
  todo,        \* topics the present handler has yet to publish
  waiting,     \* the topic whose publish waits for room, if any
  gaveUp,      \* history: topics given up on with nothing to republish them
  asked,       \* history: commands of other clients the broker passed on
  handled      \* history: commands of clients the main loop has taken

linkVars == <<broker, session, connected, loop, breaks>>
queueVars == <<channel, unacked, subscribed, retained>>
bridgeVars == <<bridge, latest, todo, waiting, gaveUp>>
historyVars == <<asked, handled>>
vars == <<linkVars, queueVars, notify, cmds, bridgeVars, historyVars>>

Request(topic, version) == [topic |-> topic, version |-> version]
Subscribe == Request(All, 0)
Connected == [verb |-> "connected", name |-> NoTopic]

\* A full channel taken for one with room left.
RoomForOneMore == Len(channel) <= Capacity

Room == Len(channel) < Capacity

Idle == bridge = "running" /\ todo = {} /\ waiting = NoTopic

NoticeDue ==
  \/ \E k \in DOMAIN notify : notify[k] > 0
  \/ \E i \in DOMAIN cmds : cmds[i] = Connected

Init ==
  /\ broker \in BOOLEAN
  /\ session = "none" /\ connected = FALSE /\ loop = "polling" /\ breaks = 0
  /\ channel = <<>> /\ unacked = <<>> /\ subscribed = FALSE
  /\ retained = [t \in Topic |-> 0]
  /\ notify = [k \in {"start", "again"} |-> 0]
  /\ cmds = <<>>
  /\ bridge = "connecting"
  /\ latest = [t \in Topic |-> IF t \in BridgeTopics THEN 1 ELSE 0]
  /\ todo = {} /\ waiting = NoTopic /\ gaveUp = {}
  /\ asked = <<>> /\ handled = <<>>

-----------------------------------------------------------------------------
\* command_from_publish.

Verb == { <<"set">>, <<"get">> }

\* The place of the verb: last, or before an attribute.
VerbAt(topic) ==
  LET n == Len(topic)
  IN IF n >= 2 /\ topic[n] \in Verb THEN n
     ELSE IF n >= 3 /\ topic[n - 1] \in Verb THEN n - 1
     ELSE 0

\* The first segment alone.
NameFirst(topic) == SubSeq(topic, 1, 1)

NameIn(topic) == SubSeq(topic, 1, VerbAt(topic) - 1)

\* The command in a message received, if there is one.
CommandOf(topic) ==
  IF topic = PermitTopic THEN <<[verb |-> "permit_join", name |-> NoTopic]>>
  ELSE IF topic[1] = <<"bridge">> \/ VerbAt(topic) = 0 THEN <<>>
  ELSE <<[verb |-> topic[VerbAt(topic)][1], name |-> NameIn(topic)]>>

-----------------------------------------------------------------------------
\* The broker and the connection.

BrokerStops ==
  /\ broker /\ session # "open"
  /\ broker' = FALSE
  /\ UNCHANGED <<session, connected, loop, breaks, queueVars, notify, cmds,
                 bridgeVars, historyVars>>

BrokerStarts ==
  /\ ~broker
  /\ broker' = TRUE
  /\ UNCHANGED <<session, connected, loop, breaks, queueVars, notify, cmds,
                 bridgeVars, historyVars>>

\* What the broker retains once it has taken the first k requests.
RetainedAfter(k) ==
  [t \in Topic |->
     IF \E i \in 1..k : unacked[i].topic = t
     THEN unacked[CHOOSE i \in 1..k :
                    unacked[i].topic = t /\ \A j \in i + 1 .. k : unacked[j].topic # t].version
     ELSE retained[t]]

\* The connection is lost, with acknowledgements under way. The session was a
\* clean one, and its last will is published.
Break ==
  /\ session = "open" /\ breaks < MaxBreaks
  /\ breaks' = breaks + 1
  /\ session' = "broken"
  /\ subscribed' = FALSE
  /\ \E k \in 0..Len(unacked) :
       retained' = [RetainedAfter(k) EXCEPT ![StateTopic] = 0]
  /\ UNCHANGED <<broker, connected, loop, channel, unacked, notify, cmds,
                 bridgeVars, historyVars>>

\* The broker takes a request, acknowledges it, and sends what was published
\* back to this subscriber.
Accept ==
  /\ session = "open" /\ unacked # <<>>
  /\ unacked' = Tail(unacked)
  /\ LET r == Head(unacked)
     IN IF r = Subscribe
        THEN subscribed' = TRUE /\ UNCHANGED <<retained, cmds>>
        ELSE /\ retained' = [retained EXCEPT ![r.topic] = r.version]
             /\ cmds' = cmds \o (IF subscribed THEN CommandOf(r.topic) ELSE <<>>)
             /\ UNCHANGED subscribed
  /\ UNCHANGED <<linkVars, channel, notify, bridgeVars, historyVars>>

\* Another client publishes a command.
ClientPublishes ==
  /\ session = "open" /\ subscribed
  /\ Len(asked) < MaxCommands
  /\ \E c \in {[verb |-> "permit_join", name |-> NoTopic]}
              \union [verb : {"set", "get"}, name : Name], suffix \in { <<>>, << <<"state">> >> } :
       LET topic == IF c.name = NoTopic THEN PermitTopic
                    ELSE c.name \o << <<c.verb>> >> \o suffix
       IN /\ asked' = Append(asked, c)
          /\ cmds' = cmds \o CommandOf(topic)
  /\ UNCHANGED <<linkVars, queueVars, notify, bridgeVars, handled>>

-----------------------------------------------------------------------------
\* run_event_loop, and the library it polls.

\* Awaiting the subscription in the loop that makes room for it.
LoopAwaitsSubscribe == ~Room /\ \E k \in DOMAIN notify : notify[k] > 0

\* Nothing awaited in the loop depends on the channel.
LoopBlocked == FALSE

Send ==
  /\ loop = "polling" /\ ~LoopBlocked
  /\ session = "open" /\ channel # <<>> /\ Len(unacked) < Unacked
  /\ unacked' = Append(unacked, Head(channel))
  /\ channel' = Tail(channel)
  /\ UNCHANGED <<linkVars, subscribed, retained, notify, cmds, bridgeVars, historyVars>>

\* poll() fails. The library may move what is queued to what it has sent.
Notice ==
  /\ loop = "polling" /\ ~LoopBlocked
  /\ session = "broken"
  /\ session' = "none" /\ connected' = FALSE /\ loop' = "asleep"
  /\ \/ UNCHANGED <<channel, unacked>>
     \/ unacked' = unacked \o channel /\ channel' = <<>>
  /\ UNCHANGED <<broker, breaks, subscribed, retained, notify, cmds, bridgeVars,
                 historyVars>>

ConnectFails ==
  /\ loop = "polling" /\ ~LoopBlocked
  /\ session = "none" /\ ~broker
  /\ connected' = FALSE /\ loop' = "asleep"
  /\ UNCHANGED <<broker, session, breaks, queueVars, notify, cmds, bridgeVars, historyVars>>

\* The delay, however long it has grown, has passed.
Wake ==
  /\ loop = "asleep"
  /\ loop' = "polling"
  /\ UNCHANGED <<broker, session, connected, breaks, queueVars, notify, cmds,
                 bridgeVars, historyVars>>

\* A ConnAck. The library sends again what was not acknowledged, or drops it;
\* the first task of all has the oneshot to notify.
Connect ==
  /\ loop = "polling" /\ ~LoopBlocked
  /\ session = "none" /\ broker
  /\ session' = "open" /\ connected' = TRUE
  /\ unacked' \in {unacked, <<>>}
  /\ notify' = IF breaks = 0 THEN [notify EXCEPT !["start"] = @ + 1]
               ELSE [notify EXCEPT !["again"] = @ + 1]
  /\ UNCHANGED <<broker, loop, breaks, channel, subscribed, retained, cmds,
                 bridgeVars, historyVars>>

\* Counting on the broker to know a session it has seen before.
SubscribeOnce(who) == IF who = "start" THEN <<Subscribe>> ELSE <<>>

\* What subscribe_topics asks for.
Subscription(who) == <<Subscribe>>

\* Leaving the bridge to publish what changes next.
NobodyTold(who) == <<>>

\* Whom subscribe_and_notify tells through the commands.
Told(who) == IF who = "start" THEN <<>> ELSE <<Connected>>

SubscribeAndNotify(who) ==
  /\ notify[who] > 0 /\ Room
  /\ notify' = [notify EXCEPT ![who] = @ - 1]
  /\ channel' = channel \o Subscription(who)
  /\ cmds' = cmds \o Told(who)
  /\ bridge' = IF who = "start" THEN "opening" ELSE bridge
  /\ UNCHANGED <<linkVars, unacked, subscribed, retained, latest, todo, waiting,
                 gaveUp, historyVars>>

-----------------------------------------------------------------------------
\* MqttBridge::publish.

Queue(topic) ==
  /\ channel' = Append(channel, Request(topic, latest[topic]))
  /\ gaveUp' = gaveUp \ {topic}

\* Without room, a publish waits while connected and is dropped otherwise.
Publish ==
  /\ waiting = NoTopic
  /\ \E t \in todo :
       /\ todo' = todo \ {t}
       /\ \/ Room /\ Queue(t) /\ UNCHANGED waiting
          \/ ~Room /\ connected /\ waiting' = t /\ UNCHANGED <<channel, gaveUp>>
          \/ ~Room /\ ~connected /\ UNCHANGED <<waiting, channel, gaveUp>>
  /\ UNCHANGED <<linkVars, unacked, subscribed, retained, notify, cmds, bridge,
                 latest, historyVars>>

PublishWaited ==
  /\ waiting # NoTopic /\ Room
  /\ Queue(waiting)
  /\ waiting' = NoTopic
  /\ UNCHANGED <<linkVars, unacked, subscribed, retained, notify, cmds, bridge,
                 latest, todo, historyVars>>

\* Waiting for room as long as it takes.
WaitsOn == FALSE

\* MQTT_PUBLISH_TIMEOUT has passed.
TimesOut == waiting # NoTopic /\ ~Room

PublishTimesOut ==
  /\ TimesOut
  /\ waiting' = NoTopic
  /\ gaveUp' = IF session = "open" /\ ~NoticeDue THEN gaveUp \union {waiting} ELSE gaveUp
  /\ UNCHANGED <<linkVars, queueVars, notify, cmds, bridge, latest, todo, historyVars>>

-----------------------------------------------------------------------------
\* The main loop, as far as it publishes retained topics.

\* republish_mqtt_state: all that is known.
Republished == {t \in Topic : latest[t] > 0}

\* The coordinator has started.
Opened ==
  /\ bridge = "opening"
  /\ bridge' = "running"
  /\ todo' = Republished
  /\ UNCHANGED <<linkVars, queueVars, notify, cmds, latest, waiting, gaveUp, historyVars>>

\* Something has changed, and is published.
Changed(topics) ==
  /\ \A t \in topics : latest[t] < MaxVersion
  /\ latest' = [t \in Topic |-> IF t \in topics THEN latest[t] + 1 ELSE latest[t]]
  /\ todo' = topics

Report ==
  /\ Idle
  /\ \E n \in Name : Changed(DeviceTopics(n))
  /\ UNCHANGED <<linkVars, queueVars, notify, cmds, bridge, waiting, gaveUp, historyVars>>

\* A set may change nothing, of a name no device has for instance.
HandleCommand ==
  /\ Idle /\ cmds # <<>>
  /\ cmds' = Tail(cmds)
  /\ LET c == Head(cmds)
     IN /\ handled' = IF c = Connected THEN handled ELSE Append(handled, c)
        /\ \/ c = Connected /\ todo' = Republished /\ UNCHANGED latest
           \/ c.verb = "permit_join" /\ Changed({InfoTopic})
           \/ c.verb = "set" /\ c.name \in Name /\ Changed(DeviceTopics(c.name))
           \/ c.verb = "get" /\ c.name \in Name /\ todo' = DeviceTopics(c.name)
              /\ UNCHANGED latest
           \/ c.verb \in {"permit_join", "set", "get"} /\ UNCHANGED <<latest, todo>>
  /\ UNCHANGED <<linkVars, queueVars, notify, bridge, waiting, gaveUp, asked>>

-----------------------------------------------------------------------------
EventLoop == Send \/ Notice \/ ConnectFails \/ Wake \/ Connect

MainLoop == Opened \/ Publish \/ PublishWaited \/ PublishTimesOut \/ HandleCommand

Next ==
  \/ BrokerStops \/ BrokerStarts \/ Break \/ Accept \/ ClientPublishes
  \/ EventLoop
  \/ \E who \in {"start", "again"} : SubscribeAndNotify(who)
  \/ MainLoop \/ Report

\* The tasks run when they can, delays and timeouts pass, and a broker that is
\* connected acknowledges what it is sent.
Fairness ==
  /\ WF_vars(EventLoop) /\ WF_vars(MainLoop) /\ WF_vars(Accept)
  /\ \A who \in {"start", "again"} : WF_vars(SubscribeAndNotify(who))

Spec == Init /\ [][Next]_vars /\ Fairness

-----------------------------------------------------------------------------
\* Properties.

Version == 0..MaxVersion
Requests == [topic : Topic, version : Version] \union {Subscribe}

\* The channel keeps to its capacity, the flag agrees with the connection unless
\* that has just been lost, and nothing is published before the first connect.
TypeOK ==
  /\ broker \in BOOLEAN /\ connected \in BOOLEAN /\ subscribed \in BOOLEAN
  /\ session \in {"none", "open", "broken"} /\ loop \in {"polling", "asleep"}
  /\ breaks \in 0..MaxBreaks
  /\ channel \in Seq(Requests) /\ Len(channel) <= Capacity
  /\ unacked \in Seq(Requests)
  /\ retained \in [Topic -> Version] /\ latest \in [Topic -> Version]
  /\ notify \in [{"start", "again"} -> Nat]
  /\ bridge \in {"connecting", "opening", "running"}
  /\ todo \subseteq Topic /\ gaveUp \subseteq Topic
  /\ waiting \in Topic \union {NoTopic}
  /\ connected <=> session # "none"
  /\ loop = "asleep" => session = "none"
  /\ bridge # "running" => todo = {} /\ waiting = NoTopic

\* Everything on its way to the broker, in order.
Sent == unacked \o channel

\* The broker has the latest version of a topic or will have when it has taken
\* all that is on its way, and no older version follows.
Fresh(t) ==
  LET Older(i) == Sent[i].topic = t /\ Sent[i].version # latest[t]
  IN \/ retained[t] = latest[t] /\ \A i \in DOMAIN Sent : ~Older(i)
     \/ \E i \in DOMAIN Sent : /\ Sent[i] = Request(t, latest[t])
                               /\ \A j \in DOMAIN Sent : j > i => ~Older(j)

\* No topic is left behind for good: what the broker does not have is on its
\* way or yet to be published by the present handler, or else a republish is
\* due, because the connection is down or the main loop is about to be told
\* that it is back. The exception are publishes that time out on a connection
\* that is up (mqtt/mod.rs 218-224 has it that everything is republished).
QueuedOrRepublished ==
  bridge = "running" /\ session = "open" /\ ~NoticeDue =>
    \A t \in Topic :
      latest[t] > 0 => Fresh(t) \/ t \in todo \union gaveUp \/ waiting = t

\* s is a sequence, of whatever is in it.
Sequence(s) == s \in Seq({s[i] : i \in DOMAIN s})

\* A name is taken for a command if its end looks like one, which the names in
\* the configuration are free to do.
Unambiguous ==
  /\ \A n \in Name :
       /\ Sequence(n) /\ n # <<>> /\ n[1] # <<"bridge">>
       /\ Len(n) >= 2 => n[Len(n)] \notin Verb
       /\ Len(n) >= 3 => n[Len(n) - 1] \notin Verb
  /\ DOMAIN Fields \intersect {"set", "get"} = {}

\* What the main loop is commanded to do is what clients asked for, in order,
\* for the devices they meant: nothing it publishes itself comes back as a
\* command (mqtt/mod.rs 347-353).
CommandsAsAsked ==
  handled \o Select(cmds, {cmds[i] : i \in DOMAIN cmds} \ {Connected}) = asked

\* Once the broker stays, it gets the latest version of every topic, and with
\* it "online" over the last will.
RetainedCatchesUp ==
  <>[]broker =>
    <>[](\A t \in Topic : latest[t] = 0 \/ retained[t] = latest[t] \/ t \in gaveUp)

\* Once the broker stays, commands are heard again.
SubscribedAgain == <>[]broker => <>[]subscribed

\* No outage, however long, holds up a handler of the main loop for good.
BridgeReturns == (bridge = "running" /\ ~Idle) ~> Idle
=============================================================================
