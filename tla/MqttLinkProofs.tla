--------------------------- MODULE MqttLinkProofs ---------------------------
(***************************************************************************)
(* Proofs about MqttLink, for any names, states, capacities and numbers of  *)
(* outages: the types, that no retained topic is left behind, and that only *)
(* clients command.                                                         *)
(***************************************************************************)
EXTENDS MqttLink, SelectionProofs

-----------------------------------------------------------------------------
\* Natural numbers: a bounded set of them has a greatest one.

LEMMA Greatest ==
  ASSUME NEW S, S \subseteq Nat, S # {}, NEW k \in Nat, \A j \in S : j <= k
  PROVE  \E m \in S : \A n \in S : n <= m
<1> DEFINE T == {b \in Nat : \A j \in S : j <= b}
<1>1. PICK m \in T : \A n \in T : m <= n
  <2>1. T \subseteq Nat /\ k \in T
    OBVIOUS
  <2> HIDE DEF T
  <2> QED
    BY <2>1, Least
<1>2. m \in S
  <2> SUFFICES ASSUME m \notin S PROVE FALSE
    OBVIOUS
  <2>0. m \in Nat
    OBVIOUS
  <2>1. \A j \in S : j < m
    BY <2>0
  <2>2. m > 0 /\ m - 1 \in Nat
    <3>1. PICK s \in S : TRUE
      OBVIOUS
    <3>2. s < m /\ s \in Nat
      BY <2>1, <3>1
    <3> QED
      BY <2>0, <3>2
  <2>3. m - 1 \in T
    BY <2>1, <2>2
  <2> QED
    BY <2>0, <2>3, <1>1
<1> QED
  BY <1>1, <1>2

-----------------------------------------------------------------------------
\* Sequences.

LEMMA Appended ==
  ASSUME NEW S, NEW s \in Seq(S), NEW e \in S
  PROVE  /\ Append(s, e) \in Seq(S) /\ Len(Append(s, e)) = Len(s) + 1 /\ Len(s) \in Nat
         /\ \A j \in 1..Len(s) : Append(s, e)[j] = s[j]
         /\ Append(s, e)[Len(s) + 1] = e
OBVIOUS

LEMMA HeadTaken ==
  ASSUME NEW S, NEW s \in Seq(S), s # <<>>
  PROVE  /\ Len(s) \in Nat /\ Len(s) >= 1 /\ Head(s) = s[1] /\ Head(s) \in S
         /\ Tail(s) \in Seq(S) /\ Len(Tail(s)) = Len(s) - 1
         /\ \A j \in 1..Len(Tail(s)) : Tail(s)[j] = s[j + 1]
OBVIOUS

LEMMA Listed ==
  ASSUME NEW S, NEW s \in Seq(S)
  PROVE  Sequence(s)
BY DEF Sequence

LEMMA Joined ==
  ASSUME NEW S, NEW s \in Seq(S), NEW t \in Seq(S)
  PROVE  /\ s \o t \in Seq(S) /\ Len(s \o t) = Len(s) + Len(t)
         /\ \A i \in 1..Len(s) : (s \o t)[i] = s[i]
         /\ \A i \in 1..Len(t) : (s \o t)[Len(s) + i] = t[i]
OBVIOUS

-----------------------------------------------------------------------------
\* Types.

LEMMA TopicFacts ==
  /\ BridgeTopics \subseteq Topic /\ StateTopic \in Topic /\ InfoTopic \in Topic
  /\ \A n \in Name : DeviceTopics(n) \subseteq Topic
  /\ All \notin Topic /\ NoTopic \notin Topic
BY LinkAssumption DEF Topic, BridgeTopics

LEMMA RequestTyped ==
  /\ \A t \in Topic, v \in Version : Request(t, v) \in Requests
  /\ Subscribe \in Requests
BY LinkAssumption DEF Request, Requests, Subscribe, Version

LEMMA TypesInit == Init => TypeOK
<1> SUFFICES ASSUME Init PROVE TypeOK
  OBVIOUS
<1>1. 0 \in Version /\ 1 \in Version /\ 0 \in 0..MaxBreaks /\ Capacity \in Nat
  BY LinkAssumption DEF Version
<1>2. channel \in Seq(Requests) /\ unacked \in Seq(Requests) /\ Len(channel) <= Capacity
  BY <1>1 DEF Init
<1>3. connected <=> session # "none"
  BY DEF Init
<1>4. retained \in [Topic -> Version] /\ latest \in [Topic -> Version]
  BY <1>1 DEF Init
<1>5. notify \in [{"start", "again"} -> Nat]
  BY DEF Init
<1> QED
  BY <1>1, <1>2, <1>3, <1>4, <1>5 DEF Init, TypeOK

\* What the broker has taken of the requests under way leaves its record typed:
\* there is a last one of each topic.
LEMMA RetainedTyped ==
  ASSUME TypeOK, NEW k \in 0..Len(unacked),
         \A i \in DOMAIN unacked : unacked[i].version \in Version
  PROVE  RetainedAfter(k) \in [Topic -> Version]
<1> SUFFICES ASSUME NEW t \in Topic,
                    \E i \in 1..k : unacked[i].topic = t
             PROVE  unacked[CHOOSE i \in 1..k :
                      unacked[i].topic = t /\ \A j \in i + 1 .. k : unacked[j].topic # t].version
                      \in Version
  BY DEF RetainedAfter, TypeOK
<1>1. unacked \in Seq(Requests) /\ Len(unacked) \in Nat /\ k \in Nat
  BY DEF TypeOK
<1> DEFINE S == {i \in 1..k : unacked[i].topic = t}
<1>2. PICK i \in S : \A j \in S : j <= i
  <2>1. S \subseteq Nat /\ S # {} /\ \A j \in S : j <= k
    BY <1>1
  <2> HIDE DEF S
  <2> QED
    BY <1>1, <2>1, Greatest
<1>3. \E l \in 1..k : unacked[l].topic = t /\ \A j \in l + 1 .. k : unacked[j].topic # t
  <2>1. \A j \in i + 1 .. k : j \in 1..k /\ ~ (j <= i)
    BY <1>1
  <2>2. i \in 1..k /\ unacked[i].topic = t
    OBVIOUS
  <2>3. \A j \in i + 1 .. k : unacked[j].topic # t
    BY <1>2, <2>1
  <2> QED
    BY <2>2, <2>3
<1>4. \A l \in 1..k : unacked[l].version \in Version
  BY <1>1
<1> QED
  BY <1>3, <1>4, Zenon

-----------------------------------------------------------------------------
\* The invariant: what is queued can be counted through, the connection and its
\* flag begin together, and the first task to be told is told once.
CmdsListed == Sequence(cmds)

Beginning ==
  /\ notify["start"] \in {0, 1}
  /\ notify["start"] = 1 => bridge = "connecting"
  /\ breaks = 0 => session # "broken"
  /\ breaks = 0 /\ session = "none" => bridge = "connecting" /\ notify["start"] = 0

IInv == TypeOK /\ CmdsListed /\ Beginning /\ QueuedOrRepublished

\* What SMT knows of a queue is what is in it.
LEMMA CmdsAppended ==
  ASSUME CmdsListed, NEW e, cmds' = cmds \o <<e>>
  PROVE  /\ CmdsListed'
         /\ DOMAIN cmds \subseteq DOMAIN cmds'
         /\ \A i \in DOMAIN cmds : cmds'[i] = cmds[i]
         /\ \E i \in DOMAIN cmds' : cmds'[i] = e
<1> DEFINE S == {cmds[i] : i \in DOMAIN cmds} \union {e}
<1>1. cmds \in Seq(S) /\ <<e>> \in Seq(S) /\ Len(<<e>>) = 1 /\ <<e>>[1] = e
  BY DEF CmdsListed, Sequence
<1>2. /\ cmds' \in Seq(S) /\ Len(cmds') = Len(cmds) + 1 /\ Len(cmds) \in Nat
      /\ \A i \in 1..Len(cmds) : cmds'[i] = cmds[i]
      /\ cmds'[Len(cmds) + 1] = e
  <2> HIDE DEF S
  <2> QED
    BY <1>1, Joined
<1>3. DOMAIN cmds = 1..Len(cmds) /\ DOMAIN cmds' = 1..Len(cmds')
  <2> HIDE DEF S
  <2> QED
    BY <1>1, <1>2
<1>4. CmdsListed'
  <2> HIDE DEF S
  <2>1. cmds' \in Seq(S)
    BY <1>2
  <2> QED
    BY <2>1, Listed DEF CmdsListed
<1> QED
  BY <1>2, <1>3, <1>4

LEMMA CmdsTaken ==
  ASSUME CmdsListed, cmds # <<>>, cmds' = Tail(cmds)
  PROVE  /\ CmdsListed'
         /\ \A i \in DOMAIN cmds : i = 1 \/ \E j \in DOMAIN cmds' : cmds'[j] = cmds[i]
         /\ Head(cmds) = cmds[1]
<1> DEFINE S == {cmds[i] : i \in DOMAIN cmds}
<1>1. cmds \in Seq(S)
  BY DEF CmdsListed, Sequence
<1>2. /\ cmds' \in Seq(S) /\ Len(cmds') = Len(cmds) - 1 /\ Len(cmds) \in Nat
      /\ \A j \in 1..Len(cmds') : cmds'[j] = cmds[j + 1]
      /\ Head(cmds) = cmds[1]
  <2> HIDE DEF S
  <2> QED
    BY <1>1, HeadTaken
<1>3. DOMAIN cmds = 1..Len(cmds) /\ DOMAIN cmds' = 1..Len(cmds')
  <2> HIDE DEF S
  <2> QED
    BY <1>1, <1>2
<1>4. CmdsListed'
  <2> HIDE DEF S
  <2>1. cmds' \in Seq(S)
    BY <1>2
  <2> QED
    BY <2>1, Listed DEF CmdsListed
<1> HIDE DEF S
<1>5. ASSUME NEW i \in DOMAIN cmds, i # 1
      PROVE  \E j \in DOMAIN cmds' : cmds'[j] = cmds[i]
  <2>1. i \in 1..Len(cmds) /\ i # 1 /\ Len(cmds') = Len(cmds) - 1 /\ Len(cmds) \in Nat
    BY <1>2, <1>3, <1>5
  <2>2. i - 1 \in 1..Len(cmds') /\ (i - 1) + 1 = i
    BY ONLY <2>1
  <2> QED
    BY <1>2, <1>3, <2>2
<1> QED
  BY <1>2, <1>4, <1>5

LEMMA NoCommandOrOne ==
  ASSUME NEW t
  PROVE  CommandOf(t) = <<>> \/ \E e : CommandOf(t) = <<e>>
BY Zenon DEF CommandOf

LEMMA CmdsPassedOn ==
  ASSUME CmdsListed, NEW t, cmds' = cmds \o CommandOf(t)
  PROVE  /\ CmdsListed'
         /\ DOMAIN cmds \subseteq DOMAIN cmds'
         /\ \A i \in DOMAIN cmds : cmds'[i] = cmds[i]
<1>1. CASE CommandOf(t) = <<>>
  <2>1. cmds' = cmds
    BY <1>1 DEF CmdsListed, Sequence
  <2> QED
    BY <2>1 DEF CmdsListed, Sequence
<1>2. CASE CommandOf(t) # <<>>
  <2>1. PICK e : CommandOf(t) = <<e>>
    BY <1>2, NoCommandOrOne
  <2> QED
    BY <2>1, CmdsAppended
<1> QED
  BY <1>1, <1>2

-----------------------------------------------------------------------------
\* Types are kept.

LEMMA SubscriptionTyped ==
  ASSUME NEW who \in {"start", "again"}
  PROVE  Subscription(who) = <<Subscribe>>
BY DEF Subscription

LEMMA QueueTyped ==
  ASSUME TypeOK, Room, NEW t \in Topic, Queue(t)
  PROVE  /\ channel' \in Seq(Requests) /\ Len(channel') <= Capacity
         /\ gaveUp' \subseteq Topic
<1>1. Request(t, latest[t]) \in Requests
  BY RequestTyped DEF TypeOK
<1>2. Len(channel') = Len(channel) + 1 /\ Len(channel) \in Nat /\ channel' \in Seq(Requests)
  <2> HIDE DEF Room
  <2> QED
    BY <1>1, Appended DEF TypeOK, Queue
<1>3. Capacity \in Nat
  BY LinkAssumption
<1> QED
  BY <1>2, <1>3 DEF Room, Queue, TypeOK

LEMMA ChangedTyped ==
  ASSUME TypeOK, NEW ts \in SUBSET Topic, Changed(ts)
  PROVE  latest' \in [Topic -> Version] /\ todo' \subseteq Topic
<1>1. \A t \in ts : latest[t] + 1 \in Version
  BY LinkAssumption DEF Changed, TypeOK, Version
<1> QED
  BY <1>1 DEF Changed, TypeOK

LEMMA TypesStep == TypeOK /\ Beginning /\ [Next]_vars => TypeOK'
<1> SUFFICES ASSUME TypeOK, Beginning, [Next]_vars PROVE TypeOK'
  OBVIOUS
<1> USE DEF linkVars, queueVars, bridgeVars, historyVars
<1>1. CASE BrokerStops
  BY <1>1 DEF BrokerStops, TypeOK
<1>2. CASE BrokerStarts
  BY <1>2 DEF BrokerStarts, TypeOK
<1>3. CASE Break
  <2>1. \A i \in DOMAIN unacked : unacked[i].version \in Version
    BY LinkAssumption DEF TypeOK, Requests, Subscribe, Request, Version
  <2>2. PICK k \in 0..Len(unacked) : retained' = [RetainedAfter(k) EXCEPT ![StateTopic] = 0]
    BY <1>3 DEF Break
  <2>3. RetainedAfter(k) \in [Topic -> Version] /\ 0 \in Version
    BY <2>1, RetainedTyped, LinkAssumption DEF Version
  <2>4. retained' \in [Topic -> Version]
    BY <2>2, <2>3
  <2>5. breaks' \in 0..MaxBreaks
    BY <1>3, LinkAssumption DEF Break, TypeOK
  <2> QED
    BY <1>3, <2>4, <2>5 DEF Break, TypeOK
<1>4. CASE Accept
  <2> DEFINE r == Head(unacked)
  <2>1. unacked' \in Seq(Requests) /\ r \in Requests
    BY <1>4, HeadTaken DEF Accept, TypeOK
  <2>2. subscribed' \in BOOLEAN
    BY <1>4, Zenon DEF Accept, TypeOK
  <2>3. retained' \in [Topic -> Version]
    BY <1>4, <2>1 DEF Accept, TypeOK, Requests
  <2> QED
    BY <1>4, <2>1, <2>2, <2>3 DEF Accept, TypeOK
<1>5. CASE ClientPublishes
  BY <1>5 DEF ClientPublishes, TypeOK
<1>6. CASE Send
  <2>1. channel' \in Seq(Requests) /\ Head(channel) \in Requests /\ Len(channel') <= Capacity
    <3>1. Len(channel') = Len(channel) - 1 /\ Len(channel) \in Nat
          /\ channel' \in Seq(Requests) /\ Head(channel) \in Requests
      BY <1>6, HeadTaken DEF Send, TypeOK
    <3> QED
      BY <3>1, LinkAssumption DEF TypeOK
  <2>2. unacked' \in Seq(Requests)
    BY <1>6, <2>1, Appended DEF Send, TypeOK
  <2> QED
    BY <1>6, <2>1, <2>2 DEF Send, TypeOK
<1>7. CASE Notice
  <2>1. CASE UNCHANGED <<channel, unacked>>
    BY <1>7, <2>1 DEF Notice, TypeOK
  <2>2. CASE unacked' = unacked \o channel /\ channel' = <<>>
    <3>1. unacked' \in Seq(Requests)
      BY <2>2, Joined DEF TypeOK
    <3>2. channel' \in Seq(Requests) /\ Len(channel') <= Capacity
      BY <2>2, LinkAssumption
    <3> QED
      BY <1>7, <3>1, <3>2 DEF Notice, TypeOK
  <2> QED
    BY <1>7, <2>1, <2>2 DEF Notice
<1>8. CASE ConnectFails
  BY <1>8 DEF ConnectFails, TypeOK
<1>9. CASE Wake
  BY <1>9 DEF Wake, TypeOK
<1>10. CASE Connect
  <2>1. unacked' \in Seq(Requests)
    <3>1. unacked' = unacked \/ unacked' = <<>>
      BY <1>10 DEF Connect
    <3>2. unacked \in Seq(Requests) /\ <<>> \in Seq(Requests)
      BY DEF TypeOK
    <3> QED
      BY <3>1, <3>2, Zenon
  <2>2. notify' \in [{"start", "again"} -> Nat]
    <3>1. \E k \in {"start", "again"} : notify' = [notify EXCEPT ![k] = @ + 1]
      BY <1>10, Zenon DEF Connect
    <3>2. \A k \in {"start", "again"} : notify[k] + 1 \in Nat
      BY DEF TypeOK
    <3> QED
      BY <3>1, <3>2 DEF TypeOK
  <2> QED
    BY <1>10, <2>1, <2>2 DEF Connect, TypeOK
<1>11. ASSUME NEW who \in {"start", "again"}, SubscribeAndNotify(who) PROVE TypeOK'
  <2>1. channel' = channel \o <<Subscribe>> /\ Len(channel) < Capacity
    BY <1>11, SubscriptionTyped DEF SubscribeAndNotify, Room
  <2>2. channel' \in Seq(Requests) /\ Len(channel') <= Capacity
    <3>1. channel' = Append(channel, Subscribe) /\ Subscribe \in Requests
      BY <2>1, RequestTyped DEF TypeOK
    <3>2. Len(channel') = Len(channel) + 1 /\ Len(channel) \in Nat /\ channel' \in Seq(Requests)
      BY <3>1, Appended DEF TypeOK
    <3> QED
      BY <2>1, <3>2, LinkAssumption
  <2>3. notify' \in [{"start", "again"} -> Nat]
    BY <1>11 DEF SubscribeAndNotify, TypeOK
  <2>4. /\ bridge' \in {"connecting", "opening", "running"}
        /\ bridge' # "running" => bridge # "running"
    BY <1>11 DEF SubscribeAndNotify, TypeOK, Beginning
  <2> QED
    BY <1>11, <2>2, <2>3, <2>4 DEF SubscribeAndNotify, TypeOK
<1>12. CASE Opened
  BY <1>12 DEF Opened, TypeOK, Republished
<1>13. CASE Publish
  <2>1. PICK t \in todo : /\ todo' = todo \ {t}
                          /\ \/ Room /\ Queue(t) /\ UNCHANGED waiting
                             \/ ~Room /\ connected /\ waiting' = t /\ UNCHANGED <<channel, gaveUp>>
                             \/ ~Room /\ ~connected /\ UNCHANGED <<waiting, channel, gaveUp>>
    BY <1>13 DEF Publish
  <2>2. t \in Topic /\ bridge = "running"
    BY <2>1 DEF TypeOK
  <2>3. channel' \in Seq(Requests) /\ Len(channel') <= Capacity /\ gaveUp' \subseteq Topic
    BY <2>1, <2>2, QueueTyped DEF TypeOK
  <2> QED
    BY <1>13, <2>1, <2>2, <2>3 DEF Publish, TypeOK
<1>14. CASE PublishWaited
  <2>1. channel' \in Seq(Requests) /\ Len(channel') <= Capacity /\ gaveUp' \subseteq Topic
    BY <1>14, QueueTyped DEF PublishWaited, TypeOK
  <2> QED
    BY <1>14, <2>1 DEF PublishWaited, TypeOK
<1>15. CASE PublishTimesOut
  BY <1>15 DEF PublishTimesOut, TimesOut, TypeOK
<1>16. CASE HandleCommand
  <2>1. latest' \in [Topic -> Version] /\ todo' \subseteq Topic
    <3>1. ASSUME NEW ts \in SUBSET Topic, Changed(ts)
          PROVE latest' \in [Topic -> Version] /\ todo' \subseteq Topic
      BY <3>1, ChangedTyped
    <3>2. {InfoTopic} \subseteq Topic /\ Republished \subseteq Topic
          /\ \A n \in Name : DeviceTopics(n) \subseteq Topic
      BY TopicFacts DEF Republished
    <3> QED
      BY <1>16, <3>1, <3>2 DEF HandleCommand, TypeOK
  <2> QED
    BY <1>16, <2>1 DEF HandleCommand, TypeOK, Idle
<1>17. CASE Report
  <2>1. latest' \in [Topic -> Version] /\ todo' \subseteq Topic
    BY <1>17, ChangedTyped, TopicFacts DEF Report
  <2> QED
    BY <1>17, <2>1 DEF Report, TypeOK, Idle
<1>18. CASE UNCHANGED vars
  BY <1>18 DEF vars, TypeOK
<1> QED
  BY <1>1, <1>2, <1>3, <1>4, <1>5, <1>6, <1>7, <1>8, <1>9, <1>10, <1>11, <1>12, <1>13,
     <1>14, <1>15, <1>16, <1>17, <1>18 DEF Next, EventLoop, MainLoop

LEMMA CmdsStep == TypeOK /\ CmdsListed /\ [Next]_vars => CmdsListed'
<1> SUFFICES ASSUME TypeOK, CmdsListed, [Next]_vars PROVE CmdsListed'
  OBVIOUS
<1>1. CASE Accept
  <2>1. PICK t : cmds' = cmds \/ cmds' = cmds \o CommandOf(t) \/ cmds' = cmds \o <<>>
    BY <1>1, Zenon DEF Accept
  <2>2. cmds' = cmds \o <<>> => cmds' = cmds
    BY DEF CmdsListed, Sequence
  <2> QED
    BY <2>1, <2>2, CmdsPassedOn DEF CmdsListed
<1>2. CASE ClientPublishes
  <2>1. PICK t : cmds' = cmds \o CommandOf(t)
    BY <1>2, Zenon DEF ClientPublishes
  <2> QED
    BY <2>1, CmdsPassedOn
<1>3. ASSUME NEW who \in {"start", "again"}, SubscribeAndNotify(who) PROVE CmdsListed'
  <2>1. CASE who = "start"
    <3>1. cmds' = cmds
      BY <1>3, <2>1 DEF SubscribeAndNotify, Told, CmdsListed, Sequence
    <3> QED
      BY <3>1 DEF CmdsListed
  <2>2. CASE who # "start"
    <3>1. cmds' = cmds \o <<Connected>>
      BY <1>3, <2>2 DEF SubscribeAndNotify, Told
    <3> QED
      BY <3>1, CmdsAppended
  <2> QED
    BY <2>1, <2>2
<1>4. CASE HandleCommand
  BY <1>4, CmdsTaken DEF HandleCommand
<1>5. CASE UNCHANGED cmds
  BY <1>5 DEF CmdsListed
<1>6. \/ Accept \/ ClientPublishes \/ HandleCommand
      \/ \E who \in {"start", "again"} : SubscribeAndNotify(who)
      \/ UNCHANGED cmds
  BY DEF Next, EventLoop, MainLoop, vars, linkVars, queueVars, bridgeVars, historyVars,
         BrokerStops, BrokerStarts, Break, Send, Notice, ConnectFails, Wake, Connect,
         Opened, Publish, PublishWaited, PublishTimesOut, Report
<1> QED
  BY <1>1, <1>2, <1>3, <1>4, <1>5, <1>6

LEMMA BeginningStep == TypeOK /\ Beginning /\ [Next]_vars => Beginning'
<1> SUFFICES ASSUME TypeOK, Beginning, [Next]_vars PROVE Beginning'
  OBVIOUS
<1> USE DEF linkVars, queueVars, bridgeVars, historyVars
<1>1. CASE Break
  <2>1. breaks \in Nat /\ breaks' = breaks + 1
    BY <1>1, LinkAssumption DEF Break, TypeOK
  <2> QED
    BY <1>1, <2>1 DEF Break, Beginning
<1>2. CASE Connect
  <2>1. CASE breaks = 0
    BY <1>2, <2>1 DEF Connect, TypeOK, Beginning
  <2>2. CASE breaks # 0
    BY <1>2, <2>2 DEF Connect, TypeOK, Beginning
  <2> QED
    BY <2>1, <2>2
<1>3. ASSUME NEW who \in {"start", "again"}, SubscribeAndNotify(who) PROVE Beginning'
  <2>1. CASE who = "start"
    <3>1. notify["start"] = 1 /\ notify'["start"] = 0
      BY <1>3, <2>1 DEF SubscribeAndNotify, TypeOK, Beginning
    <3>2. ~ (breaks = 0 /\ session = "none")
      BY <3>1 DEF Beginning
    <3> QED
      BY <1>3, <3>1, <3>2 DEF SubscribeAndNotify, Beginning
  <2>2. CASE who # "start"
    <3>1. notify'["start"] = notify["start"] /\ bridge' = bridge
      BY <1>3, <2>2 DEF SubscribeAndNotify, TypeOK
    <3> QED
      BY <1>3, <3>1 DEF SubscribeAndNotify, Beginning
  <2> QED
    BY <2>1, <2>2
<1>4. CASE Notice
  BY <1>4 DEF Notice, Beginning
<1>5. CASE Opened
  BY <1>5 DEF Opened, Beginning
<1>6. CASE UNCHANGED <<session, breaks, notify, bridge>>
  BY <1>6 DEF Beginning
<1>7. \/ Break \/ Connect \/ Notice \/ Opened
      \/ \E who \in {"start", "again"} : SubscribeAndNotify(who)
      \/ UNCHANGED <<session, breaks, notify, bridge>>
  BY DEF Next, EventLoop, MainLoop, vars,
         BrokerStops, BrokerStarts, Accept, ClientPublishes, Send, ConnectFails, Wake,
         Publish, PublishWaited, PublishTimesOut, HandleCommand, Report
<1> QED
  BY <1>1, <1>2, <1>3, <1>4, <1>5, <1>6, <1>7

-----------------------------------------------------------------------------
\* No topic is left behind.

LEMMA SentTyped ==
  ASSUME TypeOK
  PROVE  /\ Sent \in Seq(Requests) /\ Len(Sent) \in Nat
         /\ DOMAIN Sent = 1..Len(Sent)
         /\ Len(Sent) = Len(unacked) + Len(channel)
         /\ Len(unacked) \in Nat /\ Len(channel) \in Nat
         /\ \A i \in 1..Len(unacked) : Sent[i] = unacked[i]
         /\ \A i \in 1..Len(channel) : Sent[Len(unacked) + i] = channel[i]
<1>1. unacked \in Seq(Requests) /\ channel \in Seq(Requests)
  BY DEF TypeOK
<1>2. /\ Sent \in Seq(Requests)
      /\ Len(Sent) = Len(unacked) + Len(channel)
      /\ \A i \in 1..Len(unacked) : Sent[i] = unacked[i]
      /\ \A i \in 1..Len(channel) : Sent[Len(unacked) + i] = channel[i]
  BY <1>1, Joined DEF Sent
<1> QED
  BY <1>1, <1>2

\* A topic stays fresh while nothing of it changes.
LEMMA FreshKept ==
  ASSUME NEW t \in Topic, Fresh(t), Sent' = Sent,
         retained'[t] = retained[t], latest'[t] = latest[t]
  PROVE  Fresh(t)'
BY DEF Fresh, Request

\* So it does when a request of another topic is queued, and it becomes fresh
\* when one of its own is.
LEMMA FreshQueued ==
  ASSUME TypeOK, NEW u \in Topic, Queue(u), UNCHANGED <<unacked, retained, latest>>
  PROVE  /\ Fresh(u)'
         /\ \A t \in Topic : t # u /\ Fresh(t) => Fresh(t)'
<1> DEFINE r == Request(u, latest[u])
           n == Len(Sent)
<1>1. /\ Sent' \in Seq(Requests) /\ DOMAIN Sent' = 1..n + 1 /\ n \in Nat
      /\ DOMAIN Sent = 1..n
      /\ \A i \in 1..n : (Sent')[i] = Sent[i]
      /\ (Sent')[n + 1] = r
  <2>1. r \in Requests
    BY RequestTyped DEF TypeOK
  <2>2. channel' = Append(channel, r)
    BY DEF Queue
  <2>3. unacked \in Seq(Requests) /\ channel \in Seq(Requests)
    BY DEF TypeOK
  <2> HIDE DEF r
  <2>4. Sent' = Append(Sent, r)
    BY <2>1, <2>2, <2>3 DEF Sent
  <2> QED
    BY <2>1, <2>4, SentTyped, Appended
<1>2. r.topic = u /\ r.version = latest[u]
  BY DEF Request
<1>3. Fresh(u)'
  <2>1. n + 1 \in DOMAIN Sent' /\ \A j \in DOMAIN Sent' : ~ (j > n + 1)
    BY <1>1
  <2>2. (Sent')[n + 1] = Request(u, latest'[u])
    BY <1>1
  <2> HIDE DEF r, n
  <2> QED
    BY <2>1, <2>2 DEF Fresh
<1>4. ASSUME NEW t \in Topic, t # u, Fresh(t)
      PROVE  Fresh(t)'
  <2> HIDE DEF r, n
  <2>1. ASSUME NEW i \in DOMAIN Sent', ~ (i \in DOMAIN Sent)
        PROVE (Sent')[i].topic # t
    BY <1>1, <1>2, <1>4, <2>1
  <2>2. \A i \in DOMAIN Sent : i \in DOMAIN Sent' /\ (Sent')[i] = Sent[i]
    BY <1>1
  <2> QED
    BY <1>4, <2>1, <2>2 DEF Fresh
<1> QED
  BY <1>3, <1>4

\* The broker takes the first of what is sent.
LEMMA FreshAccepted ==
  ASSUME TypeOK, Accept, NEW t \in Topic, Fresh(t)
  PROVE  Fresh(t)'
<1> DEFINE r == Head(unacked)
           n == Len(Sent)
<1>1. /\ DOMAIN Sent = 1..n /\ n \in Nat /\ n >= 1
      /\ DOMAIN Sent' = 1..n - 1
      /\ \A i \in 1..n - 1 : (Sent')[i] = Sent[i + 1]
      /\ Sent[1] = r /\ r \in Requests
  <2>1. unacked \in Seq(Requests) /\ channel \in Seq(Requests) /\ unacked # <<>>
        /\ unacked' = Tail(unacked) /\ channel' = channel
    BY DEF TypeOK, Accept
  <2>2. Sent' = Tail(Sent) /\ Sent # <<>> /\ Head(Sent) = r
    BY <2>1 DEF Sent
  <2>3. Sent \in Seq(Requests) /\ DOMAIN Sent = 1..n
    BY SentTyped
  <2>4. n \in Nat /\ n >= 1 /\ Head(Sent) = Sent[1] /\ Head(Sent) \in Requests
        /\ Sent' \in Seq(Requests) /\ Len(Sent') = n - 1
        /\ \A j \in 1..Len(Sent') : (Sent')[j] = Sent[j + 1]
    BY <2>2, <2>3, HeadTaken
  <2> QED
    BY <2>2, <2>3, <2>4
<1>2. latest' = latest
  BY DEF Accept, bridgeVars
<1>3. \A i \in DOMAIN Sent' : i + 1 \in DOMAIN Sent /\ (Sent')[i] = Sent[i + 1]
  BY <1>1
<1>4. \A i \in DOMAIN Sent : i # 1 => i - 1 \in DOMAIN Sent' /\ (Sent')[i - 1] = Sent[i]
  BY <1>1
<1>5. /\ r.topic = t => retained'[t] = r.version
      /\ r.topic # t => retained'[t] = retained[t]
  <2>1. CASE r.topic = t
    <3>1. r # Subscribe
      BY <2>1, TopicFacts DEF Subscribe, Request
    <3> QED
      BY <2>1, <3>1 DEF Accept, TypeOK
  <2>2. CASE r.topic # t
    BY <2>2 DEF Accept, TypeOK
  <2> QED
    BY <2>1, <2>2
<1> DEFINE Older(q, i) == q[i].topic = t /\ q[i].version # latest[t]
<1>6. \A i \in DOMAIN Sent' : Older(Sent', i) <=> Older(Sent, i + 1)
  BY <1>3
<1> HIDE DEF r, n
<1>7. CASE retained[t] = latest[t] /\ \A i \in DOMAIN Sent : ~ Older(Sent, i)
  <2>1. \A i \in DOMAIN Sent' : ~ Older(Sent', i)
    BY <1>3, <1>6, <1>7
  <2>2. 1 \in DOMAIN Sent /\ ~ Older(Sent, 1)
    BY <1>1, <1>7
  <2>3. retained'[t] = latest[t]
    BY <1>1, <1>5, <1>7, <2>2
  <2> QED
    BY <1>2, <2>1, <2>3 DEF Fresh
<1>8. ASSUME NEW i \in DOMAIN Sent, Sent[i] = Request(t, latest[t]),
             \A j \in DOMAIN Sent : j > i => ~ Older(Sent, j)
      PROVE  Fresh(t)'
  <2>1. CASE i = 1
    <3>1. r.topic = t /\ r.version = latest[t]
      BY <1>1, <1>8, <2>1 DEF Request
    <3>2. \A j \in DOMAIN Sent' : j + 1 > i
      BY <1>1, <2>1
    <3>3. \A j \in DOMAIN Sent' : ~ Older(Sent', j)
      BY <1>3, <1>6, <1>8, <3>2
    <3>4. retained'[t] = latest[t]
      BY <1>5, <3>1
    <3> QED
      BY <1>2, <3>3, <3>4 DEF Fresh
  <2>2. CASE i # 1
    <3>1. i - 1 \in DOMAIN Sent' /\ (Sent')[i - 1] = Request(t, latest'[t])
      BY <1>2, <1>4, <1>8, <2>2
    <3>2. \A j \in DOMAIN Sent' : j > i - 1 => j + 1 > i
      BY <1>1
    <3>3. \A j \in DOMAIN Sent' : j > i - 1 => ~ Older(Sent', j)
      BY <1>3, <1>6, <1>8, <3>2
    <3> QED
      BY <1>2, <3>1, <3>3 DEF Fresh
  <2> QED
    BY <2>1, <2>2
<1> QED
  BY <1>7, <1>8 DEF Fresh

\* A notice that is due stays due while commands are only added.
LEMMA NoticeStays ==
  ASSUME CmdsListed, NEW t, cmds' = cmds \/ cmds' = cmds \o CommandOf(t) \/ cmds' = cmds \o <<>>,
         notify' = notify, ~NoticeDue'
  PROVE  ~NoticeDue
<1>1. \A i \in DOMAIN cmds : i \in DOMAIN cmds' /\ cmds'[i] = cmds[i]
  <2>1. cmds' = cmds \o <<>> => cmds' = cmds
    BY DEF CmdsListed, Sequence
  <2>2. CASE cmds' = cmds
    BY <2>2
  <2>3. CASE cmds' = cmds \o CommandOf(t)
    BY <2>3, CmdsPassedOn
  <2> QED
    BY <2>1, <2>2, <2>3
<1>2. ~NoticeDue' => \A i \in DOMAIN cmds : cmds[i] # Connected
  BY <1>1 DEF NoticeDue, Connected
<1> QED
  BY <1>2 DEF NoticeDue

\* A handler that begins with nothing to publish leaves to its publishes what
\* it changes, and the rest as it was.
LEMMA LeftToPublish ==
  ASSUME QueuedOrRepublished, Idle, session = "open", ~NoticeDue,
         UNCHANGED <<unacked, channel, retained, gaveUp>>,
         \A t \in Topic \ todo' : latest'[t] = latest[t],
         NEW t \in Topic, latest'[t] > 0
  PROVE  Fresh(t)' \/ t \in todo' \union gaveUp'
<1> SUFFICES ASSUME t \notin todo' PROVE Fresh(t)' \/ t \in gaveUp'
  OBVIOUS
<1>1. latest'[t] = latest[t] /\ retained'[t] = retained[t] /\ Sent' = Sent
  BY DEF Sent
<1>2. t # NoTopic
  BY LinkAssumption
<1>3. Fresh(t) \/ t \in gaveUp
  BY <1>1, <1>2 DEF QueuedOrRepublished, Idle
<1> QED
  BY <1>1, <1>3, FreshKept

LEMMA QueuedStep ==
  TypeOK /\ CmdsListed /\ Beginning /\ QueuedOrRepublished /\ [Next]_vars => QueuedOrRepublished'
<1> SUFFICES ASSUME TypeOK, CmdsListed, Beginning, QueuedOrRepublished, [Next]_vars,
                    bridge' = "running", session' = "open", ~NoticeDue',
                    NEW t \in Topic, latest'[t] > 0
             PROVE  Fresh(t)' \/ t \in todo' \union gaveUp' \/ waiting' = t
  BY DEF QueuedOrRepublished
<1> USE DEF linkVars, queueVars, bridgeVars, historyVars
<1>1. ASSUME UNCHANGED <<session, bridge, latest, todo, waiting, gaveUp>>, ~NoticeDue,
             Fresh(t) => Fresh(t)'
      PROVE  Fresh(t)' \/ t \in todo' \union gaveUp' \/ waiting' = t
  BY <1>1 DEF QueuedOrRepublished
<1>2. ASSUME UNCHANGED <<unacked, channel, retained, latest>>, Fresh(t)
      PROVE  Fresh(t)'
  BY <1>2, FreshKept DEF Sent
<1>3. UNCHANGED <<notify, cmds>> => ~NoticeDue
  BY DEF NoticeDue
<1>4. CASE BrokerStops \/ BrokerStarts \/ Wake \/ ConnectFails
  BY <1>1, <1>2, <1>3, <1>4 DEF BrokerStops, BrokerStarts, Wake, ConnectFails, TypeOK
<1>5. CASE Break \/ Notice
  BY <1>5 DEF Break, Notice
<1>6. CASE Accept
  <2>1. PICK u : cmds' = cmds \/ cmds' = cmds \o CommandOf(u) \/ cmds' = cmds \o <<>>
    BY <1>6, Zenon DEF Accept
  <2>2. ~NoticeDue
    BY <1>6, <2>1, NoticeStays DEF Accept
  <2> QED
    BY <1>1, <1>6, <2>2, FreshAccepted DEF Accept
<1>7. CASE ClientPublishes
  <2>1. PICK u : cmds' = cmds \o CommandOf(u)
    BY <1>7, Zenon DEF ClientPublishes
  <2>2. ~NoticeDue
    BY <1>7, <2>1, NoticeStays DEF ClientPublishes
  <2> QED
    BY <1>1, <1>2, <1>7, <2>2 DEF ClientPublishes
<1>8. CASE Send
  <2>1. Sent' = Sent
    BY <1>8 DEF Send, Sent, TypeOK
  <2> QED
    BY <1>1, <1>3, <1>8, <2>1, FreshKept DEF Send
<1>9. CASE Connect
  <2>1. PICK k \in {"start", "again"} : notify' = [notify EXCEPT ![k] = @ + 1]
    BY <1>9, Zenon DEF Connect
  <2>2. k \in DOMAIN notify' /\ notify'[k] > 0
    BY <2>1 DEF TypeOK
  <2> QED
    BY <2>2 DEF NoticeDue
<1>10. ASSUME NEW who \in {"start", "again"}, SubscribeAndNotify(who)
       PROVE  Fresh(t)' \/ t \in todo' \union gaveUp' \/ waiting' = t
  <2>1. who # "start"
    BY <1>10 DEF SubscribeAndNotify
  <2>2. cmds' = cmds \o <<Connected>>
    BY <1>10, <2>1 DEF SubscribeAndNotify, Told
  <2> QED
    BY <2>2, CmdsAppended DEF NoticeDue, Connected
<1>11. CASE Opened
  BY <1>11 DEF Opened, Republished
<1>12. CASE Publish
  <2>1. PICK u \in todo : /\ todo' = todo \ {u}
                          /\ \/ Room /\ Queue(u) /\ UNCHANGED waiting
                             \/ ~Room /\ connected /\ waiting' = u /\ UNCHANGED <<channel, gaveUp>>
                             \/ ~Room /\ ~connected /\ UNCHANGED <<waiting, channel, gaveUp>>
    BY <1>12 DEF Publish
  <2>2. /\ waiting = NoTopic /\ u \in Topic
        /\ UNCHANGED <<session, bridge, latest, notify, cmds, unacked, retained, connected>>
    BY <1>12, <2>1 DEF Publish, TypeOK
  <2>3. t # NoTopic
    BY LinkAssumption
  <2>4. Fresh(t) \/ t \in todo \union gaveUp
    BY <1>3, <2>2, <2>3 DEF QueuedOrRepublished
  <2>5. CASE Room /\ Queue(u)
    <3>1. Fresh(u)' /\ (t # u /\ Fresh(t) => Fresh(t)')
      BY <2>2, <2>5, FreshQueued
    <3>2. gaveUp' = gaveUp \ {u}
      BY <2>5 DEF Queue
    <3> QED
      BY <2>1, <2>4, <3>1, <3>2
  <2>6. CASE waiting' = u /\ UNCHANGED <<channel, gaveUp>>
    BY <1>2, <2>1, <2>2, <2>4, <2>6
  <2>7. CASE ~connected
    BY <2>2, <2>7 DEF TypeOK
  <2> QED
    BY <2>1, <2>5, <2>6, <2>7
<1>13. CASE PublishWaited
  <2>1. PICK w \in Topic : w = waiting
    BY <1>13 DEF PublishWaited, TypeOK
  <2>2. /\ Queue(w)
        /\ UNCHANGED <<session, bridge, latest, notify, cmds, unacked, retained, todo>>
    BY <1>13, <2>1 DEF PublishWaited, Queue
  <2>3. Fresh(t) \/ t \in todo \union gaveUp \/ w = t
    BY <1>3, <2>1, <2>2 DEF QueuedOrRepublished
  <2>4. Fresh(w)' /\ (t # w /\ Fresh(t) => Fresh(t)')
    BY <2>2, FreshQueued
  <2>5. gaveUp' = gaveUp \ {w} /\ todo' = todo
    BY <2>2 DEF Queue
  <2> QED
    BY <2>3, <2>4, <2>5
<1>14. CASE PublishTimesOut
  <2>1. ~NoticeDue /\ session = "open" /\ bridge = "running"
    BY <1>3, <1>14 DEF PublishTimesOut
  <2>2. gaveUp' = gaveUp \union {waiting}
    BY <1>14, <2>1 DEF PublishTimesOut
  <2>3. Fresh(t) \/ t \in todo \union gaveUp \/ waiting = t
    BY <1>14, <2>1 DEF PublishTimesOut, QueuedOrRepublished
  <2> QED
    BY <1>2, <1>14, <2>2, <2>3 DEF PublishTimesOut
<1>15. CASE Report
  <2>1. ~NoticeDue /\ Idle /\ session = "open"
        /\ UNCHANGED <<unacked, channel, retained, gaveUp>>
    BY <1>3, <1>15 DEF Report
  <2>2. \A u \in Topic \ todo' : latest'[u] = latest[u]
    BY <1>15 DEF Report, Changed
  <2> QED
    BY <2>1, <2>2, LeftToPublish
<1>16. CASE HandleCommand
  <2>1. /\ Idle /\ session = "open" /\ cmds # <<>> /\ cmds' = Tail(cmds)
        /\ UNCHANGED <<unacked, channel, retained, gaveUp, notify>>
    BY <1>16 DEF HandleCommand
  <2>2. CASE Head(cmds) = Connected
    <3>1. todo' = Republished /\ latest' = latest
      BY <1>16, <2>2 DEF HandleCommand, Connected
    <3> QED
      BY <3>1 DEF Republished
  <2>3. CASE Head(cmds) # Connected
    <3>1. ~NoticeDue
      <4>1. \A i \in DOMAIN cmds : i = 1 \/ \E j \in DOMAIN cmds' : cmds'[j] = cmds[i]
        BY <2>1, CmdsTaken
      <4>2. cmds[1] # Connected
        BY <2>1, <2>3, CmdsTaken
      <4> QED
        BY <2>1, <4>1, <4>2 DEF NoticeDue
    <3>2. \A u \in Topic \ todo' : latest'[u] = latest[u]
      BY <1>16, <2>3 DEF HandleCommand, Changed
    <3> QED
      BY <2>1, <3>1, <3>2, LeftToPublish
  <2> QED
    BY <2>2, <2>3
<1>17. CASE UNCHANGED vars
  BY <1>1, <1>2, <1>3, <1>17 DEF vars
<1> QED
  BY <1>4, <1>5, <1>6, <1>7, <1>8, <1>9, <1>10, <1>11, <1>12, <1>13,
     <1>14, <1>15, <1>16, <1>17 DEF Next, EventLoop, MainLoop

-----------------------------------------------------------------------------
LEMMA InvInit == Init => IInv
<1> SUFFICES ASSUME Init PROVE IInv
  OBVIOUS
<1>1. CmdsListed
  BY DEF Init, CmdsListed, Sequence
<1>2. Beginning /\ QueuedOrRepublished
  BY DEF Init, Beginning, QueuedOrRepublished
<1> QED
  BY <1>1, <1>2, TypesInit DEF IInv

LEMMA InvHolds == Spec => []IInv
<1>1. IInv /\ [Next]_vars => IInv'
  BY TypesStep, CmdsStep, BeginningStep, QueuedStep DEF IInv
<1> QED
  BY <1>1, InvInit, PTL DEF Spec

\* For any names, states, capacities and numbers of outages, the channel keeps
\* to its capacity, and the flag agrees with the connection (mqtt/mod.rs
\* LinkState, run_event_loop).
THEOREM LinkTypes == Spec => []TypeOK
<1>1. IInv => TypeOK
  BY DEF IInv
<1> QED
  BY <1>1, InvHolds, PTL

\* For any of them, a topic whose latest version is neither at the broker nor
\* on its way is published by the present handler or by the republish that
\* follows an outage, unless its publish timed out on a connection that was up
\* (mqtt/mod.rs publish, subscribe_and_notify; bridge.rs republish_mqtt_state).
THEOREM NothingLeftBehind == Spec => []QueuedOrRepublished
<1>1. IInv => QueuedOrRepublished
  BY DEF IInv
<1> QED
  BY <1>1, InvHolds, PTL

-----------------------------------------------------------------------------
\* What clients ask for.
Command == {[verb |-> "permit_join", name |-> NoTopic]} \union [verb : {"set", "get"}, name : Name]

\* What is on its way to the main loop, and has been there, are such commands.
CmdsTyped ==
  /\ cmds \in Seq(Command \union {Connected})
  /\ handled \in Seq(Command) /\ asked \in Seq(Command)

AskedInv == CmdsTyped /\ handled \o Select(cmds, Command) = asked

LEMMA CommandsDiffer == Connected \notin Command
BY DEF Connected, Command

LEMMA FlattenedAre ==
  ASSUME Unambiguous
  PROVE  Flattened \intersect Verb = {}
<1> SUFFICES ASSUME NEW a \in Flattened, a \in Verb PROVE FALSE
  OBVIOUS
<1>1. a = <<"set">> \/ a = <<"get">>
  BY DEF Verb
<1>2. PICK k \in DOMAIN Fields : a = <<k>> \/ \E x \in Fields[k] : a = <<k, x>>
  BY DEF Flattened
<1>3. Len(a) = 1 /\ a[1] \in {"set", "get"}
  BY <1>1
<1>4. a = <<k>>
  BY <1>2, <1>3
<1> QED
  BY <1>3, <1>4 DEF Unambiguous

\* Nothing the bridge publishes comes back as a command.
LEMMA NoEcho ==
  ASSUME Unambiguous, NEW t \in Topic
  PROVE  CommandOf(t) = <<>>
<1>1. CASE t \in BridgeTopics
  <2>1. t[1] = <<"bridge">> /\ t # PermitTopic
    <3>1. CASE t = StateTopic
      <4>1. t[1] = <<"bridge">> /\ Len(t) = 2 /\ Len(PermitTopic) = 3
        BY <3>1 DEF StateTopic, PermitTopic
      <4> QED BY <4>1
    <3>2. CASE t = InfoTopic
      <4>1. t[1] = <<"bridge">> /\ Len(t) = 2 /\ Len(PermitTopic) = 3
        BY <3>2 DEF InfoTopic, PermitTopic
      <4> QED BY <4>1
    <3> QED BY <1>1, <3>1, <3>2 DEF BridgeTopics
  <2> QED BY <2>1 DEF CommandOf
<1>2. ASSUME NEW n \in Name, t \in DeviceTopics(n)
      PROVE  CommandOf(t) = <<>>
  <2>1. t = n \/ \E a \in Flattened : t = Append(n, a)
    BY <1>2 DEF DeviceTopics
  <2>2. /\ Sequence(n) /\ n # <<>> /\ n[1] # <<"bridge">>
        /\ Len(n) >= 2 => n[Len(n)] \notin Verb
        /\ Len(n) >= 3 => n[Len(n) - 1] \notin Verb
    BY DEF Unambiguous
  <2>3. PermitTopic[1] = <<"bridge">>
    BY DEF PermitTopic
  <2>4. CASE t = n
    <3>1. VerbAt(t) = 0
      BY <2>2, <2>4 DEF VerbAt
    <3> QED BY <2>2, <2>3, <2>4, <3>1 DEF CommandOf
  <2>5. ASSUME NEW a \in Flattened, t = Append(n, a)
        PROVE  CommandOf(t) = <<>>
    <3> DEFINE S == {n[i] : i \in DOMAIN n} \union {a}
    <3>1. n \in Seq(S) /\ a \in S
      BY <2>2 DEF Sequence
    <3> HIDE DEF S
    <3>2. /\ Len(n) \in Nat /\ Len(n) >= 1 /\ Len(t) = Len(n) + 1
          /\ \A i \in 1..Len(n) : t[i] = n[i]
          /\ t[Len(n) + 1] = a
      BY <2>2, <2>5, <3>1, AppendIs
    <3>3. a \notin Verb
      BY <2>5, FlattenedAre
    <3>4. t[1] = n[1] /\ t[Len(t)] = a /\ t[Len(t) - 1] = n[Len(n)]
      BY <3>2
    <3>5. Len(t) >= 3 => t[Len(t) - 1] \notin Verb
      BY <2>2, <3>2, <3>4
    <3>6. VerbAt(t) = 0
      BY <3>3, <3>4, <3>5 DEF VerbAt
    <3>7. t[1] # <<"bridge">>
      BY <2>2, <3>4
    <3> QED BY <2>3, <3>6, <3>7 DEF CommandOf
  <2> QED BY <2>1, <2>4, <2>5
<1> QED
  BY <1>1, <1>2 DEF Topic

\* A client's command is understood as it was meant.
LEMMA Understood ==
  ASSUME Unambiguous, NEW n \in Name, NEW verb \in {"set", "get"},
         NEW suffix \in { <<>>, << <<"state">> >> }
  PROVE  CommandOf(n \o << <<verb>> >> \o suffix) = << [verb |-> verb, name |-> n] >>
<1> DEFINE S == {n[i] : i \in DOMAIN n} \union {<<verb>>, <<"state">>}
           t == n \o << <<verb>> >> \o suffix
           v == Len(n) + 1
<1>1. Sequence(n) /\ n # <<>> /\ n[1] # <<"bridge">>
  BY DEF Unambiguous
<1>2. n \in Seq(S) /\ << <<verb>> >> \in Seq(S) /\ suffix \in Seq(S) /\ <<verb>> \in S
  <2>1. <<verb>> \in S /\ <<"state">> \in S
    OBVIOUS
  <2>2. n \in Seq(S)
    BY <1>1 DEF Sequence
  <2> HIDE DEF S
  <2>3. << <<verb>> >> \in Seq(S)
    BY <2>1
  <2>4. CASE suffix = <<>>
    BY <2>1, <2>2, <2>3, <2>4
  <2>5. CASE suffix = << <<"state">> >>
    <3>1. << <<"state">> >> \in Seq(S)
      BY <2>1
    <3> QED BY <2>1, <2>2, <2>3, <2>5, <3>1
  <2> QED BY <2>4, <2>5
<1>3. suffix = <<>> \/ (Len(suffix) = 1 /\ suffix[1] = <<"state">>)
  OBVIOUS
<1> HIDE DEF S
<1>4. n \o << <<verb>> >> = Append(n, <<verb>>)
  BY <1>2
<1>5. /\ t \in Seq(S) /\ Len(n) \in Nat /\ Len(n) >= 1
      /\ \A i \in 1..Len(n) : t[i] = n[i]
      /\ t[v] = <<verb>>
      /\ \/ Len(t) = v
         \/ Len(t) = v + 1 /\ t[v + 1] = <<"state">>
  <2> DEFINE m == Append(n, <<verb>>)
  <2>1. /\ m \in Seq(S) /\ Len(n) \in Nat /\ Len(n) >= 1 /\ Len(m) = v /\ v \in Nat
        /\ \A i \in 1..Len(n) : m[i] = n[i]
        /\ m[v] = <<verb>>
    BY <1>1, <1>2, AppendIs
  <2>2. t = m \o suffix
    BY <1>4
  <2> HIDE DEF m, t
  <2>3. /\ m \o suffix \in Seq(S) /\ Len(m \o suffix) = Len(m) + Len(suffix)
        /\ \A i \in 1..Len(m) : (m \o suffix)[i] = m[i]
        /\ \A i \in 1..Len(suffix) : (m \o suffix)[Len(m) + i] = suffix[i]
    <3>1. m \in Seq(S) /\ suffix \in Seq(S)
      BY <1>2, <2>1
    <3> QED BY <3>1, Joined
  <2>4. /\ t \in Seq(S)
        /\ \A i \in 1..Len(n) : t[i] = n[i]
        /\ t[v] = <<verb>>
    BY <2>1, <2>2, <2>3
  <2>5. CASE suffix = <<>>
    BY <2>1, <2>2, <2>3, <2>4, <2>5
  <2>6. CASE Len(suffix) = 1 /\ suffix[1] = <<"state">>
    <3>1. 1 \in 1..Len(suffix)
      BY <2>6
    <3> QED BY <2>1, <2>2, <2>3, <2>4, <2>6, <3>1
  <2> QED BY <1>3, <2>5, <2>6
<1> HIDE DEF t
<1>6. t[1] # <<"bridge">> /\ t # PermitTopic
  <2>1. PermitTopic[1] = <<"bridge">>
    BY DEF PermitTopic
  <2> QED BY <1>1, <1>5, <2>1
<1>7. <<verb>> \in Verb /\ <<"state">> \notin Verb /\ <<verb>>[1] = verb
  BY DEF Verb
<1>8. VerbAt(t) = v
  BY <1>5, <1>7 DEF VerbAt
<1>9. NameIn(t) = n
  <2>1. SubSeq(t, 1, Len(n)) = n
    BY <1>2, <1>5
  <2>2. v - 1 = Len(n)
    BY <1>5
  <2> QED BY <1>8, <2>1, <2>2 DEF NameIn
<1>10. v # 0
  BY <1>5
<1>11. CommandOf(t) = << [verb |-> verb, name |-> n] >>
  BY <1>5, <1>6, <1>7, <1>8, <1>9, <1>10 DEF CommandOf
<1> QED
  BY <1>11 DEF t

\* What another client publishes arrives as the command it is.
LEMMA ClientUnderstood ==
  ASSUME Unambiguous, ClientPublishes
  PROVE  \E c \in Command : asked' = Append(asked, c) /\ cmds' = cmds \o <<c>>
<1>1. PICK c \in Command, suffix \in { <<>>, << <<"state">> >> } :
        LET topic == IF c.name = NoTopic THEN PermitTopic
                     ELSE c.name \o << <<c.verb>> >> \o suffix
        IN asked' = Append(asked, c) /\ cmds' = cmds \o CommandOf(topic)
  BY Zenon DEF ClientPublishes, Command
<1>2. CASE c = [verb |-> "permit_join", name |-> NoTopic]
  <2>1. c.name = NoTopic
    BY <1>2
  <2>2. CommandOf(PermitTopic) = <<c>>
    BY <1>2 DEF CommandOf
  <2> QED BY <1>1, <2>1, <2>2
<1>3. CASE c \in [verb : {"set", "get"}, name : Name]
  <2>1. /\ c = [verb |-> c.verb, name |-> c.name]
        /\ c.verb \in {"set", "get"} /\ c.name \in Name
    BY <1>3
  <2>2. c.name # NoTopic
    BY <2>1 DEF Unambiguous, NoTopic
  <2>3. CommandOf(c.name \o << <<c.verb>> >> \o suffix) = <<c>>
    <3>1. CommandOf(c.name \o << <<c.verb>> >> \o suffix) = << [verb |-> c.verb, name |-> c.name] >>
      BY <2>1, Understood
    <3> QED BY <2>1, <3>1
  <2> QED BY <1>1, <2>2, <2>3
<1> QED
  BY <1>1, <1>2, <1>3 DEF Command

LEMMA AskedStep ==
  ASSUME Unambiguous, TypeOK, AskedInv, [Next]_vars
  PROVE  AskedInv'
<1> DEFINE D == Command \union {Connected}
<1>1. cmds \in Seq(D) /\ handled \in Seq(Command) /\ asked \in Seq(Command)
  BY DEF AskedInv, CmdsTyped
<1>2. handled \o Select(cmds, Command) = asked
  BY DEF AskedInv
<1>3. Command \subseteq D /\ Connected \in D /\ Connected \notin Command
  BY CommandsDiffer
<1>4. Select(cmds, Command) \in Seq(Command)
  <2> HIDE DEF D
  <2>1. Select(cmds, Command) \in Seq(D \intersect Command)
    BY <1>1, SelectType
  <2>2. D \intersect Command = Command
    BY <1>3
  <2> QED BY <2>1, <2>2
<1>5. ASSUME UNCHANGED <<cmds, handled, asked>>
      PROVE  AskedInv'
  BY <1>1, <1>2, <1>5 DEF AskedInv, CmdsTyped
<1>6. ASSUME NEW c \in D, cmds' = cmds \o <<c>>, handled' = handled,
             asked' = IF c \in Command THEN Append(asked, c) ELSE asked
      PROVE  AskedInv'
  <2> HIDE DEF D
  <2>1. cmds \o <<c>> = Append(cmds, c) /\ Append(cmds, c) \in Seq(D)
    BY <1>1
  <2>2. Select(Append(cmds, c), Command)
          = IF c \in Command THEN Append(Select(cmds, Command), c) ELSE Select(cmds, Command)
    BY <1>1, SelectAppend
  <2>3. CASE c \in Command
    <3>1. handled \o Append(Select(cmds, Command), c) = Append(handled \o Select(cmds, Command), c)
      BY <1>1, <1>4, <2>3, ConcatAppend
    <3>2. Append(asked, c) \in Seq(Command)
      BY <1>1, <2>3
    <3>3. cmds' = Append(cmds, c) /\ asked' = Append(asked, c)
      BY <1>6, <2>1, <2>3
    <3>4. handled' \o Select(cmds', Command) = asked'
      BY <1>2, <1>6, <2>2, <2>3, <3>1, <3>3, Zenon
    <3> QED BY <1>1, <1>6, <2>1, <3>2, <3>3, <3>4 DEF AskedInv, CmdsTyped, D
  <2>4. CASE c \notin Command
    <3>1. cmds' = Append(cmds, c) /\ asked' = asked
      BY <1>6, <2>1, <2>4
    <3>2. handled' \o Select(cmds', Command) = asked'
      BY <1>2, <1>6, <2>2, <2>4, <3>1, Zenon
    <3> QED BY <1>1, <1>6, <2>1, <3>1, <3>2 DEF AskedInv, CmdsTyped, D
  <2> QED BY <2>3, <2>4
<1>7. CASE Accept
  <2> DEFINE r == Head(unacked)
  <2>1. CASE r = Subscribe
    BY <1>5, <1>7, <2>1 DEF Accept, historyVars
  <2>2. CASE r # Subscribe
    <3>1. r \in Requests
      <4>1. unacked \in Seq(Requests) /\ unacked # <<>>
        BY <1>7 DEF TypeOK, Accept
      <4> QED BY <4>1, HeadTaken
    <3>2. r.topic \in Topic
      BY <2>2, <3>1 DEF Requests
    <3>3. CommandOf(r.topic) = <<>>
      BY <3>2, NoEcho
    <3>4. cmds' = cmds \o (IF subscribed THEN CommandOf(r.topic) ELSE <<>>)
      BY <1>7, <2>2, Zenon DEF Accept
    <3>5. cmds' = cmds
      BY <1>1, <3>3, <3>4
    <3> QED BY <1>5, <1>7, <3>5 DEF Accept, historyVars
  <2> QED BY <2>1, <2>2
<1>8. CASE ClientPublishes
  <2>1. PICK c \in Command : asked' = Append(asked, c) /\ cmds' = cmds \o <<c>>
    BY <1>8, ClientUnderstood
  <2>2. handled' = handled
    BY <1>8 DEF ClientPublishes
  <2>3. c \in D
    BY <1>3
  <2> HIDE DEF D
  <2> QED BY <1>6, <2>1, <2>2, <2>3
<1>9. ASSUME NEW who \in {"start", "again"}, SubscribeAndNotify(who)
      PROVE  AskedInv'
  <2>1. cmds' = cmds \o Told(who) /\ handled' = handled /\ asked' = asked
    BY <1>9 DEF SubscribeAndNotify, historyVars
  <2>2. CASE who = "start"
    <3>1. cmds' = cmds
      BY <1>1, <2>1, <2>2 DEF Told
    <3> QED BY <1>5, <2>1, <3>1
  <2>3. CASE who = "again"
    <3>1. cmds' = cmds \o <<Connected>>
      BY <2>1, <2>3 DEF Told
    <3>2. Connected \in D /\ Connected \notin Command
      BY <1>3
    <3> HIDE DEF D
    <3> QED BY <1>6, <2>1, <3>1, <3>2
  <2> QED BY <2>2, <2>3
<1>10. CASE HandleCommand
  <2>1. /\ cmds # <<>> /\ cmds' = Tail(cmds) /\ asked' = asked
        /\ handled' = IF Head(cmds) = Connected THEN handled ELSE Append(handled, Head(cmds))
    BY <1>10, Zenon DEF HandleCommand
  <2> DEFINE c == Head(cmds)
             rest == Tail(cmds)
  <2> HIDE DEF D
  <2>2. c \in D /\ rest \in Seq(D)
    BY <1>1, <2>1, HeadTaken
  <2>3. Select(cmds, Command) = IF c \in Command THEN <<c>> \o Select(rest, Command)
                                ELSE Select(rest, Command)
    BY <1>1, <2>1, SelectHead
  <2>4. Select(rest, Command) \in Seq(Command)
    <3>1. Select(rest, Command) \in Seq(D \intersect Command)
      BY <2>2, SelectType
    <3>2. D \intersect Command = Command
      BY <1>3
    <3> QED BY <3>1, <3>2
  <2>5. CASE c = Connected
    <3>1. handled' \o Select(cmds', Command) = asked'
      BY <1>2, <1>3, <2>1, <2>3, <2>5, Zenon
    <3> QED BY <1>1, <2>1, <2>2, <2>5, <3>1 DEF AskedInv, CmdsTyped, D
  <2>6. CASE c # Connected
    <3>1. c \in Command
      BY <2>2, <2>6 DEF D
    <3> DEFINE l == Select(rest, Command)
    <3>2. Select(cmds, Command) = <<c>> \o l
      BY <2>3, <3>1
    <3>3. l \in Seq(Command)
      BY <2>4
    <3>4. handled' = Append(handled, c)
      BY <2>1, <2>6
    <3> HIDE DEF c, rest, l
    <3>5. Append(handled, c) \o l = handled \o (<<c>> \o l) /\ Append(handled, c) \in Seq(Command)
      BY <1>1, <3>1, <3>3
    <3>6. handled' \o Select(cmds', Command) = asked'
      BY <1>2, <2>1, <3>2, <3>4, <3>5, Zenon DEF l, rest
    <3>7. cmds' = rest
      BY <2>1 DEF rest
    <3> QED BY <1>1, <2>1, <2>2, <3>4, <3>5, <3>6, <3>7 DEF AskedInv, CmdsTyped, D
  <2> QED BY <2>5, <2>6
<1>11. CASE BrokerStops \/ BrokerStarts \/ Break \/ EventLoop \/ Report
  BY <1>5, <1>11 DEF BrokerStops, BrokerStarts, Break, EventLoop, Send, Notice, ConnectFails,
       Wake, Connect, Report, historyVars
<1>12. CASE Opened \/ Publish \/ PublishWaited \/ PublishTimesOut
  BY <1>5, <1>12 DEF Opened, Publish, PublishWaited, PublishTimesOut, historyVars
<1>13. CASE UNCHANGED vars
  BY <1>5, <1>13 DEF vars, historyVars
<1> QED
  BY <1>7, <1>8, <1>9, <1>10, <1>11, <1>12, <1>13 DEF Next, MainLoop

LEMMA AskedInit ==
  ASSUME Init
  PROVE  AskedInv
<1>1. Select(<<>>, Command) = <<>>
  BY SelectEmpty
<1> QED
  BY <1>1 DEF Init, AskedInv, CmdsTyped

LEMMA AskedIs ==
  ASSUME AskedInv
  PROVE  CommandsAsAsked
<1> DEFINE D == Command \union {Connected}
           T == {cmds[i] : i \in DOMAIN cmds}
<1>1. cmds \in Seq(T)
  BY DEF AskedInv, CmdsTyped
<1>2. T \subseteq D
  BY DEF AskedInv, CmdsTyped
<1>3. \A c \in T : c \in Command <=> c \in T \ {Connected}
  BY <1>2, CommandsDiffer
<1> HIDE DEF T
<1>4. Select(cmds, Command) = Select(cmds, T \ {Connected})
  BY <1>1, <1>3, SelectAgree
<1>5. handled \o Select(cmds, Command) = asked
  BY DEF AskedInv
<1> QED
  BY <1>4, <1>5, Zenon DEF CommandsAsAsked, T

\* For any names that do not look like commands, and whatever states, outages
\* and retries there are: the main loop is commanded to do what clients asked
\* for, in order, and by nothing the bridge publishes itself
\* (mqtt/mod.rs command_from_publish, subscribe_and_notify).
THEOREM OnlyClientsCommand ==
  ASSUME Unambiguous
  PROVE  Spec => []CommandsAsAsked
<1>1. Init => AskedInv
  BY AskedInit
<1>2. TypeOK /\ AskedInv /\ [Next]_vars => AskedInv'
  BY AskedStep
<1>3. AskedInv => CommandsAsAsked
  BY AskedIs
<1> QED
  BY <1>1, <1>2, <1>3, LinkTypes, PTL DEF Spec
=============================================================================
