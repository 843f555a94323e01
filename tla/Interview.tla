----------------------------- MODULE Interview -----------------------------
(***************************************************************************)
(* The device interview (src/bridge.rs): after a join the bridge asks for  *)
(* the active endpoints of the device's network address, then for the      *)
(* descriptor of each, and once it has them all marks the device complete  *)
(* and publishes its Home Assistant discovery.                             *)
(*                                                                         *)
(* The main loop handles one event at a time; the retry tasks and the      *)
(* housekeeping tick run in between. The devices and the radio are modelled*)
(* as they look from the bridge: messages are lost, late and reordered,    *)
(* devices move to other addresses, leave and come back, and an address    *)
(* can pass to another device. Every message carries a network address and *)
(* only some an IEEE address, which is what makes the interview hard.      *)
(***************************************************************************)
EXTENDS FiniteSets, Naturals

CONSTANTS
  IEEE, NWK, Name, NoDevice, Unassigned, Hex, Configured, CanonicalKey,
  FriendlyName,   \* the registry's, see DeviceRegistry
  EP,             \* endpoint numbers
  Has,            \* Has[i]: the endpoints device i has
  NotTracked,     \* no entry in InterviewTracker.pending
  NotPublished,   \* no discovery published yet
  MaxAir,         \* bound on messages under way when a retry task sends another
  MaxMoves,       \* bound on devices taking or giving up an address
  MaxLoss         \* bound on answers that fail and messages that are lost

ASSUME InterviewAssumption ==
  /\ Has \in [IEEE -> (SUBSET EP) \ {{}}]
  /\ MaxAir \in Nat /\ MaxMoves \in Nat /\ MaxLoss \in Nat

VARIABLES
  dev, byNwk, byName, phase, todo,  \* the registry
  endpoints,  \* Device.endpoints, by number
  complete,   \* Device.interview_complete
  pending,    \* InterviewTracker.pending
  retries,    \* the tasks of spawn_interview_retry that are still running
  at,         \* at[i]: the address device i holds on the network
  air,        \* messages under way, in either direction
  moves,      \* how often devices have moved
  losses,     \* how many answers have failed or been lost
  published,  \* history: what i's discovery was published from
  disturbed   \* history: addresses whose interview was cut short, see below

interviewVars == <<endpoints, complete, pending, retries>>
networkVars == <<at, air, moves, losses>>
vars == <<dev, byNwk, byName, phase, todo, endpoints, complete, pending, retries,
          at, air, moves, losses, published, disturbed>>

Registry == INSTANCE DeviceRegistry

\* The registry's assumptions, and that a marker is none of what it marks.
ASSUME MarkersAssumption ==
  /\ NoDevice \notin IEEE \union Registry!Device
  /\ Unassigned \notin NWK
  /\ {Hex, FriendlyName} \subseteq [IEEE -> Name]
  /\ NotTracked \notin [expected : SUBSET EP, received : SUBSET EP]
  /\ NotPublished \notin [eps : SUBSET EP, nwk : NWK]

ActiveEpReq(n) == [type |-> "active_ep_req", nwk |-> n]
SimpleDescReq(n, ep) == [type |-> "simple_desc_req", nwk |-> n, ep |-> ep]
ActiveEpRsp(n, eps) == [type |-> "active_ep_rsp", nwk |-> n, eps |-> eps]
SimpleDescRsp(n, ep) == [type |-> "simple_desc_rsp", nwk |-> n, ep |-> ep]
Announce(i, n) == [type |-> "announce", ieee |-> i, nwk |-> n]
Resolved(i, n) == [type |-> "resolved", ieee |-> i, nwk |-> n]
Leave(i) == [type |-> "leave", ieee |-> i, nwk |-> Unassigned]

Message ==
  UNION { {ActiveEpReq(n) : n \in NWK},
          {SimpleDescReq(n, ep) : n \in NWK, ep \in EP},
          {ActiveEpRsp(n, eps) : n \in NWK, eps \in SUBSET EP},
          {SimpleDescRsp(n, ep) : n \in NWK, ep \in EP},
          {Announce(i, n) : i \in IEEE, n \in NWK},
          {Resolved(i, n) : i \in IEEE, n \in NWK},
          {Leave(i) : i \in IEEE} }

-----------------------------------------------------------------------------
\* InterviewTracker.

Tracked == {n \in NWK : pending[n] # NotTracked}

Received(n) == IF n \in Tracked THEN pending[n].received ELSE {}

\* Tracking an answer without endpoints.
ExpectEvenNothing(n, eps) ==
  [pending EXCEPT ![n] = [expected |-> eps, received |-> Received(n) \intersect eps]]

\* The tracker after an ActiveEpRsp ...
Expect(n, eps) ==
  [pending EXCEPT ![n] = IF eps = {} THEN NotTracked
                         ELSE [expected |-> eps, received |-> Received(n) \intersect eps]]

\* ... and the endpoints it still wants described.
Missing(n, eps) == eps \ Received(n)

\* A check that the endpoint was expected instead of that all of them are in.
FullWhenExpected(n, ep) == n \notin Tracked \/ ep \in pending[n].expected

\* Whether the descriptor of ep is the last one awaited from n, or n is not
\* tracked at all.
Full(n, ep) == n \notin Tracked \/ pending[n].expected \subseteq Received(n) \union {ep}

\* The tracker after a SimpleDescRsp.
Record(n, ep) ==
  [pending EXCEPT ![n] = IF Full(n, ep) THEN NotTracked
                         ELSE [expected |-> pending[n].expected,
                               received |-> Received(n) \union {ep}]]

\* Keeping the entries that nothing was received for.
DropReceived(S) ==
  [n \in NWK |-> IF n \in S /\ Received(n) # {} THEN NotTracked ELSE pending[n]]

Drop(S) == [n \in NWK |-> IF n \in S THEN NotTracked ELSE pending[n]]

-----------------------------------------------------------------------------
\* Completing a device nothing is known of.
CompleteUndescribed(S, described) ==
  LET ready == {i \in Registry!Registered :
                  /\ \E n \in S : Registry!GetByNwk(n) = i
                  /\ ~complete[i]}
  IN /\ complete' = [i \in IEEE |-> complete[i] \/ i \in ready]
     /\ published' =
          [i \in IEEE |-> IF i \in ready
                          THEN [eps |-> described[i], nwk |-> dev[i].nwk]
                          ELSE published[i]]

\* complete_interview for the devices at the addresses S, given the endpoints
\* described so far.
CompleteInterviews(S, described) ==
  LET ready == {i \in Registry!Registered :
                  /\ \E n \in S : Registry!GetByNwk(n) = i
                  /\ ~complete[i]
                  /\ described[i] # {}}
  IN /\ complete' = [i \in IEEE |-> complete[i] \/ i \in ready]
     /\ published' =
          [i \in IEEE |-> IF i \in ready
                          THEN [eps |-> described[i], nwk |-> dev[i].nwk]
                          ELSE published[i]]

Task(i, n, k) == [ieee |-> i, nwk |-> n, attempt |-> k]

TwoAttempts == 2
MAX_ATTEMPTS == 3

-----------------------------------------------------------------------------
Init ==
  /\ dev = [i \in IEEE |-> NoDevice]
  /\ byNwk = [n \in NWK |-> NoDevice]
  /\ byName = [m \in Name |-> NoDevice]
  /\ phase = "running"
  /\ todo = {}
  /\ endpoints = [i \in IEEE |-> {}]
  /\ complete = [i \in IEEE |-> FALSE]
  /\ pending = [n \in NWK |-> NotTracked]
  /\ retries = {}
  /\ at = [i \in IEEE |-> Unassigned]
  /\ air = {}
  /\ moves = 0
  /\ losses = 0
  /\ published = [i \in IEEE |-> NotPublished]
  /\ disturbed = {}

-----------------------------------------------------------------------------
\* The addresses the registry takes from their owner in this step.
Reassigned == {n \in NWK : byNwk[n] # NoDevice /\ byNwk'[n] # byNwk[n]}

\* The main loop's handlers. Each takes its event m off the air.

DeviceJoined(m) ==
  /\ m.type = "announce"
  /\ Registry!DeviceSeen(m.ieee, m.nwk)
  /\ air' = air \ {m}
  /\ retries' = retries \union {Task(m.ieee, m.nwk, 1)}
  /\ disturbed' = disturbed \union Reassigned
  /\ UNCHANGED <<endpoints, complete, pending, at, moves, losses, published>>

\* The tracker forgets the address the registry has for the device.
DeviceLeft(m) ==
  /\ m.type = "leave"
  /\ Registry!DeviceLeft(m.ieee)
  /\ pending' = IF m.ieee \in Registry!Registered THEN Drop({dev[m.ieee].nwk}) ELSE pending
  /\ endpoints' = [endpoints EXCEPT ![m.ieee] = {}]
  /\ complete' = [complete EXCEPT ![m.ieee] = FALSE]
  /\ air' = air \ {m}
  /\ published' = [published EXCEPT ![m.ieee] = NotPublished]
  /\ disturbed' = disturbed \union Reassigned
  /\ UNCHANGED <<retries, at, moves, losses>>

AddressResolved(m) ==
  /\ m.type = "resolved"
  /\ Registry!DeviceSeen(m.ieee, m.nwk)
  /\ air' = air \ {m}
  /\ retries' = IF complete[m.ieee] THEN retries
                ELSE retries \union {Task(m.ieee, m.nwk, 1)}
  /\ disturbed' = disturbed \union Reassigned
  /\ UNCHANGED <<endpoints, complete, pending, at, moves, losses, published>>

\* The descriptor requests go out from a task of their own, one after another.
ActiveEndpoints(m) ==
  /\ m.type = "active_ep_rsp"
  /\ pending' = Expect(m.nwk, m.eps)
  /\ air' = (air \ {m}) \union {SimpleDescReq(m.nwk, ep) : ep \in Missing(m.nwk, m.eps)}
  /\ disturbed' = IF m.eps = {} /\ m.nwk \in Tracked THEN disturbed \union {m.nwk}
                  ELSE disturbed
  /\ UNCHANGED <<dev, byNwk, byName, phase, todo, endpoints, complete, retries,
                 at, moves, losses, published>>

SimpleDescriptor(m) ==
  LET owner == Registry!GetByNwk(m.nwk)
      described == [i \in IEEE |-> endpoints[i] \union (IF i = owner THEN {m.ep} ELSE {})]
  IN /\ m.type = "simple_desc_rsp"
     /\ endpoints' = described
     /\ pending' = Record(m.nwk, m.ep)
     /\ CompleteInterviews(IF Full(m.nwk, m.ep) THEN {m.nwk} ELSE {}, described)
     /\ air' = air \ {m}
     /\ UNCHANGED <<dev, byNwk, byName, phase, todo, retries, at, moves, losses, disturbed>>

\* Housekeeping: the interviews that have waited INTERVIEW_TIMEOUT, whichever
\* they are, are dropped; those that received something are completed with it.
Expire(S) ==
  /\ S \subseteq Tracked
  /\ pending' = Drop(S)
  /\ CompleteInterviews({n \in S : Received(n) # {}}, endpoints)
  /\ disturbed' = disturbed \union S
  /\ UNCHANGED <<dev, byNwk, byName, phase, todo, endpoints, retries,
                 at, air, moves, losses>>

\* A retry task woken from its sleep, or just spawned. Tasks with equal fields
\* are one here. The request may be under way for long, so sending it in this
\* step covers the wait for the coordinator's lock.
Retry(t) ==
  /\ t \in retries
  /\ IF complete[t.ieee] \/ t.attempt > MAX_ATTEMPTS
     THEN /\ retries' = retries \ {t}
          /\ air' = air
     ELSE /\ Cardinality(air) < MaxAir
          /\ retries' = (retries \ {t}) \union {Task(t.ieee, t.nwk, t.attempt + 1)}
          /\ air' = air \union {ActiveEpReq(t.nwk)}
  /\ UNCHANGED <<dev, byNwk, byName, phase, todo, endpoints, complete, pending,
                 at, moves, losses, published, disturbed>>

-----------------------------------------------------------------------------
\* The devices and the radio.

Free(i, n) == \A j \in IEEE \ {i} : at[j] # n

\* i takes address n, or powers up again with the one it has, and says so.
Arrive(i, n) ==
  /\ moves < MaxMoves
  /\ Free(i, n)
  /\ at' = [at EXCEPT ![i] = n]
  /\ air' = air \union {Announce(i, n)}
  /\ moves' = moves + 1
  /\ disturbed' = IF at[i] \in NWK \ {n} THEN disturbed \union {at[i]} ELSE disturbed
  /\ UNCHANGED <<dev, byNwk, byName, phase, todo, interviewVars, losses, published>>

Depart(i) ==
  /\ moves < MaxMoves
  /\ at[i] # Unassigned
  /\ at' = [at EXCEPT ![i] = Unassigned]
  /\ air' = air \union {Leave(i)}
  /\ moves' = moves + 1
  /\ disturbed' = disturbed \union {at[i]}
  /\ UNCHANGED <<dev, byNwk, byName, phase, todo, interviewVars, losses, published>>

\* A message from an address the registry does not know makes the bridge look
\* up its IEEE address (unless LookupLimiter says it did so a moment ago).
Report(i) ==
  /\ at[i] # Unassigned
  /\ Registry!GetByNwk(at[i]) = NoDevice
  /\ Resolved(i, at[i]) \notin air
  /\ air' = air \union {Resolved(i, at[i])}
  /\ UNCHANGED <<dev, byNwk, byName, phase, todo, interviewVars, at, moves, losses,
                 published, disturbed>>

\* The holder of the address answers; an endpoint it does not have gets an
\* error that SimpleDescRsp::parse drops.
Answer(i, m) ==
  /\ m.nwk = at[i]
  /\ \/ /\ m.type = "active_ep_req"
        /\ air' = (air \ {m}) \union {ActiveEpRsp(m.nwk, Has[i])}
     \/ /\ m.type = "simple_desc_req"
        /\ air' = (air \ {m}) \union
                    (IF m.ep \in Has[i] THEN {SimpleDescRsp(m.nwk, m.ep)} ELSE {})
  /\ UNCHANGED <<dev, byNwk, byName, phase, todo, interviewVars, at, moves, losses,
                 published, disturbed>>

\* An ActiveEpRsp with an error status lists no endpoints.
Refuse(m) ==
  /\ losses < MaxLoss
  /\ m.type = "active_ep_req"
  /\ air' = (air \ {m}) \union {ActiveEpRsp(m.nwk, {})}
  /\ losses' = losses + 1
  /\ UNCHANGED <<dev, byNwk, byName, phase, todo, interviewVars, at, moves,
                 published, disturbed>>

Lose(m) ==
  /\ losses < MaxLoss
  /\ air' = air \ {m}
  /\ losses' = losses + 1
  /\ UNCHANGED <<dev, byNwk, byName, phase, todo, interviewVars, at, moves,
                 published, disturbed>>

\* Nobody holds the address any more.
Unheard(m) ==
  /\ m.type \in {"active_ep_req", "simple_desc_req"}
  /\ \A i \in IEEE : at[i] # m.nwk
  /\ air' = air \ {m}
  /\ UNCHANGED <<dev, byNwk, byName, phase, todo, interviewVars, at, moves, losses,
                 published, disturbed>>

-----------------------------------------------------------------------------
Handle(m) ==
  \/ DeviceJoined(m)
  \/ DeviceLeft(m)
  \/ AddressResolved(m)
  \/ ActiveEndpoints(m)
  \/ SimpleDescriptor(m)

Deliver(m) == Handle(m) \/ Unheard(m) \/ \E i \in IEEE : Answer(i, m)

Radio ==
  \/ \E i \in IEEE : Depart(i) \/ Report(i) \/ \E n \in NWK : Arrive(i, n)
  \/ \E m \in air : Deliver(m) \/ Refuse(m) \/ Lose(m)

Next ==
  \/ Radio
  \/ \E S \in (SUBSET Tracked) \ {{}} : Expire(S)
  \/ \E t \in retries : Retry(t)

Spec == Init /\ [][Next]_vars

\* Progress. A round trip over the radio is over well within RETRY_DELAY (20 s),
\* and INTERVIEW_TIMEOUT (90 s after the last ActiveEpRsp) is more than the
\* MAX_ATTEMPTS delays of a task, so a task wakes up when its last request has
\* been answered or lost, and an interview expires when its tasks are done.
Quiet(n) == \A m \in air : m.nwk # n

TimelyExpire ==
  \E S \in (SUBSET Tracked) \ {{}} :
    /\ \A n \in S : Quiet(n) /\ \A t \in retries : t.nwk # n
    /\ Expire(S)

TimelyRetry == \E t \in retries : Quiet(t.nwk) /\ Retry(t)

TimelyNext == Radio \/ TimelyExpire \/ TimelyRetry

\* The select loop takes every event in turn, the tasks and the housekeeping
\* timer run, a request to nobody is given up, and a device that has something
\* to say keeps saying it.
Fairness ==
  /\ WF_vars(\E m \in air : Deliver(m))
  /\ WF_vars(TimelyRetry)
  /\ WF_vars(TimelyExpire)
  /\ \A i \in IEEE : WF_vars(Report(i))

TimelySpec == Init /\ [][TimelyNext]_vars /\ Fairness

-----------------------------------------------------------------------------
\* The shape of the state; a tracked interview awaits something.
TypeOK ==
  /\ endpoints \in [IEEE -> SUBSET EP]
  /\ complete \in [IEEE -> BOOLEAN]
  /\ pending \in [NWK -> [expected : (SUBSET EP) \ {{}}, received : SUBSET EP]
                         \union {NotTracked}]
  /\ retries \subseteq [ieee : IEEE, nwk : NWK, attempt : 1..(MAX_ATTEMPTS + 1)]
  /\ at \in [IEEE -> NWK \union {Unassigned}]
  /\ air \subseteq Message
  /\ moves \in 0..MaxMoves
  /\ losses \in 0..MaxLoss
  /\ published \in [IEEE -> [eps : SUBSET EP, nwk : NWK] \union {NotPublished}]
  /\ disturbed \subseteq NWK

\* Discovery has been published from every endpoint the device has, whatever
\* was lost, retried, late or out of order, unless the interview at its address
\* was cut short: by INTERVIEW_TIMEOUT, by an ActiveEpRsp without endpoints, or
\* by the address changing hands, on the network or in the registry. And it is
\* published from no endpoint of another device, unless some address was.
PartialNeedsDisturbance ==
  \A i \in IEEE : published[i] # NotPublished =>
    /\ published[i].nwk \notin disturbed => Has[i] \subseteq published[i].eps
    /\ disturbed = {} => published[i].eps \subseteq Has[i]

\* A device is complete exactly when its discovery has been published, and
\* publishing needed a described endpoint; both are only undone by its leaving.
CompleteIsPublished ==
  \A i \in IEEE :
    /\ complete[i] <=> published[i] # NotPublished
    /\ complete[i] => published[i].eps \subseteq endpoints[i] /\ endpoints[i] # {}
    /\ i \notin Registry!Registered => endpoints[i] = {} /\ ~complete[i]

\* "Only complete the interview once every endpoint from ActiveEpRsp has been
\* described, so HA discovery isn't published from a partial set."
NoPartialDiscovery ==
  [][(\E m \in air : SimpleDescriptor(m)) =>
       \A i \in IEEE : complete'[i] /\ ~complete[i] => Has[i] \subseteq endpoints'[i]]_vars

\* A device that comes onto the network and stays is interviewed in the end,
\* from all its endpoints if its address was not disturbed: no MaxLoss lost or
\* failed messages, of whatever kind, prevent it, because the task asks
\* MAX_ATTEMPTS times and an unannounced device is looked up when it reports.
EventuallyInterviewed ==
  \A i \in IEEE :
    <>[](at[i] # Unassigned) => <>[](i \in Registry!Registered /\ complete[i])

\* The tracker's entries do not pile up: late and unwanted answers are cleared
\* away too.
TrackerDrains == <>[](Tracked = {})
=============================================================================
