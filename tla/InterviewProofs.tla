--------------------------- MODULE InterviewProofs ---------------------------
(***************************************************************************)
(* Proofs about Interview, for any devices, addresses, endpoints and bounds *)
(* on moves, losses and messages under way.                                *)
(***************************************************************************)
EXTENDS Interview, TLAPS

-----------------------------------------------------------------------------
\* What the proofs need of the registry: the records and the address index
\* have their types, and an entry of the index names a device with the address.
RegistryOK ==
  /\ dev \in [IEEE -> Registry!Device \union {NoDevice}]
  /\ byNwk \in [NWK -> IEEE \union {NoDevice}]
  /\ Registry!NwkIndexSound

Inv == TypeOK /\ RegistryOK /\ CompleteIsPublished

\* The addresses whose interview has not been cut short. Messages, tasks and
\* tracker entries about such an address stem from the device that holds it.
Fresh == NWK \ disturbed

Owner(n) == byNwk[n]

OneHolder == \A i, j \in IEEE : at[i] \in NWK /\ at[i] = at[j] => i = j

OwnerHolds == \A n \in Fresh : Owner(n) # NoDevice => at[Owner(n)] = n

RecordIndexed == \A i \in Registry!Registered : dev[i].nwk \in Fresh => Owner(dev[i].nwk) = i

FromHolder(m) ==
  /\ m.type \in {"announce", "resolved"} => at[m.ieee] = m.nwk
  /\ m.type \in {"active_ep_req", "active_ep_rsp", "simple_desc_req", "simple_desc_rsp"}
       => Owner(m.nwk) # NoDevice
  /\ m.type = "active_ep_rsp" => m.eps = {} \/ m.eps = Has[Owner(m.nwk)]
  /\ m.type = "simple_desc_rsp" => m.ep \in Has[Owner(m.nwk)]
  /\ m.type \in {"simple_desc_req", "simple_desc_rsp"}
       => m.nwk \in Tracked \/ complete[Owner(m.nwk)]

AirFromHolder == \A m \in air : m.nwk \in Fresh => FromHolder(m)

TasksOfOwner == \A t \in retries : t.nwk \in Fresh => Owner(t.nwk) # NoDevice

TrackedOfOwner ==
  \A n \in Fresh \intersect Tracked :
    /\ Owner(n) # NoDevice
    /\ pending[n].expected = Has[Owner(n)]
    /\ pending[n].received \subseteq endpoints[Owner(n)]

NothingForeign == disturbed = {} => \A i \in IEEE : endpoints[i] \subseteq Has[i]

FreshInv ==
  /\ OneHolder /\ OwnerHolds /\ RecordIndexed
  /\ AirFromHolder /\ TasksOfOwner /\ TrackedOfOwner
  /\ NothingForeign /\ PartialNeedsDisturbance

-----------------------------------------------------------------------------
\* Messages.

LEMMA Shapes ==
  ASSUME NEW m \in Message
  PROVE  \/ m.type \in {"announce", "resolved"} /\ m.ieee \in IEEE /\ m.nwk \in NWK
         \/ m.type = "leave" /\ m.ieee \in IEEE
         \/ m.type = "active_ep_req" /\ m.nwk \in NWK
         \/ m.type = "active_ep_rsp" /\ m.nwk \in NWK /\ m.eps \in SUBSET EP
         \/ m.type = "simple_desc_req" /\ m.nwk \in NWK /\ m.ep \in EP
         \/ m.type = "simple_desc_rsp" /\ m.nwk \in NWK /\ m.ep \in EP
BY DEF Message, ActiveEpReq, SimpleDescReq, ActiveEpRsp, SimpleDescRsp, Announce, Resolved, Leave

LEMMA Sent ==
  /\ \A n \in NWK : ActiveEpReq(n) \in Message
  /\ \A n \in NWK, ep \in EP : SimpleDescReq(n, ep) \in Message /\ SimpleDescRsp(n, ep) \in Message
  /\ \A n \in NWK, eps \in SUBSET EP : ActiveEpRsp(n, eps) \in Message
  /\ \A i \in IEEE, n \in NWK : Announce(i, n) \in Message /\ Resolved(i, n) \in Message
  /\ \A i \in IEEE : Leave(i) \in Message
BY DEF Message

-----------------------------------------------------------------------------
\* The registry. What an operation leaves of the address index: the device has
\* the address given, if any, and no other.

Indexed(i, n) ==
  byNwk' = [k \in NWK |-> IF k = n THEN i ELSE IF byNwk[k] = i THEN NoDevice ELSE byNwk[k]]

LEMMA Learned ==
  ASSUME RegistryOK, NEW i \in IEEE, NEW n \in NWK, Registry!DeviceSeen(i, n)
  PROVE  /\ \E r \in Registry!Device : r.nwk = n /\ dev' = [dev EXCEPT ![i] = r]
         /\ Indexed(i, n)
         /\ RegistryOK'
<1>1. Registry!Learn(i, n) /\ n # Unassigned
  BY MarkersAssumption DEF Registry!DeviceSeen
<1>2. /\ \A k \in NWK : byNwk[k] = i => i \in Registry!Registered /\ dev[i].nwk = k
      /\ DOMAIN byNwk = NWK
  BY MarkersAssumption DEF RegistryOK, Registry!NwkIndexSound
<1>3. Registry!NewDeviceName(i) \in Name
  BY MarkersAssumption DEF Registry!NewDeviceName
<1>4. /\ \E r \in Registry!Device : r.nwk = n /\ dev' = [dev EXCEPT ![i] = r]
      /\ Indexed(i, n)
  <2>1. CASE i \in Registry!Registered
    <3>1. Registry!UpdateNwkAddr(i, n)
      BY <1>1, <2>1 DEF Registry!Learn
    <3>2. dev[i] \in Registry!Device
      BY <2>1 DEF RegistryOK, Registry!Registered
    <3>3. [dev[i] EXCEPT !.nwk = n] \in Registry!Device /\ [dev[i] EXCEPT !.nwk = n].nwk = n
      BY <3>2 DEF Registry!Device, Registry!Address
    <3>4. dev' = [dev EXCEPT ![i] = [dev[i] EXCEPT !.nwk = n]]
      BY <3>1 DEF Registry!UpdateNwkAddr
    <3>5. Indexed(i, n)
      BY <3>1, <1>2 DEF Registry!UpdateNwkAddr, Registry!Point, Registry!ClearOwn, Indexed
    <3> QED
      BY <3>3, <3>4, <3>5
  <2>2. CASE i \notin Registry!Registered
    <3>1. Registry!Add(i, n, Registry!NewDeviceName(i))
      BY <1>1, <2>2 DEF Registry!Learn
    <3>2. [nwk |-> n, name |-> Registry!NewDeviceName(i)] \in Registry!Device
      BY <1>3 DEF Registry!Device, Registry!Address
    <3>3. dev' = [dev EXCEPT ![i] = [nwk |-> n, name |-> Registry!NewDeviceName(i)]]
      BY <3>1 DEF Registry!Add
    <3>4. Indexed(i, n)
      BY <3>1, <1>2, <2>2 DEF Registry!Add, Registry!Point, Registry!ClearOwn, Indexed
    <3> QED
      BY <3>2, <3>3, <3>4
  <2> QED
    BY <2>1, <2>2
<1>5. PICK r \in Registry!Device : r.nwk = n /\ dev' = [dev EXCEPT ![i] = r]
  BY <1>4
<1>6. /\ dev' \in [IEEE -> Registry!Device \union {NoDevice}]
      /\ byNwk' \in [NWK -> IEEE \union {NoDevice}]
  BY <1>4, <1>5 DEF RegistryOK, Indexed
<1>7. Registry!NwkIndexSound'
  <2> SUFFICES ASSUME NEW k \in NWK, byNwk'[k] # NoDevice
               PROVE  dev'[byNwk'[k]] # NoDevice /\ byNwk'[k] \in IEEE /\ dev'[byNwk'[k]].nwk = k
    BY DEF Registry!NwkIndexSound, Registry!Registered
  <2>1. CASE k = n
    BY <2>1, <1>4, <1>5, MarkersAssumption DEF Indexed, RegistryOK
  <2>2. CASE k # n
    <3>1. byNwk'[k] = byNwk[k] /\ byNwk[k] # i /\ byNwk[k] \in Registry!Registered /\ dev[byNwk[k]].nwk = k
      BY <2>2, <1>4 DEF Indexed, RegistryOK, Registry!NwkIndexSound
    <3> QED
      BY <3>1, <1>5 DEF RegistryOK, Registry!Registered
  <2> QED
    BY <2>1, <2>2
<1> QED
  BY <1>4, <1>6, <1>7 DEF RegistryOK

LEMMA Removed ==
  ASSUME RegistryOK, NEW i \in IEEE, Registry!DeviceLeft(i)
  PROVE  /\ dev' = [dev EXCEPT ![i] = NoDevice]
         /\ byNwk' = [k \in NWK |-> IF byNwk[k] = i THEN NoDevice ELSE byNwk[k]]
         /\ RegistryOK'
<1>1. /\ \A k \in NWK : byNwk[k] = i => i \in Registry!Registered /\ dev[i].nwk = k
      /\ DOMAIN byNwk = NWK
  BY MarkersAssumption DEF RegistryOK, Registry!NwkIndexSound
<1>2. /\ dev' = [dev EXCEPT ![i] = NoDevice]
      /\ byNwk' = [k \in NWK |-> IF byNwk[k] = i THEN NoDevice ELSE byNwk[k]]
  <2>1. CASE i \in Registry!Registered
    BY <2>1, <1>1 DEF Registry!DeviceLeft, Registry!RemoveByIeee, Registry!ClearOwn
  <2>2. CASE i \notin Registry!Registered
    BY <2>2, <1>1 DEF Registry!DeviceLeft, Registry!RemoveByIeee, Registry!registryVars,
      Registry!Registered, RegistryOK
  <2> QED
    BY <2>1, <2>2
<1>3. /\ dev' \in [IEEE -> Registry!Device \union {NoDevice}]
      /\ byNwk' \in [NWK -> IEEE \union {NoDevice}]
  BY <1>2 DEF RegistryOK
<1>4. Registry!NwkIndexSound'
  <2> SUFFICES ASSUME NEW k \in NWK, byNwk'[k] # NoDevice
               PROVE  dev'[byNwk'[k]] # NoDevice /\ byNwk'[k] \in IEEE /\ dev'[byNwk'[k]].nwk = k
    BY DEF Registry!NwkIndexSound, Registry!Registered
  <2>1. byNwk'[k] = byNwk[k] /\ byNwk[k] # i /\ byNwk[k] \in Registry!Registered /\ dev[byNwk[k]].nwk = k
    BY <1>2 DEF RegistryOK, Registry!NwkIndexSound
  <2> QED
    BY <2>1, <1>2 DEF RegistryOK, Registry!Registered
<1> QED
  BY <1>2, <1>3, <1>4 DEF RegistryOK

-----------------------------------------------------------------------------
\* Completion: who is completed by it, and that it completes those it can.

Publishes(i, S, described) ==
  /\ ~complete[i] /\ i \in Registry!Registered /\ described[i] # {}
  /\ dev[i].nwk \in S /\ Owner(dev[i].nwk) = i
  /\ complete'[i]
  /\ published'[i] = [eps |-> described[i], nwk |-> dev[i].nwk]

LEMMA Completed ==
  ASSUME RegistryOK, TypeOK, NEW S \in SUBSET NWK, NEW described \in [IEEE -> SUBSET EP],
         CompleteInterviews(S, described)
  PROVE  /\ complete' \in [IEEE -> BOOLEAN]
         /\ published' \in [IEEE -> [eps : SUBSET EP, nwk : NWK] \union {NotPublished}]
         /\ \A i \in IEEE :
              \/ complete'[i] = complete[i] /\ published'[i] = published[i]
              \/ Publishes(i, S, described)
         /\ \A n \in S : Owner(n) # NoDevice /\ described[Owner(n)] # {} => complete'[Owner(n)]
<1> DEFINE ready == {i \in Registry!Registered :
                       /\ \E n \in S : Registry!GetByNwk(n) = i
                       /\ ~complete[i]
                       /\ described[i] # {}}
<1>1. /\ complete' = [i \in IEEE |-> complete[i] \/ i \in ready]
      /\ published' = [i \in IEEE |-> IF i \in ready
                                      THEN [eps |-> described[i], nwk |-> dev[i].nwk]
                                      ELSE published[i]]
  BY Zenon DEF CompleteInterviews
<1>2. \A n \in NWK : /\ Owner(n) # NoDevice => /\ Registry!GetByNwk(n) = Owner(n)
                                               /\ Owner(n) \in Registry!Registered
                                               /\ dev[Owner(n)].nwk = n
                     /\ Registry!GetByNwk(n) \in {Owner(n), NoDevice}
  BY DEF Owner, Registry!GetByNwk, RegistryOK, Registry!NwkIndexSound
<1>3. \A i \in ready : /\ i \in Registry!Registered /\ ~complete[i] /\ described[i] # {}
                       /\ i \in IEEE
                       /\ dev[i].nwk \in S /\ Owner(dev[i].nwk) = i
  <2> SUFFICES ASSUME NEW i \in ready PROVE i \in IEEE /\ dev[i].nwk \in S /\ Owner(dev[i].nwk) = i
    OBVIOUS
  <2>1. PICK n \in S : Registry!GetByNwk(n) = i
    OBVIOUS
  <2>2. i \in IEEE
    BY DEF Registry!Registered
  <2> QED
    BY <2>1, <2>2, <1>2, MarkersAssumption
<1>4. \A n \in S : Owner(n) # NoDevice /\ described[Owner(n)] # {} => complete[Owner(n)] \/ Owner(n) \in ready
  BY <1>2
<1>5. \A n \in S : Owner(n) # NoDevice => Owner(n) \in IEEE
  BY DEF Owner, RegistryOK
<1> HIDE DEF ready
<1>6. complete' \in [IEEE -> BOOLEAN]
  BY <1>1, Zenon
<1>7. published' \in [IEEE -> [eps : SUBSET EP, nwk : NWK] \union {NotPublished}]
  <2>1. \A i \in ready : [eps |-> described[i], nwk |-> dev[i].nwk] \in [eps : SUBSET EP, nwk : NWK]
    BY <1>3
  <2>2. \A i \in IEEE : published[i] \in [eps : SUBSET EP, nwk : NWK] \union {NotPublished}
    BY DEF TypeOK
  <2> QED
    BY <1>1, <2>1, <2>2
<1>8. \A i \in IEEE : \/ complete'[i] = complete[i] /\ published'[i] = published[i]
                      \/ Publishes(i, S, described)
  <2> SUFFICES ASSUME NEW i \in IEEE
               PROVE  \/ complete'[i] = complete[i] /\ published'[i] = published[i]
                      \/ Publishes(i, S, described)
    OBVIOUS
  <2>1. complete'[i] = (complete[i] \/ i \in ready) /\ complete[i] \in BOOLEAN
    BY <1>1, Zenon DEF TypeOK
  <2>2. published'[i] = IF i \in ready THEN [eps |-> described[i], nwk |-> dev[i].nwk] ELSE published[i]
    BY <1>1
  <2>3. CASE i \in ready
    BY <2>1, <2>2, <2>3, <1>3, Zenon DEF Publishes
  <2>4. CASE i \notin ready
    BY <2>1, <2>2, <2>4, Zenon
  <2> QED
    BY <2>3, <2>4
<1>9. \A n \in S : Owner(n) # NoDevice /\ described[Owner(n)] # {} => complete'[Owner(n)]
  BY <1>1, <1>4, <1>5, Zenon
<1> QED
  BY <1>6, <1>7, <1>8, <1>9

\* What a completion preserves, when the endpoints become those it is given.
LEMMA CompletionConsistent ==
  ASSUME Inv, NEW S \in SUBSET NWK, NEW described \in [IEEE -> SUBSET EP],
         CompleteInterviews(S, described),
         endpoints' = described, \A i \in IEEE : endpoints[i] \subseteq described[i],
         \A i \in IEEE : i \notin Registry!Registered => described[i] = {},
         dev' = dev
  PROVE  CompleteIsPublished'
<1>1. Registry!Registered' = Registry!Registered
  BY DEF Registry!Registered
<1>2. SUFFICES ASSUME NEW i \in IEEE
      PROVE  /\ complete'[i] <=> published'[i] # NotPublished
             /\ complete'[i] => published'[i].eps \subseteq endpoints'[i] /\ endpoints'[i] # {}
             /\ i \notin Registry!Registered => endpoints'[i] = {} /\ ~complete'[i]
  BY <1>1, Zenon DEF CompleteIsPublished
<1>3. /\ complete[i] <=> published[i] # NotPublished
      /\ complete[i] => published[i].eps \subseteq endpoints[i] /\ endpoints[i] # {}
      /\ i \notin Registry!Registered => endpoints[i] = {} /\ ~complete[i]
  BY Zenon DEF Inv, CompleteIsPublished
<1>4. /\ \/ complete'[i] = complete[i] /\ published'[i] = published[i]
         \/ Publishes(i, S, described)
      /\ published'[i] \in [eps : SUBSET EP, nwk : NWK] \union {NotPublished}
  BY Completed, Zenon DEF Inv
<1>5. CASE complete'[i] = complete[i] /\ published'[i] = published[i]
  BY <1>3, <1>5
<1>6. CASE Publishes(i, S, described)
  <2>1. /\ complete'[i] /\ i \in Registry!Registered /\ endpoints'[i] = described[i] /\ described[i] # {}
        /\ published'[i] = [eps |-> described[i], nwk |-> dev[i].nwk]
        /\ dev[i].nwk \in NWK /\ described[i] \in SUBSET EP
    BY <1>6 DEF Publishes
  <2>2. published'[i].eps = described[i] /\ published'[i] \in [eps : SUBSET EP, nwk : NWK]
    BY <2>1
  <2>3. published'[i] # NotPublished
    BY <2>2, MarkersAssumption
  <2> QED
    BY <2>1, <2>2, <2>3
<1> QED
  BY <1>4, <1>5, <1>6

-----------------------------------------------------------------------------
\* The types and what completion means, action by action.

LEMMA InvInit == Init => Inv
<1> SUFFICES ASSUME Init PROVE Inv
  OBVIOUS
<1>1. \A i \in IEEE : dev[i] = NoDevice /\ endpoints[i] = {} /\ complete[i] = FALSE
                      /\ published[i] = NotPublished
  BY DEF Init
<1>2. TypeOK
  BY InterviewAssumption DEF Init, TypeOK
<1>3. RegistryOK
  BY DEF Init, RegistryOK, Registry!NwkIndexSound
<1>4. CompleteIsPublished
  BY <1>1, Zenon DEF CompleteIsPublished
<1> QED
  BY <1>2, <1>3, <1>4 DEF Inv

LEMMA Unaffected ==
  ASSUME Inv, UNCHANGED <<dev, byNwk, endpoints, complete, published>>
  PROVE  RegistryOK' /\ CompleteIsPublished'
<1>1. UNCHANGED <<dev, byNwk>> /\ UNCHANGED <<dev, endpoints, complete, published>>
  OBVIOUS
<1>2. RegistryOK'
  BY <1>1 DEF Inv, RegistryOK, Registry!NwkIndexSound, Registry!Registered
<1>3. CompleteIsPublished'
  BY <1>1 DEF Inv, CompleteIsPublished, Registry!Registered
<1> QED
  BY <1>2, <1>3

LEMMA SeenInv ==
  ASSUME Inv, NEW m \in air, DeviceJoined(m) \/ AddressResolved(m)
  PROVE  Inv'
<1>1. m \in Message /\ m.type \in {"announce", "resolved"}
  BY DEF Inv, TypeOK, DeviceJoined, AddressResolved
<1>2. m.ieee \in IEEE /\ m.nwk \in NWK
  BY <1>1, Shapes
<1>3. /\ Registry!DeviceSeen(m.ieee, m.nwk)
      /\ air' = air \ {m}
      /\ retries' \subseteq retries \union {Task(m.ieee, m.nwk, 1)}
      /\ disturbed' = disturbed \union Reassigned
      /\ UNCHANGED <<endpoints, complete, pending, at, moves, losses, published>>
  BY DEF DeviceJoined, AddressResolved
<1>4. /\ RegistryOK'
      /\ \E r \in Registry!Device : r.nwk = m.nwk /\ dev' = [dev EXCEPT ![m.ieee] = r]
  BY <1>2, <1>3, Learned DEF Inv
<1>5. TypeOK'
  <2>1. Task(m.ieee, m.nwk, 1) \in [ieee : IEEE, nwk : NWK, attempt : 1..(MAX_ATTEMPTS + 1)]
    BY <1>2 DEF Task, MAX_ATTEMPTS
  <2>2. Reassigned \subseteq NWK
    BY DEF Reassigned
  <2> QED
    BY <1>3, <2>1, <2>2 DEF Inv, TypeOK
<1>6. CompleteIsPublished'
  <2>1. Registry!Registered \subseteq Registry!Registered'
    BY <1>2, <1>4, MarkersAssumption DEF Registry!Registered, Inv, RegistryOK
  <2> QED
    BY <1>3, <2>1 DEF Inv, CompleteIsPublished
<1> QED
  BY <1>4, <1>5, <1>6 DEF Inv

LEMMA LeftInv ==
  ASSUME Inv, NEW m \in air, DeviceLeft(m)
  PROVE  Inv'
<1>1. m \in Message /\ m.type = "leave"
  BY DEF Inv, TypeOK, DeviceLeft
<1>2. m.ieee \in IEEE
  BY <1>1, Shapes
<1>3. /\ Registry!DeviceLeft(m.ieee)
      /\ pending' \in {Drop({dev[m.ieee].nwk}), pending}
      /\ endpoints' = [endpoints EXCEPT ![m.ieee] = {}]
      /\ complete' = [complete EXCEPT ![m.ieee] = FALSE]
      /\ air' = air \ {m}
      /\ published' = [published EXCEPT ![m.ieee] = NotPublished]
      /\ disturbed' = disturbed \union Reassigned
      /\ UNCHANGED <<retries, at, moves, losses>>
  BY DEF DeviceLeft
<1>4. RegistryOK' /\ dev' = [dev EXCEPT ![m.ieee] = NoDevice]
  BY <1>2, <1>3, Removed DEF Inv
<1>5. TypeOK'
  <2>1. Reassigned \subseteq NWK
    BY DEF Reassigned
  <2> QED
    BY <1>2, <1>3, <2>1 DEF Inv, TypeOK, Drop
<1>6. CompleteIsPublished'
  <2> SUFFICES ASSUME NEW i \in IEEE
               PROVE  /\ complete'[i] <=> published'[i] # NotPublished
                      /\ complete'[i] => published'[i].eps \subseteq endpoints'[i] /\ endpoints'[i] # {}
                      /\ i \notin Registry!Registered' => endpoints'[i] = {} /\ ~complete'[i]
    BY Zenon DEF CompleteIsPublished
  <2>1. CASE i = m.ieee
    <3>1. complete'[i] = FALSE /\ published'[i] = NotPublished /\ endpoints'[i] = {}
      BY <1>3, <2>1 DEF Inv, TypeOK
    <3> QED
      BY <3>1
  <2>2. CASE i # m.ieee
    <3>1. /\ complete'[i] = complete[i] /\ published'[i] = published[i]
          /\ endpoints'[i] = endpoints[i] /\ dev'[i] = dev[i]
      BY <1>3, <1>4, <2>2 DEF Inv, TypeOK, RegistryOK
    <3> QED
      BY <3>1 DEF Inv, CompleteIsPublished, Registry!Registered
  <2> QED
    BY <2>1, <2>2
<1> QED
  BY <1>4, <1>5, <1>6 DEF Inv

LEMMA ActiveInv ==
  ASSUME Inv, NEW m \in air, ActiveEndpoints(m)
  PROVE  Inv'
<1>1. m \in Message /\ m.type = "active_ep_rsp"
  BY DEF Inv, TypeOK, ActiveEndpoints
<1>2. m.nwk \in NWK /\ m.eps \in SUBSET EP
  BY <1>1, Shapes
<1>3. RegistryOK' /\ CompleteIsPublished'
  BY Unaffected DEF ActiveEndpoints
<1>4. air' \subseteq Message
  <2>1. Missing(m.nwk, m.eps) \subseteq EP
    BY <1>2 DEF Missing
  <2> QED
    BY <1>2, <2>1, Sent DEF ActiveEndpoints, Inv, TypeOK
<1>5. pending' \in [NWK -> [expected : (SUBSET EP) \ {{}}, received : SUBSET EP] \union {NotTracked}]
  <2>1. m.eps # {} => [expected |-> m.eps, received |-> Received(m.nwk) \intersect m.eps]
                        \in [expected : (SUBSET EP) \ {{}}, received : SUBSET EP]
    <3>1. m.eps # {} => m.eps \in (SUBSET EP) \ {{}}
      BY <1>2
    <3>2. Received(m.nwk) \intersect m.eps \in SUBSET EP
      BY <1>2
    <3> QED
      BY <3>1, <3>2
  <2> QED
    BY <1>2, <2>1 DEF ActiveEndpoints, Expect, Inv, TypeOK
<1>6. TypeOK'
  BY <1>2, <1>4, <1>5 DEF ActiveEndpoints, Inv, TypeOK
<1> QED
  BY <1>3, <1>6 DEF Inv

LEMMA DescriptorStep ==
  ASSUME Inv, NEW m \in air, SimpleDescriptor(m)
  PROVE  /\ m.type = "simple_desc_rsp" /\ m.nwk \in NWK /\ m.ep \in EP
         /\ endpoints' \in [IEEE -> SUBSET EP]
         /\ \A i \in IEEE :
              endpoints'[i] = endpoints[i] \union (IF i = Owner(m.nwk) THEN {m.ep} ELSE {})
         /\ CompleteInterviews(IF Full(m.nwk, m.ep) THEN {m.nwk} ELSE {}, endpoints')
<1>1. m \in Message /\ m.type = "simple_desc_rsp"
  BY DEF Inv, TypeOK, SimpleDescriptor
<1>2. m.nwk \in NWK /\ m.ep \in EP
  BY <1>1, Shapes
<1>3. \A i \in IEEE : i = Registry!GetByNwk(m.nwk) <=> i = Owner(m.nwk)
  BY <1>2, MarkersAssumption DEF Inv, Registry!GetByNwk, RegistryOK, Registry!NwkIndexSound, Owner
<1>4. /\ endpoints' = [i \in IEEE |->
                         endpoints[i] \union (IF i = Registry!GetByNwk(m.nwk) THEN {m.ep} ELSE {})]
      /\ CompleteInterviews(IF Full(m.nwk, m.ep) THEN {m.nwk} ELSE {},
                            [i \in IEEE |->
                               endpoints[i] \union (IF i = Registry!GetByNwk(m.nwk) THEN {m.ep} ELSE {})])
  BY Zenon DEF SimpleDescriptor
<1>5. CompleteInterviews(IF Full(m.nwk, m.ep) THEN {m.nwk} ELSE {}, endpoints')
  BY <1>4, Zenon
<1>6. \A i \in IEEE : endpoints'[i] = endpoints[i] \union (IF i = Owner(m.nwk) THEN {m.ep} ELSE {})
  BY <1>3, <1>4
<1>7. endpoints' \in [IEEE -> SUBSET EP]
  BY <1>2, <1>4 DEF Inv, TypeOK
<1> QED
  BY <1>1, <1>2, <1>5, <1>6, <1>7

LEMMA DescriptorInv ==
  ASSUME Inv, NEW m \in air, SimpleDescriptor(m)
  PROVE  Inv'
<1>1. PICK S : S = IF Full(m.nwk, m.ep) THEN {m.nwk} ELSE {}
  OBVIOUS
<1>2. PICK described : described = endpoints'
  OBVIOUS
<1>3. /\ m.nwk \in NWK /\ m.ep \in EP
      /\ described \in [IEEE -> SUBSET EP]
      /\ \A i \in IEEE :
           described[i] = endpoints[i] \union (IF i = Owner(m.nwk) THEN {m.ep} ELSE {})
      /\ CompleteInterviews(S, described)
  BY DescriptorStep, <1>1, <1>2
<1>4. /\ pending' = Record(m.nwk, m.ep) /\ air' = air \ {m}
      /\ UNCHANGED <<dev, byNwk, byName, phase, todo, retries, at, moves, losses, disturbed>>
  BY Zenon DEF SimpleDescriptor
<1>5. S \in SUBSET NWK
  BY <1>1, <1>3
<1>6. \A i \in IEEE : i \notin Registry!Registered => described[i] = {}
  <2> SUFFICES ASSUME NEW i \in IEEE, i \notin Registry!Registered PROVE described[i] = {}
    OBVIOUS
  <2>1. endpoints[i] = {}
    BY DEF Inv, CompleteIsPublished
  <2>2. i # Owner(m.nwk)
    BY <1>3, MarkersAssumption DEF Inv, RegistryOK, Registry!NwkIndexSound, Owner
  <2> QED
    BY <1>3, <2>1, <2>2
<1>7. CompleteIsPublished'
  <2>1. dev' = dev /\ \A i \in IEEE : endpoints[i] \subseteq described[i]
    BY <1>3, <1>4
  <2> QED
    BY <1>2, <1>3, <1>5, <1>6, <2>1, CompletionConsistent, Zenon
<1>8. RegistryOK'
  BY <1>4 DEF Inv, RegistryOK, Registry!NwkIndexSound, Registry!Registered
<1>9. /\ complete' \in [IEEE -> BOOLEAN]
      /\ published' \in [IEEE -> [eps : SUBSET EP, nwk : NWK] \union {NotPublished}]
  BY <1>3, <1>5, Completed, Zenon DEF Inv
<1>10. pending' \in [NWK -> [expected : (SUBSET EP) \ {{}}, received : SUBSET EP] \union {NotTracked}]
  <2>1. ~Full(m.nwk, m.ep) => m.nwk \in Tracked
    BY DEF Full
  <2>2. ~Full(m.nwk, m.ep) => [expected |-> pending[m.nwk].expected,
                               received |-> Received(m.nwk) \union {m.ep}]
                                \in [expected : (SUBSET EP) \ {{}}, received : SUBSET EP]
    BY <1>3, <2>1 DEF Tracked, Received, Inv, TypeOK
  <2> QED
    BY <1>3, <1>4, <2>2 DEF Record, Inv, TypeOK
<1>11. TypeOK'
  <2>1. endpoints' \in [IEEE -> SUBSET EP]
    BY <1>2, <1>3
  <2>2. UNCHANGED <<retries, at, moves, losses, disturbed>> /\ air' \subseteq air
    BY <1>4
  <2>3. /\ retries \subseteq [ieee : IEEE, nwk : NWK, attempt : 1..(MAX_ATTEMPTS + 1)]
        /\ at \in [IEEE -> NWK \union {Unassigned}]
        /\ air \subseteq Message
        /\ moves \in 0..MaxMoves
        /\ losses \in 0..MaxLoss
        /\ disturbed \subseteq NWK
    BY DEF Inv, TypeOK
  <2>4. MAX_ATTEMPTS' = MAX_ATTEMPTS /\ Message' = Message
    BY DEF MAX_ATTEMPTS, Message, ActiveEpReq, SimpleDescReq, ActiveEpRsp, SimpleDescRsp,
      Announce, Resolved, Leave
  <2> QED
    BY <1>9, <1>10, <2>1, <2>2, <2>3, <2>4 DEF TypeOK
<1> QED
  BY <1>7, <1>8, <1>11 DEF Inv

LEMMA ExpireInv ==
  ASSUME Inv, NEW S \in (SUBSET Tracked) \ {{}}, Expire(S)
  PROVE  Inv'
<1>1. PICK R : R = {n \in S : Received(n) # {}}
  OBVIOUS
<1>2. PICK described : described = endpoints
  OBVIOUS
<1>3. /\ CompleteInterviews(R, described)
      /\ pending' = Drop(S) /\ disturbed' = disturbed \union S
      /\ UNCHANGED <<dev, byNwk, byName, phase, todo, endpoints, retries, at, air, moves, losses>>
  BY <1>1, <1>2, Zenon DEF Expire
<1>4. S \subseteq NWK /\ R \in SUBSET NWK
  BY <1>1 DEF Tracked
<1>5. described \in [IEEE -> SUBSET EP]
  BY <1>2 DEF Inv, TypeOK
<1>6. CompleteIsPublished'
  <2>1. /\ \A i \in IEEE : i \notin Registry!Registered => described[i] = {}
        /\ endpoints' = described /\ dev' = dev /\ \A i \in IEEE : endpoints[i] \subseteq described[i]
    BY <1>2, <1>3 DEF Inv, CompleteIsPublished
  <2> QED
    BY <1>3, <1>4, <1>5, <2>1, CompletionConsistent, Zenon
<1>7. RegistryOK'
  BY <1>3 DEF Inv, RegistryOK, Registry!NwkIndexSound, Registry!Registered
<1>8. /\ complete' \in [IEEE -> BOOLEAN]
      /\ published' \in [IEEE -> [eps : SUBSET EP, nwk : NWK] \union {NotPublished}]
  BY <1>3, <1>4, <1>5, Completed, Zenon DEF Inv
<1>9. TypeOK'
  BY <1>3, <1>4, <1>8 DEF Inv, TypeOK, Drop
<1> QED
  BY <1>6, <1>7, <1>9 DEF Inv

\* The retry tasks, the devices and the radio change only the network.
Outside == UNCHANGED <<dev, byNwk, byName, phase, todo, endpoints, complete, pending, published>>

LEMMA RetryInv ==
  ASSUME Inv, NEW t \in retries, Retry(t)
  PROVE  Inv' /\ Outside
<1>1. t \in [ieee : IEEE, nwk : NWK, attempt : 1..(MAX_ATTEMPTS + 1)]
  BY DEF Inv, TypeOK
<1>2. Outside /\ UNCHANGED <<at, moves, losses, disturbed>>
  BY DEF Retry, Outside
<1>3. air' \subseteq Message
  BY <1>1, Sent DEF Retry, Inv, TypeOK
<1>4. retries' \subseteq [ieee : IEEE, nwk : NWK, attempt : 1..(MAX_ATTEMPTS + 1)]
  <2>1. CASE complete[t.ieee] \/ t.attempt > MAX_ATTEMPTS
    BY <2>1 DEF Retry, Inv, TypeOK
  <2>2. CASE ~(complete[t.ieee] \/ t.attempt > MAX_ATTEMPTS)
    <3>1. retries' = (retries \ {t}) \union {Task(t.ieee, t.nwk, t.attempt + 1)}
      BY <2>2 DEF Retry
    <3>2. t.attempt \in 1..MAX_ATTEMPTS
      BY <1>1, <2>2 DEF MAX_ATTEMPTS
    <3>3. Task(t.ieee, t.nwk, t.attempt + 1)
            \in [ieee : IEEE, nwk : NWK, attempt : 1..(MAX_ATTEMPTS + 1)]
      BY <1>1, <3>2 DEF Task, MAX_ATTEMPTS
    <3> QED
      BY <3>1, <3>3 DEF Inv, TypeOK
  <2> QED
    BY <2>1, <2>2
<1>5. TypeOK'
  BY <1>2, <1>3, <1>4 DEF Outside, Inv, TypeOK
<1> QED
  BY <1>2, <1>5, Unaffected DEF Inv, Outside

\* The radio's steps on messages other than the handlers'.
Carries(m) == Refuse(m) \/ Lose(m) \/ Unheard(m) \/ \E i \in IEEE : Answer(i, m)

\* What they make of the messages under way.
Carried(m, new) ==
  /\ m.type = "active_ep_req" => new \in {ActiveEpRsp(m.nwk, {})} \union
                                         {ActiveEpRsp(m.nwk, Has[i]) : i \in {j \in IEEE : at[j] = m.nwk}}
  /\ m.type = "simple_desc_req" =>
       new = SimpleDescRsp(m.nwk, m.ep) /\ \E i \in IEEE : at[i] = m.nwk /\ m.ep \in Has[i]

LEMMA Carrying ==
  ASSUME NEW m \in air, Carries(m)
  PROVE  /\ Outside /\ UNCHANGED <<at, retries, moves, disturbed>>
         /\ losses' \in {losses, losses + 1} /\ (losses' = losses \/ losses < MaxLoss)
         /\ \/ air' = air \ {m}
            \/ /\ m.type \in {"active_ep_req", "simple_desc_req"}
               /\ \E new : Carried(m, new) /\ air' = (air \ {m}) \union {new}
<1>1. Outside /\ UNCHANGED <<at, retries, moves, disturbed>>
  BY DEF Carries, Refuse, Lose, Unheard, Answer, Outside, interviewVars
<1>2. losses' \in {losses, losses + 1} /\ (losses' = losses \/ losses < MaxLoss)
  BY DEF Carries, Refuse, Lose, Unheard, Answer
<1>3. CASE Refuse(m)
  BY <1>1, <1>2, <1>3 DEF Refuse, Carried
<1>4. CASE Lose(m) \/ Unheard(m)
  BY <1>1, <1>2, <1>4 DEF Lose, Unheard
<1>5. ASSUME NEW i \in IEEE, Answer(i, m)
      PROVE  \/ air' = air \ {m}
             \/ /\ m.type \in {"active_ep_req", "simple_desc_req"}
                /\ \E new : Carried(m, new) /\ air' = (air \ {m}) \union {new}
  <2>1. CASE m.type = "active_ep_req"
    <3>1. at[i] = m.nwk /\ air' = (air \ {m}) \union {ActiveEpRsp(m.nwk, Has[i])}
      BY <1>5, <2>1 DEF Answer
    <3>2. Carried(m, ActiveEpRsp(m.nwk, Has[i]))
      BY <2>1, <3>1 DEF Carried
    <3> QED
      BY <2>1, <3>1, <3>2
  <2>2. CASE m.type = "simple_desc_req"
    <3>1. at[i] = m.nwk
          /\ air' = (air \ {m}) \union (IF m.ep \in Has[i] THEN {SimpleDescRsp(m.nwk, m.ep)} ELSE {})
      BY <1>5, <2>2 DEF Answer
    <3>2. CASE m.ep \in Has[i]
      BY <2>2, <3>1, <3>2 DEF Carried
    <3>3. CASE m.ep \notin Has[i]
      BY <3>1, <3>3
    <3> QED
      BY <3>2, <3>3
  <2> QED
    BY <1>5, <2>1, <2>2 DEF Answer
<1> QED
  BY <1>1, <1>2, <1>3, <1>4, <1>5 DEF Carries

LEMMA CarryInv ==
  ASSUME Inv, NEW m \in air, Carries(m)
  PROVE  Inv'
<1>1. m \in Message
  BY DEF Inv, TypeOK
<1>2. air' \subseteq Message
  <2>1. \A new : m.type \in {"active_ep_req", "simple_desc_req"} /\ Carried(m, new) => new \in Message
    BY <1>1, Shapes, Sent, InterviewAssumption DEF Carried
  <2> QED
    BY <2>1, Carrying DEF Inv, TypeOK
<1>3. losses' \in 0..MaxLoss
  BY Carrying, InterviewAssumption DEF Inv, TypeOK
<1>4. TypeOK'
  BY <1>2, <1>3, Carrying DEF Outside, Inv, TypeOK
<1> QED
  BY <1>4, Unaffected, Carrying DEF Inv, Outside

LEMMA MoveInv ==
  ASSUME Inv, NEW i \in IEEE, Depart(i) \/ Report(i) \/ \E n \in NWK : Arrive(i, n)
  PROVE  Inv'
<1>1. Outside /\ UNCHANGED <<retries, losses>>
  BY DEF Depart, Report, Arrive, Outside, interviewVars
<1>2. at[i] \in NWK \union {Unassigned}
  BY DEF Inv, TypeOK
<1>3. CASE Depart(i)
  <2>1. TypeOK'
    BY <1>1, <1>2, <1>3, Sent, InterviewAssumption DEF Depart, Outside, Inv, TypeOK
  <2> QED
    BY <1>1, <2>1, Unaffected DEF Inv, Outside
<1>4. CASE Report(i)
  <2>1. TypeOK'
    BY <1>1, <1>2, <1>4, Sent DEF Report, Outside, Inv, TypeOK
  <2> QED
    BY <1>1, <2>1, Unaffected DEF Inv, Outside
<1>5. ASSUME NEW n \in NWK, Arrive(i, n)
      PROVE  Inv'
  <2>1. TypeOK'
    BY <1>1, <1>2, <1>5, Sent, InterviewAssumption DEF Arrive, Outside, Inv, TypeOK
  <2> QED
    BY <1>1, <2>1, Unaffected DEF Inv, Outside
<1> QED
  BY <1>3, <1>4, <1>5

\* Every step is one of these.
LEMMA Cases ==
  ASSUME Next
  PROVE  \/ \E m \in air : DeviceJoined(m) \/ AddressResolved(m)
         \/ \E m \in air : DeviceLeft(m)
         \/ \E m \in air : ActiveEndpoints(m)
         \/ \E m \in air : SimpleDescriptor(m)
         \/ \E S \in (SUBSET Tracked) \ {{}} : Expire(S)
         \/ \E t \in retries : Retry(t)
         \/ \E m \in air : Carries(m)
         \/ \E i \in IEEE : Depart(i) \/ Report(i) \/ \E n \in NWK : Arrive(i, n)
BY Zenon DEF Next, Radio, Deliver, Handle, Carries

LEMMA InvStep == Inv /\ [Next]_vars => Inv'
<1>1. CASE UNCHANGED vars /\ Inv
  <2>1. TypeOK'
    BY <1>1 DEF vars, Inv, TypeOK
  <2> QED
    BY <1>1, <2>1, Unaffected DEF vars, Inv
<1>2. ASSUME Inv, Next PROVE Inv'
  BY <1>2, Cases, SeenInv, LeftInv, ActiveInv, DescriptorInv, ExpireInv, RetryInv, CarryInv, MoveInv
<1> QED
  BY <1>1, <1>2

\* Every reachable state has the types of TypeOK, for any constants.
THEOREM InterviewTypes == Spec => []TypeOK
<1>1. Inv => TypeOK
  BY DEF Inv
<1> QED
  BY <1>1, InvInit, InvStep, PTL DEF Spec

\* A device is complete exactly when its discovery has been published, from
\* described endpoints, and an unregistered one keeps no trace (bridge.rs,
\* complete_interview and handle_device_left).
THEOREM Completion == Spec => []CompleteIsPublished
<1>1. Inv => CompleteIsPublished
  BY DEF Inv
<1> QED
  BY <1>1, InvInit, InvStep, PTL DEF Spec

-----------------------------------------------------------------------------
\* The addresses not cut short, action by action.

LEMMA FreshInit == Init => FreshInv
<1> SUFFICES ASSUME Init PROVE FreshInv
  OBVIOUS
<1>1. \A i \in IEEE : dev[i] = NoDevice /\ endpoints[i] = {} /\ published[i] = NotPublished
                      /\ at[i] = Unassigned
  BY DEF Init
<1>2. \A n \in NWK : byNwk[n] = NoDevice /\ pending[n] = NotTracked
  BY DEF Init
<1>3. OneHolder /\ OwnerHolds /\ RecordIndexed
  BY <1>1, <1>2, MarkersAssumption DEF OneHolder, OwnerHolds, RecordIndexed, Owner, Fresh,
    Registry!Registered
<1>4. AirFromHolder /\ TasksOfOwner
  BY DEF Init, AirFromHolder, TasksOfOwner
<1>5. TrackedOfOwner /\ NothingForeign /\ PartialNeedsDisturbance
  BY <1>1, <1>2 DEF TrackedOfOwner, Tracked, NothingForeign, PartialNeedsDisturbance
<1> QED
  BY <1>3, <1>4, <1>5 DEF FreshInv

\* Nothing is published and no endpoint is described.
LEMMA NothingNew ==
  ASSUME FreshInv, UNCHANGED <<endpoints, published>>, disturbed \subseteq disturbed'
  PROVE  NothingForeign' /\ PartialNeedsDisturbance'
BY DEF FreshInv, NothingForeign, PartialNeedsDisturbance

LEMMA SeenFresh ==
  ASSUME Inv, FreshInv, NEW m \in air, DeviceJoined(m) \/ AddressResolved(m)
  PROVE  FreshInv'
<1>1. m \in Message /\ m.type \in {"announce", "resolved"}
  BY DEF Inv, TypeOK, DeviceJoined, AddressResolved
<1>2. m.ieee \in IEEE /\ m.nwk \in NWK
  BY <1>1, Shapes
<1>3. /\ Registry!DeviceSeen(m.ieee, m.nwk)
      /\ air' \subseteq air
      /\ retries' \subseteq retries \union {Task(m.ieee, m.nwk, 1)}
      /\ disturbed' = disturbed \union Reassigned
      /\ UNCHANGED <<endpoints, complete, pending, at, published>>
  BY DEF DeviceJoined, AddressResolved
<1>4. PICK r \in Registry!Device : r.nwk = m.nwk /\ dev' = [dev EXCEPT ![m.ieee] = r]
  BY <1>2, <1>3, Learned DEF Inv
<1>5. Indexed(m.ieee, m.nwk)
  BY <1>2, <1>3, Learned DEF Inv
<1>6. \A k \in Fresh' :
        /\ k \in Fresh
        /\ Owner(k) # NoDevice => Owner(k)' = Owner(k)
        /\ Owner(k) = NoDevice /\ Owner(k)' # NoDevice => k = m.nwk /\ Owner(k)' = m.ieee
  <2>1. \A k \in Fresh' : k \in NWK /\ k \in Fresh /\ k \notin Reassigned
    BY <1>3 DEF Fresh
  <2>2. \A k \in NWK : k \notin Reassigned => byNwk[k] = NoDevice \/ byNwk'[k] = byNwk[k]
    BY DEF Reassigned
  <2>3. \A k \in NWK : byNwk[k] = NoDevice /\ byNwk'[k] # NoDevice => k = m.nwk /\ byNwk'[k] = m.ieee
    BY <1>5, <1>2, MarkersAssumption DEF Indexed
  <2> QED
    BY <2>1, <2>2, <2>3 DEF Owner
<1>7. Owner(m.nwk)' = m.ieee /\ m.ieee # NoDevice
  BY <1>2, <1>5, MarkersAssumption DEF Owner, Indexed
<1>8. OneHolder' /\ OwnerHolds'
  <2>1. m.nwk \in Fresh => at[m.ieee] = m.nwk
    BY <1>1 DEF FreshInv, AirFromHolder, FromHolder
  <2> QED
    BY <1>3, <1>6, <2>1 DEF FreshInv, OneHolder, OwnerHolds
<1>9. RecordIndexed'
  <2> SUFFICES ASSUME NEW j \in Registry!Registered', dev'[j].nwk \in Fresh'
               PROVE  byNwk'[dev'[j].nwk] = j
    BY DEF RecordIndexed, Owner
  <2>1. CASE j = m.ieee
    <3>1. dev'[j].nwk = m.nwk
      BY <1>2, <1>4, <2>1 DEF Inv, RegistryOK
    <3> QED
      BY <1>7, <2>1, <3>1 DEF Owner
  <2>2. CASE j # m.ieee
    <3>1. j \in IEEE /\ dev'[j] = dev[j] /\ dev'[j] # NoDevice
      BY <1>4, <2>2 DEF Registry!Registered, Inv, RegistryOK
    <3>2. dev[j].nwk \in Fresh' /\ j \in Registry!Registered
      BY <3>1 DEF Registry!Registered
    <3>3. Owner(dev[j].nwk) = j /\ j # NoDevice
      BY <1>6, <3>1, <3>2, MarkersAssumption DEF FreshInv, RecordIndexed
    <3> QED
      BY <1>6, <3>1, <3>2, <3>3 DEF Owner
  <2> QED
    BY <2>1, <2>2
<1>10. Tracked' = Tracked
  BY <1>3 DEF Tracked
<1>11. AirFromHolder'
  <2> SUFFICES ASSUME NEW q \in air', q.nwk \in Fresh'
               PROVE  FromHolder(q)'
    BY DEF AirFromHolder
  <2>1. q \in air /\ q.nwk \in Fresh /\ FromHolder(q)
    BY <1>3, <1>6 DEF FreshInv, AirFromHolder
  <2>2. Owner(q.nwk) # NoDevice => Owner(q.nwk)' = Owner(q.nwk)
    BY <1>6
  <2>3. CASE Owner(q.nwk) # NoDevice
    BY <1>3, <1>10, <2>1, <2>2, <2>3 DEF FromHolder
  <2>4. CASE Owner(q.nwk) = NoDevice
    BY <1>3, <2>1, <2>4 DEF FromHolder
  <2> QED
    BY <2>3, <2>4
<1>12. TasksOfOwner'
  <2>1. Task(m.ieee, m.nwk, 1).nwk = m.nwk
    BY DEF Task
  <2> QED
    BY <1>3, <1>6, <1>7, <2>1 DEF FreshInv, TasksOfOwner
<1>13. TrackedOfOwner'
  BY <1>3, <1>6, <1>10 DEF FreshInv, TrackedOfOwner
<1>14. NothingForeign' /\ PartialNeedsDisturbance'
  BY <1>3, NothingNew
<1> QED
  BY <1>8, <1>9, <1>11, <1>12, <1>13, <1>14 DEF FreshInv

LEMMA LeftFresh ==
  ASSUME Inv, FreshInv, NEW m \in air, DeviceLeft(m)
  PROVE  FreshInv'
<1>1. m \in Message /\ m.type = "leave"
  BY DEF Inv, TypeOK, DeviceLeft
<1>2. m.ieee \in IEEE
  BY <1>1, Shapes
<1>3. /\ Registry!DeviceLeft(m.ieee)
      /\ pending' = IF m.ieee \in Registry!Registered THEN Drop({dev[m.ieee].nwk}) ELSE pending
      /\ endpoints' = [endpoints EXCEPT ![m.ieee] = {}]
      /\ complete' = [complete EXCEPT ![m.ieee] = FALSE]
      /\ air' \subseteq air
      /\ published' = [published EXCEPT ![m.ieee] = NotPublished]
      /\ disturbed' = disturbed \union Reassigned
      /\ UNCHANGED <<retries, at>>
  BY DEF DeviceLeft
<1>4. /\ dev' = [dev EXCEPT ![m.ieee] = NoDevice]
      /\ byNwk' = [k \in NWK |-> IF byNwk[k] = m.ieee THEN NoDevice ELSE byNwk[k]]
  BY <1>2, <1>3, Removed DEF Inv
<1>5. \A k \in Fresh' : k \in Fresh /\ k \in NWK /\ Owner(k)' = Owner(k) /\ Owner(k) # m.ieee
  <2>1. \A k \in Fresh' : k \in NWK /\ k \in Fresh /\ k \notin Reassigned
    BY <1>3 DEF Fresh
  <2>2. \A k \in NWK : k \notin Reassigned => byNwk[k] = NoDevice \/ byNwk'[k] = byNwk[k]
    BY DEF Reassigned
  <2>3. \A k \in NWK : byNwk'[k] = IF byNwk[k] = m.ieee THEN NoDevice ELSE byNwk[k]
    BY <1>4
  <2> QED
    BY <1>2, <2>1, <2>2, <2>3, MarkersAssumption DEF Owner
<1>6. \A k \in Fresh' : pending'[k] = pending[k]
  <2> SUFFICES ASSUME NEW k \in Fresh' PROVE pending'[k] = pending[k]
    OBVIOUS
  <2>1. CASE m.ieee \in Registry!Registered
    <3>1. dev[m.ieee].nwk # k
      BY <1>5, <2>1 DEF FreshInv, RecordIndexed
    <3> QED
      BY <1>3, <1>5, <2>1, <3>1 DEF Drop
  <2>2. CASE m.ieee \notin Registry!Registered
    BY <1>3, <2>2
  <2> QED
    BY <2>1, <2>2
<1>7. OneHolder' /\ OwnerHolds'
  BY <1>3, <1>5 DEF FreshInv, OneHolder, OwnerHolds
<1>8. RecordIndexed'
  <2> SUFFICES ASSUME NEW j \in Registry!Registered', dev'[j].nwk \in Fresh'
               PROVE  byNwk'[dev'[j].nwk] = j
    BY DEF RecordIndexed, Owner
  <2>1. j \in Registry!Registered /\ dev'[j] = dev[j]
    BY <1>4 DEF Registry!Registered, Inv, RegistryOK
  <2> QED
    <3>1. Owner(dev[j].nwk) = j
      BY <1>5, <2>1 DEF FreshInv, RecordIndexed
    <3> QED
      BY <1>5, <2>1, <3>1 DEF Owner
<1>9. \A k \in Fresh' : /\ k \in Tracked' <=> k \in Tracked
                        /\ Owner(k) # NoDevice => /\ complete[Owner(k)] => complete'[Owner(k)]
                                                  /\ endpoints'[Owner(k)] = endpoints[Owner(k)]
  <2>1. \A k \in Fresh' : k \in Tracked' <=> k \in Tracked
    BY <1>5, <1>6 DEF Tracked
  <2>2. \A k \in Fresh' : Owner(k) # NoDevice => Owner(k) \in IEEE \ {m.ieee}
    BY <1>5 DEF Owner, Inv, RegistryOK
  <2>3. \A i \in IEEE \ {m.ieee} : (complete[i] => complete'[i]) /\ endpoints'[i] = endpoints[i]
    BY <1>3 DEF Inv, TypeOK
  <2> QED
    BY <2>1, <2>2, <2>3
<1>10. AirFromHolder'
  <2> SUFFICES ASSUME NEW q \in air', q.nwk \in Fresh'
               PROVE  FromHolder(q)'
    BY DEF AirFromHolder
  <2>1. q \in air /\ q.nwk \in Fresh /\ FromHolder(q)
    BY <1>3, <1>5 DEF FreshInv, AirFromHolder
  <2>2. /\ Owner(q.nwk)' = Owner(q.nwk) /\ at' = at
        /\ q.nwk \in Tracked' <=> q.nwk \in Tracked
        /\ Owner(q.nwk) # NoDevice /\ complete[Owner(q.nwk)] => complete'[Owner(q.nwk)]
    BY <1>3, <1>5, <1>9
  <2>3. CASE Owner(q.nwk) # NoDevice
    BY <2>1, <2>2, <2>3 DEF FromHolder
  <2>4. CASE Owner(q.nwk) = NoDevice
    BY <2>1, <2>2, <2>4 DEF FromHolder
  <2> QED
    BY <2>3, <2>4
<1>11. TasksOfOwner'
  BY <1>3, <1>5 DEF FreshInv, TasksOfOwner
<1>12. TrackedOfOwner'
  <2> SUFFICES ASSUME NEW k \in Fresh', k \in Tracked'
               PROVE  /\ byNwk'[k] # NoDevice
                      /\ pending'[k].expected = Has[byNwk'[k]]
                      /\ pending'[k].received \subseteq endpoints'[byNwk'[k]]
    BY DEF TrackedOfOwner, Owner
  <2>1. /\ Owner(k) # NoDevice
        /\ pending[k].expected = Has[Owner(k)]
        /\ pending[k].received \subseteq endpoints[Owner(k)]
    BY <1>5, <1>9 DEF FreshInv, TrackedOfOwner
  <2>2. byNwk'[k] = Owner(k)
    BY <1>5 DEF Owner
  <2> QED
    BY <1>6, <1>9, <2>1, <2>2
<1>13. NothingForeign' /\ PartialNeedsDisturbance'
  <2>1. disturbed \subseteq disturbed'
    BY <1>3
  <2>2. \A i \in IEEE : /\ endpoints'[i] \subseteq endpoints[i]
                        /\ published'[i] \in {published[i], NotPublished}
    BY <1>3 DEF Inv, TypeOK
  <2> QED
    BY <2>1, <2>2 DEF FreshInv, NothingForeign, PartialNeedsDisturbance
<1> QED
  BY <1>7, <1>8, <1>10, <1>11, <1>12, <1>13 DEF FreshInv

\* The registry and the addresses held stay as they are.
LEMMA SameOwners ==
  ASSUME FreshInv, UNCHANGED <<dev, byNwk, at>>, disturbed \subseteq disturbed'
  PROVE  /\ OneHolder' /\ OwnerHolds' /\ RecordIndexed'
         /\ Fresh' \subseteq Fresh
         /\ \A k \in Fresh' : Owner(k)' = Owner(k)
<1>1. UNCHANGED <<dev, byNwk, at>> /\ Fresh' \subseteq Fresh
  BY DEF Fresh
<1>2. \A k \in Fresh' : Owner(k)' = Owner(k)
  BY DEF Owner
<1>3. OneHolder' /\ OwnerHolds'
  BY <1>1, <1>2 DEF FreshInv, OneHolder, OwnerHolds
<1>4. RecordIndexed'
  BY <1>1 DEF FreshInv, RecordIndexed, Owner, Registry!Registered
<1> QED
  BY <1>1, <1>2, <1>3, <1>4

\* A message about an address that stays fresh is still its owner's, if the
\* owner stays tracked or complete.
LEMMA StillFromHolder ==
  ASSUME NEW q, FromHolder(q), at' = at, Owner(q.nwk)' = Owner(q.nwk),
         (q.type \in {"simple_desc_req", "simple_desc_rsp"}
          /\ (q.nwk \in Tracked \/ complete[Owner(q.nwk)]))
           => (q.nwk \in Tracked' \/ complete'[Owner(q.nwk)])
  PROVE  FromHolder(q)'
<1>1. /\ q.type \in {"simple_desc_req", "simple_desc_rsp"} =>
           q.nwk \in Tracked' \/ complete'[Owner(q.nwk)]
  BY Zenon DEF FromHolder
<1>2. /\ q.type \in {"announce", "resolved"} => at'[q.ieee] = q.nwk
      /\ q.type \in {"active_ep_req", "active_ep_rsp", "simple_desc_req", "simple_desc_rsp"}
           => Owner(q.nwk) # NoDevice
      /\ q.type = "active_ep_rsp" => q.eps = {} \/ q.eps = Has[Owner(q.nwk)]
      /\ q.type = "simple_desc_rsp" => q.ep \in Has[Owner(q.nwk)]
  BY DEF FromHolder
<1> QED
  BY <1>1, <1>2, Zenon DEF FromHolder

LEMMA ActiveFresh ==
  ASSUME Inv, FreshInv, NEW m \in air, ActiveEndpoints(m)
  PROVE  FreshInv'
<1>1. m \in Message /\ m.type = "active_ep_rsp"
  BY DEF Inv, TypeOK, ActiveEndpoints
<1>2. m.nwk \in NWK /\ m.eps \in SUBSET EP
  BY <1>1, Shapes
<1>3. /\ pending' = Expect(m.nwk, m.eps)
      /\ air' = (air \ {m}) \union {SimpleDescReq(m.nwk, ep) : ep \in Missing(m.nwk, m.eps)}
      /\ disturbed' = IF m.eps = {} /\ m.nwk \in Tracked THEN disturbed \union {m.nwk} ELSE disturbed
      /\ UNCHANGED <<dev, byNwk, endpoints, complete, retries, at, published>>
  BY DEF ActiveEndpoints
<1>4. /\ OneHolder' /\ OwnerHolds' /\ RecordIndexed'
      /\ Fresh' \subseteq Fresh
      /\ \A k \in Fresh' : Owner(k)' = Owner(k)
  BY <1>3, SameOwners
<1>5. \A k \in NWK \ {m.nwk} : pending'[k] = pending[k]
  BY <1>2, <1>3 DEF Expect, Inv, TypeOK
<1>6. m.nwk \in Fresh' => Owner(m.nwk) # NoDevice /\ (m.eps = {} \/ m.eps = Has[Owner(m.nwk)])
  BY <1>1, <1>4 DEF FreshInv, AirFromHolder, FromHolder
<1>7. m.nwk \in Fresh' /\ m.eps = {} => m.nwk \notin Tracked /\ m.nwk \notin Tracked'
  <2>1. m.nwk \in Fresh' /\ m.eps = {} => m.nwk \notin Tracked
    BY <1>3 DEF Fresh
  <2>2. m.eps = {} => pending'[m.nwk] = NotTracked
    BY <1>2, <1>3 DEF Expect, Inv, TypeOK
  <2> QED
    BY <2>1, <2>2 DEF Tracked
<1>8. m.eps # {} => /\ pending'[m.nwk] = [expected |-> m.eps, received |-> Received(m.nwk) \intersect m.eps]
                    /\ m.nwk \in Tracked'
  <2>1. m.eps # {} => pending'[m.nwk] = [expected |-> m.eps,
                                         received |-> Received(m.nwk) \intersect m.eps]
    BY <1>2, <1>3 DEF Expect, Inv, TypeOK
  <2>2. [expected |-> m.eps, received |-> Received(m.nwk) \intersect m.eps]
          \in [expected : SUBSET EP, received : SUBSET EP]
    BY <1>2
  <2> QED
    BY <1>2, <2>1, <2>2, MarkersAssumption DEF Tracked
<1>9. \A k \in Fresh' : k \in Tracked => k \in Tracked'
  BY <1>5, <1>7, <1>8 DEF Tracked
<1>10. AirFromHolder'
  <2> SUFFICES ASSUME NEW q \in air', q.nwk \in Fresh'
               PROVE  FromHolder(q)'
    BY DEF AirFromHolder
  <2>1. CASE q \in air
    <3>1. FromHolder(q) /\ at' = at /\ Owner(q.nwk)' = Owner(q.nwk) /\ complete' = complete
      BY <1>3, <1>4, <2>1 DEF FreshInv, AirFromHolder
    <3>2. q.nwk \in Tracked => q.nwk \in Tracked'
      BY <1>9
    <3> QED
      BY <3>1, <3>2, StillFromHolder
  <2>2. CASE q \notin air
    <3>1. PICK ep \in Missing(m.nwk, m.eps) : q = SimpleDescReq(m.nwk, ep)
      BY <1>3, <2>2
    <3>2. q.type = "simple_desc_req" /\ q.nwk = m.nwk
      BY <3>1 DEF SimpleDescReq
    <3>3. m.eps # {}
      BY <3>1 DEF Missing
    <3> QED
      BY <1>4, <1>6, <1>8, <3>2, <3>3 DEF FromHolder
  <2> QED
    BY <2>1, <2>2
<1>11. TasksOfOwner'
  BY <1>3, <1>4 DEF FreshInv, TasksOfOwner
<1>12. TrackedOfOwner'
  <2> SUFFICES ASSUME NEW k \in Fresh', k \in Tracked'
               PROVE  /\ byNwk'[k] # NoDevice
                      /\ pending'[k].expected = Has[byNwk'[k]]
                      /\ pending'[k].received \subseteq endpoints'[byNwk'[k]]
    BY DEF TrackedOfOwner, Owner
  <2>1. byNwk'[k] = Owner(k) /\ endpoints' = endpoints
    BY <1>3 DEF Owner
  <2>2. CASE k # m.nwk
    <3>1. pending'[k] = pending[k] /\ k \in Tracked
      BY <1>5, <2>2 DEF Tracked
    <3> QED
      BY <1>4, <2>1, <3>1 DEF FreshInv, TrackedOfOwner
  <2>3. CASE k = m.nwk
    <3>1. /\ m.eps = Has[Owner(k)] /\ Owner(k) # NoDevice
          /\ pending'[k].expected = m.eps /\ pending'[k].received \subseteq Received(k)
      BY <1>6, <1>7, <1>8, <2>3
    <3>2. Received(k) \subseteq endpoints[Owner(k)]
      BY <1>4, <3>1 DEF FreshInv, TrackedOfOwner, Received
    <3> QED
      BY <2>1, <3>1, <3>2
  <2> QED
    BY <2>2, <2>3
<1>13. NothingForeign' /\ PartialNeedsDisturbance'
  BY <1>3, NothingNew
<1> QED
  BY <1>4, <1>10, <1>11, <1>12, <1>13 DEF FreshInv

\* The case the invariant is for: what a descriptor completes.
LEMMA DescriptorFresh ==
  ASSUME Inv, FreshInv, NEW m \in air, SimpleDescriptor(m)
  PROVE  FreshInv'
<1>1. PICK S : S = IF Full(m.nwk, m.ep) THEN {m.nwk} ELSE {}
  OBVIOUS
<1>2. PICK described : described = endpoints'
  OBVIOUS
<1>3. /\ m.type = "simple_desc_rsp" /\ m.nwk \in NWK /\ m.ep \in EP
      /\ described \in [IEEE -> SUBSET EP]
      /\ \A i \in IEEE :
           described[i] = endpoints[i] \union (IF i = Owner(m.nwk) THEN {m.ep} ELSE {})
      /\ CompleteInterviews(S, described)
  BY DescriptorStep, <1>1, <1>2
<1>4. /\ pending' = Record(m.nwk, m.ep) /\ air' \subseteq air
      /\ UNCHANGED <<dev, byNwk, retries, at, disturbed>>
  <2>1. /\ pending' = Record(m.nwk, m.ep) /\ air' = air \ {m}
        /\ UNCHANGED <<dev, byNwk, byName, phase, todo, retries, at, moves, losses, disturbed>>
    BY Zenon DEF SimpleDescriptor
  <2> QED
    BY <2>1
<1>5. /\ OneHolder' /\ OwnerHolds' /\ RecordIndexed'
      /\ Fresh' = Fresh
      /\ \A k \in Fresh' : Owner(k)' = Owner(k)
  BY <1>4, SameOwners DEF Fresh
<1>6. /\ \A i \in IEEE : \/ complete'[i] = complete[i] /\ published'[i] = published[i]
                         \/ Publishes(i, S, described)
      /\ \A n \in S : Owner(n) # NoDevice /\ described[Owner(n)] # {} => complete'[Owner(n)]
  <2>1. S \in SUBSET NWK
    BY <1>1, <1>3
  <2> QED
    BY <1>3, <2>1, Completed, Zenon DEF Inv
<1>7. /\ \A k \in NWK \ {m.nwk} : pending'[k] = pending[k]
      /\ ~Full(m.nwk, m.ep) => /\ m.nwk \in Tracked /\ m.nwk \in Tracked'
                               /\ pending'[m.nwk] = [expected |-> pending[m.nwk].expected,
                                                     received |-> Received(m.nwk) \union {m.ep}]
      /\ Full(m.nwk, m.ep) => m.nwk \notin Tracked'
  <2>1. \A k \in NWK \ {m.nwk} : pending'[k] = pending[k]
    BY <1>3, <1>4 DEF Record, Inv, TypeOK
  <2>2. pending'[m.nwk] = IF Full(m.nwk, m.ep) THEN NotTracked
                          ELSE [expected |-> pending[m.nwk].expected,
                                received |-> Received(m.nwk) \union {m.ep}]
    BY <1>3, <1>4 DEF Record, Inv, TypeOK
  <2>3. ~Full(m.nwk, m.ep) => m.nwk \in Tracked
    BY DEF Full
  <2>4. m.nwk \in Tracked => [expected |-> pending[m.nwk].expected,
                              received |-> Received(m.nwk) \union {m.ep}]
                               \in [expected : SUBSET EP, received : SUBSET EP]
    BY <1>3 DEF Tracked, Received, Inv, TypeOK
  <2> QED
    BY <1>3, <2>1, <2>2, <2>3, <2>4, MarkersAssumption DEF Tracked
<1>8. m.nwk \in Fresh => /\ Owner(m.nwk) # NoDevice /\ Owner(m.nwk) \in IEEE
                         /\ m.ep \in Has[Owner(m.nwk)]
                         /\ m.nwk \in Tracked \/ complete[Owner(m.nwk)]
  BY <1>3 DEF FreshInv, AirFromHolder, FromHolder, Owner, Inv, RegistryOK
<1>9. \A i \in IEEE : complete[i] => complete'[i]
  BY <1>6, Zenon DEF Publishes
<1>10. AirFromHolder'
  <2> SUFFICES ASSUME NEW q \in air', q.nwk \in Fresh'
               PROVE  FromHolder(q)'
    BY DEF AirFromHolder
  <2>1. FromHolder(q) /\ at' = at /\ Owner(q.nwk)' = Owner(q.nwk) /\ q.nwk \in NWK
    BY <1>4, <1>5 DEF FreshInv, AirFromHolder, Fresh
  <2>2. q.type \in {"simple_desc_req", "simple_desc_rsp"} =>
          q.nwk \in Tracked' \/ complete'[Owner(q.nwk)]
    <3> SUFFICES ASSUME q.type \in {"simple_desc_req", "simple_desc_rsp"}
                 PROVE  q.nwk \in Tracked' \/ complete'[Owner(q.nwk)]
      OBVIOUS
    <3>1. /\ Owner(q.nwk) # NoDevice /\ Owner(q.nwk) \in IEEE
          /\ q.nwk \in Tracked \/ complete[Owner(q.nwk)]
      BY <2>1 DEF FromHolder, Owner, Inv, RegistryOK
    <3>2. CASE complete[Owner(q.nwk)]
      BY <1>9, <3>1, <3>2, Zenon
    <3>3. CASE q.nwk \in Tracked /\ q.nwk # m.nwk
      BY <1>7, <2>1, <3>3 DEF Tracked
    <3>4. CASE q.nwk = m.nwk /\ Full(m.nwk, m.ep)
      <4>1. m.nwk \in S /\ described[Owner(m.nwk)] # {}
        BY <1>1, <1>3, <3>1, <3>4
      <4> QED
        BY <1>6, <3>1, <3>4, <4>1, Zenon
    <3>5. CASE q.nwk = m.nwk /\ ~Full(m.nwk, m.ep)
      BY <1>7, <3>5
    <3> QED
      BY <3>1, <3>2, <3>3, <3>4, <3>5
  <2> QED
    BY <2>1, <2>2, StillFromHolder, Zenon
<1>11. TasksOfOwner'
  BY <1>4, <1>5 DEF FreshInv, TasksOfOwner
<1>12. TrackedOfOwner'
  <2> SUFFICES ASSUME NEW k \in Fresh', k \in Tracked'
               PROVE  /\ byNwk'[k] # NoDevice
                      /\ pending'[k].expected = Has[byNwk'[k]]
                      /\ pending'[k].received \subseteq endpoints'[byNwk'[k]]
    BY DEF TrackedOfOwner, Owner
  <2>1. k \in NWK /\ byNwk'[k] = Owner(k)
    BY <1>4 DEF Owner, Fresh
  <2>2. k \in Tracked
    BY <1>7, <2>1 DEF Tracked
  <2>3. /\ Owner(k) # NoDevice /\ Owner(k) \in IEEE
        /\ pending[k].expected = Has[Owner(k)]
        /\ pending[k].received \subseteq endpoints[Owner(k)]
        /\ Received(k) = pending[k].received
    BY <1>5, <2>1, <2>2 DEF FreshInv, TrackedOfOwner, Owner, Inv, RegistryOK, Received
  <2>4. endpoints[Owner(k)] \subseteq endpoints'[Owner(k)]
    BY <1>2, <1>3, <2>3
  <2>5. CASE k # m.nwk
    BY <1>7, <2>1, <2>3, <2>4, <2>5
  <2>6. CASE k = m.nwk
    <3>1. /\ pending'[k].expected = pending[k].expected
          /\ pending'[k].received = Received(k) \union {m.ep}
      BY <1>7, <2>6
    <3>2. m.ep \in endpoints'[Owner(k)]
      BY <1>2, <1>3, <2>3, <2>6
    <3> QED
      BY <2>1, <2>3, <2>4, <3>1, <3>2
  <2> QED
    BY <2>5, <2>6
<1>13. NothingForeign'
  <2> SUFFICES ASSUME disturbed' = {}, NEW i \in IEEE
               PROVE  endpoints'[i] \subseteq Has[i]
    BY DEF NothingForeign
  <2>1. endpoints[i] \subseteq Has[i]
    BY <1>4 DEF FreshInv, NothingForeign
  <2>2. m.nwk \in Fresh
    BY <1>3, <1>4 DEF Fresh
  <2>3. m.ep \in Has[Owner(m.nwk)]
    BY <1>8, <2>2
  <2> QED
    BY <1>2, <1>3, <2>1, <2>3
<1>14. PartialNeedsDisturbance'
  <2> SUFFICES ASSUME NEW i \in IEEE, published'[i] # NotPublished
               PROVE  /\ published'[i].nwk \notin disturbed' => Has[i] \subseteq published'[i].eps
                      /\ disturbed' = {} => published'[i].eps \subseteq Has[i]
    BY DEF PartialNeedsDisturbance
  <2>1. CASE published'[i] = published[i]
    BY <1>4, <2>1 DEF FreshInv, PartialNeedsDisturbance
  <2>2. CASE Publishes(i, S, described)
    <3>1. /\ ~complete[i] /\ Full(m.nwk, m.ep) /\ dev[i].nwk = m.nwk /\ Owner(m.nwk) = i
          /\ published'[i] = [eps |-> described[i], nwk |-> m.nwk]
      BY <1>1, <2>2, Zenon DEF Publishes
    <3>2. published'[i].eps = endpoints'[i] /\ published'[i].nwk = m.nwk
      BY <1>2, <3>1
    <3>3. disturbed' = {} => published'[i].eps \subseteq Has[i]
      BY <1>13, <3>2 DEF NothingForeign
    <3>4. ASSUME m.nwk \notin disturbed'
          PROVE  Has[i] \subseteq endpoints'[i]
      <4>1. m.nwk \in Fresh
        BY <1>3, <1>4, <3>4 DEF Fresh
      <4>2. m.nwk \in Tracked
        BY <1>8, <3>1, <4>1
      <4>3. pending[m.nwk].expected = Has[i] /\ Received(m.nwk) \subseteq endpoints[i]
        BY <3>1, <4>1, <4>2 DEF FreshInv, TrackedOfOwner, Received
      <4>4. Has[i] \subseteq Received(m.nwk) \union {m.ep}
        BY <3>1, <4>2, <4>3 DEF Full
      <4> QED
        BY <1>2, <1>3, <3>1, <4>3, <4>4
    <3> QED
      BY <3>2, <3>3, <3>4
  <2> QED
    BY <1>6, <2>1, <2>2
<1> QED
  BY <1>5, <1>10, <1>11, <1>12, <1>13, <1>14 DEF FreshInv

LEMMA ExpireFresh ==
  ASSUME Inv, FreshInv, NEW S \in (SUBSET Tracked) \ {{}}, Expire(S)
  PROVE  FreshInv'
<1>1. PICK R : R = {n \in S : Received(n) # {}}
  OBVIOUS
<1>2. /\ CompleteInterviews(R, endpoints)
      /\ pending' = Drop(S) /\ disturbed' = disturbed \union S
      /\ UNCHANGED <<dev, byNwk, byName, phase, todo, endpoints, retries, at, air, moves, losses>>
  BY <1>1, Zenon DEF Expire
<1>3. S \subseteq NWK /\ R \subseteq S /\ S # {} /\ R \in SUBSET NWK
  BY <1>1 DEF Tracked
<1>4. \A i \in IEEE : \/ complete'[i] = complete[i] /\ published'[i] = published[i]
                      \/ Publishes(i, R, endpoints)
  <2>1. endpoints \in [IEEE -> SUBSET EP]
    BY DEF Inv, TypeOK
  <2> QED
    BY <1>2, <1>3, <2>1, Completed, Zenon DEF Inv
<1>5. /\ OneHolder' /\ OwnerHolds' /\ RecordIndexed'
      /\ Fresh' \subseteq Fresh
      /\ \A k \in Fresh' : Owner(k)' = Owner(k)
  BY <1>2, SameOwners
<1>6. \A k \in Fresh' : k \in NWK /\ pending'[k] = pending[k] /\ (k \in Tracked => k \in Tracked')
  BY <1>2 DEF Drop, Fresh, Tracked
<1>7. \A i \in IEEE : complete[i] => complete'[i]
  BY <1>4, Zenon DEF Publishes
<1>8. AirFromHolder'
  <2> SUFFICES ASSUME NEW q \in air', q.nwk \in Fresh'
               PROVE  FromHolder(q)'
    BY DEF AirFromHolder
  <2>1. FromHolder(q) /\ at' = at /\ Owner(q.nwk)' = Owner(q.nwk)
    BY <1>2, <1>5 DEF FreshInv, AirFromHolder
  <2>2. q.type \in {"simple_desc_req", "simple_desc_rsp"} => Owner(q.nwk) \in IEEE
    BY <1>6, <2>1 DEF FromHolder, Owner, Inv, RegistryOK
  <2>3. q.nwk \in Tracked => q.nwk \in Tracked'
    BY <1>6
  <2> QED
    BY <1>7, <2>1, <2>2, <2>3, StillFromHolder, Zenon
<1>9. TasksOfOwner'
  BY <1>2, <1>5 DEF FreshInv, TasksOfOwner
<1>10. TrackedOfOwner'
  <2> SUFFICES ASSUME NEW k \in Fresh', k \in Tracked'
               PROVE  /\ byNwk'[k] # NoDevice
                      /\ pending'[k].expected = Has[byNwk'[k]]
                      /\ pending'[k].received \subseteq endpoints'[byNwk'[k]]
    BY DEF TrackedOfOwner, Owner
  <2>1. k \in Fresh /\ k \in Tracked /\ pending'[k] = pending[k]
    BY <1>5, <1>6 DEF Tracked
  <2> QED
    BY <1>2, <2>1 DEF FreshInv, TrackedOfOwner, Owner
<1>11. NothingForeign'
  BY <1>2 DEF FreshInv, NothingForeign
<1>12. PartialNeedsDisturbance'
  <2> SUFFICES ASSUME NEW i \in IEEE, published'[i] # NotPublished
               PROVE  /\ published'[i].nwk \notin disturbed' => Has[i] \subseteq published'[i].eps
                      /\ disturbed' = {} => published'[i].eps \subseteq Has[i]
    BY DEF PartialNeedsDisturbance
  <2>1. CASE published'[i] = published[i]
    BY <1>2, <2>1 DEF FreshInv, PartialNeedsDisturbance
  <2>2. CASE Publishes(i, R, endpoints)
    <3>1. published'[i].nwk \in S
      BY <1>3, <2>2 DEF Publishes
    <3> QED
      BY <1>2, <1>3, <3>1
  <2> QED
    BY <1>4, <2>1, <2>2
<1> QED
  BY <1>5, <1>8, <1>9, <1>10, <1>11, <1>12 DEF FreshInv

\* A message of one's own replaces or joins those under way.
LEMMA OutsideFresh ==
  ASSUME Inv, FreshInv, Outside, UNCHANGED <<at, disturbed>>, TasksOfOwner',
         \A q \in air' \ air : q.nwk \in Fresh => FromHolder(q)
  PROVE  FreshInv'
<1>1. UNCHANGED <<dev, byNwk, endpoints, complete, pending, published, at, disturbed>>
  BY DEF Outside
<1>2. OneHolder' /\ OwnerHolds' /\ RecordIndexed' /\ Fresh' = Fresh
      /\ \A k \in Fresh' : Owner(k)' = Owner(k)
  BY <1>1, SameOwners DEF Fresh
<1>3. AirFromHolder'
  <2> SUFFICES ASSUME NEW q \in air', q.nwk \in Fresh'
               PROVE  FromHolder(q)'
    BY DEF AirFromHolder
  <2>1. FromHolder(q)
    BY <1>2 DEF FreshInv, AirFromHolder
  <2>2. Tracked' = Tracked
    BY <1>1 DEF Tracked
  <2> QED
    BY <1>1, <1>2, <2>1, <2>2, StillFromHolder
<1>4. TrackedOfOwner'
  BY <1>1, <1>2 DEF FreshInv, TrackedOfOwner, Tracked
<1>5. NothingForeign' /\ PartialNeedsDisturbance'
  BY <1>1, NothingNew
<1> QED
  BY <1>2, <1>3, <1>4, <1>5 DEF FreshInv

LEMMA RetryFresh ==
  ASSUME Inv, FreshInv, NEW t \in retries, Retry(t)
  PROVE  FreshInv'
<1>1. Outside /\ UNCHANGED <<at, disturbed>>
  BY DEF Retry, Outside
<1>2. /\ retries' \subseteq retries \union {Task(t.ieee, t.nwk, t.attempt + 1)}
      /\ air' \subseteq air \union {ActiveEpReq(t.nwk)}
  BY DEF Retry
<1>3. TasksOfOwner'
  <2>1. Task(t.ieee, t.nwk, t.attempt + 1).nwk = t.nwk
    BY DEF Task
  <2>2. UNCHANGED <<byNwk, disturbed>>
    BY <1>1 DEF Outside
  <2> QED
    BY <1>2, <2>1, <2>2 DEF FreshInv, TasksOfOwner, Owner, Fresh
<1>4. \A q \in air' \ air : q.nwk \in Fresh => FromHolder(q)
  <2> SUFFICES ASSUME t.nwk \in Fresh PROVE FromHolder(ActiveEpReq(t.nwk))
    BY <1>2 DEF ActiveEpReq
  <2>1. Owner(t.nwk) # NoDevice
    BY DEF FreshInv, TasksOfOwner
  <2> QED
    BY <2>1 DEF FromHolder, ActiveEpReq
<1> QED
  BY <1>1, <1>3, <1>4, OutsideFresh

LEMMA CarryFresh ==
  ASSUME Inv, FreshInv, NEW m \in air, Carries(m)
  PROVE  FreshInv'
<1>1. /\ Outside /\ UNCHANGED <<at, retries, disturbed>>
      /\ \/ air' = air \ {m}
         \/ /\ m.type \in {"active_ep_req", "simple_desc_req"}
            /\ \E new : Carried(m, new) /\ air' = (air \ {m}) \union {new}
  BY Carrying
<1>2. TasksOfOwner'
  BY <1>1 DEF Outside, FreshInv, TasksOfOwner, Owner, Fresh
<1>3. CASE air' = air \ {m}
  BY <1>1, <1>2, <1>3, OutsideFresh
<1>4. ASSUME m.type \in {"active_ep_req", "simple_desc_req"},
             NEW new, Carried(m, new), air' = (air \ {m}) \union {new}
      PROVE  FreshInv'
  <2>1. new.nwk \in Fresh => FromHolder(new)
    <3>1. new.nwk = m.nwk
      BY <1>4 DEF Carried, ActiveEpRsp, SimpleDescRsp
    <3> SUFFICES ASSUME m.nwk \in Fresh PROVE FromHolder(new)
      BY <3>1
    <3>2. FromHolder(m)
      BY DEF FreshInv, AirFromHolder
    <3>3. Owner(m.nwk) # NoDevice
      BY <1>4, <3>2 DEF FromHolder
    <3>4. Owner(m.nwk) \in IEEE /\ at[Owner(m.nwk)] = m.nwk /\ m.nwk \in NWK
      BY <3>3 DEF FreshInv, OwnerHolds, Owner, Fresh, Inv, RegistryOK
    <3>5. \A i \in IEEE : at[i] = m.nwk => i = Owner(m.nwk)
      BY <3>4 DEF FreshInv, OneHolder
    <3>6. CASE m.type = "active_ep_req"
      <4>1. PICK eps \in {{}, Has[Owner(m.nwk)]} : new = ActiveEpRsp(m.nwk, eps)
        BY <1>4, <3>5, <3>6 DEF Carried
      <4>2. new.type = "active_ep_rsp" /\ new.eps = eps
        BY <4>1 DEF ActiveEpRsp
      <4> QED
        BY <3>1, <3>3, <4>1, <4>2 DEF FromHolder
    <3>7. CASE m.type = "simple_desc_req"
      <4>1. new = SimpleDescRsp(m.nwk, m.ep) /\ m.ep \in Has[Owner(m.nwk)]
        BY <1>4, <3>5, <3>7 DEF Carried
      <4>2. new.type = "simple_desc_rsp" /\ new.ep = m.ep
        BY <4>1 DEF SimpleDescRsp
      <4>3. m.nwk \in Tracked \/ complete[Owner(m.nwk)]
        BY <3>2, <3>7, Zenon DEF FromHolder
      <4> QED
        BY <3>1, <3>3, <4>1, <4>2, <4>3 DEF FromHolder
    <3> QED
      BY <1>4, <3>6, <3>7
  <2> QED
    BY <1>1, <1>2, <1>4, <2>1, OutsideFresh
<1> QED
  BY <1>1, <1>3, <1>4

\* Holders of addresses that stay fresh stay where they are.
LEMMA MoveFresh ==
  ASSUME Inv, FreshInv, NEW i \in IEEE, Depart(i) \/ Report(i) \/ \E n \in NWK : Arrive(i, n)
  PROVE  FreshInv'
<1>1. /\ UNCHANGED <<dev, byNwk, endpoints, complete, pending, published, retries>>
      /\ disturbed \subseteq disturbed'
  BY DEF Depart, Report, Arrive, interviewVars
<1>2. Fresh' \subseteq Fresh /\ Fresh' \subseteq NWK /\ \A k : Owner(k)' = Owner(k)
  BY <1>1 DEF Fresh, Owner
<1>3. at \in [IEEE -> NWK \union {Unassigned}]
  BY DEF Inv, TypeOK
<1>4. /\ OneHolder'
      /\ \A k \in Fresh', j \in IEEE : at[j] = k => at'[j] = k
      /\ \A q \in air' \ air : /\ q.type \in {"announce", "resolved", "leave"}
                               /\ q.nwk \in NWK => q.type # "leave" /\ at'[q.ieee] = q.nwk
  <2>1. CASE Depart(i)
    <3>1. /\ at' = [at EXCEPT ![i] = Unassigned]
          /\ disturbed' = disturbed \union {at[i]}
          /\ \A q \in air' \ air : q = Leave(i)
      BY <2>1 DEF Depart
    <3>2. OneHolder'
      BY <1>3, <3>1, MarkersAssumption DEF FreshInv, OneHolder
    <3>3. \A k \in Fresh', j \in IEEE : at[j] = k => at'[j] = k
      BY <1>3, <3>1 DEF Fresh
    <3>4. Leave(i).type = "leave" /\ Leave(i).nwk \notin NWK
      BY MarkersAssumption DEF Leave
    <3> QED
      BY <3>1, <3>2, <3>3, <3>4
  <2>2. CASE Report(i)
    <3>1. at' = at /\ \A q \in air' \ air : q = Resolved(i, at[i])
      BY <2>2 DEF Report
    <3>2. OneHolder'
      BY <3>1 DEF FreshInv, OneHolder
    <3>3. /\ Resolved(i, at[i]).type = "resolved" /\ Resolved(i, at[i]).nwk = at[i]
          /\ Resolved(i, at[i]).ieee = i
      BY DEF Resolved
    <3> QED
      BY <3>1, <3>2, <3>3
  <2>3. ASSUME NEW n \in NWK, Arrive(i, n)
        PROVE  /\ OneHolder'
               /\ \A k \in Fresh', j \in IEEE : at[j] = k => at'[j] = k
               /\ \A q \in air' \ air : /\ q.type \in {"announce", "resolved", "leave"}
                                        /\ q.nwk \in NWK => q.type # "leave" /\ at'[q.ieee] = q.nwk
    <3>1. /\ at' = [at EXCEPT ![i] = n]
          /\ \A j \in IEEE \ {i} : at[j] # n
          /\ at[i] \in NWK \ {n} => at[i] \in disturbed'
          /\ \A q \in air' \ air : q = Announce(i, n)
      BY <2>3 DEF Arrive, Free
    <3>2. OneHolder'
      BY <1>3, <3>1 DEF FreshInv, OneHolder
    <3>3. \A k \in Fresh', j \in IEEE : at[j] = k => at'[j] = k
      BY <1>3, <3>1 DEF Fresh
    <3>4. Announce(i, n).type = "announce" /\ Announce(i, n).nwk = n /\ Announce(i, n).ieee = i
      BY DEF Announce
    <3>5. at'[i] = n
      BY <1>3, <3>1
    <3> QED
      BY <3>1, <3>2, <3>3, <3>4, <3>5
  <2> QED
    BY <2>1, <2>2, <2>3
<1>5. OwnerHolds'
  <2>1. \A k \in Fresh' : Owner(k) # NoDevice => Owner(k) \in IEEE
    BY <1>2 DEF Owner, Inv, RegistryOK
  <2> QED
    BY <1>2, <1>4, <2>1 DEF FreshInv, OwnerHolds
<1>6. RecordIndexed'
  BY <1>1, <1>2 DEF FreshInv, RecordIndexed, Owner, Registry!Registered
<1>7. AirFromHolder'
  <2> SUFFICES ASSUME NEW q \in air', q.nwk \in Fresh'
               PROVE  FromHolder(q)'
    BY DEF AirFromHolder
  <2>1. CASE q \in air
    <3>1. FromHolder(q) /\ q \in Message
      BY <1>2, <2>1 DEF FreshInv, AirFromHolder, Inv, TypeOK
    <3>2. q.type \in {"announce", "resolved"} => at'[q.ieee] = q.nwk
      BY <1>4, <3>1, Shapes DEF FromHolder
    <3>3. Tracked' = Tracked /\ Owner(q.nwk)' = Owner(q.nwk) /\ complete' = complete
      BY <1>1, <1>2 DEF Tracked
    <3> QED
      BY <3>1, <3>2, <3>3, Zenon DEF FromHolder
  <2>2. CASE q \notin air
    <3>1. q.type \in {"announce", "resolved"} /\ at'[q.ieee] = q.nwk
      BY <1>2, <1>4, <2>2
    <3> QED
      BY <3>1 DEF FromHolder
  <2> QED
    BY <2>1, <2>2
<1>8. TasksOfOwner'
  BY <1>1, <1>2 DEF FreshInv, TasksOfOwner
<1>9. TrackedOfOwner'
  BY <1>1, <1>2 DEF FreshInv, TrackedOfOwner, Tracked
<1>10. NothingForeign' /\ PartialNeedsDisturbance'
  BY <1>1, NothingNew
<1> QED
  BY <1>4, <1>5, <1>6, <1>7, <1>8, <1>9, <1>10 DEF FreshInv

LEMMA FreshStep == Inv /\ FreshInv /\ [Next]_vars => FreshInv'
<1>1. ASSUME Inv, FreshInv, UNCHANGED vars PROVE FreshInv'
  <2>1. Outside /\ UNCHANGED <<at, disturbed, air, retries>>
    BY <1>1 DEF vars, Outside
  <2>2. TasksOfOwner'
    BY <1>1, <2>1 DEF Outside, FreshInv, TasksOfOwner, Owner, Fresh
  <2> QED
    BY <1>1, <2>1, <2>2, OutsideFresh
<1>2. ASSUME Inv, FreshInv, Next PROVE FreshInv'
  BY <1>2, Cases, SeenFresh, LeftFresh, ActiveFresh, DescriptorFresh, ExpireFresh, RetryFresh,
    CarryFresh, MoveFresh
<1> QED
  BY <1>1, <1>2

\* Whatever is lost, refused, late or out of order, and whoever moves, leaves
\* and comes back: a device's discovery is published from all of its endpoints
\* unless the interview at its address was cut short, and from no other
\* device's unless some interview was (bridge.rs, InterviewTracker and
\* complete_interview).
THEOREM NoPartialInterview == Spec => []PartialNeedsDisturbance
<1>1. FreshInv => PartialNeedsDisturbance
  BY DEF FreshInv
<1> QED
  BY <1>1, InvInit, InvStep, FreshInit, FreshStep, PTL DEF Spec
=============================================================================
