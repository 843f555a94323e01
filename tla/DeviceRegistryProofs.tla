------------------------ MODULE DeviceRegistryProofs ------------------------
(***************************************************************************)
(* Proofs about DeviceRegistry for any set of devices, addresses, names    *)
(* and any configuration. Every handler is one of four things to the       *)
(* registry (Step below), so an invariant is shown to survive those four   *)
(* and the handlers are dispatched once.                                   *)
(***************************************************************************)
EXTENDS DeviceRegistry, TLAPS

\* What a handler can do to the three maps.
Step ==
  \/ \E i \in IEEE, n \in Address : Add(i, n, Hex[i])
  \/ \E i \in IEEE, n \in Address : Add(i, n, FriendlyName[i])
  \/ \E i \in Registered, n \in Address : UpdateNwkAddr(i, n)
  \/ \E i \in Registered : Rename(i, FriendlyName[i])
  \/ \E i \in IEEE : RemoveByIeee(i)

\* The handlers do nothing else to the registry: an add only ever uses the
\* device's own hex or configured name, and update_nwk_addr and rename only
\* run on registered devices.
LEMMA HandlersStep == [Next]_deviceVars => Step \/ UNCHANGED registryVars
<1> SUFFICES ASSUME [Next]_deviceVars PROVE Step \/ UNCHANGED registryVars
  OBVIOUS
<1>1. CASE FinishImport \/ StartMainLoop
  BY <1>1 DEF FinishImport, StartMainLoop
<1>2. ASSUME NEW i \in IEEE, NEW n \in Address, ImportRecord(i, n)
      PROVE  Step
  BY <1>2 DEF ImportRecord, NewDeviceName, Step
<1>3. ASSUME NEW i \in IEEE, NEW n \in Address, DeviceSeen(i, n)
      PROVE  Step
  BY <1>3 DEF DeviceSeen, Learn, NewDeviceName, Step
<1>4. ASSUME NEW i \in IEEE, ApplyDeviceConfig(i)
      PROVE  Step
  BY <1>4 DEF ApplyDeviceConfig, Step, Address
<1>5. ASSUME NEW i \in IEEE, DeviceLeft(i)
      PROVE  Step
  BY <1>5 DEF DeviceLeft, Step
<1>6. CASE UNCHANGED deviceVars
  BY <1>6 DEF deviceVars, registryVars
<1> QED
  BY <1>1, <1>2, <1>3, <1>4, <1>5, <1>6 DEF Next

-----------------------------------------------------------------------------
\* The shape of the three maps, the part of TypeOK that Step touches.
MapsOK ==
  /\ dev \in [IEEE -> Device \union {NoDevice}]
  /\ byNwk \in [NWK -> IEEE \union {NoDevice}]
  /\ byName \in [Name -> IEEE \union {NoDevice}]

\* A registered device has a record, and NoDevice is not one.
LEMMA RegisteredRecord ==
  ASSUME MapsOK, NEW i \in Registered
  PROVE  i \in IEEE /\ dev[i] \in Device /\ dev[i].nwk \in Address /\ dev[i].name \in Name
BY DEF MapsOK, Registered, Device

\* An index stays an index under the two map operations.
LEMMA IndexType ==
  ASSUME NEW K, NEW index \in [K -> IEEE \union {NoDevice}], NEW key, NEW i \in IEEE
  PROVE  /\ ClearOwn(index, key, i) \in [K -> IEEE \union {NoDevice}]
         /\ Point(index, key, i) \in [K -> IEEE \union {NoDevice}]
BY DEF ClearOwn, Point

\* Moving i from key old to key new, entry by entry.
LEMMA Reindexed ==
  ASSUME NEW K, NEW index \in [K -> IEEE \union {NoDevice}],
         NEW old, NEW new, NEW i \in IEEE, NEW k \in K
  PROVE  Point(ClearOwn(index, old, i), new, i)[k] =
           IF k = new THEN i
           ELSE IF k = old /\ index[k] = i THEN NoDevice
           ELSE index[k]
BY DEF ClearOwn, Point

LEMMA StepMapsOK == MapsOK /\ Step => MapsOK'
<1> SUFFICES ASSUME MapsOK, Step PROVE MapsOK'
  OBVIOUS
<1> USE RegistryAssumption
<1>1. ASSUME NEW i \in IEEE, NEW n \in Address, NEW m \in Name, Add(i, n, m)
      PROVE  MapsOK'
  <2>1. dev' \in [IEEE -> Device \union {NoDevice}]
    BY <1>1 DEF MapsOK, Add, Device
  <2>2. byNwk' \in [NWK -> IEEE \union {NoDevice}]
    BY <1>1, IndexType DEF MapsOK, Add
  <2>3. byName' \in [Name -> IEEE \union {NoDevice}]
    BY <1>1, IndexType DEF MapsOK, Add
  <2> QED
    BY <2>1, <2>2, <2>3 DEF MapsOK
<1>2. ASSUME NEW i \in Registered, NEW n \in Address, UpdateNwkAddr(i, n)
      PROVE  MapsOK'
  <2>1. [dev[i] EXCEPT !.nwk = n] \in Device
    BY RegisteredRecord DEF Device
  <2>2. dev' \in [IEEE -> Device \union {NoDevice}]
    BY <1>2, <2>1, RegisteredRecord DEF MapsOK, UpdateNwkAddr
  <2>3. byNwk' \in [NWK -> IEEE \union {NoDevice}]
    BY <1>2, IndexType, RegisteredRecord DEF MapsOK, UpdateNwkAddr
  <2> QED
    BY <1>2, <2>2, <2>3 DEF MapsOK, UpdateNwkAddr
<1>3. ASSUME NEW i \in Registered, NEW m \in Name, Rename(i, m)
      PROVE  MapsOK'
  <2>1. [dev[i] EXCEPT !.name = m] \in Device
    BY RegisteredRecord DEF Device
  <2>2. dev' \in [IEEE -> Device \union {NoDevice}]
    BY <1>3, <2>1, RegisteredRecord DEF MapsOK, Rename
  <2>3. byName' \in [Name -> IEEE \union {NoDevice}]
    BY <1>3, IndexType, RegisteredRecord DEF MapsOK, Rename
  <2> QED
    BY <1>3, <2>2, <2>3 DEF MapsOK, Rename
<1>4. ASSUME NEW i \in IEEE, RemoveByIeee(i)
      PROVE  MapsOK'
  BY <1>4, IndexType DEF MapsOK, RemoveByIeee, registryVars
<1>5. \A i \in IEEE : Hex[i] \in Name /\ FriendlyName[i] \in Name
  OBVIOUS
<1>6. \A i \in Registered : i \in IEEE
  BY DEF Registered
<1> QED
  BY <1>1, <1>2, <1>3, <1>4, <1>5, <1>6 DEF Step

LEMMA NextMapsOK == MapsOK /\ [Next]_deviceVars => MapsOK'
<1>1. MapsOK /\ UNCHANGED registryVars => MapsOK'
  BY DEF MapsOK, registryVars
<1> QED
  BY <1>1, StepMapsOK, HandlersStep

\* The registry's shape, and that 0x0000 is never indexed, hold for every
\* sequence of imports, configuration entries, joins and leaves.
THEOREM TypeCorrect == Spec => []TypeOK
<1>1. Init => TypeOK
  BY RegistryAssumption DEF Init, TypeOK
<1>2. TypeOK /\ [Next]_deviceVars => TypeOK'
  <2> SUFFICES ASSUME TypeOK, [Next]_deviceVars PROVE TypeOK'
    OBVIOUS
  <2>1. MapsOK'
    BY NextMapsOK DEF TypeOK, MapsOK
  <2>2. /\ phase' \in {"import", "config", "running"}
        /\ todo' \subseteq Configured
    BY DEF TypeOK, Next, deviceVars, startupVars, FinishImport, StartMainLoop,
           ImportRecord, DeviceSeen, ApplyDeviceConfig, DeviceLeft
  <2> QED
    BY <2>1, <2>2 DEF TypeOK, MapsOK
<1> QED
  BY <1>1, <1>2, PTL DEF Spec

-----------------------------------------------------------------------------
\* Soundness of the two indexes is inductive: an entry is only ever written for
\* the device whose record is given that key in the same step, and a record is
\* only given another key, or dropped, after its own entry is.
LEMMA StepIndexesSound == MapsOK /\ IndexesSound /\ Step => IndexesSound'
<1> SUFFICES ASSUME MapsOK, IndexesSound, Step PROVE IndexesSound'
  OBVIOUS
<1> USE RegistryAssumption
<1>1. ASSUME NEW i \in IEEE, NEW n \in Address, NEW m \in Name, Add(i, n, m)
      PROVE  IndexesSound'
  <2> DEFINE old == IF i \in Registered THEN dev[i] ELSE [nwk |-> n, name |-> m]
  <2>1. /\ byNwk' = Point(ClearOwn(byNwk, old.nwk, i), n, i)
        /\ byName' = Point(ClearOwn(byName, old.name, i), m, i)
    BY <1>1 DEF Add
  <2>2. /\ dev'[i] = [nwk |-> n, name |-> m]
        /\ \A j \in IEEE \ {i} : dev'[j] = dev[j]
    BY <1>1 DEF Add, MapsOK
  <2>3. Registered' = Registered \union {i}
    BY <2>2 DEF Registered, Device
  <2>4. NwkIndexSound'
    <3> SUFFICES ASSUME NEW k \in NWK, byNwk'[k] # NoDevice
                 PROVE  byNwk'[k] \in Registered' /\ dev'[byNwk'[k]].nwk = k
      BY DEF NwkIndexSound
    <3>1. byNwk'[k] = IF k = n THEN i
                      ELSE IF k = old.nwk /\ byNwk[k] = i THEN NoDevice ELSE byNwk[k]
      BY <2>1, Reindexed DEF MapsOK
    <3> QED
      BY <2>2, <2>3, <3>1 DEF IndexesSound, NwkIndexSound, Registered
  <2>5. NameIndexSound'
    <3> SUFFICES ASSUME NEW k \in Name, byName'[k] # NoDevice
                 PROVE  byName'[k] \in Registered' /\ dev'[byName'[k]].name = k
      BY DEF NameIndexSound
    <3>1. byName'[k] = IF k = m THEN i
                       ELSE IF k = old.name /\ byName[k] = i THEN NoDevice ELSE byName[k]
      BY <2>1, Reindexed DEF MapsOK
    <3> QED
      BY <2>2, <2>3, <3>1 DEF IndexesSound, NameIndexSound, Registered
  <2> QED
    BY <2>4, <2>5 DEF IndexesSound
<1>2. ASSUME NEW i \in Registered, NEW n \in Address, UpdateNwkAddr(i, n)
      PROVE  IndexesSound'
  <2>1. NwkIndexSound'
    BY <1>2, RegisteredRecord
    DEF UpdateNwkAddr, IndexesSound, NwkIndexSound, MapsOK, Registered, Device, ClearOwn, Point
  <2>2. NameIndexSound'
    BY <1>2, RegisteredRecord
    DEF UpdateNwkAddr, IndexesSound, NameIndexSound, MapsOK, Registered, Device
  <2> QED
    BY <2>1, <2>2 DEF IndexesSound
<1>3. ASSUME NEW i \in Registered, NEW m \in Name, Rename(i, m)
      PROVE  IndexesSound'
  <2>1. NwkIndexSound'
    BY <1>3, RegisteredRecord
    DEF Rename, IndexesSound, NwkIndexSound, MapsOK, Registered, Device
  <2>2. NameIndexSound'
    BY <1>3, RegisteredRecord
    DEF Rename, IndexesSound, NameIndexSound, MapsOK, Registered, Device, ClearOwn, Point
  <2> QED
    BY <2>1, <2>2 DEF IndexesSound
<1>4. ASSUME NEW i \in IEEE, RemoveByIeee(i)
      PROVE  IndexesSound'
  BY <1>4 DEF RemoveByIeee, IndexesSound, NwkIndexSound, NameIndexSound,
              MapsOK, Registered, ClearOwn, registryVars
<1>5. \A i \in IEEE : Hex[i] \in Name /\ FriendlyName[i] \in Name
  OBVIOUS
<1>6. \A i \in Registered : i \in IEEE
  BY DEF Registered
<1> QED
  BY <1>1, <1>2, <1>3, <1>4, <1>5, <1>6 DEF Step

LEMMA NextIndexesSound ==
  MapsOK /\ IndexesSound /\ [Next]_deviceVars => IndexesSound'
<1>1. IndexesSound /\ UNCHANGED registryVars => IndexesSound'
  BY DEF IndexesSound, NwkIndexSound, NameIndexSound, registryVars, Registered
<1> QED
  BY <1>1, StepIndexesSound, HandlersStep

\* No lookup by address or name ever returns a device with another address or
\* name: the invariant of DeviceRegistry's unindex, add, rename and update.
THEOREM IndexSoundness == Spec => []IndexesSound
<1>1. Init => MapsOK /\ IndexesSound
  BY RegistryAssumption
  DEF Init, MapsOK, IndexesSound, NwkIndexSound, NameIndexSound
<1>2. MapsOK /\ IndexesSound /\ [Next]_deviceVars => MapsOK' /\ IndexesSound'
  BY NextMapsOK, NextIndexesSound
<1> QED
  BY <1>1, <1>2, PTL DEF Spec

-----------------------------------------------------------------------------
\* The network index, seen as the address book: what each operation does to
\* the book, given that the indexes are sound.
LEMMA AddClaims ==
  ASSUME MapsOK, IndexesSound,
         NEW i \in IEEE, NEW n \in Address, NEW m \in Name, Add(i, n, m)
  PROVE  Book!Claim(i, n)
<1> USE RegistryAssumption
<1> DEFINE old == IF i \in Registered THEN dev[i] ELSE [nwk |-> n, name |-> m]
<1>1. byNwk' = Point(ClearOwn(byNwk, old.nwk, i), n, i)
  BY DEF Add
<1>2. /\ dev'[i] = [nwk |-> n, name |-> m]
      /\ \A j \in IEEE \ {i} : dev'[j] = dev[j]
  BY DEF Add, MapsOK
<1>3. Registered' = Registered \union {i}
  BY <1>2 DEF Registered, Device
<1>4. \A k \in NWK : byNwk[k] = i => i \in Registered /\ k = dev[i].nwk
  BY DEF IndexesSound, NwkIndexSound
<1>5. ASSUME NEW k \in NWK
      PROVE  byNwk'[k] = IF k = n THEN i ELSE IF byNwk[k] = i THEN NoDevice ELSE byNwk[k]
  BY <1>1, <1>4, Reindexed DEF MapsOK
<1>6. byNwk' = [k \in NWK |-> byNwk'[k]]
  BY <1>1, IndexType DEF MapsOK
<1> QED
  BY <1>3, <1>5, <1>6 DEF Book!Claim

LEMMA UpdateClaims ==
  ASSUME MapsOK, IndexesSound,
         NEW i \in Registered, NEW n \in Address, UpdateNwkAddr(i, n)
  PROVE  Book!Claim(i, n)
<1> USE RegistryAssumption
<1>1. byNwk' = Point(ClearOwn(byNwk, dev[i].nwk, i), n, i)
  BY DEF UpdateNwkAddr
<1>2. i \in IEEE /\ dev[i] \in Device
  BY RegisteredRecord
<1>3. /\ dev'[i] \in Device
      /\ \A j \in IEEE \ {i} : dev'[j] = dev[j]
  BY <1>2 DEF UpdateNwkAddr, MapsOK, Device
<1>4. Registered' = Registered \union {i}
  BY <1>2, <1>3 DEF Registered
<1>5. \A k \in NWK : byNwk[k] = i => k = dev[i].nwk
  BY <1>2 DEF IndexesSound, NwkIndexSound
<1>6. ASSUME NEW k \in NWK
      PROVE  byNwk'[k] = IF k = n THEN i ELSE IF byNwk[k] = i THEN NoDevice ELSE byNwk[k]
  BY <1>1, <1>2, <1>5, Reindexed DEF MapsOK
<1>7. byNwk' = [k \in NWK |-> byNwk'[k]]
  BY <1>1, <1>2, IndexType DEF MapsOK
<1> QED
  BY <1>4, <1>6, <1>7 DEF Book!Claim

LEMMA RenameKeepsBook ==
  ASSUME MapsOK, NEW i \in Registered, NEW m \in Name, Rename(i, m)
  PROVE  UNCHANGED <<Registered, byNwk>>
<1>1. i \in IEEE /\ dev[i] \in Device
  BY RegisteredRecord
<1>2. /\ dev'[i] \in Device
      /\ \A j \in IEEE \ {i} : dev'[j] = dev[j]
  BY <1>1 DEF Rename, MapsOK, Device
<1> QED
  BY <1>1, <1>2, RegistryAssumption DEF Rename, Registered

LEMMA RemoveLeaves ==
  ASSUME MapsOK, IndexesSound, NEW i \in IEEE, RemoveByIeee(i)
  PROVE  Book!Leave(i)
<1> USE RegistryAssumption
<1>1. \A k \in NWK : byNwk[k] = i => i \in Registered /\ k = dev[i].nwk
  BY DEF IndexesSound, NwkIndexSound
<1>2. CASE i \in Registered
  <2>1. Registered' = Registered \ {i}
    BY <1>2 DEF RemoveByIeee, Registered, MapsOK
  <2>2. byNwk' = [k \in NWK |-> IF byNwk[k] = i THEN NoDevice ELSE byNwk[k]]
    BY <1>1, <1>2 DEF RemoveByIeee, ClearOwn, MapsOK
  <2> QED
    BY <2>1, <2>2 DEF Book!Leave
<1>3. CASE i \notin Registered
  <2>1. UNCHANGED <<Registered, byNwk>>
    BY <1>3 DEF RemoveByIeee, registryVars, Registered
  <2>2. byNwk = [k \in NWK |-> IF byNwk[k] = i THEN NoDevice ELSE byNwk[k]]
    BY <1>1, <1>3 DEF MapsOK
  <2> QED
    BY <1>3, <2>1, <2>2 DEF Book!Leave
<1> QED
  BY <1>2, <1>3

\* Every handler is a step of the address book, or leaves it alone.
LEMMA StepRefines ==
  MapsOK /\ IndexesSound /\ [Next]_deviceVars => [Book!Next]_(Book!bookVars)
<1> SUFFICES ASSUME MapsOK, IndexesSound, [Next]_deviceVars
             PROVE  Book!Next \/ UNCHANGED <<Registered, byNwk>>
  BY DEF Book!bookVars
<1> USE RegistryAssumption
<1>1. CASE UNCHANGED registryVars
  BY <1>1 DEF registryVars, Registered
<1>2. CASE Step
  <2>1. ASSUME NEW i \in IEEE, NEW n \in Address, NEW m \in Name, Add(i, n, m)
        PROVE  Book!Next
    BY <2>1, AddClaims DEF Book!Next, Address
  <2>2. ASSUME NEW i \in Registered, NEW n \in Address, UpdateNwkAddr(i, n)
        PROVE  Book!Next
    BY <2>2, UpdateClaims DEF Book!Next, Address, Registered
  <2>3. ASSUME NEW i \in IEEE, RemoveByIeee(i)
        PROVE  Book!Next
    BY <2>3, RemoveLeaves DEF Book!Next
  <2>4. ASSUME NEW i \in Registered, Rename(i, FriendlyName[i])
        PROVE  UNCHANGED <<Registered, byNwk>>
    BY <2>4, RenameKeepsBook DEF Registered
  <2>5. \A i \in IEEE : Hex[i] \in Name /\ FriendlyName[i] \in Name
    OBVIOUS
  <2> QED
    BY <1>2, <2>1, <2>2, <2>3, <2>4, <2>5 DEF Step
<1> QED
  BY <1>1, <1>2, HandlersStep

\* The registry implements the address book: a message from an address is
\* attributed to the device that claimed it last, never to one that has moved
\* on or left.
THEOREM ImplementsAddressBook == Spec => BookSpec
<1>1. Init => Book!Init
  BY RegistryAssumption DEF Init, Book!Init, Registered
<1>2. Init => MapsOK /\ IndexesSound
  BY RegistryAssumption
  DEF Init, MapsOK, IndexesSound, NwkIndexSound, NameIndexSound
<1>3. MapsOK /\ IndexesSound /\ [Next]_deviceVars => MapsOK' /\ IndexesSound'
  BY NextMapsOK, NextIndexesSound
<1> QED
  BY <1>1, <1>2, <1>3, StepRefines, PTL DEF Spec, BookSpec, Book!Spec

-----------------------------------------------------------------------------
\* FoundByName is not inductive: a device must also never carry a name that is
\* not one of its own two, or it could take an entry from a device it shares
\* nothing with.
SharesNoName(i) == \A j \in IEEE \ {i} : NamesOf(i) \intersect NamesOf(j) = {}

OwnNames ==
  \A i \in Registered :
    /\ dev[i].name \in NamesOf(i)
    /\ SharesNoName(i) => byName[dev[i].name] = i

LEMMA StepOwnNames == MapsOK /\ OwnNames /\ Step => OwnNames'
<1> SUFFICES ASSUME MapsOK, OwnNames, Step PROVE OwnNames'
  OBVIOUS
<1> USE RegistryAssumption
<1>1. ASSUME NEW i \in IEEE, NEW n \in Address, NEW m \in NamesOf(i), Add(i, n, m)
      PROVE  OwnNames'
  <2> DEFINE old == IF i \in Registered THEN dev[i] ELSE [nwk |-> n, name |-> m]
  <2>1. byName' = Point(ClearOwn(byName, old.name, i), m, i)
    BY <1>1 DEF Add
  <2>2. /\ dev'[i] = [nwk |-> n, name |-> m]
        /\ \A j \in IEEE \ {i} : dev'[j] = dev[j]
    BY <1>1 DEF Add, MapsOK
  <2>3. \A j \in Registered' : j \in IEEE /\ (j = i \/ j \in Registered)
    BY <2>2 DEF Registered
  <2>4. m \in Name
    BY DEF NamesOf
  <2>5. ASSUME NEW j \in Registered', SharesNoName(j)
        PROVE  byName'[dev'[j].name] = j
    <3>1. CASE j = i
      BY <2>1, <2>2, <2>4, <3>1, Reindexed DEF MapsOK
    <3>2. CASE j # i
      <4>1. j \in Registered /\ dev'[j] = dev[j] /\ dev[j].name \in Name
        BY <2>2, <2>3, <3>2, RegisteredRecord
      <4>2. byName[dev[j].name] = j /\ dev[j].name # m
        BY <2>5, <3>2, <4>1, <2>3 DEF OwnNames, SharesNoName
      <4> QED
        BY <2>1, <3>2, <4>1, <4>2, Reindexed DEF MapsOK
    <3> QED
      BY <3>1, <3>2
  <2>6. \A j \in Registered' : dev'[j].name \in NamesOf(j)
    BY <2>2, <2>3 DEF OwnNames
  <2> QED
    BY <2>5, <2>6 DEF OwnNames, SharesNoName, NamesOf
<1>2. ASSUME NEW i \in Registered, NEW n \in Address, UpdateNwkAddr(i, n)
      PROVE  OwnNames'
  <2>1. i \in IEEE /\ dev[i] \in Device
    BY RegisteredRecord
  <2>2. \A j \in Registered' : j \in Registered /\ dev'[j].name = dev[j].name
    BY <1>2, <2>1 DEF UpdateNwkAddr, MapsOK, Registered, Device
  <2> QED
    BY <1>2, <2>2 DEF UpdateNwkAddr, OwnNames, SharesNoName, NamesOf
<1>3. ASSUME NEW i \in Registered, NEW m \in NamesOf(i), Rename(i, m)
      PROVE  OwnNames'
  <2>1. i \in IEEE /\ dev[i] \in Device /\ m \in Name
    BY RegisteredRecord DEF NamesOf
  <2>2. byName' = Point(ClearOwn(byName, dev[i].name, i), m, i)
    BY <1>3 DEF Rename
  <2>3. /\ dev'[i].name = m
        /\ \A j \in IEEE \ {i} : dev'[j] = dev[j]
    BY <1>3, <2>1 DEF Rename, MapsOK, Device
  <2>4. \A j \in Registered' : j \in IEEE /\ (j = i \/ j \in Registered)
    BY <2>3 DEF Registered
  <2>5. ASSUME NEW j \in Registered', SharesNoName(j)
        PROVE  byName'[dev'[j].name] = j
    <3>1. CASE j = i
      BY <2>1, <2>2, <2>3, <3>1, Reindexed DEF MapsOK
    <3>2. CASE j # i
      <4>1. j \in Registered /\ dev'[j] = dev[j] /\ dev[j].name \in Name
        BY <2>3, <2>4, <3>2, RegisteredRecord
      <4>2. byName[dev[j].name] = j /\ dev[j].name # m
        BY <2>1, <2>4, <2>5, <3>2, <4>1 DEF OwnNames, SharesNoName
      <4> QED
        BY <2>1, <2>2, <3>2, <4>1, <4>2, Reindexed DEF MapsOK
    <3> QED
      BY <3>1, <3>2
  <2>6. \A j \in Registered' : dev'[j].name \in NamesOf(j)
    BY <2>3, <2>4 DEF OwnNames
  <2> QED
    BY <2>5, <2>6 DEF OwnNames, SharesNoName, NamesOf
<1>4. ASSUME NEW i \in IEEE, RemoveByIeee(i)
      PROVE  OwnNames'
  <2>1. CASE i \in Registered
    <3>1. \A j \in Registered' : j \in Registered \ {i} /\ dev'[j] = dev[j]
      BY <1>4, <2>1 DEF RemoveByIeee, MapsOK, Registered
    <3>2. \A j \in Registered : dev[j].name \in Name
      BY RegisteredRecord
    <3>3. byName' = ClearOwn(byName, dev[i].name, i)
      BY <1>4, <2>1 DEF RemoveByIeee
    <3>4. \A j \in Registered' : SharesNoName(j) => byName'[dev'[j].name] = j
      BY <3>1, <3>2, <3>3 DEF ClearOwn, MapsOK, OwnNames
    <3> QED
      BY <3>1, <3>4 DEF OwnNames, SharesNoName, NamesOf
  <2>2. CASE i \notin Registered
    BY <1>4, <2>2 DEF RemoveByIeee, registryVars, OwnNames, Registered, SharesNoName, NamesOf
  <2> QED
    BY <2>1, <2>2
<1>5. \A i \in IEEE : Hex[i] \in NamesOf(i) /\ FriendlyName[i] \in NamesOf(i)
  BY DEF NamesOf
<1>6. \A i \in Registered : i \in IEEE
  BY DEF Registered
<1> QED
  BY <1>1, <1>2, <1>3, <1>4, <1>5, <1>6 DEF Step

\* `set` and `get` reach every registered device that shares none of its
\* possible names, whatever was imported, renamed, added or removed before.
THEOREM NamesFound == Spec => []FoundByName
<1>1. Init => MapsOK /\ OwnNames
  BY RegistryAssumption DEF Init, MapsOK, OwnNames, Registered
<1>2. MapsOK /\ OwnNames /\ [Next]_deviceVars => MapsOK' /\ OwnNames'
  <2>1. OwnNames /\ UNCHANGED registryVars => OwnNames'
    BY DEF OwnNames, registryVars, Registered, SharesNoName, NamesOf
  <2> QED
    BY <2>1, NextMapsOK, StepOwnNames, HandlersStep
<1>3. MapsOK /\ OwnNames => FoundByName
  BY RegisteredRecord DEF OwnNames, FoundByName, FindByName, SharesNoName
<1> QED
  BY <1>1, <1>2, <1>3, PTL DEF Spec

-----------------------------------------------------------------------------
\* One device cut off the network index, and what must explain it.
CutOff(i) ==
  Reachable(i) /\ ~Reachable(i)' =>
    \/ i \notin Registered'
    \/ dev'[i].nwk = Unassigned
    \/ \E j \in IEEE \ {i} : Reachable(j)' /\ dev'[j].nwk = dev[i].nwk

\* i claims n in this step, and every other record is left alone.
LEMMA ClaimCutsOffOnlyTheOwner ==
  ASSUME MapsOK, NEW i \in IEEE, NEW n \in Address, NEW old,
         i \in Registered => old = dev[i].nwk,
         byNwk' = Point(ClearOwn(byNwk, old, i), n, i),
         dev'[i] \in Device, dev'[i].nwk = n,
         \A j \in IEEE \ {i} : dev'[j] = dev[j],
         NEW j \in IEEE
  PROVE  CutOff(j)
<1> USE RegistryAssumption
<1> SUFFICES ASSUME Reachable(j), ~Reachable(j)'
             PROVE  \/ j \notin Registered'
                    \/ dev'[j].nwk = Unassigned
                    \/ \E h \in IEEE \ {j} : Reachable(h)' /\ dev'[h].nwk = dev[j].nwk
  BY DEF CutOff
<1>1. i \in Registered'
  BY DEF Registered
<1>2. n \in NWK => byNwk'[n] = i
  BY Reindexed DEF MapsOK
<1>3. n \in NWK => Reachable(i)'
  BY <1>1, <1>2 DEF Reachable, GetByNwk
<1>4. CASE j = i
  BY <1>3, <1>4 DEF Address
<1>5. CASE j # i
  <2>1. dev[j].nwk \in NWK /\ byNwk[dev[j].nwk] = j /\ j \in Registered
    BY DEF Reachable, GetByNwk, Registered
  <2>2. j \in Registered' /\ dev'[j] = dev[j]
    BY <1>5, <2>1 DEF Registered
  <2>3. byNwk'[dev[j].nwk] = IF dev[j].nwk = n THEN i ELSE j
    BY <1>5, <2>1, Reindexed DEF MapsOK
  <2>4. dev[j].nwk = n
    BY <2>1, <2>2, <2>3 DEF Reachable, GetByNwk
  <2> QED
    BY <1>3, <1>5, <2>1, <2>4
<1> QED
  BY <1>4, <1>5

LEMMA StepCutsOff == ASSUME MapsOK, Step, NEW j \in IEEE PROVE CutOff(j)
<1> USE RegistryAssumption
<1>1. ASSUME NEW i \in IEEE, NEW n \in Address, NEW m \in Name, Add(i, n, m)
      PROVE  CutOff(j)
  <2> DEFINE old == IF i \in Registered THEN dev[i] ELSE [nwk |-> n, name |-> m]
  <2>1. byNwk' = Point(ClearOwn(byNwk, old.nwk, i), n, i)
    BY <1>1 DEF Add
  <2>2. /\ dev'[i] = [nwk |-> n, name |-> m]
        /\ \A h \in IEEE \ {i} : dev'[h] = dev[h]
    BY <1>1 DEF Add, MapsOK
  <2>3. dev'[i] \in Device /\ dev'[i].nwk = n
    BY <2>2 DEF Device
  <2> QED
    BY <2>1, <2>2, <2>3, ClaimCutsOffOnlyTheOwner
<1>2. ASSUME NEW i \in Registered, NEW n \in Address, UpdateNwkAddr(i, n)
      PROVE  CutOff(j)
  <2>1. i \in IEEE /\ dev[i] \in Device
    BY RegisteredRecord
  <2>2. /\ dev'[i] \in Device
        /\ dev'[i].nwk = n
        /\ \A h \in IEEE \ {i} : dev'[h] = dev[h]
    BY <1>2, <2>1 DEF UpdateNwkAddr, MapsOK, Device
  <2>3. byNwk' = Point(ClearOwn(byNwk, dev[i].nwk, i), n, i)
    BY <1>2 DEF UpdateNwkAddr
  <2> QED
    BY <2>1, <2>2, <2>3, ClaimCutsOffOnlyTheOwner
<1>3. ASSUME NEW i \in Registered, NEW m \in Name, Rename(i, m)
      PROVE  CutOff(j)
  <2>1. i \in IEEE /\ dev[i] \in Device
    BY RegisteredRecord
  <2>2. /\ dev'[j] # NoDevice <=> dev[j] # NoDevice
        /\ j \in Registered => dev'[j].nwk = dev[j].nwk
    BY <1>3, <2>1 DEF Rename, MapsOK, Device, Registered
  <2>3. UNCHANGED <<Registered, byNwk>>
    BY <1>3, RenameKeepsBook
  <2> QED
    BY <2>2, <2>3 DEF CutOff, Reachable, GetByNwk
<1>4. ASSUME NEW i \in IEEE, RemoveByIeee(i)
      PROVE  CutOff(j)
  <2>1. CASE i \in Registered /\ j # i
    <3>1. \A h \in IEEE \ {i} : dev'[h] = dev[h]
      BY <1>4, <2>1 DEF RemoveByIeee, MapsOK
    <3>2. byNwk' = ClearOwn(byNwk, dev[i].nwk, i)
      BY <1>4, <2>1 DEF RemoveByIeee
    <3> QED
      BY <2>1, <3>1, <3>2 DEF CutOff, Reachable, GetByNwk, Registered, ClearOwn, MapsOK
  <2>2. CASE i \in Registered /\ j = i
    BY <1>4, <2>2 DEF RemoveByIeee, MapsOK, CutOff, Registered
  <2>3. CASE i \notin Registered
    BY <1>4, <2>3 DEF RemoveByIeee, registryVars, CutOff, Reachable, GetByNwk, Registered
  <2> QED
    BY <2>1, <2>2, <2>3
<1>5. \A i \in IEEE : Hex[i] \in Name /\ FriendlyName[i] \in Name
  OBVIOUS
<1>6. \A i \in Registered : i \in IEEE
  BY DEF Registered
<1> QED
  BY <1>1, <1>2, <1>3, <1>4, <1>5, <1>6 DEF Step

\* Updating or removing one device never cuts another off: a reachable device
\* stops being so only by leaving, going to 0x0000 or losing its address to a
\* device that claims it in the same step.
THEOREM ReachabilityKept == Spec => StaysReachable
<1>1. Init => MapsOK
  BY RegistryAssumption DEF Init, MapsOK
<1>2. MapsOK /\ [Next]_deviceVars => \A i \in IEEE : CutOff(i)
  <2>1. UNCHANGED registryVars => \A i \in IEEE : CutOff(i)
    BY DEF CutOff, Reachable, GetByNwk, Registered, registryVars
  <2> QED
    BY <2>1, StepCutsOff, HandlersStep
<1>3. MapsOK /\ [Next]_deviceVars =>
        [\A i \in IEEE : Reachable(i) /\ ~Reachable(i)' =>
           \/ i \notin Registered'
           \/ dev'[i].nwk = Unassigned
           \/ \E j \in IEEE \ {i} : Reachable(j)' /\ dev'[j].nwk = dev[i].nwk]_deviceVars
  BY <1>2 DEF CutOff
<1> QED
  BY <1>1, <1>3, NextMapsOK, PTL DEF Spec, StaysReachable
=============================================================================
