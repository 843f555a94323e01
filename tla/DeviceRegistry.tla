--------------------------- MODULE DeviceRegistry ---------------------------
(***************************************************************************)
(* The device registry (src/devices/mod.rs): the devices by IEEE address   *)
(* and two indexes onto them, by network address and by friendly name.     *)
(* The bridge fills it from database.db and configuration.yaml at startup  *)
(* and then changes it from its main loop, one handler at a time           *)
(* (src/bridge.rs), so every operation is one step here.                   *)
(*                                                                         *)
(* A device's other fields are kept by the modules that EXTEND this one.   *)
(***************************************************************************)
CONSTANTS
  IEEE,          \* permanent device addresses
  NWK,           \* network addresses other than 0x0000
  Name,          \* friendly names
  NoDevice,      \* None
  Unassigned,    \* network address 0x0000
  Hex,           \* Hex[i]: i's address in hex, the default friendly name
  Configured,    \* devices with an entry in configuration.yaml `devices`
  CanonicalKey,  \* those whose entry is keyed exactly as Hex writes it
  FriendlyName   \* FriendlyName[i]: the name that entry gives, Hex[i] if none

Address == NWK \union {Unassigned}
Device == [nwk : Address, name : Name]

ASSUME RegistryAssumption ==
  /\ NoDevice \notin IEEE
  /\ NoDevice \notin Device
  /\ Unassigned \notin NWK
  /\ Hex \in [IEEE -> Name]
  /\ CanonicalKey \subseteq Configured
  /\ Configured \subseteq IEEE
  /\ FriendlyName \in [IEEE -> Name]

VARIABLES
  dev,     \* by_ieee: a device's network address and friendly name
  byNwk,   \* by_nwk
  byName,  \* by_name
  phase,   \* Bridge::run: importing, applying the configuration, main loop
  todo     \* configuration entries apply_device_configs has still to visit

registryVars == <<dev, byNwk, byName>>
startupVars == <<phase, todo>>
deviceVars == <<dev, byNwk, byName, phase, todo>>

Registered == {i \in IEEE : dev[i] # NoDevice}

-----------------------------------------------------------------------------
\* The operations of DeviceRegistry.

\* A remove that forgets to ask whether the entry still is i's.
ClearAny(index, key, i) ==
  [k \in DOMAIN index |-> IF k = key THEN NoDevice ELSE index[k]]

\* DashMap::remove_if(key, |_, v| v == i): 0x0000 is never a key.
ClearOwn(index, key, i) ==
  [k \in DOMAIN index |-> IF k = key /\ index[k] = i THEN NoDevice ELSE index[k]]

\* DashMap::insert(key, i), skipped for an address that is 0x0000.
Point(index, key, i) ==
  [k \in DOMAIN index |-> IF k = key THEN i ELSE index[k]]

\* Indexing the stubs too, under 0x0000.
AddWithZero(i, n, m) ==
  /\ dev' = [dev EXCEPT ![i] = [nwk |-> n, name |-> m]]
  /\ byNwk' = [k \in DOMAIN byNwk \union {n} |-> IF k = n THEN i ELSE byNwk[k]]
  /\ byName' = Point(byName, m, i)

\* Insert i, or replace it after dropping the index entries of its old record.
Add(i, n, m) ==
  LET new == [nwk |-> n, name |-> m]
      old == IF i \in Registered THEN dev[i] ELSE new
  IN /\ dev' = [dev EXCEPT ![i] = new]
     /\ byNwk' = Point(ClearOwn(byNwk, old.nwk, i), n, i)
     /\ byName' = Point(ClearOwn(byName, old.name, i), m, i)

\* Forgetting the address i had.
UpdateKeepingOld(i, n) ==
  /\ dev' = [dev EXCEPT ![i].nwk = n]
  /\ byNwk' = Point(byNwk, n, i)
  /\ UNCHANGED byName

UpdateNwkAddr(i, n) ==
  /\ dev' = [dev EXCEPT ![i].nwk = n]
  /\ byNwk' = Point(ClearOwn(byNwk, dev[i].nwk, i), n, i)
  /\ UNCHANGED byName

\* Inserting the new name before dropping the old one: renaming a device to
\* the name it has unindexes it.
RenameInsertFirst(i, m) ==
  /\ dev' = [dev EXCEPT ![i].name = m]
  /\ byName' = ClearOwn(Point(byName, m, i), dev[i].name, i)
  /\ UNCHANGED byNwk

Rename(i, m) ==
  /\ dev' = [dev EXCEPT ![i].name = m]
  /\ byName' = Point(ClearOwn(byName, dev[i].name, i), m, i)
  /\ UNCHANGED byNwk

\* Removing the record and leaving its index entries.
RemoveRecordOnly(i) ==
  /\ dev' = [dev EXCEPT ![i] = NoDevice]
  /\ UNCHANGED <<byNwk, byName>>

RemoveByIeee(i) ==
  IF i \in Registered
  THEN /\ dev' = [dev EXCEPT ![i] = NoDevice]
       /\ byNwk' = ClearOwn(byNwk, dev[i].nwk, i)
       /\ byName' = ClearOwn(byName, dev[i].name, i)
  ELSE UNCHANGED registryVars

\* get_by_nwk and get_mut_by_nwk: the index, then the record it names.
GetByNwk(n) ==
  IF n \in NWK /\ byNwk[n] \in Registered THEN byNwk[n] ELSE NoDevice

\* find_by_name
FindByName(m) == IF byName[m] \in Registered THEN byName[m] ELSE NoDevice

-----------------------------------------------------------------------------
\* What the bridge does with them.

\* The name of a device that database.db or the network brings: the exact key
\* Hex writes is looked up, so an entry spelled otherwise is not found.
NewDeviceName(i) == IF i \in CanonicalKey THEN FriendlyName[i] ELSE Hex[i]

Init ==
  /\ dev = [i \in IEEE |-> NoDevice]
  /\ byNwk = [n \in NWK |-> NoDevice]
  /\ byName = [m \in Name |-> NoDevice]
  /\ phase = "import"
  /\ todo = {}

\* One record of database.db. Nothing keeps a file from naming a device twice,
\* or two devices with one network address.
ImportRecord(i, n) ==
  /\ phase = "import"
  /\ Add(i, n, NewDeviceName(i))
  /\ UNCHANGED startupVars

FinishImport ==
  /\ phase = "import"
  /\ phase' = "config"
  /\ todo' = Configured
  /\ UNCHANGED registryVars

\* One entry of configuration.yaml, in the map's order. The key is parsed, so
\* here its spelling does not matter.
ApplyDeviceConfig(i) ==
  /\ phase = "config"
  /\ i \in todo
  /\ IF i \in Registered
     THEN Rename(i, FriendlyName[i])
     ELSE Add(i, Unassigned, FriendlyName[i])
  /\ todo' = todo \ {i}
  /\ UNCHANGED phase

StartMainLoop ==
  /\ phase = "config"
  /\ todo = {}
  /\ phase' = "running"
  /\ UNCHANGED <<registryVars, todo>>

\* What DeviceJoined and AddressResolved both do to the registry.
Learn(i, n) ==
  IF i \in Registered THEN UpdateNwkAddr(i, n) ELSE Add(i, n, NewDeviceName(i))

DeviceSeen(i, n) ==
  /\ phase = "running"
  /\ Learn(i, n)
  /\ UNCHANGED startupVars

DeviceLeft(i) ==
  /\ phase = "running"
  /\ RemoveByIeee(i)
  /\ UNCHANGED startupVars

Next ==
  \/ FinishImport
  \/ StartMainLoop
  \/ \E i \in IEEE :
       \/ \E n \in Address : ImportRecord(i, n) \/ DeviceSeen(i, n)
       \/ ApplyDeviceConfig(i)
       \/ DeviceLeft(i)

Spec == Init /\ [][Next]_deviceVars

-----------------------------------------------------------------------------
\* The shape of the registry: records for some devices, indexes whose keys are
\* real addresses and names (0x0000 is never indexed).
TypeOK ==
  /\ dev \in [IEEE -> Device \union {NoDevice}]
  /\ byNwk \in [NWK -> IEEE \union {NoDevice}]
  /\ byName \in [Name -> IEEE \union {NoDevice}]
  /\ phase \in {"import", "config", "running"}
  /\ todo \subseteq Configured

\* An index entry never dangles and never names a device whose record says
\* otherwise, whatever addresses and names are reassigned, taken over or freed
\* in between: so get_by_nwk and find_by_name return a device that has the
\* address or name asked for.
NwkIndexSound ==
  \A n \in NWK : byNwk[n] # NoDevice =>
    byNwk[n] \in Registered /\ dev[byNwk[n]].nwk = n

NameIndexSound ==
  \A m \in Name : byName[m] # NoDevice =>
    byName[m] \in Registered /\ dev[byName[m]].name = m

IndexesSound == NwkIndexSound /\ NameIndexSound

\* The names i can be given.
NamesOf(i) == {Hex[i], FriendlyName[i]}

\* A registered device that shares none of its possible names with another is
\* found by its current name: `set` and `get` reach it through every sequence
\* of imports, renames, joins and leaves.
FoundByName ==
  \A i \in Registered :
    (\A j \in IEEE \ {i} : NamesOf(i) \intersect NamesOf(j) = {})
      => FindByName(dev[i].name) = i

\* Messages from its current address are attributed to i.
Reachable(i) == i \in Registered /\ GetByNwk(dev[i].nwk) = i

\* A reachable device stops being so only by leaving, by going to 0x0000, or
\* by another device claiming its address in that very step: updating or
\* removing one device never cuts off another.
StaysReachable ==
  [][\A i \in IEEE : Reachable(i) /\ ~Reachable(i)' =>
       \/ i \notin Registered'
       \/ dev'[i].nwk = Unassigned
       \/ \E j \in IEEE \ {i} : Reachable(j)' /\ dev'[j].nwk = dev[i].nwk]_deviceVars

\* The registry's network index is the address book: every handler claims an
\* address for a device, makes a device leave, or changes nothing in it.
Book == INSTANCE AddressBook WITH member <- Registered, owner <- byNwk
BookSpec == Book!Spec

\* Once the main loop runs, a registered device goes by the name its entry in
\* configuration.yaml gives it ("Apply friendly names from config, overriding
\* database values", and "Apply friendly name from config" at a join).
ConfiguredNameKept ==
  phase = "running" =>
    \A i \in Registered \intersect Configured : dev[i].name = FriendlyName[i]
=============================================================================
