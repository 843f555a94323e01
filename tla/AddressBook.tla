---------------------------- MODULE AddressBook ----------------------------
(***************************************************************************)
(* What the device registry promises about network addresses, with none of *)
(* its indexes: a message from address n belongs to the device that        *)
(* claimed n last, until that device claims another address or leaves.     *)
(***************************************************************************)
CONSTANTS
  IEEE,       \* the devices, by their permanent IEEE address
  NWK,        \* the assignable network addresses (0x0000 is not one of them)
  NoDevice,   \* "nobody"
  Unassigned  \* network address 0x0000, "not seen on the network yet"

VARIABLES
  member,     \* the devices that are known
  owner       \* owner[n]: whom a message from n is attributed to

bookVars == <<member, owner>>

Init ==
  /\ member = {}
  /\ owner = [n \in NWK |-> NoDevice]

\* i becomes known, if it was not, and n (when it is an address) is now its
\* only one.
Claim(i, n) ==
  /\ member' = member \union {i}
  /\ owner' = [m \in NWK |-> IF m = n THEN i
                             ELSE IF owner[m] = i THEN NoDevice
                             ELSE owner[m]]

Leave(i) ==
  /\ member' = member \ {i}
  /\ owner' = [m \in NWK |-> IF owner[m] = i THEN NoDevice ELSE owner[m]]

Next ==
  \E i \in IEEE :
    \/ \E n \in NWK \union {Unassigned} : Claim(i, n)
    \/ Leave(i)

Spec == Init /\ [][Next]_bookVars
=============================================================================
