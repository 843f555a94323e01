-------------------------- MODULE MCDeviceRegistry --------------------------
(***************************************************************************)
(* Three devices and two addresses, so that an address can be taken over   *)
(* while its former owner moves or leaves. The configuration names two     *)
(* devices alike, and keys one of these entries in another spelling.       *)
(***************************************************************************)
EXTENDS DeviceRegistry, TLC

CONSTANTS a, b, c

MCIEEE == {a, b, c}
MCName == {"hexA", "hexB", "hexC", "lamp", "desk"}
MCHex == (a :> "hexA") @@ (b :> "hexB") @@ (c :> "hexC")
MCFriendlyName == (a :> "lamp") @@ (b :> "lamp") @@ (c :> "desk")
=============================================================================
