------------------------------ MODULE MainLoop ------------------------------
(***************************************************************************)
(* The main loop of the bridge (src/bridge.rs, Bridge::run) with the        *)
(* permit-join window and the state of one device: one handler at a time.   *)
(* While a set command makes its requests, time passes and the adapter and  *)
(* the device act, but no message is handled, no command and no             *)
(* housekeeping.                                                            *)
(***************************************************************************)
EXTENDS PermitJoin, DeviceState

vars == <<permitJoinVars, deviceStateVars>>

MainInit == PermitInit /\ StateInit

\* A handler that awaits nothing, between two others.
Between(Step) == handler = "idle" /\ Step /\ UNCHANGED permitJoinVars

\* A set command keeps the loop until its requests are made.
StartSet == OtherStarts /\ \E p \in Payloads : SetDevice(p)

Sent == handler = "other" /\ (SendAccepted \/ SendFails) /\ UNCHANGED permitJoinVars

EndSet == OtherEnds /\ SetEnds

\* A handler that concerns neither.
StartOther == OtherStarts /\ set = NoSet /\ UNCHANGED deviceStateVars

EndOther == OtherEnds /\ set = NoSet /\ UNCHANGED deviceStateVars

\* MqttCommand::Connected republishes all there is.
Connected == Republish /\ RepublishState

Restarted == Restart /\ RestartState

MainNext ==
  \/ (Tick \/ AdapterNext \/ PermitHandlers) /\ UNCHANGED deviceStateVars
  \/ Outside /\ UNCHANGED permitJoinVars
  \/ Between(CompleteInterview \/ Message \/ GetDevice)
  \/ StartSet \/ Sent \/ EndSet
  \/ StartOther \/ EndOther
  \/ Connected \/ Restarted

MainSpec == MainInit /\ [][MainNext]_vars

-----------------------------------------------------------------------------
\* Both parts keep their types, and requests are under way to a device only
\* while the loop is busy with them.
TypeOK ==
  /\ PermitTypeOK /\ StateTypeOK
  /\ set # NoSet => handler = "other"
=============================================================================
