----------------------------- MODULE MCMainLoop -----------------------------
(* Instance of MainLoop for TLC. *)
EXTENDS MainLoop, TLC

MCPayloads ==
  {"state" :> "ON",
   "state" :> "TOGGLE",
   "brightness" :> 300,
   ("state" :> "OFF") @@ ("brightness" :> 128),
   ("state" :> "ON") @@ ("brightness" :> 128) @@ ("color_temp" :> "color_temp")
     @@ ("color" :> "hs")}

MCPresses ==
  {[button |-> "on", arg |-> "none"], [button |-> "recall", arg |-> "1"]}
    \union [button : {"arrow_hold", "arrow_release"}, arg : {"left", "right"}]

\* All of permit join next to no device, and the window kept open by
\* housekeeping next to each kind of device.
OneAtATime ==
  kind # "none" => keepEnabled /\ doubt = "none" /\ asked = 0 /\ failures = 0 /\ lag <= 1

\* To a lamp that reports no more than three things happen, two of a kind.
FewEvents == kind = "lamp" => sets + acts + losses <= 3
=============================================================================
