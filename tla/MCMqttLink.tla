----------------------------- MODULE MCMqttLink -----------------------------
(***************************************************************************)
(* One device, whose name is a path, and a colour in its state, published  *)
(* attribute by attribute.                                                 *)
(***************************************************************************)
EXTENDS MqttLink

MCName == { << <<"hall">>, <<"lamp">> >> }

MCFields == [color |-> {"r", "g", "b"}]

\* What CommandsAsAsked supposes of the names.
ASSUME NamesUnambiguous == Unambiguous
=============================================================================
