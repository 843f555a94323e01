--------------------------- MODULE MCZnpTransport ---------------------------
(***************************************************************************)
(* Requests of two shapes, so that a late response meets both a request it *)
(* can and one it cannot be mistaken for, and a third shape nobody uses.   *)
(***************************************************************************)
EXTENDS ZnpTransport
=============================================================================
