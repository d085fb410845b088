------------------------------- MODULE Address -------------------------------
(***************************************************************************)
(* The one IPv6 address the routing code treats specially.                 *)
(***************************************************************************)
CONSTANT NoAddr   \* the unspecified address ::
=============================================================================
