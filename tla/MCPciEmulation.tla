--------------------------- MODULE MCPciEmulation ---------------------------
(* One type, one device, and the two calls. *)
EXTENDS PciEmulation
=============================================================================
