--------------------------- MODULE ServiceObjects ---------------------------
(***************************************************************************)
(* The LPNUIOService structures of lpnu/iokit/lpnu_iokit.c, of which       *)
(* IOService models the links and ServiceRegistration the rest.            *)
(***************************************************************************)
EXTENDS Pointers

CONSTANT
  Services    \* addresses of LPNUIOService structures

VARIABLE
  live        \* the services that are allocated
=============================================================================
