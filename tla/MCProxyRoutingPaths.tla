------------------------- MODULE MCProxyRoutingPaths -------------------------
(***************************************************************************)
(* The instance of ProxyRouting whose proxies have two addresses, with the *)
(* invariant of its proofs.                                                *)
(***************************************************************************)
EXTENDS MCProxyRouting, ProxyRoutingProofs

ASSUME TwoAddressesAssumption == TwoAddresses
=============================================================================
