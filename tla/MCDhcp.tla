------------------------------- MODULE MCDhcp -------------------------------
(* Dhcp with two addresses the server may offer.                           *)
EXTENDS Dhcp

CONSTANTS Addr1, Addr2

MCAddress == {Addr1, Addr2}
=============================================================================
