----------------------------- MODULE MCEtherArp -----------------------------
(* EtherArp with a host that talks to two others, one of which answers back.*)
EXTENDS EtherArp

CONSTANTS HostA, HostB, HostC

MCHost == {HostA, HostB, HostC}
MCPairs == {<<HostA, HostB>>, <<HostA, HostC>>}
=============================================================================
