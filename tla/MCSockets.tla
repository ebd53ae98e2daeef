------------------------------ MODULE MCSockets ------------------------------
(* Two peers that connect, answer, send a byte, close and reset.  Their      *)
(* numbers lie apart, so that a segment of the one is never in the window    *)
(* of a connection with the other.                                           *)
EXTENDS Sockets

CONSTANTS s1, s2, s3, PeerA, PeerB, Home, Other, Word, a1, a2

MCSock == {s1, s2, s3}
MCAddr == {a1, a2}
MCPeer == {PeerA, PeerB}
MCPort == {Home, Other}
MCByte == MCPeer \cup MCPort \cup {Word}
MCDgram == [p \in MCPort |-> p]
MCChunk == <<Word>>
Base(p) == IF p = PeerA THEN 2 ELSE 8

MCSegs == [p \in MCPeer |-> LET b == Base(p) IN
  {Seg(b, 0, {"SYN"}, <<>>), Seg(b + 1, 1, {"FIN", "ACK"}, <<>>)}
  \cup IF p = PeerA THEN {Seg(b, 1, {"SYN", "ACK"}, <<>>), Seg(b + 1, 2, {"ACK"}, <<>>),
                          Seg(b + 1, 2, {"FIN", "ACK"}, <<>>), Seg(b + 1, 1, {"RST", "ACK"}, <<>>)}
     ELSE {Seg(b + 1, 1, {"ACK"}, <<p>>)}]
ASSUME MCPeersApart == PeersApart

MCSymmetry == Permutations(MCAddr) \cup Permutations(MCSock)
=============================================================================
