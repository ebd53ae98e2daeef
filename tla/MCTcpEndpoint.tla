--------------------------- MODULE MCTcpEndpoint ---------------------------
(* TcpEndpoint on a circle of few sequence numbers, so that every kind of   *)
(* segment can arrive in every state, before, in and behind the window.     *)
EXTENDS TcpEndpoint

CONSTANTS PeerA, ByteA

MCByte == {ByteA}
MCPeer == {PeerA}
MCChunks == {<<ByteA>>}
MCReads == {1, 2}

\* An active endpoint starts from ISN 1: iss and iss+1 do not wrap.
MCIsns == {1}

\* Allocation of a transmit segment never fails; IP and data blocks may.
MCEnvs == {env \in Env : env.seg}

\* The flags that make a difference to some handler.
MCFlags == {{"SYN"}, {"ACK"}, {"SYN", "ACK"}, {"FIN", "ACK"}, {"RST"}, {"RST", "ACK"}}

MCArrivals == [seq: SeqNo, ack: SeqNo, fl: MCFlags, data: {<<>>, <<ByteA>>}]
=============================================================================
