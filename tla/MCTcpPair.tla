----------------------------- MODULE MCTcpPair -----------------------------
(* TcpPair with few bytes in each direction.                                *)
EXTENDS TcpPair

CONSTANTS ClientBytes, ServerBytes

MCPeer == {Client, Server}
MCIsn == [h \in MCPeer |-> IF h = Client THEN 1 ELSE 3]
MCMaxBytes == [h \in MCPeer |-> IF h = Client THEN ClientBytes ELSE ServerBytes]
MCByte == 1 .. ClientBytes + ServerBytes
MCEnvs == {AllWell}
MCEnvsFaulty == {env \in Env : env.seg}

\* Losses the protocol recovers from: not that of the SYN,ACK.
MCLosable == {<<Client, "SYN">>, <<Client, "DATA">>, <<Client, "FIN">>,
              <<Server, "DATA">>, <<Server, "ACK">>, <<Server, "FIN">>}
MCLosableSynAck == {<<Server, "SYN_ACK">>}
MCNoLoss == {}

\* The SYN of an earlier connection of the client, delayed in the network.
MCNoStale == {}
MCStaleSyn == {Seg(5, 0, {"SYN"}, <<>>)}
=============================================================================
