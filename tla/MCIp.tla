-------------------------------- MODULE MCIp --------------------------------
EXTENDS Ip
\* One packet, exactly one fragment, the sizes around two, and three of them.
MCTcpSizes == {20, 1399, 1400, 1401, 2800, 2801}
MCUdpSizes == {8, 20, 1399, 1400, 1408, 2800, 3000}
MCEchoSizes == {8, 1399, 1400, 1480}
=============================================================================
