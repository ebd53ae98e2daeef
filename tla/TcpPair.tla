------------------------------ MODULE TcpPair ------------------------------
(***************************************************************************)
(* A connection between two hosts that both run dts_net_tcp.c: Client      *)
(* opens actively, Server listens, and the network between them loses,     *)
(* duplicates, delays and reorders segments.                               *)
(*                                                                         *)
(* With KeepCopies, net holds every segment ever sent and delivers any of  *)
(* them, any number of times or never: enough for safety.  Without it a    *)
(* segment in flight is delivered once or, within a budget, lost.          *)
(***************************************************************************)
EXTENDS TcpTcb

CONSTANTS
  Client, Server,  \* the two hosts, and the sockets they use
  Isn,             \* the ISN each host takes from its clock
  Envs,            \* the answers of IP and of the allocator that are considered
  MaxBytes,        \* bound: how many bytes the user of each host sends
  Sizes,           \* sizes passed to tcp_send() and tcp_recv()
  CloseFirst,      \* the hosts whose user may close while ESTABLISHED
  KeepCopies,      \* see above
  Losable,         \* <<host, kind>>: the segments that may be lost
  MaxLoss,         \* bound: how many segments are lost
  Stale            \* segments of an earlier connection still in the network

VARIABLES
  tcb,    \* the control block of each host
  net,    \* the segments in flight
  lost,   \* how many were lost
  sent,   \* history: the bytes each user has sent, as tcp_send() accepted them
  taken,  \* history: the bytes tcp_recv() took from the queue for each user
  seen    \* history: the bytes each user found in its buffers

vars == <<tcb, net, lost, sent, taken, seen>>
users == <<sent, taken, seen>>

Host == {Client, Server}
Other(h) == IF h = Client THEN Server ELSE Client

ASSUME HostAssumption == Client # Server /\ Peer = Host
ASSUME BoundAssumption ==
  /\ Isn \in [Host -> SeqNo] /\ MaxBytes \in [Host -> Nat] /\ MaxLoss \in Nat
  /\ \A h \in Host : Isn[h] + MaxBytes[h] + 2 < SnMod  \* no number wraps
  /\ Byte = 1 .. MaxBytes[Client] + MaxBytes[Server]
  /\ Envs \subseteq Env /\ CloseFirst \subseteq Host /\ KeepCopies \in BOOLEAN
  /\ Stale \subseteq Segment /\ Sizes \subseteq Nat

-----------------------------------------------------------------------------
\* The segments a control block has just handed to IP.
Packets(h, t) == {[from |-> h, to |-> o.to, seg |-> o.seg] : o \in ToSet(t.out)}

\* Host h goes on with t; the network had n before.
Step(h, t, n) ==
  /\ tcb' = [tcb EXCEPT ![h] = [t EXCEPT !.out = <<>>]]
  /\ net' = n \cup Packets(h, t)

Init ==
  /\ \E e \in Envs : LET c == OpenActive(Server, Isn[Client], e) IN
       /\ tcb = [h \in Host |-> IF h = Client THEN [c EXCEPT !.out = <<>>]
                                              ELSE OpenPassive(Isn[Server])]
       /\ net = Packets(Client, c)
                  \cup {[from |-> Client, to |-> Server, seg |-> s] : s \in Stale}
  /\ lost = 0
  /\ sent = [h \in Host |-> <<>>]
  /\ taken = [h \in Host |-> <<>>]
  /\ seen = [h \in Host |-> <<>>]

\* The network gives m to the host it is addressed to, whose tcp_ip_recv()
\* finds the control block, or none any more.
Deliver(m) ==
  LET h == m.to
      n == IF KeepCopies THEN net ELSE net \ {m}
  IN  /\ m \in net
      /\ h \in Host
      /\ IF tcb[h].state = "FREE" THEN net' = n /\ UNCHANGED tcb
         ELSE \E e \in Envs : Step(h, Received(tcb[h], e, m.from, m.seg), n)
      /\ UNCHANGED <<lost, users>>

\* The kind of a segment, for the bound on losses.
Kind(s) ==
  CASE s.data # <<>> -> "DATA"
    [] s.data = <<>> /\ "FIN" \in s.fl -> "FIN"
    [] s.data = <<>> /\ "SYN" \in s.fl -> IF "ACK" \in s.fl THEN "SYN_ACK" ELSE "SYN"
    [] OTHER -> "ACK"

Lose(m) ==
  /\ ~KeepCopies
  /\ lost < MaxLoss
  /\ <<m.from, Kind(m.seg)>> \in Losable
  /\ net' = net \ {m}
  /\ lost' = lost + 1
  /\ UNCHANGED <<tcb, users>>

\* tcp_loop() when the timer of the control block has expired.
Expire(h) ==
  /\ tcb[h].state # "FREE"
  /\ tcb[h].tmr
  /\ \E e \in Envs : Step(h, Loop(tcb[h], e, TRUE), net)
  /\ UNCHANGED <<lost, users>>

\* tcp_loop() when it has not, and there is a control block to give back.
Reap(h) ==
  /\ tcb[h].state = "CLOSED"
  /\ \E e \in Envs : Step(h, Loop(tcb[h], e, FALSE), net)
  /\ UNCHANGED <<lost, users>>

\* The user numbers the bytes it sends, so that no two are alike.
Text(h, n) ==
  [i \in 1 .. n |-> Len(sent[h]) + i + (IF h = Client THEN 0 ELSE MaxBytes[Client])]

AppSend(h) ==
  /\ tcb[h].state = "ESTABLISHED"
  /\ \E n \in Sizes, e \in Envs :
       /\ Len(sent[h]) + n <= MaxBytes[h]
       /\ Step(h, Send(tcb[h], e, Text(h, n)), net)
       /\ sent' = IF SendAccepts(tcb[h], e)
                  THEN [sent EXCEPT ![h] = @ \o Text(h, n)] ELSE sent
  /\ UNCHANGED <<lost, taken, seen>>

AppRecv(h) ==
  /\ tcb[h].state # "FREE"
  /\ tcb[h].rxData # <<>>
  /\ \E n \in Sizes :
       /\ Step(h, Recv(tcb[h], n), net)
       /\ taken' = [taken EXCEPT ![h] = @ \o RecvTakes(tcb[h], n)]
       /\ seen' = [seen EXCEPT ![h] = @ \o RecvBuffer(tcb[h], n)]
  /\ UNCHANGED <<lost, sent>>

AppClose(h) ==
  /\ \/ tcb[h].state = "CLOSE_WAIT"
     \/ tcb[h].state = "ESTABLISHED" /\ h \in CloseFirst
  /\ \E e \in Envs : Step(h, Close(tcb[h], e), net)
  /\ UNCHANGED <<lost, users>>

HostStep(h) == Expire(h) \/ Reap(h) \/ AppSend(h) \/ AppRecv(h) \/ AppClose(h)

Next == \/ \E m \in net : Deliver(m) \/ Lose(m)
        \/ \E h \in Host : HostStep(h)

Spec == Init /\ [][Next]_vars

-----------------------------------------------------------------------------
\* The driver is polled and tcp_loop() is called for ever, so that segments
\* that are not lost arrive and timers that run expire; the user closes its
\* side after the peer did, as the server of test/dts_tcp_server_test.c.
Kinds == {"SYN", "SYN_ACK", "ACK", "DATA", "FIN"}

Fairness ==
  /\ \A h \in Host : /\ WF_vars(Expire(h))
                     /\ WF_vars(Reap(h))
                     /\ WF_vars(tcb[h].state = "CLOSE_WAIT" /\ AppClose(h))
                     /\ WF_vars(tcb[h].state = "ESTABLISHED" /\ AppRecv(h))
  /\ \A h \in Host, k \in Kinds :
       WF_vars(\E m \in net : m.from = h /\ Kind(m.seg) = k /\ Deliver(m))

FairSpec == Spec /\ Fairness

-----------------------------------------------------------------------------
\* h is past its handshake.
Connected(h) == tcb[h].state \notin {"LISTEN", "SYN_SENT", "SYN_RECEIVED"}
UserClosed(h) ==
  tcb[h].state \in {"FIN_WAIT_1", "FIN_WAIT_2", "TIME_WAIT", "LAST_ACK", "CLOSED", "FREE"}
PeerClosed(h) ==
  tcb[h].state \in {"CLOSE_WAIT", "LAST_ACK", "TIME_WAIT", "CLOSED", "FREE"}

\* The text that arrived at h: what its user took and what is still queued,
\* without the byte that a FIN puts at the end of the queue.
Real(b) == LET q == FlattenSeq(b) IN
           IF q # <<>> /\ Last(q) = Junk THEN Front(q) ELSE q
Arrived(h) == taken[h] \o Real(tcb[h].rxData)

ToServer == INSTANCE Stream WITH sent <- sent[Client], got <- Arrived(Server),
              closed <- UserClosed(Client), eof <- PeerClosed(Server)
ToClient == INSTANCE Stream WITH sent <- sent[Server], got <- Arrived(Client),
              closed <- UserClosed(Server), eof <- PeerClosed(Client)

(* What the client's tcp_send() accepted arrives in the rx_data of the      *)
(* server in order, without gap or repetition, and the server leaves        *)
(* ESTABLISHED for the client's FIN only after all of it.                   *)
ToServerIsStream == ToServer!Spec

(* The same of the text of the server, which was opened passively.          *)
ToClientIsStream == ToClient!Spec

(* The user is never given the byte that a FIN puts at the end of the queue.*)
NoJunkToUser == \A h \in Host : tcb[h].state = "ESTABLISHED" =>
                  Junk \notin ToSet(FlattenSeq(tcb[h].rxData))

(* Whatever copies of old segments arrive, both ends agree on the initial   *)
(* sequence numbers once each of them is past its handshake.                *)
HandshakeAgreed ==
  \A h \in Host : Connected(h) => tcb[h].irs = Isn[Other(h)] /\ tcb[h].iss = Isn[h]

(* No end believes acknowledged what its peer has not received, nor has     *)
(* received what was not sent.                                              *)
AckedIsReceived ==
  \A h \in Host : Connected(h) /\ Connected(Other(h)) =>
     /\ tcb[h].una <= tcb[Other(h)].rnxt
     /\ tcb[Other(h)].rnxt <= tcb[h].nxt

(* No copy of an old segment makes either end reset the connection.         *)
NoReset == \A m \in net : "RST" \notin m.seg.fl

(* rcv.nxt never goes back: a byte that was acknowledged is not asked again.*)
RcvNxtAdvances ==
  [][\A h \in Host : Connected(h) => tcb'[h].rnxt >= tcb[h].rnxt]_vars

(* recv() returns the bytes of the stream.                                  *)
RecvReturnsStream == seen = taken

(* tcp_open() of the client ends in a connection: the SYN is sent again     *)
(* until it is answered.                                                    *)
Connects == <>(Connected(Client))

(* Whatever tcp_send() accepted has, again and again, all arrived at the    *)
(* other end and been acknowledged: no order of losses, timeouts and ACKs   *)
(* stops the queue, though no ACK is sent while a segment is outstanding.   *)
Delivers ==
  \A h \in Host : []<>(Arrived(Other(h)) = sent[h] /\ (Connected(h) => tcb[h].tx = None))

(* A close that the client begins while the server is ESTABLISHED takes     *)
(* both control blocks through their FINs and TIME_WAIT until tcp_loop()    *)
(* frees them.                                                              *)
CloseCompletes ==
  tcb[Client].state = "FIN_WAIT_1" /\ tcb[Server].state = "ESTABLISHED"
    ~> \A h \in Host : tcb[h].state = "FREE"
=============================================================================
