------------------------------- MODULE Sockets -------------------------------
(***************************************************************************)
(* The socket layer (socket/socket.c) over the control blocks of TCP and   *)
(* the binds of UDP, on one host: a pool of sockets, control blocks that   *)
(* malloc() and free() give and take, the list of them that tcp_ip_recv()  *)
(* searches and tcp_loop() walks.  A socket and its control block point at *)
(* each other in one direction only, and each can outlive the other.       *)
(*                                                                         *)
(* Every peer may send its segments in any order, any number of times.     *)
(* The answers of IP and of the pools of segments and blocks are those of  *)
(* AllWell; what their failures do is the matter of TcpEndpoint.           *)
(***************************************************************************)
EXTENDS TcpTcb

CONSTANTS
  Sock,      \* the sockets of the pool
  Addr,      \* where malloc() can place a control block
  Port,      \* the local ports that are used
  Bound,     \* those that the application binds; connect() may draw any
  Isn,       \* the initial sequence number of this host's connections
  Servers,   \* the peers that this host connects to
  Segs,      \* Segs[p]: the segments that may arrive from peer p
  Dgram,     \* Dgram[port]: the byte of a datagram for this port
  Chunk,     \* what the application sends on a connection
  Reads,     \* the sizes it reads
  MaxBinds,  \* DTS_NET_SERVER_UDP_MAX_COUNT
  MaxQueue,  \* bound: blocks that wait to be read
  MaxSent    \* bound: sequence numbers that a control block uses

ASSUME SocketsAssumption ==
  /\ None \notin Sock \cup Addr \cup Port
  /\ Isn \in SeqNo /\ Servers \subseteq Peer /\ Bound \subseteq Port
  /\ Segs \in [Peer -> SUBSET Segment]
  /\ \A p \in Peer \ Servers : \A s \in Segs[p] : ~({"SYN", "ACK"} \subseteq s.fl)
  /\ Dgram \in [Port -> Byte]
  /\ Chunk \in Seq(Byte) /\ Reads \subseteq Nat /\ MaxBinds \in Nat /\ {MaxQueue, MaxSent} \subseteq Nat

VARIABLES
  sk,       \* the sockets, free ones too
  app,      \* what the application did with each, its own knowledge: "free",
            \* "new", "bound", "listening" or "connected"
  heap,     \* the memory of each control block, and its local port
  tcpList,  \* tcp_list
  binds     \* udp_list: each bind is a port and the socket it queues to

vars == <<sk, app, heap, tcpList, binds>>

\* A socket of the pool.  What its last user left in it is dead: nothing reads
\* it before socket(), bind(), listen(), accept() or connect() write it.
Unused == [type |-> "none", tcp |-> None, port |-> None, rxq |-> <<>>]

\* Memory that holds no control block.
Nothing == [tcb |-> [NewTcb(FALSE, None, Isn) EXCEPT !.state = "FREE"], port |-> None]

Free(a) == heap[a].tcb.state = "FREE"

\* What a handler handed to IP leaves the model.
Put(a, t) == [heap EXCEPT ![a].tcb = [t EXCEPT !.out = <<>>]]

\* tcp_status() of the control block of a socket.
Status(s) == IF sk[s].tcp = None THEN "CLOSED" ELSE heap[sk[s].tcp].tcb.state

Init ==
  /\ sk = [s \in Sock |-> Unused]
  /\ app = [s \in Sock |-> "free"]
  /\ heap = [a \in Addr |-> Nothing]
  /\ tcpList = <<>>
  /\ binds = {}

-----------------------------------------------------------------------------
\* The calls of the application.

\* mem_alloc_socket(): any socket of the pool (the code takes the one that was
\* freed first).
InPool(s) == app[s] = "free"

\* socket()
Socket(s, type) ==
  /\ InPool(s)
  /\ sk' = [sk EXCEPT ![s].type = type]
  /\ app' = [app EXCEPT ![s] = "new"]
  /\ UNCHANGED <<heap, tcpList, binds>>

BindTcp(s, p) ==
  /\ sk' = [sk EXCEPT ![s].port = p]
  /\ app' = [app EXCEPT ![s] = "bound"]
  /\ UNCHANGED binds

\* find_udp_by_addr(): whom the datagrams for a port are for.
FindUdpByAddr(p) == {s \in Sock : [port |-> p, sock |-> s] \in binds}

\* Variant: udp_bind() without the search for the port.
BindUdpAgain(s, p) ==
  /\ sk' = [sk EXCEPT ![s].rxq = <<>>, ![s].port = p]
  /\ IF Cardinality(binds) < MaxBinds
     THEN /\ binds' = binds \cup {[port |-> p, sock |-> s]}
          /\ app' = [app EXCEPT ![s] = "bound"]
     ELSE UNCHANGED <<binds, app>>

\* bind() of a datagram socket and udp_bind(): the queue is emptied even when
\* the port is taken.  (The model notes the port; the code keeps it in udp_t.)
BindUdp(s, p) ==
  LET ok == Cardinality(binds) < MaxBinds /\ FindUdpByAddr(p) = {}
  IN  /\ sk' = [sk EXCEPT ![s].rxq = <<>>, ![s].port = IF ok THEN p ELSE @]
      /\ binds' = IF ok THEN binds \cup {[port |-> p, sock |-> s]} ELSE binds
      /\ app' = IF ok THEN [app EXCEPT ![s] = "bound"] ELSE app

Bind(s, p) ==
  /\ app[s] = "new"
  /\ IF sk[s].type = "DGRAM" THEN BindUdp(s, p) ELSE BindTcp(s, p)
  /\ UNCHANGED <<heap, tcpList>>

\* tcp_open(): an active control block keeps its port for itself.
PortIsFree(p) == \A i \in DOMAIN tcpList :
                   heap[tcpList[i]].port = p => heap[tcpList[i]].tcb.passive

\* Where tcp_open() can put a control block for port p: nowhere is None.
Places(p) == IF PortIsFree(p) /\ \E a \in Addr : Free(a) THEN {a \in Addr : Free(a)}
             ELSE {None}

TcpOpen(a, p, t) ==
  IF a = None THEN UNCHANGED <<heap, tcpList>>
  ELSE /\ heap' = [heap EXCEPT ![a] = [tcb |-> [t EXCEPT !.out = <<>>], port |-> p]]
       /\ tcpList' = Append(tcpList, a)

\* listen()
Listen(s) ==
  /\ app[s] = "bound" /\ sk[s].type = "STREAM"
  /\ \E a \in Places(sk[s].port) :
       /\ TcpOpen(a, sk[s].port, OpenPassive(Isn))
       /\ sk' = [sk EXCEPT ![s].tcp = a]
       /\ app' = IF a = None THEN app ELSE [app EXCEPT ![s] = "listening"]
  /\ UNCHANGED binds

\* Variant: the listening socket keeps the connection it gave away.
AcceptKeeps(s, c) ==
  /\ app[s] = "listening" /\ Status(s) = "ESTABLISHED" /\ InPool(c)
  /\ sk' = [sk EXCEPT ![c].type = "STREAM", ![c].tcp = sk[s].tcp]
  /\ app' = [app EXCEPT ![c] = "connected"]
  /\ UNCHANGED <<heap, tcpList, binds>>

\* accept(): the connection goes to a socket from the pool, and the listening
\* socket opens a control block again, or is left without one.
Accept(s, c) ==
  /\ app[s] = "listening" /\ Status(s) = "ESTABLISHED" /\ InPool(c)
  /\ \E a \in Places(sk[s].port) :
       /\ TcpOpen(a, sk[s].port, OpenPassive(Isn))
       /\ sk' = [sk EXCEPT ![c].type = "STREAM", ![c].tcp = sk[s].tcp, ![s].tcp = a]
  /\ app' = [app EXCEPT ![c] = "connected"]
  /\ UNCHANGED binds

\* connect(): the port is random, and a taken one is tried three times at most.
Connect(s, p, dest) ==
  /\ app[s] \in {"new", "bound"} /\ sk[s].type = "STREAM"
  /\ \E a \in Places(p) :
       /\ TcpOpen(a, p, OpenActive(dest, Isn, AllWell))
       /\ sk' = [sk EXCEPT ![s].tcp = a]
       /\ app' = IF a = None THEN app ELSE [app EXCEPT ![s] = "connected"]
  /\ UNCHANGED binds

\* sendto() on a connection.  Bound: one block for each.
SendTo(s) ==
  /\ app[s] = "connected" /\ Status(s) = "ESTABLISHED"
  /\ LET t == heap[sk[s].tcp].tcb
     IN  t.tx = None /\ t.una = SnAdd(t.iss, 1) /\ heap' = Put(sk[s].tcp, Send(t, AllWell, Chunk))
  /\ UNCHANGED <<sk, app, tcpList, binds>>

\* recvfrom(): the queue of a datagram socket is read by the same loop as that
\* of a connection.
RecvFrom(s, n) ==
  /\ IF sk[s].type = "DGRAM"
     THEN /\ sk[s].rxq # <<>>
          /\ sk' = [sk EXCEPT ![s].rxq = Recv([state |-> "ESTABLISHED", rxData |-> @], n).rxData]
          /\ UNCHANGED heap
     ELSE /\ app[s] = "connected" /\ Status(s) = "ESTABLISHED"
          /\ heap' = Put(sk[s].tcp, Recv(heap[sk[s].tcp].tcb, n))
          /\ UNCHANGED sk
  /\ app[s] # "free"
  /\ UNCHANGED <<app, tcpList, binds>>

\* Variant: the socket is given back before the connection is up.
CloseAnytime(s) ==
  /\ app[s] = "connected" /\ Status(s) # "FREE"
  /\ heap' = Put(sk[s].tcp, Close(heap[sk[s].tcp].tcb, AllWell))
  /\ app' = [app EXCEPT ![s] = "free"]
  /\ sk' = [sk EXCEPT ![s] = Unused]
  /\ UNCHANGED <<tcpList, binds>>

\* close() and tcp_close(), of a connection that is up or that the peer closed,
\* as the test programs call it.  The socket keeps the pointer.
CloseSocket(s) ==
  /\ app[s] = "connected" /\ Status(s) \in {"ESTABLISHED", "CLOSE_WAIT"}
  /\ heap' = Put(sk[s].tcp, Close(heap[sk[s].tcp].tcb, AllWell))
  /\ app' = [app EXCEPT ![s] = "free"]
  /\ sk' = [sk EXCEPT ![s] = Unused]
  /\ UNCHANGED <<tcpList, binds>>

-----------------------------------------------------------------------------
\* What arrives, and the loop.

\* Where the control blocks for a port stand in tcp_list.
OnPort(port) == {i \in DOMAIN tcpList : heap[tcpList[i]].port = port}

\* Variant: the search goes on behind the exact match.
DemuxLast(p, port) ==
  LET active == {i \in OnPort(port) : ~heap[tcpList[i]].tcb.passive}
  IN  IF OnPort(port) = {} THEN None
      ELSE tcpList[IF active # {} THEN Min(active) ELSE Max(OnPort(port))]

\* The search of tcp_ip_recv(): it ends at an active control block, whoever its
\* peer is, or at a passive one for this peer; else the last one is taken.
Demux(p, port) ==
  LET ends == {i \in OnPort(port) : ~heap[tcpList[i]].tcb.passive \/ heap[tcpList[i]].tcb.dest = p}
  IN  IF OnPort(port) = {} THEN None
      ELSE tcpList[IF ends # {} THEN Min(ends) ELSE Max(OnPort(port))]

\* tcp_ip_recv()
SegmentArrives(p, port, s) ==
  /\ Demux(p, port) # None
  /\ LET a == Demux(p, port)
         t == Received(heap[a].tcb, AllWell, p, s)
     IN  /\ Len(t.rxData) <= MaxQueue /\ t.nxt \in {SnAdd(Isn, k) : k \in 0 .. MaxSent}
         /\ heap' = Put(a, t)
  /\ UNCHANGED <<sk, app, tcpList, binds>>

\* udp_recv(): without memory for a block the datagram is lost, as if it had
\* never arrived.
UdpRecv(s, port) == [sk EXCEPT ![s].rxq = Append(@, <<Dgram[port]>>)]

\* udp_ip_recv()
DatagramArrives(port) ==
  /\ \E s \in FindUdpByAddr(port) : Len(sk[s].rxq) < MaxQueue /\ sk' = UdpRecv(s, port)
  /\ UNCHANGED <<app, heap, tcpList, binds>>

\* What is left of tcp_list, in its order.
Without(q, gone) == FlattenSeq([i \in DOMAIN q |-> IF q[i] \in gone THEN <<>> ELSE <<q[i]>>])

\* Variant: a control block is freed as soon as its connection is down.
TcpLoopEager(expired) ==
  LET after == [a \in Addr |-> IF Free(a) THEN heap[a].tcb ELSE Loop(heap[a].tcb, AllWell, a \in expired)]
      gone == {a \in Addr : after[a].state \in {"FREE", "CLOSE_WAIT"}}
  IN  /\ heap' = [a \in Addr |-> IF a \in gone THEN Nothing
                                 ELSE [heap[a] EXCEPT !.tcb = [after[a] EXCEPT !.out = <<>>]]]
      /\ tcpList' = Without(tcpList, gone)
      /\ UNCHANGED <<sk, app, binds>>

\* tcp_loop(): every control block of the list, in one call.
TcpLoop(expired) ==
  LET after == [a \in Addr |-> IF Free(a) THEN heap[a].tcb ELSE Loop(heap[a].tcb, AllWell, a \in expired)]
      gone == {a \in Addr : after[a].state = "FREE"}
  IN  /\ heap' = [a \in Addr |-> IF a \in gone THEN Nothing
                                 ELSE [heap[a] EXCEPT !.tcb = [after[a] EXCEPT !.out = <<>>]]]
      /\ tcpList' = Without(tcpList, gone)
      /\ UNCHANGED <<sk, app, binds>>

-----------------------------------------------------------------------------
\* An open socket whose control block was freed.  What is done with it reads
\* freed memory: the model ends there.
InUse(s) == app[s] \in {"listening", "connected"} /\ sk[s].tcp # None
Dangling(s) == InUse(s) /\ Free(sk[s].tcp)

Next ==
  /\ \A s \in Sock : ~Dangling(s)
  /\ \/ \E s \in Sock, type \in {"STREAM", "DGRAM"} : Socket(s, type)
     \/ \E s \in Sock, p \in Bound : Bind(s, p)
     \/ \E s \in Sock : Listen(s)
     \/ \E s, c \in Sock : Accept(s, c)
     \/ \E s \in Sock, p \in Port, dest \in Servers : Connect(s, p, dest)
     \/ \E s \in Sock : SendTo(s)
     \/ \E s \in Sock, n \in Reads : RecvFrom(s, n)
     \/ \E s \in Sock : CloseSocket(s)
     \/ \E p \in Peer, port \in Port : \E s \in Segs[p] : SegmentArrives(p, port, s)
     \/ \E port \in Port : DatagramArrives(port)
     \/ \E expired \in SUBSET {a \in Addr : heap[a].tcb.tmr} : TcpLoop(expired)

Spec == Init /\ [][Next]_vars
-----------------------------------------------------------------------------
(* A control block that is allocated is on the list once, and no memory    *)
(* that was given back is; no two open sockets have the same one, though    *)
(* malloc() uses addresses again while closed sockets still hold them.      *)
OwnsItsBlock ==
  /\ ToSet(tcpList) = {a \in Addr : ~Free(a)}
  /\ Len(tcpList) = Cardinality(ToSet(tcpList))
  /\ \A s, r \in Sock : s # r /\ InUse(s) /\ InUse(r) => sk[s].tcp # sk[r].tcp

(* tcp_loop() frees the control block of an open socket in one case only: a *)
(* connect() that the peer refused, whose SYN is still outstanding.         *)
FreesOnlyRefused ==
  [][\A s \in Sock : ~Dangling(s) /\ Dangling(s)' =>
       LET t == heap[sk[s].tcp].tcb
       IN  t.tx # None /\ "SYN" \in t.tx.fl /\ t.state \in {"CLOSED", "SYN_SENT"}]_vars

(* A control block that no open socket has is on its way through the close: *)
(* its FIN is queued, or answered, and nothing more is needed from the user *)
(* to free it.                                                              *)
NoOrphan ==
  \A a \in Addr :
    Free(a) \/ (\E s \in Sock : InUse(s) /\ sk[s].tcp = a)
    \/ heap[a].tcb.state \in {"FIN_WAIT_1", "FIN_WAIT_2", "TIME_WAIT", "LAST_ACK", "CLOSED"}

(* The text that waits on a connection was sent by its own peer, whatever   *)
(* the other peers send to the same port: no handler checks the sender, it  *)
(* is the search of tcp_ip_recv() and the sequence numbers that keep the    *)
(* streams apart.                                                           *)
StreamsDoNotMix ==
  \A a \in Addr : \A i \in DOMAIN heap[a].tcb.rxData : \A j \in DOMAIN heap[a].tcb.rxData[i] :
    heap[a].tcb.rxData[i][j] \in {heap[a].tcb.dest, Junk}

(* That is so where each peer sends its own byte and its numbers lie apart  *)
(* from those of the others, and this host connects to one of them: a       *)
(* SYN,ACK of another server would be taken for the answer to a SYN.        *)
NumbersOf(p) == UNION {{s.seq, SnAdd(s.seq, 1), SnAdd(s.seq, Len(TextBlock(s)))} : s \in Segs[p]}
PeersApart ==
  /\ \A p, q \in Peer : p # q => NumbersOf(p) \cap NumbersOf(q) = {}
  /\ \A p \in Peer : \A s \in Segs[p] : s.data \in Seq({p})
  /\ \A p, q \in Servers : p = q

(* A segment for a port that no active control block has taken goes to the  *)
(* connection with its sender, if there is one, else to the control block   *)
(* of the only socket that listens there: what it accepted does not hide it.*)
DemuxServes ==
  \A p \in Peer, port \in Port : PortIsFree(port) =>
    LET Mine == {a \in ToSet(tcpList) : heap[a].port = port /\ heap[a].tcb.dest = p}
        Listeners == {s \in Sock : app[s] = "listening" /\ sk[s].port = port}
    IN  /\ Mine # {} => Demux(p, port) \in Mine
        /\ Mine = {} => \A s \in Sock : Listeners = {s} /\ sk[s].tcp # None
                                          => Demux(p, port) = sk[s].tcp

(* A datagram socket that is bound is the one to which the datagrams for    *)
(* its port go, and nothing else waits in its queue.                        *)
DatagramsReachTheirSocket ==
  \A s \in Sock : app[s] = "bound" /\ sk[s].type = "DGRAM" =>
    /\ FindUdpByAddr(sk[s].port) = {s}
    /\ \A i \in DOMAIN sk[s].rxq : \A j \in DOMAIN sk[s].rxq[i] :
         sk[s].rxq[i][j] = Dgram[sk[s].port]
=============================================================================
