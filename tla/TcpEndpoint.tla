---------------------------- MODULE TcpEndpoint ----------------------------
(***************************************************************************)
(* One endpoint of dts_net_tcp.c against peers that may send anything: a   *)
(* TCB that the application opens, uses and closes, while segments arrive  *)
(* and the main loop calls tcp_loop().  What holds here holds whatever the *)
(* network does and whatever the other side is.                            *)
(***************************************************************************)
EXTENDS TcpTcb

CONSTANTS
  Isns,      \* what the clock may show when tcp_open() takes its ISN from it
  Envs,      \* the answers of IP and of the allocator that are considered
  Arrivals,  \* the segments that may arrive
  Chunks,    \* what the application may pass to tcp_send()
  Reads,     \* the sizes the application may pass to tcp_recv()
  MaxBlocks  \* bound: blocks in a queue before no more is sent or received

VARIABLE tcb

vars == <<tcb>>

ASSUME InputsAssumption ==
  /\ Isns \subseteq SeqNo
  /\ Envs \subseteq Env
  /\ Arrivals \subseteq Segment
  /\ Chunks \subseteq Seq(Byte)
  /\ Reads \subseteq Nat
  /\ MaxBlocks \in Nat

-----------------------------------------------------------------------------
\* What was handed to IP leaves the model: nobody here reads it.
Step(t) == tcb' = [t EXCEPT !.out = <<>>]

Init == \E isn \in Isns : tcb = [NewTcb(FALSE, None, isn) EXCEPT !.state = "FREE"]

\* tcp_open(): a passive one waits for any peer, an active one calls a peer.
Listen == /\ tcb.state = "FREE"
          /\ \E isn \in Isns : Step(OpenPassive(isn))

Connect == /\ tcb.state = "FREE"
           /\ \E isn \in Isns, dest \in Peer, e \in Envs : Step(OpenActive(dest, isn, e))

AppSend == /\ tcb.state = "ESTABLISHED"
           /\ Len(tcb.txData) < MaxBlocks
           /\ \E chunk \in Chunks, e \in Envs : Step(Send(tcb, e, chunk))

AppRecv == /\ tcb.state = "ESTABLISHED"
           /\ \E n \in Reads : Step(Recv(tcb, n))

AppClose == /\ tcb.state \in {"ESTABLISHED", "CLOSE_WAIT"}
            /\ \E e \in Envs : Step(Close(tcb, e))

\* tcp_ip_recv() found this TCB for the segment.
Arrives(p, s, e) == /\ tcb.state # "FREE"
                    /\ tcb.state = "ESTABLISHED" => Len(tcb.rxData) < MaxBlocks
                    /\ Step(Received(tcb, e, p, s))

Receive == \E p \in Peer, s \in Arrivals, e \in Envs : Arrives(p, s, e)

\* tcp_loop() when the timer of the TCB expired, and when it has to free it.
Expire == /\ tcb.tmr
          /\ tcb.state # "FREE"
          /\ \E e \in Envs : Step(Loop(tcb, e, TRUE))

Reap == /\ tcb.state = "CLOSED"
        /\ \E e \in Envs : Step(Loop(tcb, e, FALSE))

Next == Listen \/ Connect \/ AppSend \/ AppRecv \/ AppClose \/ Receive \/ Expire \/ Reap

Spec == Init /\ [][Next]_vars

-----------------------------------------------------------------------------
(* Every handler, in every state and for every segment, leaves a control    *)
(* block: its numbers on the circle, its queues made of blocks.             *)
TypeOK == tcb \in Tcb

-----------------------------------------------------------------------------
\* States whose timeout handler sends tx_seg again.
Retransmitting == {"SYN_SENT", "ESTABLISHED", "FIN_WAIT_1", "LAST_ACK"}

(* A segment that is outstanding in a state that can retransmit it has a    *)
(* running timer, so that it is sent until it is acknowledged: no order of  *)
(* ACKs, sends, closes and expiries leaves it without one.  The exception   *)
(* is data that was outstanding when the FIN of the peer arrived: CLOSE_WAIT *)
(* has no timeout handler and lets the timer die.  TIME_WAIT always ends.   *)
TimerCovers ==
  /\ tcb.state \in Retransmitting \ {"LAST_ACK"} /\ tcb.tx # None => tcb.tmr
  /\ tcb.state = "LAST_ACK" /\ IsFin(tcb.tx) => tcb.tmr
  /\ tcb.state = "TIME_WAIT" => tcb.tmr

(* What tx_seg can hold in each state: the SYN until the connection is up,  *)
(* data while it is, a FIN only once the user closed; nothing before the    *)
(* first send of a passive TCB, nor once the FIN was acknowledged.          *)
TxFitsState ==
  /\ tcb.state = "SYN_SENT" => tcb.tx # None /\ tcb.tx.fl = {"SYN"}
  /\ tcb.state \in {"LISTEN", "SYN_RECEIVED", "FIN_WAIT_2", "TIME_WAIT"} => tcb.tx = None
  /\ tcb.state \in {"ESTABLISHED", "CLOSE_WAIT"} /\ tcb.tx # None => tcb.tx.fl = {"ACK"}
  /\ IsFin(tcb.tx) => tcb.state \in {"FIN_WAIT_1", "LAST_ACK"}

(* The FIN is the last thing sent: while it is outstanding, or once it was  *)
(* acknowledged, no data is queued behind it.                               *)
FinIsLast ==
  IsFin(tcb.tx) \/ tcb.state \in {"FIN_WAIT_2", "TIME_WAIT"} => tcb.txData = <<>>

(* Queued data has a segment outstanding before it, whose ACK will start    *)
(* its transmission: it is never left waiting for nothing.  An allocation   *)
(* of a segment that fails breaks this, so Envs has none.                   *)
NoIdleQueue ==
  tcb.state \in {"ESTABLISHED", "FIN_WAIT_1", "CLOSE_WAIT", "LAST_ACK"} /\ tcb.txData # <<>>
    => tcb.tx # None

(* A TCB that waits for its own FIN to be acknowledged has a segment out:   *)
(* data that goes before the FIN, or the FIN.                               *)
ClosingProgress == tcb.state \in {"FIN_WAIT_1", "LAST_ACK"} => tcb.tx # None

(* The send window of an endpoint that opened actively holds exactly the    *)
(* outstanding segment, so that the ACK that completes it is the ACK the    *)
(* peer will send.  (After a second handshake of LISTEN it may not be.)     *)
SendWindow ==
  tcb.state \in {"ESTABLISHED", "FIN_WAIT_1"} /\ ~tcb.passive =>
    IF tcb.tx = None THEN tcb.nxt = tcb.una
    ELSE tcb.tx.seq = tcb.una /\ tcb.nxt = SnAdd(tcb.una, SegLen(tcb.tx))
=============================================================================
