----------------------------- MODULE TcpProofs -----------------------------
(***************************************************************************)
(* Theorems of TcpEndpoint, for every width of the sequence numbers, every *)
(* window, every set of peers, segments, user data and answers of the rest *)
(* of the system.                                                          *)
(***************************************************************************)
EXTENDS TcpEndpoint, TcpTcbLemmas

-----------------------------------------------------------------------------
\* The inductive invariant.

IInv == TypeOK /\ TimerCovers /\ TxFitsState /\ FinIsLast

(* A step to r shows the fields of r.                                       *)
LEMMA StepShows ==
  ASSUME NEW r \in Tcb, Step(r)
  PROVE  TypeOK' /\ SameSender(tcb', r) /\ tcb'.una = r.una /\ tcb'.nxt = r.nxt
<1>. DEFINE o == <<>>
<1>0. o \in Seq([to: Peer \cup {None}, seg: Segment])
  OBVIOUS
<1>. HIDE DEF o
<1>1. [r EXCEPT !.out = o] \in Tcb
  BY <1>0 DEF Tcb
<1>. QED BY <1>1 DEF o, Step, TypeOK, SameSender, Tcb

(* A step that changes nothing the invariant is about.                      *)
LEMMA QuietStep ==
  ASSUME IInv, NEW r \in Tcb, SameSender(r, tcb), Step(r)
  PROVE  IInv'
<1>1. TypeOK' /\ SameSender(tcb', tcb)
  BY StepShows DEF SameSender
<1>. QED BY <1>1 DEF IInv, TimerCovers, TxFitsState, FinIsLast, SameSender

(* A step to a state without demands, with nothing outstanding.             *)
LEMMA FreeStep ==
  ASSUME NEW r \in Tcb, r.tx = None, Step(r),
         r.state \in {"LISTEN", "SYN_RECEIVED", "ESTABLISHED", "CLOSE_WAIT", "CLOSED", "FREE"}
  PROVE  IInv'
<1>1. TypeOK' /\ SameSender(tcb', r)
  BY StepShows
<1>. QED BY <1>1
         DEF IInv, TimerCovers, TxFitsState, FinIsLast, SameSender, IsFin, Retransmitting

(* SEGMENT ARRIVES in LISTEN.                                               *)
LEMMA ListenStep ==
  ASSUME IInv, NEW e \in Env, NEW p \in Peer, NEW s \in Segment, tcb.state = "LISTEN",
         Step(ReceivedWhenListen(tcb, e, p, s))
  PROVE  IInv'
<1>. DEFINE r == IF "ACK" \in s.fl THEN SendCtrl(tcb, e, s.ack, 0, {"RST"}) ELSE tcb
            m == SnAdd(s.seq, 1)
            n == [r EXCEPT !.rnxt = m, !.irs = s.seq, !.dest = p]
            a == SendCtrl(n, e, n.iss, n.rnxt, {"SYN", "ACK"})
            q == [a EXCEPT !.state = "SYN_RECEIVED"]
<1>1. s.seq \in SeqNo /\ s.ack \in SeqNo /\ m \in SeqNo
  BY SnAddType DEF Segment
<1>2. tcb \in Tcb /\ tcb.tx = None
  BY DEF IInv, TypeOK, TxFitsState
<1>3. r \in Tcb /\ SameSender(r, tcb)
  <2>1. {"RST"} \in SUBSET Flags
    BY DEF Flags
  <2>2. /\ SendCtrl(tcb, e, s.ack, 0, {"RST"}) \in Tcb
        /\ SameSender(SendCtrl(tcb, e, s.ack, 0, {"RST"}), tcb)
    BY <1>1, <1>2, <2>1, ZeroType, SendCtrlType
  <2>. QED BY <1>2, <2>2 DEF SameSender
<1>4. ReceivedWhenListen(tcb, e, p, s) \in {tcb, r, a, q}
  BY DEF ReceivedWhenListen
<1>. HIDE DEF r, m
<1>5. n \in Tcb /\ SameSender(n, tcb)
  BY <1>1, <1>3 DEF Tcb, SameSender
<1>. HIDE DEF n
<1>6. a \in Tcb /\ SameSender(a, tcb)
  <2>1. n.iss \in SeqNo /\ n.rnxt \in SeqNo /\ {"SYN", "ACK"} \in SUBSET Flags
    BY <1>5 DEF Tcb, Flags
  <2>. QED BY <1>5, <2>1, SendCtrlType DEF SameSender
<1>. HIDE DEF a
<1>7. q \in Tcb /\ q.tx = None /\ q.state = "SYN_RECEIVED"
  BY <1>2, <1>6, StateType DEF SameSender, States
<1>. HIDE DEF q
<1>8. CASE ReceivedWhenListen(tcb, e, p, s) = q
  BY <1>7, <1>8, FreeStep
<1>9. CASE ReceivedWhenListen(tcb, e, p, s) \in {tcb, r, a}
  BY <1>2, <1>3, <1>6, <1>9, QuietStep DEF SameSender
<1>. QED BY <1>4, <1>8, <1>9

(* SEGMENT ARRIVES in SYN_SENT.                                             *)
LEMMA SynSentStep ==
  ASSUME IInv, NEW e \in Env, NEW s \in Segment, tcb.state = "SYN_SENT",
         Step(ReceivedWhenSynSent(tcb, e, s))
  PROVE  IInv'
<1>. DEFINE m == SnAdd(s.seq, 1)
            n == [tcb EXCEPT !.rnxt = m, !.irs = s.seq, !.una = s.ack]
            r == SendCtrl(tcb, e, s.ack, s.seq, {"RST"})
            a == SendCtrl(n, e, n.una, n.rnxt, {"ACK"})
            c == [tcb EXCEPT !.state = "CLOSED"]
            q == [TxComplete(a) EXCEPT !.state = "ESTABLISHED"]
<1>1. s.seq \in SeqNo /\ s.ack \in SeqNo /\ m \in SeqNo
  BY SnAddType DEF Segment
<1>2. tcb \in Tcb /\ tcb.tx # None /\ tcb.tx.fl = {"SYN"}
  BY DEF IInv, TypeOK, TxFitsState
<1>3. ReceivedWhenSynSent(tcb, e, s) \in {tcb, r, c, n, q}
  BY DEF ReceivedWhenSynSent
<1>4. r \in Tcb /\ SameSender(r, tcb)
  <2>1. {"RST"} \in SUBSET Flags
    BY DEF Flags
  <2>. QED BY <1>1, <1>2, <2>1, SendCtrlType
<1>. HIDE DEF r, m
<1>5. n \in Tcb /\ SameSender(n, tcb)
  BY <1>1, <1>2 DEF Tcb, SameSender
<1>. HIDE DEF n
<1>6. a \in Tcb
  <2>1. n.una \in SeqNo /\ n.rnxt \in SeqNo /\ {"ACK"} \in SUBSET Flags
    BY <1>5 DEF Tcb, Flags
  <2>. QED BY <1>5, <2>1, SendCtrlType
<1>. HIDE DEF a
<1>7. q \in Tcb /\ q.tx = None /\ q.state = "ESTABLISHED"
  <2>1. TxComplete(a) \in Tcb /\ TxComplete(a).tx = None
    BY <1>6, TxCompleteType
  <2>2. "ESTABLISHED" \in States \cup {"FREE"}
    BY DEF States
  <2>. QED BY <2>1, <2>2, StateType
<1>. HIDE DEF q
<1>8. CASE ReceivedWhenSynSent(tcb, e, s) = c
  <2>1. c \in Tcb /\ c.state = "CLOSED" /\ c.tx = tcb.tx
    BY <1>2, StateType DEF States
  <2>. HIDE DEF c
  <2>2. TypeOK' /\ SameSender(tcb', c)
    BY <1>8, <2>1, StepShows
  <2>. QED BY <1>2, <2>1, <2>2
           DEF IInv, TimerCovers, TxFitsState, FinIsLast, SameSender, IsFin, Retransmitting
<1>9. CASE ReceivedWhenSynSent(tcb, e, s) = q
  BY <1>7, <1>9, FreeStep
<1>10. CASE ReceivedWhenSynSent(tcb, e, s) \in {tcb, r, n}
  BY <1>2, <1>4, <1>5, <1>10, QuietStep DEF SameSender
<1>. QED BY <1>3, <1>8, <1>9, <1>10

(* SEGMENT ARRIVES in SYN_RECEIVED.                                         *)
LEMMA SynReceivedStep ==
  ASSUME IInv, NEW e \in Env, NEW s \in Segment, tcb.state = "SYN_RECEIVED",
         Step(ReceivedWhenSynReceived(tcb, e, s))
  PROVE  IInv'
<1>. DEFINE j == Reject(tcb, e, s)
            b == [tcb EXCEPT !.state = IF tcb.passive THEN "LISTEN" ELSE "CLOSED"]
            k == [tcb EXCEPT !.una = s.ack, !.state = "ESTABLISHED"]
            r == SendCtrl(tcb, e, s.ack, 0, {"RST"})
            a == IF Sncmp(tcb.una, LE, s.ack, LE, tcb.nxt) THEN k ELSE r
            w == [a EXCEPT !.state = "CLOSE_WAIT"]
<1>1. s.ack \in SeqNo /\ {"RST"} \in SUBSET Flags
  BY DEF Segment, Flags
<1>2. tcb \in Tcb /\ tcb.tx = None
  BY DEF IInv, TypeOK, TxFitsState
<1>3. ReceivedWhenSynReceived(tcb, e, s) \in {tcb, j, b, a, w}
  BY DEF ReceivedWhenSynReceived
<1>4. j \in Tcb /\ SameSender(j, tcb)
  BY <1>2, RejectType
<1>5. b \in Tcb /\ b.tx = None /\ b.state \in {"LISTEN", "CLOSED"}
  <2>. DEFINE st == IF tcb.passive THEN "LISTEN" ELSE "CLOSED"
  <2>1. st \in States \cup {"FREE"} /\ st \in {"LISTEN", "CLOSED"}
    BY DEF States
  <2>. HIDE DEF st
  <2>2. [tcb EXCEPT !.state = st] \in Tcb
    BY <1>2, <2>1, StateType
  <2>. QED BY <1>2, <2>1, <2>2, StateType DEF st
<1>6. r \in Tcb /\ SameSender(r, tcb)
  BY <1>1, <1>2, ZeroType, SendCtrlType
<1>7. k \in Tcb /\ k.tx = None /\ k.state = "ESTABLISHED"
  BY <1>1, <1>2 DEF Tcb, States
<1>. HIDE DEF j, b, r, k
<1>8. a \in Tcb /\ a.tx = None /\ a.state \in {"ESTABLISHED", "SYN_RECEIVED"}
  BY <1>2, <1>6, <1>7 DEF SameSender
<1>. HIDE DEF a
<1>9. w \in Tcb /\ w.tx = None /\ w.state = "CLOSE_WAIT"
  BY <1>8, StateType DEF States
<1>. HIDE DEF w
<1>10. CASE ReceivedWhenSynReceived(tcb, e, s) \in {tcb, j}
  BY <1>2, <1>4, <1>10, QuietStep DEF SameSender
<1>11. CASE ReceivedWhenSynReceived(tcb, e, s) \in {b, a, w}
  BY <1>5, <1>8, <1>9, <1>11, FreeStep
<1>. QED BY <1>3, <1>10, <1>11

(* SEGMENT ARRIVES in ESTABLISHED.                                          *)
LEMMA EstablishedStep ==
  ASSUME IInv, NEW e \in Env, NEW s \in Segment, tcb.state = "ESTABLISHED",
         Step(ReceivedWhenEstablished(tcb, e, s))
  PROVE  IInv'
<1>. DEFINE j == Reject(tcb, e, s)
            h == HandleAckOfData(tcb, e, s)
            a == IF IsFin(tcb.tx) THEN tcb ELSE h
            d == HandleData(a, e, s)
            f == HandleFinAck(d, e, s)
            w == [f EXCEPT !.state = "CLOSE_WAIT"]
            r == ReceivedWhenEstablished(tcb, e, s)
            \* Data is outstanding under a running timer, or nothing is.
            Fine(x) == x.tx # None => x.tx.fl = {"ACK"} /\ x.tmr
<1>1. tcb \in Tcb /\ Fine(tcb) /\ ~IsFin(tcb.tx)
  BY DEF IInv, TypeOK, TxFitsState, TimerCovers, Retransmitting
<1>2. r \in {j, tcb, w, d}
  BY DEF ReceivedWhenEstablished
<1>3. j \in Tcb /\ SameSender(j, tcb)
  BY <1>1, RejectType
<1>4. a \in Tcb /\ a.state = "ESTABLISHED" /\ Fine(a)
  <2>1. h \in Tcb /\ h.state = "ESTABLISHED" /\ Fine(h)
    BY <1>1, HandleAckOfDataType
  <2>. QED BY <1>1, <2>1
<1>. HIDE DEF a, h, j
<1>5. d \in Tcb /\ d.state = "ESTABLISHED" /\ Fine(d)
  BY <1>4, HandleDataType DEF SameSender
<1>. HIDE DEF d
<1>6. f \in Tcb /\ Fine(f)
  BY <1>5, HandleFinAckType DEF SameSender
<1>. HIDE DEF f
<1>7. w \in Tcb /\ w.state = "CLOSE_WAIT" /\ Fine(w)
  <2>1. "CLOSE_WAIT" \in States \cup {"FREE"}
    BY DEF States
  <2>2. w \in Tcb /\ w.state = "CLOSE_WAIT" /\ w.tx = f.tx /\ w.tmr = f.tmr
    BY <1>6, <2>1, StateType
  <2>. QED BY <1>6, <2>2
<1>. HIDE DEF w
<1>8. CASE r \in {tcb, j}
  BY <1>1, <1>3, <1>8, QuietStep DEF SameSender
<1>9. CASE r \in {w, d}
  <2>1. r \in Tcb /\ r.state \in {"ESTABLISHED", "CLOSE_WAIT"} /\ Fine(r)
    BY <1>5, <1>7, <1>9
  <2>2. TypeOK' /\ SameSender(tcb', r)
    BY <2>1, StepShows
  <2>3. tcb'.state \in {"ESTABLISHED", "CLOSE_WAIT"} /\ Fine(tcb')
    BY <2>1, <2>2 DEF SameSender
  <2>. HIDE DEF r
  <2>. QED BY <2>2, <2>3
           DEF IInv, TimerCovers, TxFitsState, FinIsLast, IsFin, Retransmitting
<1>. QED BY <1>2, <1>8, <1>9

(* SEGMENT ARRIVES while the FIN is to be sent and acknowledged.            *)
LEMMA AwaitStep ==
  ASSUME IInv, NEW e \in Env, NEW s \in Segment, NEW done,
         \/ tcb.state = "FIN_WAIT_1" /\ done = "FIN_WAIT_2"
         \/ tcb.state = "LAST_ACK" /\ done = "CLOSED",
         Step(AwaitAckOfFin(tcb, e, s, done))
  PROVE  IInv'
<1>. DEFINE c == TxComplete(tcb)
            w == [c EXCEPT !.state = done]
            h == HandleAckOfData(tcb, e, s)
            a == IF "ACK" \notin s.fl \/ IsFin(tcb.tx) THEN tcb ELSE h
            f == ConstructFinAck(a, e)
            r == AwaitAckOfFin(tcb, e, s, done)
            \* What is outstanding has a running timer, unless it is data
            \* left over from CLOSE_WAIT; nothing is queued behind a FIN.
            Fine(x) == /\ x.tx # None /\ ~(x.state = "LAST_ACK" /\ ~IsFin(x.tx)) => x.tmr
                       /\ IsFin(x.tx) => x.txData = <<>>
<1>1. tcb \in Tcb /\ Fine(tcb)
  BY DEF IInv, TypeOK, TimerCovers, FinIsLast, Retransmitting
<1>2. CASE "ACK" \in s.fl /\ AcksFin(tcb, s)
  <2>1. r = w
    BY <1>2 DEF AwaitAckOfFin
  <2>2. c \in Tcb /\ c.tx = None /\ c.txData = <<>>
    BY <1>1, <1>2, TxCompleteType DEF AcksFin
  <2>. HIDE DEF c
  <2>3. w \in Tcb /\ w.state = done /\ w.tx = None /\ w.txData = <<>>
    BY <2>2, StateType DEF States
  <2>. HIDE DEF w, r
  <2>4. TypeOK' /\ SameSender(tcb', w)
    BY <2>1, <2>3, StepShows DEF r
  <2>. QED BY <2>3, <2>4
           DEF IInv, TimerCovers, TxFitsState, FinIsLast, IsFin, Retransmitting, SameSender
<1>3. CASE ~("ACK" \in s.fl /\ AcksFin(tcb, s))
  <2>1. r = f
    BY <1>3 DEF AwaitAckOfFin
  <2>2. a \in Tcb /\ a.state = tcb.state /\ Fine(a)
    <3>1. h \in Tcb /\ h.state = tcb.state /\ Fine(h)
      BY <1>1, HandleAckOfDataType DEF IsFin
    <3>. QED BY <1>1, <3>1
  <2>. HIDE DEF a, h
  <2>3. f \in Tcb /\ f.state = tcb.state /\ Fine(f)
    BY <2>2, ConstructFinAckType
  <2>. HIDE DEF f, r
  <2>4. TypeOK' /\ SameSender(tcb', f)
    BY <2>1, <2>3, StepShows DEF r
  <2>5. Fine(tcb') /\ tcb'.state \in {"FIN_WAIT_1", "LAST_ACK"}
    BY <2>3, <2>4 DEF SameSender
  <2>. QED BY <2>4, <2>5
           DEF IInv, TimerCovers, TxFitsState, FinIsLast, IsFin, Retransmitting
<1>. QED BY <1>2, <1>3

(* SEGMENT ARRIVES in FIN_WAIT_2: TIME_WAIT is entered with its timer on.   *)
LEMMA FinWait2Step ==
  ASSUME IInv, NEW e \in Env, NEW s \in Segment, tcb.state = "FIN_WAIT_2",
         Step(ReceivedWhenFinWait2(tcb, e, s))
  PROVE  IInv'
<1>. DEFINE n == [tcb EXCEPT !.state = "TIME_WAIT", !.tmr = TRUE]
            f == HandleFinAck(n, e, s)
<1>1. tcb \in Tcb /\ tcb.tx = None /\ tcb.txData = <<>>
  BY DEF IInv, TypeOK, TxFitsState, FinIsLast
<1>2. ReceivedWhenFinWait2(tcb, e, s) \in {tcb, f}
  BY DEF ReceivedWhenFinWait2
<1>3. n \in Tcb /\ n.state = "TIME_WAIT" /\ n.tx = None /\ n.txData = <<>> /\ n.tmr
  BY <1>1 DEF Tcb, States
<1>. HIDE DEF n
<1>4. f \in Tcb /\ SameSender(f, n)
  BY <1>3, HandleFinAckType
<1>. HIDE DEF f
<1>5. CASE ReceivedWhenFinWait2(tcb, e, s) = tcb
  BY <1>1, <1>5, QuietStep DEF SameSender
<1>6. CASE ReceivedWhenFinWait2(tcb, e, s) = f
  <2>1. TypeOK' /\ SameSender(tcb', n)
    BY <1>4, <1>6, StepShows DEF SameSender
  <2>. QED BY <1>3, <2>1
           DEF IInv, TimerCovers, TxFitsState, FinIsLast, IsFin, Retransmitting, SameSender
<1>. QED BY <1>2, <1>5, <1>6

(* SEGMENT ARRIVES, whatever the state.                                     *)
LEMMA ReceiveStep ==
  ASSUME IInv, Receive
  PROVE  IInv'
<1>1. PICK p \in Peer, s \in Arrivals, e \in Envs : Arrives(p, s, e)
  BY DEF Receive
<1>2. s \in Segment /\ e \in Env
  BY InputsAssumption
<1>3. Step(Received(tcb, e, p, s))
  BY <1>1 DEF Arrives
<1>4. tcb \in Tcb
  BY DEF IInv, TypeOK
<1>5. CASE tcb.state = "LISTEN"
  BY <1>2, <1>3, <1>5, ListenStep DEF Received
<1>6. CASE tcb.state = "SYN_SENT"
  BY <1>2, <1>3, <1>6, SynSentStep DEF Received
<1>7. CASE tcb.state = "SYN_RECEIVED"
  BY <1>2, <1>3, <1>7, SynReceivedStep DEF Received
<1>8. CASE tcb.state = "ESTABLISHED"
  BY <1>2, <1>3, <1>8, EstablishedStep DEF Received
<1>9. CASE tcb.state = "FIN_WAIT_1"
  BY <1>2, <1>3, <1>9, AwaitStep DEF Received, ReceivedWhenFinWait1
<1>10. CASE tcb.state = "LAST_ACK"
  BY <1>2, <1>3, <1>10, AwaitStep DEF Received, ReceivedWhenLastAck
<1>11. CASE tcb.state = "FIN_WAIT_2"
  BY <1>2, <1>3, <1>11, FinWait2Step DEF Received
<1>12. CASE tcb.state \in {"TIME_WAIT", "CLOSE_WAIT"}
  <2>1. Received(tcb, e, p, s) \in {tcb, HandleFinAck(tcb, e, s)}
    BY <1>12 DEF Received, ReceivedWhenFinSeen
  <2>2. HandleFinAck(tcb, e, s) \in Tcb /\ SameSender(HandleFinAck(tcb, e, s), tcb)
    BY <1>2, <1>4, HandleFinAckType
  <2>. QED BY <1>3, <1>4, <2>1, <2>2, QuietStep DEF SameSender
<1>13. CASE tcb.state \in {"CLOSED", "FREE"}
  <2>1. Received(tcb, e, p, s) = tcb
    BY <1>13 DEF Received
  <2>. QED BY <1>3, <1>4, <2>1, QuietStep DEF SameSender
<1>14. tcb.state \in States \cup {"FREE"}
  BY <1>4 DEF Tcb
<1>. QED BY <1>5, <1>6, <1>7, <1>8, <1>9, <1>10, <1>11, <1>12, <1>13, <1>14 DEF States

(* tcp_open(), passive.                                                     *)
LEMMA ListenCallStep == ASSUME Listen PROVE IInv'
<1>1. PICK isn \in Isns : Step(OpenPassive(isn))
  BY DEF Listen
<1>. DEFINE r == OpenPassive(isn)
<1>2. isn \in SeqNo
  BY InputsAssumption
<1>3. r \in Tcb
  BY <1>2, NewTcbType DEF OpenPassive, States
<1>4. r.tx = None /\ r.state = "LISTEN"
  BY DEF OpenPassive, NewTcb
<1>. QED BY <1>1, <1>3, <1>4, FreeStep

(* tcp_open(), active: the SYN is outstanding under a running timer.        *)
LEMMA ConnectStep == ASSUME Connect PROVE IInv'
<1>1. PICK isn \in Isns, dest \in Peer, e \in Envs : Step(OpenActive(dest, isn, e))
  BY DEF Connect
<1>. DEFINE syn == Seg(isn, 0, {"SYN"}, <<>>)
            b == NewTcb(FALSE, dest, isn)
            m == SnAdd(isn, 1)
            t == [b EXCEPT !.tx = syn, !.nxt = m]
            u == Retransmit(t, e)
            r == [u EXCEPT !.state = "SYN_SENT"]
<1>2. isn \in SeqNo /\ e \in Env /\ m \in SeqNo
  BY InputsAssumption, SnAddType
<1>3. OpenActive(dest, isn, e) = r
  BY DEF OpenActive
<1>4. syn \in Segment /\ syn # None /\ syn.fl = {"SYN"}
  <2>. DEFINE fl == {"SYN"}
              data == <<>>
  <2>1. fl \in SUBSET Flags /\ data \in Seq(Byte)
    BY DEF Flags
  <2>. HIDE DEF fl, data
  <2>2. /\ Seg(isn, 0, fl, data) \in Segment /\ Seg(isn, 0, fl, data) # None
        /\ Seg(isn, 0, fl, data).fl = fl
    BY <1>2, <2>1, ZeroType, SegType
  <2>. QED BY <2>2 DEF fl, data
<1>5. b \in Tcb
  <2>1. /\ <<>> \in Seq(Seq(Byte)) /\ <<>> \in Seq(Seq(Byte \cup {Junk}))
        /\ <<>> \in Seq([to: Peer \cup {None}, seg: Segment])
    OBVIOUS
  <2>. QED BY <1>2, <2>1, ZeroType DEF NewTcb, Tcb, States
<1>. HIDE DEF syn, b, m
<1>6. t \in Tcb /\ t.tx = syn
  BY <1>2, <1>4, <1>5 DEF Tcb
<1>. HIDE DEF t
<1>7. u \in Tcb /\ u.tx = syn /\ u.tmr
  <2>1. u \in Tcb /\ SameSender(u, [t EXCEPT !.tmr = TRUE])
    BY <1>2, <1>6, RetransmitType
  <2>. QED BY <1>6, <2>1 DEF SameSender, Tcb
<1>. HIDE DEF u
<1>8. r \in Tcb /\ r.state = "SYN_SENT" /\ r.tx = syn /\ r.tmr
  BY <1>7 DEF Tcb, States
<1>. HIDE DEF r
<1>9. TypeOK' /\ SameSender(tcb', r)
  BY <1>1, <1>3, <1>8, StepShows
<1>. QED BY <1>4, <1>8, <1>9
         DEF IInv, TimerCovers, TxFitsState, FinIsLast, IsFin, Retransmitting, SameSender

(* tcp_send(): what becomes outstanding has a running timer.                *)
LEMMA AppSendStep == ASSUME IInv, AppSend PROVE IInv'
<1>1. PICK chunk \in Chunks, e \in Envs : Step(Send(tcb, e, chunk))
  BY DEF AppSend
<1>. DEFINE q == Append(tcb.txData, chunk)
            x == [tcb EXCEPT !.txData = q]
            u == IF e.blk THEN x ELSE tcb
            r == ConstructData(u, e)
<1>2. e \in Env /\ chunk \in Seq(Byte) /\ tcb.state = "ESTABLISHED"
  BY <1>1, InputsAssumption DEF AppSend
<1>3. tcb \in Tcb /\ (tcb.tx # None => tcb.tx.fl = {"ACK"} /\ tcb.tmr)
  BY <1>2 DEF IInv, TypeOK, TxFitsState, TimerCovers, Retransmitting
<1>4. Send(tcb, e, chunk) = r
  BY <1>2 DEF Send
<1>5. q \in Seq(Seq(Byte))
  BY <1>2, <1>3 DEF Tcb
<1>. HIDE DEF q
<1>6. x \in Tcb /\ x.state = "ESTABLISHED" /\ x.tx = tcb.tx /\ x.tmr = tcb.tmr
  BY <1>2, <1>3, <1>5 DEF Tcb
<1>. HIDE DEF x
<1>7. u \in Tcb /\ u.state = "ESTABLISHED" /\ (u.tx # None => u.tx.fl = {"ACK"} /\ u.tmr)
  BY <1>2, <1>3, <1>6
<1>. HIDE DEF u
<1>8. r \in Tcb /\ r.state = "ESTABLISHED"
  BY <1>2, <1>7, ConstructDataType
<1>9. r.tx # None => r.tx.fl = {"ACK"} /\ r.tmr
  <2>1. CASE u.tx # None \/ u.txData = <<>>
    BY <1>2, <1>7, <2>1, ConstructDataType
  <2>2. CASE u.tx = None /\ u.txData # <<>> /\ ~e.seg
    <3>1. SameSender(r, [u EXCEPT !.txData = Tail(@)])
      BY <1>2, <1>7, <2>2, ConstructDataType
    <3>. QED BY <1>7, <2>2, <3>1 DEF SameSender, Tcb
  <2>3. CASE u.tx = None /\ u.txData # <<>> /\ e.seg
    BY <1>2, <1>7, <2>3, ConstructDataType DEF DataOut
  <2>. QED BY <2>1, <2>2, <2>3
<1>. HIDE DEF r
<1>10. TypeOK' /\ SameSender(tcb', r)
  BY <1>1, <1>4, <1>8, StepShows
<1>. QED BY <1>8, <1>9, <1>10
         DEF IInv, TimerCovers, TxFitsState, FinIsLast, IsFin, Retransmitting, SameSender

(* tcp_recv() only takes bytes from the queue.                              *)
LEMMA AppRecvStep == ASSUME IInv, AppRecv PROVE IInv'
<1>1. PICK n \in Reads : Step(Recv(tcb, n))
  BY DEF AppRecv
<1>2. Recv(tcb, n) \in Tcb /\ SameSender(Recv(tcb, n), tcb)
  BY RecvType DEF IInv, TypeOK
<1>. QED BY <1>1, <1>2, QuietStep

(* tcp_close(): the FIN becomes outstanding, or waits for data that is.     *)
LEMMA AppCloseStep == ASSUME IInv, AppClose PROVE IInv'
<1>1. PICK e \in Envs : Step(Close(tcb, e))
  BY DEF AppClose
<1>. DEFINE f == ConstructFinAck(tcb, e)
            st == IF tcb.state = "ESTABLISHED" THEN "FIN_WAIT_1" ELSE "LAST_ACK"
            r == [f EXCEPT !.state = st]
<1>2. e \in Env /\ tcb.state \in {"ESTABLISHED", "CLOSE_WAIT"}
  BY <1>1, InputsAssumption DEF AppClose
<1>3. Close(tcb, e) = r
  BY <1>2 DEF Close
<1>4. /\ tcb \in Tcb /\ ~IsFin(tcb.tx)
      /\ tcb.state = "ESTABLISHED" /\ tcb.tx # None => tcb.tmr
  BY <1>2 DEF IInv, TypeOK, TxFitsState, TimerCovers, Retransmitting
<1>5. /\ f \in Tcb
      /\ IsFin(f.tx) => f.tmr /\ f.txData = <<>>
      /\ tcb.state = "ESTABLISHED" /\ f.tx # None => f.tmr
  BY <1>2, <1>4, ConstructFinAckType
<1>. HIDE DEF f
<1>6. r \in Tcb /\ r.state = st /\ r.tx = f.tx /\ r.txData = f.txData /\ r.tmr = f.tmr
  <2>1. st \in States \cup {"FREE"}
    BY DEF States
  <2>. HIDE DEF st
  <2>. QED BY <1>5, <2>1, StateType
<1>. HIDE DEF r
<1>7. TypeOK' /\ SameSender(tcb', r)
  BY <1>1, <1>3, <1>6, StepShows
<1>. QED BY <1>2, <1>5, <1>6, <1>7
         DEF IInv, TimerCovers, TxFitsState, FinIsLast, IsFin, Retransmitting, SameSender

(* tcp_loop(): an expired timer is restarted wherever it is still needed.   *)
LEMMA LoopStep ==
  ASSUME IInv, NEW e \in Env, NEW expired \in BOOLEAN, Step(Loop(tcb, e, expired)),
         tcb.state # "FREE"
  PROVE  IInv'
<1>. DEFINE k == [tcb EXCEPT !.tmr = FALSE]
            u == Retransmit(k, e)
            c == [k EXCEPT !.state = "CLOSED"]
            v == IF expired THEN Timeout(tcb, e) ELSE tcb
            z == [v EXCEPT !.state = "FREE"]
            r == Loop(tcb, e, expired)
<1>1. tcb \in Tcb
  BY DEF IInv, TypeOK
<1>2. k \in Tcb /\ k.state = tcb.state /\ k.tx = tcb.tx /\ k.txData = tcb.txData
  BY <1>1 DEF Tcb
<1>3. Timeout(tcb, e) = IF tcb.state \in Retransmitting THEN u
                        ELSE IF tcb.state = "TIME_WAIT" THEN c ELSE k
  BY DEF Timeout, Retransmitting
<1>. HIDE DEF k
<1>4. u \in Tcb /\ u.state = tcb.state /\ u.tx = tcb.tx /\ u.txData = tcb.txData /\ u.tmr
  <2>1. u \in Tcb /\ SameSender(u, [k EXCEPT !.tmr = TRUE])
    BY <1>2, RetransmitType
  <2>. QED BY <1>2, <2>1 DEF SameSender, Tcb
<1>. HIDE DEF u
<1>5. c \in Tcb /\ c.state = "CLOSED" /\ c.tx = tcb.tx
  BY <1>2, StateType DEF States
<1>. HIDE DEF c
\* What holds of v, whichever of the four it is.
<1>6. /\ v \in Tcb /\ v.tx = tcb.tx
      /\ v.state # "CLOSED" => v.state = tcb.state /\ v.txData = tcb.txData
      /\ v.state # "CLOSED" => v.tmr \/ v.tmr = tcb.tmr \/ v.state \notin Retransmitting \cup {"TIME_WAIT"}
      /\ v.state = "CLOSED" => tcb.state \in {"CLOSED", "TIME_WAIT"}
  <2>1. CASE ~expired
    BY <1>1, <2>1
  <2>2. CASE expired /\ tcb.state \in Retransmitting
    <3>1. v = u
      BY <1>3, <2>2
    <3>. QED BY <1>4, <2>2, <3>1 DEF Retransmitting
  <2>3. CASE expired /\ tcb.state = "TIME_WAIT"
    <3>1. v = c
      BY <1>3, <2>3 DEF Retransmitting
    <3>. QED BY <1>5, <2>3, <3>1
  <2>4. CASE expired /\ tcb.state \notin Retransmitting \cup {"TIME_WAIT"}
    <3>1. v = k
      BY <1>3, <2>4
    <3>. QED BY <1>2, <2>4, <3>1
  <2>. QED BY <2>1, <2>2, <2>3, <2>4
<1>7. r = IF v.state = "CLOSED" THEN z ELSE v
  BY DEF Loop
<1>. HIDE DEF v, r
<1>8. z \in Tcb /\ z.state = "FREE" /\ z.tx = v.tx
  BY <1>6, StateType
<1>. HIDE DEF z
<1>9. CASE v.state = "CLOSED"
  <2>1. TypeOK' /\ SameSender(tcb', z)
    BY <1>7, <1>8, <1>9, StepShows DEF r
  <2>2. ~IsFin(tcb.tx)
    BY <1>6, <1>9 DEF IInv, TxFitsState
  <2>. QED BY <1>6, <1>8, <2>1, <2>2
           DEF IInv, TimerCovers, TxFitsState, FinIsLast, IsFin, Retransmitting, SameSender
<1>10. CASE v.state # "CLOSED"
  <2>1. TypeOK' /\ SameSender(tcb', v)
    BY <1>6, <1>7, <1>10, StepShows DEF r
  <2>. QED BY <1>6, <1>10, <2>1
           DEF IInv, TimerCovers, TxFitsState, FinIsLast, IsFin, Retransmitting, SameSender
<1>. QED BY <1>9, <1>10

-----------------------------------------------------------------------------

(* Every reachable control block satisfies the invariant.                   *)
THEOREM Inductive == Spec => []IInv
<1>1. Init => IInv
  <2>. SUFFICES ASSUME Init PROVE IInv
    OBVIOUS
  <2>1. PICK isn \in Isns : tcb = [NewTcb(FALSE, None, isn) EXCEPT !.state = "FREE"]
    BY DEF Init
  <2>2. tcb \in Tcb
    BY <2>1, InputsAssumption, NewTcbType
  <2>3. tcb.state = "FREE" /\ tcb.tx = None
    BY <2>1 DEF NewTcb
  <2>. QED BY <2>2, <2>3
           DEF IInv, TypeOK, TimerCovers, TxFitsState, FinIsLast, IsFin, Retransmitting
<1>2. IInv /\ [Next]_vars => IInv'
  <2>. SUFFICES ASSUME IInv, [Next]_vars PROVE IInv'
    OBVIOUS
  <2>1. CASE Listen
    BY <2>1, ListenCallStep
  <2>2. CASE Connect
    BY <2>2, ConnectStep
  <2>3. CASE AppSend
    BY <2>3, AppSendStep
  <2>4. CASE AppRecv
    BY <2>4, AppRecvStep
  <2>5. CASE AppClose
    BY <2>5, AppCloseStep
  <2>6. CASE Receive
    BY <2>6, ReceiveStep
  <2>7. CASE Expire
    BY <2>7, LoopStep, InputsAssumption DEF Expire
  <2>8. CASE Reap
    BY <2>8, LoopStep, InputsAssumption DEF Reap
  <2>9. CASE UNCHANGED vars
    BY <2>9 DEF vars, IInv, TypeOK, TimerCovers, TxFitsState, FinIsLast
  <2>. QED BY <2>1, <2>2, <2>3, <2>4, <2>5, <2>6, <2>7, <2>8, <2>9 DEF Next
<1>. QED BY <1>1, <1>2, PTL DEF Spec

(* Every handler leaves a control block.                                    *)
THEOREM TypeCorrect == Spec => []TypeOK
<1>1. IInv => TypeOK
  BY DEF IInv
<1>. QED BY <1>1, Inductive, PTL

(* Whatever arrives, is called or expires, what is outstanding is sent      *)
(* again until it is acknowledged.                                          *)
THEOREM TimerAlwaysCovers == Spec => []TimerCovers
<1>1. IInv => TimerCovers
  BY DEF IInv
<1>. QED BY <1>1, Inductive, PTL

(* tx_seg always holds what its state accounts for.                         *)
THEOREM TxAlwaysFits == Spec => []TxFitsState
<1>1. IInv => TxFitsState
  BY DEF IInv
<1>. QED BY <1>1, Inductive, PTL

(* Nothing is ever queued behind a FIN.                                     *)
THEOREM FinIsAlwaysLast == Spec => []FinIsLast
<1>1. IInv => FinIsLast
  BY DEF IInv
<1>. QED BY <1>1, Inductive, PTL

-----------------------------------------------------------------------------
\* What is outstanding, and what waits behind it.

\* The send window of t holds the outstanding segment and nothing else.
WindowFits(t) == IF t.tx = None THEN t.nxt = t.una
                 ELSE t.tx.seq = t.una /\ t.nxt = SnAdd(t.una, SegLen(t.tx))

\* SendWindow with what it rests on: only tcp_open() decides who listens, and
\* the window of SYN_SENT is the SYN.
Windowed(t) ==
  /\ t.state \in {"LISTEN", "SYN_RECEIVED"} => t.passive
  /\ t.state = "SYN_SENT" => t.nxt = SnAdd(t.iss, 1)
  /\ t.state \in {"ESTABLISHED", "FIN_WAIT_1"} /\ ~t.passive => WindowFits(t)

\* NoIdleQueue and ClosingProgress with what they rest on: nothing is queued
\* before the connection is up.
Busy(t) ==
  /\ t.state \in {"LISTEN", "SYN_SENT", "SYN_RECEIVED"} => t.txData = <<>>
  /\ t.state \in {"ESTABLISHED", "FIN_WAIT_1", "CLOSE_WAIT", "LAST_ACK"} /\ t.txData # <<>>
       => t.tx # None
  /\ t.state \in {"FIN_WAIT_1", "LAST_ACK"} => t.tx # None

\* What a step from t to r must do for both.
Keeps(r, t, e) == /\ r \in Tcb
                  /\ Windowed(t) => Windowed(r)
                  /\ e.seg /\ Busy(t) => Busy(r)

(* What is left alone is kept.                                              *)
LEMMA UnmovedKeeps ==
  ASSUME NEW t \in Tcb, NEW e \in Env, NEW r \in Tcb, SameSender(r, t),
         r.una = t.una \/ t.state \notin {"ESTABLISHED", "FIN_WAIT_1"}, r.nxt = t.nxt
  PROVE  Keeps(r, t, e)
<1>1. Windowed(t) => Windowed(r)
  BY DEF Windowed, SameSender, WindowFits
<1>2. Busy(t) => Busy(r)
  BY DEF Busy, SameSender
<1>. QED BY <1>1, <1>2 DEF Keeps

(* SEGMENT ARRIVES before the connection is up.                             *)
LEMMA HandshakeKeeps ==
  ASSUME NEW t \in Tcb, NEW e \in Env, NEW p \in Peer, NEW s \in Segment,
         t.state \in {"LISTEN", "SYN_SENT", "SYN_RECEIVED"}
  PROVE  Keeps(Received(t, e, p, s), t, e)
<1>. DEFINE r == Received(t, e, p, s)
<1>1. CASE t.state = "LISTEN"
  <2>1. r = ReceivedWhenListen(t, e, p, s)
    BY <1>1 DEF Received
  <2>2. /\ r \in Tcb /\ r.passive = t.passive /\ r.txData = t.txData
        /\ r.state \in {"LISTEN", "SYN_RECEIVED"}
    BY <1>1, <2>1, ListenType DEF Unmoved, SameSender, SynAnswered
  <2>. HIDE DEF r
  <2>3. Windowed(t) => Windowed(r)
    BY <1>1, <2>2 DEF Windowed
  <2>4. Busy(t) => Busy(r)
    BY <1>1, <2>2 DEF Busy
  <2>. QED BY <2>2, <2>3, <2>4 DEF Keeps, r
<1>2. CASE t.state = "SYN_SENT"
  <2>1. r = ReceivedWhenSynSent(t, e, s)
    BY <1>2 DEF Received
  <2>2. /\ r \in Tcb /\ r.passive = t.passive /\ r.iss = t.iss /\ r.txData = t.txData
        /\ r.nxt = t.nxt
        /\ \/ r.state \in {"SYN_SENT", "CLOSED"}
           \/ SynTaken(r, t, s)
    BY <1>2, <2>1, SynSentType DEF Unmoved, SameSender
  <2>3. t.iss \in SeqNo /\ s.ack \in SeqNo
    BY DEF Tcb, Segment
  <2>. HIDE DEF r
  <2>4. CASE r.state \in {"SYN_SENT", "CLOSED"}
    <3>1. Windowed(t) => Windowed(r)
      BY <1>2, <2>2, <2>4 DEF Windowed
    <3>2. Busy(t) => Busy(r)
      BY <1>2, <2>2, <2>4 DEF Busy
    <3>. QED BY <2>2, <3>1, <3>2 DEF Keeps, r
  <2>5. CASE SynTaken(r, t, s) /\ r.state \notin {"SYN_SENT", "CLOSED"}
    <3>1. /\ r.state = "ESTABLISHED" /\ r.tx = None /\ s.ack > t.iss /\ r.una = s.ack
          /\ Sncmp(t.iss, LS, s.ack, LE, t.nxt)
      BY <1>2, <2>5 DEF SynTaken
    <3>2. Windowed(t) => r.nxt = r.una
      BY <1>2, <2>2, <2>3, <3>1, SncmpStep DEF Windowed
    <3>3. Windowed(t) => Windowed(r)
      BY <3>1, <3>2 DEF Windowed, WindowFits
    <3>4. Busy(t) => Busy(r)
      BY <1>2, <2>2, <3>1 DEF Busy
    <3>. QED BY <2>2, <3>3, <3>4 DEF Keeps, r
  <2>. QED BY <2>2, <2>4, <2>5
<1>3. CASE t.state = "SYN_RECEIVED"
  <2>1. r = ReceivedWhenSynReceived(t, e, s)
    BY <1>3 DEF Received
  <2>2. /\ r \in Tcb /\ r.passive = t.passive /\ r.txData = t.txData
        /\ \/ r.state \in {"SYN_RECEIVED", "CLOSE_WAIT", "ESTABLISHED"}
           \/ r.state = IF t.passive THEN "LISTEN" ELSE "CLOSED"
    BY <1>3, <2>1, SynReceivedType DEF Unmoved, SameSender, SynAcked
  <2>. HIDE DEF r
  <2>3. Windowed(t) => Windowed(r)
    BY <1>3, <2>2 DEF Windowed
  <2>4. Busy(t) => Busy(r)
    BY <1>3, <2>2 DEF Busy
  <2>. QED BY <2>2, <2>3, <2>4 DEF Keeps, r
<1>. QED BY <1>1, <1>2, <1>3

(* The ACK of the outstanding data: the next block takes its place.         *)
LEMMA AckKeeps ==
  ASSUME NEW t \in Tcb, NEW e \in Env, NEW s \in Segment
  PROVE  LET r == HandleAckOfData(t, e, s) IN
         /\ r \in Tcb /\ r.state = t.state /\ r.passive = t.passive
         /\ WindowFits(t) => WindowFits(r)
         /\ e.seg /\ (t.txData # <<>> => t.tx # None) => (r.txData # <<>> => r.tx # None)
<1>. DEFINE r == HandleAckOfData(t, e, s)
<1>1. /\ r \in Tcb /\ r.state = t.state /\ r.passive = t.passive
      /\ \/ r = t
         \/ r.tx = None /\ (e.seg => r.txData = <<>>) /\ t.tx # None
         \/ r.tx # None /\ r.tx.fl = {"ACK"} /\ r.tmr /\ t.tx # None
      /\ r = t \/ (s.ack = t.nxt /\ AckedAll(r, t, e))
  BY HandleAckOfDataType
<1>. HIDE DEF r
<1>2. WindowFits(t) => WindowFits(r)
  <2>1. CASE r = t
    BY <2>1
  <2>2. CASE r # t /\ ~e.seg /\ t.txData # <<>>
    BY <1>1, <2>2 DEF WindowFits, AckedAll
  <2>3. CASE r # t /\ t.txData = <<>>
    BY <1>1, <2>3 DEF WindowFits, AckedAll
  <2>4. CASE r # t /\ e.seg /\ t.txData # <<>>
    <3>1. /\ r.una = t.nxt /\ r.tx = Seg(t.nxt, t.rnxt, {"ACK"}, Head(t.txData)) /\ r.tx # None
          /\ r.nxt = SnAdd(t.nxt, SegLen(r.tx))
      BY <1>1, <2>4, NoneAssumption DEF AckedAll
    <3>2. r.tx.seq = t.nxt
      BY <3>1 DEF Seg
    <3>. QED BY <3>1, <3>2, Zenon DEF WindowFits
  <2>. QED BY <2>1, <2>2, <2>3, <2>4
<1>. QED BY <1>1, <1>2 DEF r

(* SEGMENT ARRIVES in ESTABLISHED.                                          *)
LEMMA EstablishedKeeps ==
  ASSUME NEW t \in Tcb, NEW e \in Env, NEW s \in Segment, t.state = "ESTABLISHED"
  PROVE  Keeps(ReceivedWhenEstablished(t, e, s), t, e)
<1>. DEFINE j == Reject(t, e, s)
            h == HandleAckOfData(t, e, s)
            a == IF IsFin(t.tx) THEN t ELSE h
            d == HandleData(a, e, s)
            f == HandleFinAck(d, e, s)
            w == [f EXCEPT !.state = "CLOSE_WAIT"]
            r == ReceivedWhenEstablished(t, e, s)
            Queue(x) == x.txData # <<>> => x.tx # None
<1>1. r \in {j, t, w, d}
  BY DEF ReceivedWhenEstablished
<1>2. j \in Tcb /\ SameSender(j, t) /\ j.una = t.una /\ j.nxt = t.nxt
  BY RejectType
<1>3. /\ h \in Tcb /\ h.state = "ESTABLISHED" /\ h.passive = t.passive
      /\ WindowFits(t) => WindowFits(h)
      /\ e.seg /\ Queue(t) => Queue(h)
  BY AckKeeps
<1>. HIDE DEF h, j
<1>4. /\ a \in Tcb /\ a.state = "ESTABLISHED" /\ a.passive = t.passive
      /\ WindowFits(t) => WindowFits(a)
      /\ e.seg /\ Queue(t) => Queue(a)
  BY <1>3
<1>. HIDE DEF a
<1>5. d \in Tcb /\ SameSender(d, a) /\ d.una = a.una /\ d.nxt = a.nxt
  BY <1>4, HandleDataType
<1>. HIDE DEF d
<1>6. f \in Tcb /\ SameSender(f, d)
  BY <1>5, HandleFinAckType
<1>. HIDE DEF f
<1>7. w \in Tcb /\ w.state = "CLOSE_WAIT" /\ w.tx = f.tx /\ w.txData = f.txData
  BY <1>6, StateType DEF States
<1>. HIDE DEF w
<1>8. CASE r \in {j, t}
  BY <1>2, <1>8, UnmovedKeeps DEF SameSender
<1>9. CASE r = d
  <2>1. d.state = "ESTABLISHED" /\ d.passive = t.passive /\ (WindowFits(t) => WindowFits(d))
    BY <1>4, <1>5 DEF SameSender, WindowFits
  <2>2. e.seg /\ Queue(t) => Queue(d)
    BY <1>4, <1>5 DEF SameSender
  <2>3. Windowed(t) => Windowed(d)
    BY <2>1 DEF Windowed
  <2>4. e.seg /\ Busy(t) => Busy(d)
    BY <2>1, <2>2 DEF Busy
  <2>. HIDE DEF r
  <2>. QED BY <1>5, <1>9, <2>3, <2>4 DEF Keeps, r
<1>10. CASE r = w
  <2>1. e.seg /\ Queue(t) => Queue(w)
    BY <1>4, <1>5, <1>6, <1>7 DEF SameSender
  <2>2. Windowed(w)
    BY <1>7 DEF Windowed
  <2>3. e.seg /\ Busy(t) => Busy(w)
    BY <1>7, <2>1 DEF Busy
  <2>. HIDE DEF r
  <2>. QED BY <1>7, <1>10, <2>2, <2>3 DEF Keeps, r
<1>. QED BY <1>1, <1>8, <1>9, <1>10

(* tcp_contruct_fin_ack(): the FIN fills the empty window; when none is     *)
(* made, data is still outstanding.                                         *)
LEMMA FinKeeps ==
  ASSUME NEW t \in Tcb, NEW e \in Env
  PROVE  LET r == ConstructFinAck(t, e) IN
         /\ r \in Tcb /\ r.state = t.state /\ r.passive = t.passive /\ r.txData = t.txData
         /\ WindowFits(t) => WindowFits(r)
         /\ e.seg /\ (t.txData # <<>> => t.tx # None) => r.tx # None
<1>. DEFINE r == ConstructFinAck(t, e)
            fin == Seg(t.una, t.rnxt, {"FIN", "ACK"}, <<>>)
<1>1. /\ r \in Tcb /\ r.state = t.state /\ r.passive = t.passive /\ r.txData = t.txData
      /\ r.una = t.una
      /\ ~(t.txData = <<>> /\ t.tx = None /\ e.seg) => r = t
      /\ t.txData = <<>> /\ t.tx = None /\ e.seg =>
           r.tx # None /\ r.tx = fin /\ r.nxt = SnAdd(t.nxt, 1)
  BY ConstructFinAckType
<1>2. fin.seq = t.una /\ SegLen(fin) = 1
  BY DEF Seg, SegLen, One
<1>. HIDE DEF r, fin
<1>3. WindowFits(t) => WindowFits(r)
  <2>1. CASE r = t
    BY <2>1
  <2>2. CASE t.txData = <<>> /\ t.tx = None /\ e.seg
    BY <1>1, <1>2, <2>2, Zenon DEF WindowFits
  <2>. QED BY <1>1, <2>1, <2>2
<1>. QED BY <1>1, <1>3 DEF r

(* SEGMENT ARRIVES while the FIN is to be sent and acknowledged.            *)
LEMMA AwaitKeeps ==
  ASSUME NEW t \in Tcb, NEW e \in Env, NEW s \in Segment, NEW done,
         \/ t.state = "FIN_WAIT_1" /\ done = "FIN_WAIT_2"
         \/ t.state = "LAST_ACK" /\ done = "CLOSED"
  PROVE  Keeps(AwaitAckOfFin(t, e, s, done), t, e)
<1>. DEFINE c == TxComplete(t)
            w == [c EXCEPT !.state = done]
            h == HandleAckOfData(t, e, s)
            a == IF "ACK" \notin s.fl \/ IsFin(t.tx) THEN t ELSE h
            f == ConstructFinAck(a, e)
            r == AwaitAckOfFin(t, e, s, done)
            Queue(x) == x.txData # <<>> => x.tx # None
<1>1. r = w \/ r = f
  BY DEF AwaitAckOfFin
<1>2. w \in Tcb /\ w.state = done
  <2>1. c \in Tcb
    BY TxCompleteType
  <2>. HIDE DEF c
  <2>. QED BY <2>1, StateType DEF States
<1>3. /\ h \in Tcb /\ h.state = t.state /\ h.passive = t.passive
      /\ WindowFits(t) => WindowFits(h)
      /\ e.seg /\ Queue(t) => Queue(h)
  BY AckKeeps
<1>. HIDE DEF h, w
<1>4. /\ a \in Tcb /\ a.state = t.state /\ a.passive = t.passive
      /\ WindowFits(t) => WindowFits(a)
      /\ e.seg /\ Queue(t) => Queue(a)
  BY <1>3
<1>. HIDE DEF a
<1>5. /\ f \in Tcb /\ f.state = t.state /\ f.passive = t.passive
      /\ WindowFits(t) => WindowFits(f)
      /\ e.seg /\ Queue(t) => f.tx # None
  BY <1>4, FinKeeps
<1>. HIDE DEF f, r
<1>6. CASE r = w
  <2>1. Windowed(w) /\ Busy(w)
    BY <1>2 DEF Windowed, Busy
  <2>. QED BY <1>2, <1>6, <2>1 DEF Keeps, r
<1>7. CASE r = f
  <2>1. Windowed(t) => Windowed(f)
    BY <1>5 DEF Windowed
  <2>2. e.seg /\ Busy(t) => Busy(f)
    BY <1>5 DEF Busy
  <2>. QED BY <1>5, <1>7, <2>1, <2>2 DEF Keeps, r
<1>. QED BY <1>1, <1>6, <1>7 DEF r

(* SEGMENT ARRIVES, whatever the state.                                     *)
LEMMA ReceivedKeeps ==
  ASSUME NEW t \in Tcb, NEW e \in Env, NEW p \in Peer, NEW s \in Segment
  PROVE  Keeps(Received(t, e, p, s), t, e)
<1>1. CASE t.state \in {"LISTEN", "SYN_SENT", "SYN_RECEIVED"}
  BY <1>1, HandshakeKeeps
<1>2. CASE t.state = "ESTABLISHED"
  BY <1>2, EstablishedKeeps DEF Received
<1>3. CASE t.state = "FIN_WAIT_1"
  BY <1>3, AwaitKeeps DEF Received, ReceivedWhenFinWait1
<1>4. CASE t.state = "LAST_ACK"
  BY <1>4, AwaitKeeps DEF Received, ReceivedWhenLastAck
<1>5. CASE t.state = "FIN_WAIT_2"
  <2>. DEFINE n == [t EXCEPT !.state = "TIME_WAIT", !.tmr = TRUE]
              f == HandleFinAck(n, e, s)
  <2>1. Received(t, e, p, s) \in {t, f}
    BY <1>5 DEF Received, ReceivedWhenFinWait2
  <2>2. n \in Tcb /\ n.state = "TIME_WAIT"
    BY DEF Tcb, States
  <2>. HIDE DEF n
  <2>3. f \in Tcb /\ f.state = "TIME_WAIT"
    BY <2>2, HandleFinAckType DEF SameSender
  <2>. HIDE DEF f
  <2>4. Windowed(f) /\ Busy(f)
    BY <2>3 DEF Windowed, Busy
  <2>. QED BY <2>1, <2>3, <2>4 DEF Keeps
<1>6. CASE t.state \in {"TIME_WAIT", "CLOSE_WAIT"}
  <2>1. Received(t, e, p, s) \in {t, HandleFinAck(t, e, s)}
    BY <1>6 DEF Received, ReceivedWhenFinSeen
  <2>2. /\ HandleFinAck(t, e, s) \in Tcb /\ SameSender(HandleFinAck(t, e, s), t)
        /\ HandleFinAck(t, e, s).nxt = t.nxt
    BY HandleFinAckType
  <2>. QED BY <1>6, <2>1, <2>2, UnmovedKeeps DEF SameSender
<1>7. CASE t.state \in {"CLOSED", "FREE"}
  <2>1. Received(t, e, p, s) = t
    BY <1>7 DEF Received
  <2>. QED BY <2>1, UnmovedKeeps DEF SameSender
<1>8. t.state \in States \cup {"FREE"}
  BY DEF Tcb
<1>. QED BY <1>1, <1>2, <1>3, <1>4, <1>5, <1>6, <1>7, <1>8 DEF States

(* tcp_open(): a new control block has an empty window, or its SYN in it.   *)
LEMMA OpenKeeps ==
  ASSUME NEW isn \in Isns, NEW dest \in Peer, NEW e \in Envs
  PROVE  /\ OpenPassive(isn) \in Tcb
         /\ Windowed(OpenPassive(isn)) /\ Busy(OpenPassive(isn))
         /\ OpenActive(dest, isn, e) \in Tcb
         /\ Windowed(OpenActive(dest, isn, e)) /\ Busy(OpenActive(dest, isn, e))
<1>1. isn \in SeqNo /\ e \in Env
  BY InputsAssumption
<1>2. OpenPassive(isn) \in Tcb
  BY <1>1, NewTcbType DEF OpenPassive, States
<1>3. /\ OpenPassive(isn).state = "LISTEN" /\ OpenPassive(isn).passive
      /\ OpenPassive(isn).txData = <<>>
  BY DEF OpenPassive, NewTcb
<1>. DEFINE r == OpenActive(dest, isn, e)
<1>4. /\ r \in Tcb /\ r.state = "SYN_SENT" /\ r.iss = isn /\ r.nxt = SnAdd(isn, 1)
      /\ r.txData = <<>>
  BY <1>1, OpenActiveType
<1>. HIDE DEF r
<1>5. Windowed(r) /\ Busy(r)
  BY <1>4 DEF Windowed, Busy
<1>6. Windowed(OpenPassive(isn)) /\ Busy(OpenPassive(isn))
  BY <1>3 DEF Windowed, Busy
<1>. QED BY <1>2, <1>4, <1>5, <1>6 DEF r

(* tcp_send(): the block is sent at once or waits behind what is out.       *)
LEMMA SendKeeps ==
  ASSUME NEW t \in Tcb, NEW e \in Env, NEW chunk \in Seq(Byte), t.state = "ESTABLISHED"
  PROVE  Keeps(Send(t, e, chunk), t, e)
<1>. DEFINE q == Append(t.txData, chunk)
            x == [t EXCEPT !.txData = q]
            u == IF e.blk THEN x ELSE t
            r == ConstructData(u, e)
<1>1. Send(t, e, chunk) = r
  BY DEF Send
<1>2. q \in Seq(Seq(Byte))
  BY DEF Tcb
<1>. HIDE DEF q
<1>3. /\ x \in Tcb /\ x.state = t.state /\ x.passive = t.passive /\ x.tx = t.tx
      /\ x.una = t.una /\ x.nxt = t.nxt
  BY <1>2 DEF Tcb
<1>. HIDE DEF x
<1>4. /\ u \in Tcb /\ u.state = "ESTABLISHED" /\ u.passive = t.passive /\ u.tx = t.tx
      /\ u.una = t.una /\ u.nxt = t.nxt
  BY <1>3
<1>. HIDE DEF u
<1>5. /\ r \in Tcb /\ r.state = "ESTABLISHED" /\ r.passive = t.passive /\ r.una = t.una
  BY <1>4, ConstructDataType
<1>6. CASE u.tx # None \/ u.txData = <<>>
  <2>1. r = u
    BY <1>4, <1>6, ConstructDataType
  <2>. HIDE DEF r
  <2>2. Windowed(t) => Windowed(r)
    BY <1>4, <2>1 DEF Windowed, WindowFits
  <2>3. Busy(r)
    BY <1>5, <1>6, <2>1 DEF Busy
  <2>. QED BY <1>1, <1>5, <2>2, <2>3 DEF Keeps
<1>7. CASE u.tx = None /\ u.txData # <<>> /\ ~e.seg
  <2>1. SameSender(r, [u EXCEPT !.txData = Tail(@)]) /\ r.nxt = u.nxt
    BY <1>4, <1>7, ConstructDataType
  <2>2. r.tx = None
    BY <1>4, <1>7, <2>1 DEF SameSender, Tcb
  <2>. HIDE DEF r
  <2>3. Windowed(t) => Windowed(r)
    BY <1>4, <1>5, <1>7, <2>1, <2>2 DEF Windowed, WindowFits
  <2>. QED BY <1>1, <1>5, <1>7, <2>3 DEF Keeps
<1>8. CASE u.tx = None /\ u.txData # <<>> /\ e.seg
  <2>1. DataOut(r, u)
    BY <1>4, <1>8, ConstructDataType
  <2>2. r.tx # None /\ r.tx.seq = u.una /\ r.nxt = SnAdd(u.nxt, SegLen(r.tx))
    BY <2>1 DEF DataOut, Seg
  <2>. HIDE DEF r
  <2>3. WindowFits(t) => WindowFits(r)
    BY <1>4, <1>5, <1>8, <2>2, Zenon DEF WindowFits
  <2>4. Windowed(t) => Windowed(r)
    BY <1>5, <2>3 DEF Windowed
  <2>5. Busy(r)
    BY <1>5, <2>2 DEF Busy
  <2>. QED BY <1>1, <1>5, <2>4, <2>5 DEF Keeps
<1>. QED BY <1>6, <1>7, <1>8

(* tcp_close(): the FIN is made, or data that is outstanding goes before it.*)
LEMMA CloseKeeps ==
  ASSUME NEW t \in Tcb, NEW e \in Env, t.state \in {"ESTABLISHED", "CLOSE_WAIT"}
  PROVE  Keeps(Close(t, e), t, e)
<1>. DEFINE f == ConstructFinAck(t, e)
            st == IF t.state = "ESTABLISHED" THEN "FIN_WAIT_1" ELSE "LAST_ACK"
            r == [f EXCEPT !.state = st]
<1>1. Close(t, e) = r
  BY DEF Close
<1>2. /\ f \in Tcb /\ f.passive = t.passive
      /\ WindowFits(t) => WindowFits(f)
      /\ e.seg /\ (t.txData # <<>> => t.tx # None) => f.tx # None
  BY FinKeeps
<1>. HIDE DEF f
<1>3. /\ r \in Tcb /\ r.state = st /\ r.passive = f.passive /\ r.tx = f.tx /\ r.txData = f.txData
      /\ r.una = f.una /\ r.nxt = f.nxt
  <2>1. st \in States \cup {"FREE"}
    BY DEF States
  <2>. HIDE DEF st
  <2>. QED BY <1>2, <2>1 DEF Tcb
<1>. HIDE DEF r
<1>4. r.state = "FIN_WAIT_1" => t.state = "ESTABLISHED"
  BY <1>3
<1>5. WindowFits(t) => WindowFits(r)
  BY <1>2, <1>3 DEF WindowFits
<1>6. Windowed(t) => Windowed(r)
  BY <1>2, <1>3, <1>4, <1>5 DEF Windowed
<1>7. e.seg /\ Busy(t) => Busy(r)
  BY <1>2, <1>3 DEF Busy
<1>. QED BY <1>1, <1>3, <1>6, <1>7 DEF Keeps

(* tcp_loop(): a segment that is sent again stays what is outstanding.      *)
LEMMA LoopKeeps ==
  ASSUME NEW t \in Tcb, NEW e \in Env, NEW expired \in BOOLEAN
  PROVE  Keeps(Loop(t, e, expired), t, e)
<1>. DEFINE k == [t EXCEPT !.tmr = FALSE]
            u == Retransmit(k, e)
            c == [k EXCEPT !.state = "CLOSED"]
            v == IF expired THEN Timeout(t, e) ELSE t
            z == [v EXCEPT !.state = "FREE"]
            Same(x) == /\ x \in Tcb /\ x.state = t.state /\ x.passive = t.passive
                       /\ x.iss = t.iss /\ x.tx = t.tx /\ x.txData = t.txData
                       /\ x.una = t.una /\ x.nxt = t.nxt
<1>1. Timeout(t, e) \in {u, c, k}
  BY DEF Timeout
<1>2. Same(k)
  BY DEF Tcb
<1>3. [k EXCEPT !.tmr = TRUE] = [t EXCEPT !.tmr = TRUE]
  BY DEF Tcb
<1>. HIDE DEF k
<1>4. Same(u)
  <2>1. u \in Tcb /\ SameSender(u, [k EXCEPT !.tmr = TRUE]) /\ u.una = k.una /\ u.nxt = k.nxt
    BY <1>2, RetransmitType
  <2>2. /\ u.state = t.state /\ u.passive = t.passive /\ u.iss = t.iss /\ u.tx = t.tx
        /\ u.txData = t.txData
    BY <1>3, <2>1 DEF SameSender, Tcb
  <2>. QED BY <1>2, <2>1, <2>2, Zenon
<1>5. c \in Tcb /\ c.state = "CLOSED"
  BY <1>2, StateType DEF States
<1>. HIDE DEF u, c
<1>6. Same(v) \/ (v \in Tcb /\ v.state = "CLOSED")
  BY <1>1, <1>2, <1>4, <1>5
<1>7. Loop(t, e, expired) = IF v.state = "CLOSED" THEN z ELSE v
  BY DEF Loop
<1>. HIDE DEF v
<1>8. CASE v.state = "CLOSED"
  <2>1. z \in Tcb /\ z.state = "FREE"
    BY <1>6, StateType
  <2>. HIDE DEF z
  <2>2. Windowed(z) /\ Busy(z)
    BY <2>1 DEF Windowed, Busy
  <2>. QED BY <1>7, <1>8, <2>1, <2>2 DEF Keeps
<1>9. CASE v.state # "CLOSED"
  <2>1. Windowed(t) => Windowed(v)
    BY <1>6, <1>9 DEF Windowed, WindowFits
  <2>2. Busy(t) => Busy(v)
    BY <1>6, <1>9 DEF Busy
  <2>. QED BY <1>6, <1>7, <1>9, <2>1, <2>2 DEF Keeps
<1>. QED BY <1>8, <1>9

(* Every step keeps the window, and the queue when segments are never short.*)
LEMMA NextKeeps ==
  ASSUME TypeOK, [Next]_vars
  PROVE  /\ Windowed(tcb) => Windowed(tcb')
         /\ (\A e \in Envs : e.seg) /\ Busy(tcb) => Busy(tcb')
<1>. DEFINE Goal == /\ Windowed(tcb) => Windowed(tcb')
                    /\ (\A e \in Envs : e.seg) /\ Busy(tcb) => Busy(tcb')
<1>1. tcb \in Tcb
  BY DEF TypeOK
<1>2. ASSUME NEW r \in Tcb, Step(r)
      PROVE  (Windowed(r) => Windowed(tcb')) /\ (Busy(r) => Busy(tcb'))
  <2>1. SameSender(tcb', r) /\ tcb'.una = r.una /\ tcb'.nxt = r.nxt
    BY <1>2, StepShows
  <2>. QED BY <2>1 DEF Windowed, Busy, WindowFits, SameSender
<1>3. ASSUME NEW r, NEW e \in Envs, Step(r), Keeps(r, tcb, e) PROVE Goal
  BY <1>2, <1>3 DEF Keeps
<1>. HIDE DEF Goal
<1>4. CASE Listen \/ Connect
  <2>1. PICK r \in Tcb : Step(r) /\ Windowed(r) /\ Busy(r)
    <3>1. CASE Listen
      <4>1. PICK isn \in Isns : Step(OpenPassive(isn))
        BY <3>1 DEF Listen
      <4>2. isn \in SeqNo
        BY InputsAssumption
      <4>3. OpenPassive(isn) \in Tcb
        BY <4>2, NewTcbType DEF OpenPassive, States
      <4>4. /\ OpenPassive(isn).state = "LISTEN" /\ OpenPassive(isn).passive
            /\ OpenPassive(isn).txData = <<>>
        BY DEF OpenPassive, NewTcb
      <4>5. Windowed(OpenPassive(isn)) /\ Busy(OpenPassive(isn))
        BY <4>4 DEF Windowed, Busy
      <4>. QED BY <4>1, <4>3, <4>5
    <3>2. CASE Connect
      <4>1. PICK isn \in Isns, dest \in Peer, e \in Envs : Step(OpenActive(dest, isn, e))
        BY <3>2 DEF Connect
      <4>. QED BY <4>1, OpenKeeps
    <3>. QED BY <1>4, <3>1, <3>2
  <2>. QED BY <1>2, <2>1 DEF Goal
<1>5. CASE AppSend
  <2>1. PICK chunk \in Chunks, e \in Envs : Step(Send(tcb, e, chunk))
    BY <1>5 DEF AppSend
  <2>2. e \in Env /\ chunk \in Seq(Byte) /\ tcb.state = "ESTABLISHED"
    BY <1>5, InputsAssumption DEF AppSend
  <2>3. Keeps(Send(tcb, e, chunk), tcb, e)
    BY <1>1, <2>2, SendKeeps
  <2>. QED BY <1>3, <2>1, <2>2, <2>3 DEF Goal
<1>6. CASE AppRecv
  <2>1. PICK n \in Reads : Step(Recv(tcb, n))
    BY <1>6 DEF AppRecv
  <2>2. /\ Recv(tcb, n) \in Tcb /\ SameSender(Recv(tcb, n), tcb)
        /\ Recv(tcb, n).una = tcb.una /\ Recv(tcb, n).nxt = tcb.nxt
    BY <1>1, RecvType
  <2>3. (Windowed(tcb) => Windowed(Recv(tcb, n))) /\ (Busy(tcb) => Busy(Recv(tcb, n)))
    BY <2>2 DEF Windowed, Busy, WindowFits, SameSender
  <2>. QED BY <1>2, <2>1, <2>2, <2>3 DEF Goal
<1>7. CASE AppClose
  <2>1. PICK e \in Envs : Step(Close(tcb, e))
    BY <1>7 DEF AppClose
  <2>2. e \in Env /\ tcb.state \in {"ESTABLISHED", "CLOSE_WAIT"}
    BY <1>7, InputsAssumption DEF AppClose
  <2>3. Keeps(Close(tcb, e), tcb, e)
    BY <1>1, <2>2, CloseKeeps
  <2>. QED BY <1>3, <2>1, <2>2, <2>3 DEF Goal
<1>8. CASE Receive
  <2>1. PICK p \in Peer, s \in Arrivals, e \in Envs : Arrives(p, s, e)
    BY <1>8 DEF Receive
  <2>2. s \in Segment /\ e \in Env /\ Step(Received(tcb, e, p, s))
    BY <2>1, InputsAssumption DEF Arrives
  <2>3. Keeps(Received(tcb, e, p, s), tcb, e)
    BY <1>1, <2>2, ReceivedKeeps
  <2>. QED BY <1>3, <2>1, <2>2, <2>3 DEF Goal
<1>9. CASE Expire \/ Reap
  <2>1. PICK e \in Envs : Step(Loop(tcb, e, TRUE)) \/ Step(Loop(tcb, e, FALSE))
    BY <1>9 DEF Expire, Reap
  <2>2. e \in Env
    BY InputsAssumption
  <2>3. Keeps(Loop(tcb, e, TRUE), tcb, e) /\ Keeps(Loop(tcb, e, FALSE), tcb, e)
    BY <1>1, <2>2, LoopKeeps
  <2>. QED BY <1>3, <2>1, <2>3 DEF Goal
<1>10. CASE UNCHANGED vars
  BY <1>10 DEF vars, Goal
<1>. QED BY <1>4, <1>5, <1>6, <1>7, <1>8, <1>9, <1>10 DEF Next, Goal

(* At the start there is no control block.                                  *)
LEMMA InitKeeps == Init => Windowed(tcb) /\ Busy(tcb)
<1>. SUFFICES ASSUME Init PROVE Windowed(tcb) /\ Busy(tcb)
  OBVIOUS
<1>1. PICK isn \in Isns : tcb = [NewTcb(FALSE, None, isn) EXCEPT !.state = "FREE"]
  BY DEF Init
<1>2. tcb.state = "FREE"
  BY <1>1 DEF NewTcb
<1>. QED BY <1>2 DEF Windowed, Busy

-----------------------------------------------------------------------------

(* The window of an endpoint that opened actively holds the outstanding     *)
(* segment, so that the ACK tcp_handle_ack_of_data() waits for is the one   *)
(* the peer sends: whatever the ISN, also where the numbers wrap, and with  *)
(* every failure of IP and of the allocator.                                *)
THEOREM WindowHoldsTheSegment == Spec => []SendWindow
<1>. DEFINE W == Windowed(tcb)
<1>1. Init => W
  BY InitKeeps
<1>2. TypeOK /\ W /\ [Next]_vars => W'
  BY NextKeeps
<1>3. W => SendWindow
  BY DEF Windowed, WindowFits, SendWindow
<1>. HIDE DEF W
<1>. QED BY <1>1, <1>2, <1>3, TypeCorrect, PTL DEF Spec

(* As long as mem_alloc_tcp_segment() returns a segment, what tcp_send()    *)
(* queued never waits without a segment outstanding before it, ...          *)
THEOREM QueueIsServed ==
  ASSUME \A e \in Envs : e.seg
  PROVE  Spec => []NoIdleQueue
<1>. DEFINE Q == Busy(tcb)
<1>1. Init => Q
  BY InitKeeps
<1>2. TypeOK /\ Q /\ [Next]_vars => Q'
  BY NextKeeps
<1>3. Q => NoIdleQueue
  BY DEF Busy, NoIdleQueue
<1>. HIDE DEF Q
<1>. QED BY <1>1, <1>2, <1>3, TypeCorrect, PTL DEF Spec

(* ... and a control block that waits for the ACK of its FIN has data or    *)
(* the FIN outstanding.                                                     *)
THEOREM ClosingHasWork ==
  ASSUME \A e \in Envs : e.seg
  PROVE  Spec => []ClosingProgress
<1>. DEFINE Q == Busy(tcb)
<1>1. Init => Q
  BY InitKeeps
<1>2. TypeOK /\ Q /\ [Next]_vars => Q'
  BY NextKeeps
<1>3. Q => ClosingProgress
  BY DEF Busy, ClosingProgress
<1>. HIDE DEF Q
<1>. QED BY <1>1, <1>2, <1>3, TypeCorrect, PTL DEF Spec
=============================================================================
