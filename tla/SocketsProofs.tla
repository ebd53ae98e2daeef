--------------------------- MODULE SocketsProofs ---------------------------
(***************************************************************************)
(* The socket layer, for any number of sockets, control blocks, ports and  *)
(* peers: which socket owns which control block, which of them the search  *)
(* finds, and what waits in their queues.                                  *)
(***************************************************************************)
EXTENDS Sockets, TcpTcbLemmas

-----------------------------------------------------------------------------
\* What an event does to one control block, as far as a socket can tell.

\* The states that the user has closed, or that nobody can use.
Closing(t) == t.state \in {"FIN_WAIT_1", "FIN_WAIT_2", "TIME_WAIT", "LAST_ACK", "CLOSED"}

\* The states in which an open socket can find its control block.
Used(t) ==
  \/ t.state \in {"LISTEN", "SYN_RECEIVED"} /\ t.passive
  \/ t.state \in {"ESTABLISHED", "CLOSE_WAIT"}
  \/ t.state \in {"SYN_SENT", "CLOSED"} /\ ~t.passive /\ t.tx # None /\ "SYN" \in t.tx.fl

\* The state diagram that tcp_received() follows.
Diagram ==
  {<<"LISTEN", "SYN_RECEIVED">>, <<"SYN_SENT", "CLOSED">>, <<"SYN_SENT", "ESTABLISHED">>,
   <<"SYN_RECEIVED", "LISTEN">>, <<"SYN_RECEIVED", "CLOSED">>, <<"SYN_RECEIVED", "ESTABLISHED">>,
   <<"SYN_RECEIVED", "CLOSE_WAIT">>, <<"ESTABLISHED", "CLOSE_WAIT">>,
   <<"FIN_WAIT_1", "FIN_WAIT_2">>, <<"FIN_WAIT_2", "TIME_WAIT">>, <<"LAST_ACK", "CLOSED">>}

\* The segment moved the control block along the diagram.
Moved(r, t) ==
  /\ r \in Tcb /\ r.passive = t.passive
  /\ r.state = t.state \/ <<t.state, r.state>> \in Diagram
  /\ t.state = "SYN_RECEIVED" /\ t.passive => r.state # "CLOSED"
  /\ t.state \in {"SYN_SENT", "CLOSED"} /\ r.state \in {"SYN_SENT", "CLOSED"} => r.tx = t.tx

\* Whom the control block takes for its peer after the segment s from p, which
\* number it expects next, and which text it queued.
Took(r, t, p, s) ==
  /\ r.dest = t.dest \/ (t.state = "LISTEN" /\ r.dest = p)
  /\ t.state = "LISTEN" /\ r.state = "SYN_RECEIVED" => r.dest = p /\ r.rnxt = SnAdd(s.seq, 1)
  /\ t.state = "SYN_SENT" /\ r.state = "ESTABLISHED" =>
       {"SYN", "ACK"} \subseteq s.fl /\ r.rnxt = SnAdd(s.seq, 1)
  /\ t.state = "SYN_RECEIVED" => r.rnxt = t.rnxt
  /\ t.state = "ESTABLISHED" /\ r.state = "ESTABLISHED" =>
       \/ r.rnxt = t.rnxt
       \/ s.seq = t.rnxt /\ r.rnxt = SnAdd(t.rnxt, Len(TextBlock(s)))
  /\ \/ r.rxData = t.rxData
     \/ t.state = "ESTABLISHED" /\ s.seq = t.rnxt /\ r.rxData = Append(t.rxData, TextBlock(s))

(* A handler that changes no more than what is handed to IP does neither.   *)
LEMMA UnmovedIs ==
  ASSUME NEW t \in Tcb, NEW r \in Tcb, NEW p, NEW s, Unmoved(r, t)
  PROVE  Moved(r, t) /\ Took(r, t, p, s)
  BY DEF Unmoved, SameSender, SameReceiver, Moved, Took

(* LISTEN: a SYN makes its sender the peer.                                 *)
LEMMA ListenMoves ==
  ASSUME NEW t \in Tcb, NEW p \in Peer, NEW s \in Segment, t.state = "LISTEN"
  PROVE  LET r == ReceivedWhenListen(t, AllWell, p, s) IN Moved(r, t) /\ Took(r, t, p, s)
<1>. DEFINE r == ReceivedWhenListen(t, AllWell, p, s)
<1>1. AllWell \in Env /\ AllWell.ip
  BY DEF AllWell, Env
<1>2. /\ r \in Tcb /\ r.passive = t.passive /\ r.tx = t.tx /\ r.rxData = t.rxData
      /\ r = t \/ Unmoved(r, t) \/ SynAnswered(r, t, AllWell, p, s)
  BY <1>1, ListenType
<1>. HIDE DEF r
<1>3. CASE r = t \/ Unmoved(r, t)
  <2>1. Unmoved(t, t)
    BY DEF Unmoved, SameSender, SameReceiver
  <2>. QED BY <1>2, <1>3, <2>1, UnmovedIs DEF r
<1>4. CASE SynAnswered(r, t, AllWell, p, s)
  <2>1. r.state = "SYN_RECEIVED" /\ r.dest = p /\ r.rnxt = SnAdd(s.seq, 1)
    BY <1>1, <1>4 DEF SynAnswered
  <2>2. Moved(r, t)
    BY <1>2, <2>1 DEF Moved, Diagram
  <2>3. Took(r, t, p, s)
    BY <1>2, <2>1 DEF Took
  <2>. QED BY <2>2, <2>3 DEF r
<1>. QED BY <1>2, <1>3, <1>4

(* SYN_SENT: a SYN,ACK opens the connection, whoever sent it.               *)
LEMMA SynSentMoves ==
  ASSUME NEW t \in Tcb, NEW p \in Peer, NEW s \in Segment, t.state = "SYN_SENT"
  PROVE  LET r == ReceivedWhenSynSent(t, AllWell, s) IN Moved(r, t) /\ Took(r, t, p, s)
<1>. DEFINE r == ReceivedWhenSynSent(t, AllWell, s)
<1>1. AllWell \in Env
  BY DEF AllWell, Env
<1>2. /\ r \in Tcb /\ r.passive = t.passive /\ r.dest = t.dest /\ r.rxData = t.rxData
      /\ \/ r = t
         \/ Unmoved(r, t)
         \/ r.state = "CLOSED" /\ r.tx = t.tx
         \/ SynTaken(r, t, s)
  BY <1>1, SynSentType
<1>. HIDE DEF r
<1>3. CASE r = t \/ Unmoved(r, t)
  <2>1. Unmoved(t, t)
    BY DEF Unmoved, SameSender, SameReceiver
  <2>. QED BY <1>2, <1>3, <2>1, UnmovedIs DEF r
<1>4. CASE r.state = "CLOSED" /\ r.tx = t.tx
  <2>1. Moved(r, t)
    BY <1>2, <1>4 DEF Moved, Diagram
  <2>2. Took(r, t, p, s)
    BY <1>2, <1>4 DEF Took
  <2>. QED BY <2>1, <2>2 DEF r
<1>5. CASE SynTaken(r, t, s)
  <2>1. /\ "SYN" \in s.fl /\ "ACK" \in s.fl /\ r.rnxt = SnAdd(s.seq, 1)
        /\ \/ r.state = "SYN_SENT" /\ r.tx = t.tx
           \/ r.state = "ESTABLISHED"
    BY <1>5 DEF SynTaken
  <2>2. Moved(r, t)
    BY <1>2, <2>1 DEF Moved, Diagram
  <2>3. Took(r, t, p, s)
    BY <1>2, <2>1 DEF Took
  <2>. QED BY <2>2, <2>3 DEF r
<1>. QED BY <1>2, <1>3, <1>4, <1>5

(* SYN_RECEIVED: the peer and its numbers stay, whatever arrives.           *)
LEMMA SynReceivedMoves ==
  ASSUME NEW t \in Tcb, NEW p \in Peer, NEW s \in Segment, t.state = "SYN_RECEIVED"
  PROVE  LET r == ReceivedWhenSynReceived(t, AllWell, s) IN Moved(r, t) /\ Took(r, t, p, s)
<1>. DEFINE r == ReceivedWhenSynReceived(t, AllWell, s)
<1>1. AllWell \in Env
  BY DEF AllWell, Env
<1>2. /\ r \in Tcb /\ r.passive = t.passive /\ SameReceiver(r, t)
      /\ \/ Unmoved(r, t)
         \/ r.state = IF t.passive THEN "LISTEN" ELSE "CLOSED"
         \/ r.state \in {t.state, "CLOSE_WAIT"}
         \/ SynAcked(r, t, s)
  BY <1>1, SynReceivedType
<1>. HIDE DEF r
<1>3. /\ r.state \in {"SYN_RECEIVED", "LISTEN", "CLOSED", "CLOSE_WAIT", "ESTABLISHED"}
      /\ t.passive => r.state # "CLOSED"
  BY <1>2 DEF Unmoved, SameSender, SynAcked
<1>4. Moved(r, t)
  BY <1>2, <1>3 DEF Moved, Diagram
<1>5. Took(r, t, p, s)
  BY <1>2, <1>3 DEF Took, SameReceiver
<1>. QED BY <1>4, <1>5 DEF r

(* ESTABLISHED: text is taken when its number is the next, a FIN at once.   *)
LEMMA EstablishedMoves ==
  ASSUME NEW t \in Tcb, NEW p \in Peer, NEW s \in Segment, t.state = "ESTABLISHED"
  PROVE  LET r == ReceivedWhenEstablished(t, AllWell, s) IN Moved(r, t) /\ Took(r, t, p, s)
<1>. DEFINE j == Reject(t, AllWell, s)
            h == HandleAckOfData(t, AllWell, s)
            a == IF IsFin(t.tx) THEN t ELSE h
            d == HandleData(a, AllWell, s)
            f == HandleFinAck(d, AllWell, s)
            w == [f EXCEPT !.state = "CLOSE_WAIT"]
            r == ReceivedWhenEstablished(t, AllWell, s)
            Text(x) == \/ x.rxData = t.rxData
                       \/ s.seq = t.rnxt /\ x.rxData = Append(t.rxData, TextBlock(s))
<1>1. AllWell \in Env
  BY DEF AllWell, Env
<1>2. r \in {t, j, d, w}
  BY DEF ReceivedWhenEstablished
<1>3. j \in Tcb /\ Unmoved(j, t)
  BY <1>1, RejectType DEF Unmoved
<1>4. a \in Tcb /\ a.state = t.state /\ a.passive = t.passive /\ SameReceiver(a, t)
  <2>1. h \in Tcb /\ h.state = t.state /\ h.passive = t.passive /\ SameReceiver(h, t)
    BY <1>1, HandleAckOfDataType
  <2>. QED BY <2>1 DEF SameReceiver
<1>. HIDE DEF a, h, j
<1>5. /\ d \in Tcb /\ d.state = a.state /\ d.passive = a.passive /\ d.dest = a.dest
      /\ d = a \/ Stored(d, a, s)
  BY <1>1, <1>4, HandleDataType DEF SameSender
<1>6. /\ d.dest = t.dest /\ Text(d)
      /\ \/ d.rnxt = t.rnxt
         \/ s.seq = t.rnxt /\ d.rnxt = SnAdd(t.rnxt, Len(TextBlock(s)))
  BY <1>4, <1>5 DEF SameReceiver, Stored
<1>. HIDE DEF d
<1>7. /\ f \in Tcb /\ f.passive = d.passive /\ f.dest = d.dest
      /\ f = d \/ FinCounted(f, d, s)
  BY <1>1, <1>5, HandleFinAckType DEF SameSender
<1>8. f.rxData = d.rxData
  BY <1>7 DEF FinCounted
<1>. HIDE DEF f
<1>9. /\ w \in Tcb /\ w.state = "CLOSE_WAIT" /\ w.passive = f.passive /\ w.dest = f.dest
      /\ w.rxData = f.rxData
  BY <1>7 DEF Tcb, States
<1>. HIDE DEF w, r
<1>10. CASE r \in {t, j}
  <2>1. Unmoved(t, t)
    BY DEF Unmoved, SameSender, SameReceiver
  <2>. QED BY <1>3, <1>10, <2>1, UnmovedIs DEF r
<1>11. CASE r = d
  <2>1. Moved(d, t)
    BY <1>4, <1>5 DEF Moved
  <2>2. Took(d, t, p, s)
    BY <1>6 DEF Took
  <2>. QED BY <1>11, <2>1, <2>2 DEF r
<1>12. CASE r = w
  <2>1. Moved(w, t)
    BY <1>4, <1>5, <1>7, <1>9 DEF Moved, Diagram
  <2>2. Text(w) /\ w.dest = t.dest
    BY <1>6, <1>7, <1>8, <1>9
  <2>3. Took(w, t, p, s)
    BY <1>9, <2>2 DEF Took
  <2>. QED BY <1>12, <2>1, <2>3 DEF r
<1>. QED BY <1>2, <1>10, <1>11, <1>12

(* FIN_WAIT_1 and LAST_ACK: only the ACK of the FIN changes the state.      *)
LEMMA AwaitMoves ==
  ASSUME NEW t \in Tcb, NEW p \in Peer, NEW s \in Segment, NEW done,
         \/ t.state = "FIN_WAIT_1" /\ done = "FIN_WAIT_2"
         \/ t.state = "LAST_ACK" /\ done = "CLOSED"
  PROVE  LET r == AwaitAckOfFin(t, AllWell, s, done) IN Moved(r, t) /\ Took(r, t, p, s)
<1>. DEFINE c == TxComplete(t)
            w == [c EXCEPT !.state = done]
            h == HandleAckOfData(t, AllWell, s)
            a == IF "ACK" \notin s.fl \/ IsFin(t.tx) THEN t ELSE h
            f == ConstructFinAck(a, AllWell)
            r == AwaitAckOfFin(t, AllWell, s, done)
<1>1. AllWell \in Env
  BY DEF AllWell, Env
<1>2. r \in {w, f}
  BY DEF AwaitAckOfFin
<1>3. c \in Tcb /\ c.passive = t.passive /\ c.dest = t.dest /\ c.rxData = t.rxData
  BY TxCompleteType DEF SameReceiver
<1>. HIDE DEF c
<1>4. /\ w \in Tcb /\ w.state = done /\ w.passive = t.passive /\ w.dest = t.dest
      /\ w.rxData = t.rxData
  BY <1>3 DEF Tcb, States
<1>5. a \in Tcb /\ a.state = t.state /\ a.passive = t.passive /\ SameReceiver(a, t)
  <2>1. h \in Tcb /\ h.state = t.state /\ h.passive = t.passive /\ SameReceiver(h, t)
    BY <1>1, HandleAckOfDataType
  <2>. QED BY <2>1 DEF SameReceiver
<1>. HIDE DEF w, a, h
<1>6. f \in Tcb /\ f.state = a.state /\ f.passive = a.passive /\ SameReceiver(f, a)
  BY <1>1, <1>5, ConstructFinAckType
<1>. HIDE DEF f, r
<1>7. /\ r \in Tcb /\ r.state \in {t.state, done} /\ r.passive = t.passive /\ r.dest = t.dest
      /\ r.rxData = t.rxData
  BY <1>2, <1>4, <1>5, <1>6 DEF SameReceiver
<1>8. Moved(r, t)
  BY <1>7 DEF Moved, Diagram
<1>9. Took(r, t, p, s)
  BY <1>7 DEF Took
<1>. QED BY <1>8, <1>9 DEF r

(* A FIN after the first, or after ours was acknowledged: no text is taken. *)
LEMMA FinMoves ==
  ASSUME NEW t \in Tcb, NEW p \in Peer, NEW s \in Segment
  PROVE  /\ t.state = "FIN_WAIT_2" =>
              LET r == ReceivedWhenFinWait2(t, AllWell, s) IN Moved(r, t) /\ Took(r, t, p, s)
         /\ t.state \in {"TIME_WAIT", "CLOSE_WAIT"} =>
              LET r == ReceivedWhenFinSeen(t, AllWell, s) IN Moved(r, t) /\ Took(r, t, p, s)
<1>. DEFINE n == [t EXCEPT !.state = "TIME_WAIT", !.tmr = TRUE]
            f == HandleFinAck(n, AllWell, s)
            g == HandleFinAck(t, AllWell, s)
<1>1. AllWell \in Env
  BY DEF AllWell, Env
<1>2. Moved(t, t) /\ Took(t, t, p, s)
  BY UnmovedIs DEF Unmoved, SameSender, SameReceiver
<1>3. /\ n \in Tcb /\ n.state = "TIME_WAIT" /\ n.passive = t.passive /\ n.dest = t.dest
      /\ n.rxData = t.rxData
  BY DEF Tcb, States
<1>. HIDE DEF n
<1>4. /\ f \in Tcb /\ f.state = n.state /\ f.passive = n.passive /\ f.dest = n.dest
      /\ f = n \/ FinCounted(f, n, s)
  BY <1>1, <1>3, HandleFinAckType DEF SameSender
<1>5. f.rxData = n.rxData
  BY <1>4 DEF FinCounted
<1>6. /\ g \in Tcb /\ g.state = t.state /\ g.passive = t.passive /\ g.dest = t.dest
      /\ g.tx = t.tx
      /\ g = t \/ FinCounted(g, t, s)
  BY <1>1, HandleFinAckType DEF SameSender
<1>7. g.rxData = t.rxData
  BY <1>6 DEF FinCounted
<1>. HIDE DEF f, g
<1>8. ASSUME t.state = "FIN_WAIT_2"
      PROVE  LET r == ReceivedWhenFinWait2(t, AllWell, s) IN Moved(r, t) /\ Took(r, t, p, s)
  <2>1. ReceivedWhenFinWait2(t, AllWell, s) \in {t, f}
    BY DEF ReceivedWhenFinWait2, f, n
  <2>2. Moved(f, t)
    BY <1>3, <1>4, <1>8 DEF Moved, Diagram
  <2>3. Took(f, t, p, s)
    BY <1>3, <1>4, <1>5, <1>8 DEF Took
  <2>. QED BY <1>2, <2>1, <2>2, <2>3
<1>9. ASSUME t.state \in {"TIME_WAIT", "CLOSE_WAIT"}
      PROVE  LET r == ReceivedWhenFinSeen(t, AllWell, s) IN Moved(r, t) /\ Took(r, t, p, s)
  <2>1. ReceivedWhenFinSeen(t, AllWell, s) \in {t, g}
    BY DEF ReceivedWhenFinSeen, g
  <2>2. Moved(g, t)
    BY <1>6, <1>9 DEF Moved
  <2>3. Took(g, t, p, s)
    BY <1>6, <1>7, <1>9 DEF Took
  <2>. QED BY <1>2, <2>1, <2>2, <2>3
<1>. QED BY <1>8, <1>9

(* tcp_received() follows the diagram in every state.                       *)
LEMMA ReceivedMoves ==
  ASSUME NEW t \in Tcb, NEW p \in Peer, NEW s \in Segment
  PROVE  Moved(Received(t, AllWell, p, s), t) /\ Took(Received(t, AllWell, p, s), t, p, s)
<1>1. CASE t.state = "LISTEN"
  BY <1>1, ListenMoves, Zenon DEF Received
<1>2. CASE t.state = "SYN_SENT"
  BY <1>2, SynSentMoves DEF Received
<1>3. CASE t.state = "SYN_RECEIVED"
  BY <1>3, SynReceivedMoves DEF Received
<1>4. CASE t.state = "ESTABLISHED"
  BY <1>4, EstablishedMoves DEF Received
<1>5. CASE t.state = "FIN_WAIT_1"
  BY <1>5, AwaitMoves DEF Received, ReceivedWhenFinWait1
<1>6. CASE t.state = "LAST_ACK"
  BY <1>6, AwaitMoves DEF Received, ReceivedWhenLastAck
<1>7. CASE t.state \in {"FIN_WAIT_2", "TIME_WAIT", "CLOSE_WAIT"}
  BY <1>7, FinMoves DEF Received
<1>8. CASE t.state \in {"CLOSED", "FREE"}
  <2>1. Received(t, AllWell, p, s) = t
    BY <1>8 DEF Received
  <2>. QED BY <2>1, UnmovedIs DEF Unmoved, SameSender, SameReceiver
<1>. QED BY <1>1, <1>2, <1>3, <1>4, <1>5, <1>6, <1>7, <1>8 DEF Tcb, States

\* Nothing about its peer and what arrived from it.
SameText(r, t) == r.dest = t.dest /\ r.rnxt = t.rnxt /\ r.rxData = t.rxData

(* tcp_send() leaves the state and the receiving half alone.                *)
LEMMA SendMoves ==
  ASSUME NEW t \in Tcb, t.state = "ESTABLISHED"
  PROVE  LET r == Send(t, AllWell, Chunk) IN
         r \in Tcb /\ r.state = t.state /\ r.passive = t.passive /\ SameText(r, t)
<1>. DEFINE q == Append(t.txData, Chunk)
            x == [t EXCEPT !.txData = q]
            r == ConstructData(x, AllWell)
<1>1. AllWell \in Env /\ AllWell.blk
  BY DEF AllWell, Env
<1>2. q \in Seq(Seq(Byte))
  BY SocketsAssumption DEF Tcb
<1>3. Send(t, AllWell, Chunk) = r
  BY <1>1 DEF Send
<1>. HIDE DEF q
<1>4. x \in Tcb /\ x.state = t.state /\ x.passive = t.passive /\ SameText(x, t)
  BY <1>2 DEF Tcb, SameText
<1>. HIDE DEF x
<1>5. r \in Tcb /\ r.state = x.state /\ r.passive = x.passive /\ SameReceiver(r, x)
  BY <1>1, <1>4, ConstructDataType
<1>. HIDE DEF r
<1>. QED BY <1>3, <1>4, <1>5 DEF SameText, SameReceiver

(* tcp_close() leads to FIN_WAIT_1 or to LAST_ACK.                          *)
LEMMA CloseMoves ==
  ASSUME NEW t \in Tcb, t.state \in {"ESTABLISHED", "CLOSE_WAIT"}
  PROVE  LET r == Close(t, AllWell) IN
         /\ r \in Tcb /\ r.state \in {"FIN_WAIT_1", "LAST_ACK"} /\ r.passive = t.passive
         /\ SameText(r, t)
<1>. DEFINE c == ConstructFinAck(t, AllWell)
            st == IF t.state = "ESTABLISHED" THEN "FIN_WAIT_1" ELSE "LAST_ACK"
            r == [c EXCEPT !.state = st]
<1>1. AllWell \in Env
  BY DEF AllWell, Env
<1>2. Close(t, AllWell) = r
  BY DEF Close
<1>3. c \in Tcb /\ c.passive = t.passive /\ SameReceiver(c, t)
  BY <1>1, ConstructFinAckType
<1>. HIDE DEF c
<1>4. st \in {"FIN_WAIT_1", "LAST_ACK"} /\ st \in States
  BY DEF States
<1>. HIDE DEF st
<1>5. /\ r \in Tcb /\ r.state = st /\ r.passive = c.passive /\ r.dest = c.dest
      /\ r.rnxt = c.rnxt /\ r.rxData = c.rxData
  BY <1>3, <1>4 DEF Tcb
<1>. HIDE DEF r
<1>. QED BY <1>2, <1>3, <1>4, <1>5 DEF SameText, SameReceiver

(* tcp_loop() frees what is CLOSED or leaves TIME_WAIT, and changes no      *)
(* other state.                                                             *)
LEMMA LoopMoves ==
  ASSUME NEW t \in Tcb, NEW expired \in BOOLEAN
  PROVE  LET r == Loop(t, AllWell, expired) IN
         /\ r \in Tcb /\ r.passive = t.passive /\ r.tx = t.tx /\ SameText(r, t)
         /\ \/ r.state = t.state
            \/ r.state = "FREE" /\ t.state \in {"CLOSED", "TIME_WAIT"}
<1>. DEFINE k == [t EXCEPT !.tmr = FALSE]
            u == Retransmit(k, AllWell)
            c == [k EXCEPT !.state = "CLOSED"]
            v == IF expired THEN Timeout(t, AllWell) ELSE t
            z == [v EXCEPT !.state = "FREE"]
            r == Loop(t, AllWell, expired)
            Like(x) == x \in Tcb /\ x.passive = t.passive /\ x.tx = t.tx /\ SameText(x, t)
<1>1. AllWell \in Env
  BY DEF AllWell, Env
<1>2. Like(k) /\ k.state = t.state
  BY DEF Tcb, SameText
<1>3. v \in {t, u, k} \/ (v = c /\ t.state = "TIME_WAIT")
  BY DEF Timeout
<1>. HIDE DEF k
<1>4. Like(u) /\ u.state = t.state
  <2>1. /\ u \in Tcb /\ SameReceiver(u, k)
        /\ SameSender(u, [k EXCEPT !.tmr = TRUE])
    BY <1>1, <1>2, RetransmitType
  <2>. HIDE DEF u
  <2>2. u.state = k.state /\ u.passive = k.passive /\ u.tx = k.tx
    BY <1>2, <2>1 DEF SameSender, Tcb
  <2>. QED BY <1>2, <2>1, <2>2 DEF SameReceiver, SameText
<1>. HIDE DEF u
<1>5. Like(c) /\ c.state = "CLOSED"
  BY <1>2 DEF Tcb, States, SameText
<1>. HIDE DEF c
<1>6. Like(v) /\ (v.state = t.state \/ (v.state = "CLOSED" /\ t.state = "TIME_WAIT"))
  BY <1>2, <1>3, <1>4, <1>5 DEF SameText
<1>7. r = IF v.state = "CLOSED" THEN z ELSE v
  BY DEF Loop
<1>. HIDE DEF v, r
<1>8. Like(z) /\ z.state = "FREE"
  BY <1>6 DEF Tcb, SameText
<1>. HIDE DEF z
<1>. QED BY <1>6, <1>7, <1>8 DEF r

(* A listening control block, and the memory of none.                       *)
LEMMA NewMoves ==
  /\ OpenPassive(Isn) \in Tcb /\ OpenPassive(Isn).state = "LISTEN" /\ OpenPassive(Isn).passive
  /\ OpenPassive(Isn).rxData = <<>>
  /\ Nothing.tcb \in Tcb /\ Nothing.tcb.state = "FREE" /\ Nothing.tcb.rxData = <<>>
  /\ Nothing.port = None
<1>1. /\ OpenPassive(Isn) \in Tcb
      /\ Nothing.tcb \in Tcb
  BY NewTcbType, SocketsAssumption DEF OpenPassive, Nothing, States
<1>2. /\ OpenPassive(Isn).state = "LISTEN" /\ OpenPassive(Isn).passive
      /\ OpenPassive(Isn).rxData = <<>>
      /\ Nothing.tcb.state = "FREE" /\ Nothing.tcb.rxData = <<>> /\ Nothing.port = None
  BY DEF OpenPassive, Nothing, NewTcb
<1>. QED BY <1>1, <1>2

(* What was handed to IP leaves the control block otherwise unchanged.      *)
LEMMA SentMoves ==
  ASSUME NEW t \in Tcb
  PROVE  LET r == [t EXCEPT !.out = <<>>] IN
         /\ r \in Tcb /\ r.state = t.state /\ r.passive = t.passive /\ r.tx = t.tx
         /\ SameText(r, t)
<1>1. <<>> \in Seq([to: Peer \cup {None}, seg: Segment])
  OBVIOUS
<1>. QED BY <1>1 DEF Tcb, SameText

-----------------------------------------------------------------------------
\* The list of control blocks.

\* b stands before c in the list q.
Before(q, b, c) == \E i, j \in DOMAIN q : i < j /\ q[i] = b /\ q[j] = c

\* Nothing is in the list q twice.
Distinct(q) == \A b : ~Before(q, b, b)

(* What is appended stands behind everything else.                          *)
LEMMA AppendOrder ==
  ASSUME NEW S, NEW q \in Seq(S), NEW a \in S
  PROVE  /\ Append(q, a) \in Seq(S)
         /\ ToSet(Append(q, a)) = ToSet(q) \cup {a}
         /\ \A b, c : Before(Append(q, a), b, c) <=> Before(q, b, c) \/ (b \in ToSet(q) /\ c = a)
<1>. DEFINE w == Append(q, a)
            n == Len(q)
<1>1. w \in Seq(S) /\ ToSet(w) = ToSet(q) \cup {a}
  BY AppendOuts
<1>2. n \in Nat /\ DOMAIN q = 1 .. n
  OBVIOUS
<1>3. DOMAIN w = 1 .. n + 1 /\ w[n + 1] = a /\ \A i \in 1 .. n : w[i] = q[i]
  OBVIOUS
<1>. HIDE DEF w, n
<1>4. ASSUME NEW b, NEW c, Before(w, b, c)
      PROVE  Before(q, b, c) \/ (b \in ToSet(q) /\ c = a)
  <2>1. PICK i, j \in 1 .. n + 1 : i < j /\ w[i] = b /\ w[j] = c
    BY <1>3, <1>4 DEF Before
  <2>2. i \in 1 .. n /\ q[i] = b
    BY <1>2, <1>3, <2>1
  <2>3. CASE j = n + 1
    BY <1>2, <1>3, <2>1, <2>2, <2>3 DEF ToSet
  <2>4. CASE j \in 1 .. n
    BY <1>2, <1>3, <2>1, <2>2, <2>4 DEF Before
  <2>. QED BY <1>2, <2>1, <2>3, <2>4
<1>5. ASSUME NEW b, NEW c, Before(q, b, c) \/ (b \in ToSet(q) /\ c = a)
      PROVE  Before(w, b, c)
  <2>1. CASE Before(q, b, c)
    <3>1. PICK i, j \in 1 .. n : i < j /\ q[i] = b /\ q[j] = c
      BY <1>2, <2>1 DEF Before
    <3>2. i \in 1 .. n + 1 /\ j \in 1 .. n + 1 /\ w[i] = b /\ w[j] = c
      BY <1>2, <1>3, <3>1
    <3>. QED BY <1>3, <3>1, <3>2 DEF Before
  <2>2. CASE b \in ToSet(q) /\ c = a
    <3>1. PICK i \in 1 .. n : q[i] = b
      BY <1>2, <2>2 DEF ToSet
    <3>2. i \in 1 .. n + 1 /\ n + 1 \in 1 .. n + 1 /\ w[i] = b /\ w[n + 1] = c /\ i < n + 1
      BY <1>2, <1>3, <2>2, <3>1
    <3>. QED BY <1>3, <3>2 DEF Before
  <2>. QED BY <1>5, <2>1, <2>2
<1>. QED BY <1>1, <1>4, <1>5 DEF w

(* What stands before something is in the list, and so is that.             *)
LEMMA BeforeIn ==
  ASSUME NEW q, NEW b, NEW c, Before(q, b, c)
  PROVE  b \in ToSet(q) /\ c \in ToSet(q)
  BY DEF Before, ToSet

\* w is what is left of q without the members of gone.
Left(w, q, gone, S) ==
  /\ w \in Seq(S) /\ ToSet(w) = ToSet(q) \ gone
  /\ \A b, c : Before(w, b, c) => Before(q, b, c)

(* One element more.                                                        *)
LEMMA LeftAppend ==
  ASSUME NEW S, NEW gone, NEW q \in Seq(S), NEW a \in S, NEW w, Left(w, q, gone, S)
  PROVE  Left(w \o (IF a \in gone THEN <<>> ELSE <<a>>), Append(q, a), gone, S)
<1>1. /\ w \in Seq(S) /\ ToSet(w) = ToSet(q) \ gone
      /\ \A b, c : Before(w, b, c) => Before(q, b, c)
  BY DEF Left
<1>2. /\ ToSet(Append(q, a)) = ToSet(q) \cup {a}
      /\ \A b, c : Before(Append(q, a), b, c) <=> Before(q, b, c) \/ (b \in ToSet(q) /\ c = a)
  BY AppendOrder
<1>3. CASE a \in gone
  <2>1. w \o <<>> = w
    BY <1>1
  <2>2. Left(w, Append(q, a), gone, S)
    BY <1>1, <1>2, <1>3, Zenon DEF Left
  <2>. QED BY <1>3, <2>1, <2>2
<1>4. CASE a \notin gone
  <2>1. w \o <<a>> = Append(w, a)
    BY <1>1, AppendIsConcat
  <2>2. /\ Append(w, a) \in Seq(S) /\ ToSet(Append(w, a)) = ToSet(w) \cup {a}
        /\ \A b, c : Before(Append(w, a), b, c) <=> Before(w, b, c) \/ (b \in ToSet(w) /\ c = a)
    BY <1>1, AppendOrder
  <2>3. ToSet(Append(w, a)) = ToSet(Append(q, a)) \ gone
    BY <1>1, <1>2, <1>4, <2>2
  <2>4. ASSUME NEW b, NEW c, Before(Append(w, a), b, c) PROVE Before(Append(q, a), b, c)
    BY <1>1, <1>2, <2>2, <2>4
  <2>5. Left(Append(w, a), Append(q, a), gone, S)
    BY <2>2, <2>3, <2>4 DEF Left
  <2>. QED BY <1>4, <2>1, <2>5
<1>. QED BY <1>3, <1>4

(* tcp_loop() takes the freed control blocks out of the list, and leaves    *)
(* the others in their order.                                               *)
LEMMA WithoutLeft ==
  ASSUME NEW S, NEW q \in Seq(S), NEW gone
  PROVE  Left(Without(q, gone), q, gone, S)
<1>. DEFINE L == Len(q)
            First(k) == SubSeq(q, 1, k)
            Piece(a) == IF a \in gone THEN <<>> ELSE <<a>>
            Pieces(x) == [i \in DOMAIN x |-> Piece(x[i])]
            Bad == {k \in 0 .. L : ~Left(Without(First(k), gone), First(k), gone, S)}
<1>1. L \in Nat /\ First(L) = q /\ First(0) = <<>>
  OBVIOUS
<1>2. Left(Without(<<>>, gone), <<>>, gone, S)
  <2>1. Pieces(<<>>) = <<>>
    OBVIOUS
  <2>2. Without(<<>>, gone) = <<>>
    BY <2>1, FlattenNone DEF Without
  <2>3. Left(<<>>, <<>>, gone, S)
    BY DEF Left, ToSet, Before
  <2>. QED BY <2>2, <2>3
<1>3. ASSUME NEW k \in 1 .. L
      PROVE  First(k - 1) \in Seq(S) /\ q[k] \in S /\ First(k) = Append(First(k - 1), q[k])
  <2>1. q[k] \in S /\ First(k - 1) \in Seq(S)
    OBVIOUS
  <2>2. First(k) = First(k - 1) \o <<q[k]>>
    BY SubSeqRecursiveSecond
  <2>3. Append(First(k - 1), q[k]) = First(k - 1) \o <<q[k]>>
    BY <2>1, AppendIsConcat
  <2>. QED BY <2>1, <2>2, <2>3
<1>4. ASSUME NEW x \in Seq(S), NEW a \in S
      PROVE  Without(Append(x, a), gone) = Without(x, gone) \o Piece(a)
  <2>1. Pieces(x) \in Seq(Seq(S)) /\ Piece(a) \in Seq(S)
    <3>1. \A v \in S : Piece(v) \in Seq(S)
      OBVIOUS
    <3>2. DOMAIN x = 1 .. Len(x) /\ Len(x) \in Nat /\ \A i \in 1 .. Len(x) : x[i] \in S
      OBVIOUS
    <3>. HIDE DEF Piece
    <3>3. Pieces(x) \in [1 .. Len(x) -> Seq(S)]
      BY <3>1, <3>2
    <3>. QED BY <3>1, <3>2, <3>3
  <2>2. Pieces(Append(x, a)) = Append(Pieces(x), Piece(a))
    OBVIOUS
  <2>. HIDE DEF Pieces, Piece
  <2>3. FlattenSeq(Append(Pieces(x), Piece(a))) = FlattenSeq(Pieces(x)) \o Piece(a)
    BY <2>1, FlattenAppend
  <2>4. Without(x, gone) = FlattenSeq(Pieces(x)) /\ Without(Append(x, a), gone) = FlattenSeq(Pieces(Append(x, a)))
    BY DEF Without, Pieces, Piece
  <2>. QED BY <2>2, <2>3, <2>4
<1>5. Bad \in SUBSET Nat
  OBVIOUS
<1>. HIDE DEF First
<1>6. ASSUME Bad # {} PROVE FALSE
  <2>1. PICK k \in Bad : k = 0 \/ k - 1 \notin Bad
    BY <1>5, <1>6, Least
  <2>2. k # 0
    BY <1>1, <1>2, <2>1
  <2>3. k \in 1 .. L /\ k - 1 \in 0 .. L
    BY <1>1, <2>1, <2>2
  <2>4. Left(Without(First(k - 1), gone), First(k - 1), gone, S)
    BY <2>1, <2>2, <2>3
  <2>5. First(k - 1) \in Seq(S) /\ q[k] \in S /\ First(k) = Append(First(k - 1), q[k])
    BY <1>3, <2>3
  <2>6. Left(Without(First(k - 1), gone) \o Piece(q[k]), Append(First(k - 1), q[k]), gone, S)
    BY <2>4, <2>5, LeftAppend
  <2>7. Without(First(k), gone) = Without(First(k - 1), gone) \o Piece(q[k])
    BY <1>4, <2>5
  <2>8. Left(Without(First(k), gone), First(k), gone, S)
    BY <2>5, <2>6, <2>7
  <2>. QED BY <2>1, <2>8
<1>7. Bad = {} /\ L \in 0 .. L
  BY <1>1, <1>6
<1>8. Left(Without(First(L), gone), First(L), gone, S)
  BY <1>7
<1>. QED BY <1>1, <1>8

(* The length of a list without repetitions counts its elements.            *)
LEMMA DistinctCounts ==
  ASSUME NEW S, NEW q \in Seq(S), Distinct(q)
  PROVE  Len(q) = Cardinality(ToSet(q))
<1>1. Len(q) \in Nat /\ DOMAIN q = 1 .. Len(q)
  OBVIOUS
<1>2. ASSUME NEW i \in 1 .. Len(q), NEW j \in 1 .. Len(q), q[i] = q[j], i # j PROVE FALSE
  <2>1. i < j \/ j < i
    BY <1>1, <1>2
  <2>. QED BY <1>1, <1>2, <2>1 DEF Distinct, Before
<1>3. q \in Bijection(1 .. Len(q), ToSet(q))
  <2>1. q \in [1 .. Len(q) -> ToSet(q)]
    BY <1>1 DEF ToSet
  <2>2. q \in Injection(1 .. Len(q), ToSet(q))
    BY <1>2, <2>1 DEF Injection, IsInjective
  <2>3. q \in Surjection(1 .. Len(q), ToSet(q))
    BY <1>1, <2>1 DEF Surjection, ToSet
  <2>. QED BY <2>2, <2>3 DEF Bijection
<1>4. ExistsBijection(1 .. Len(q), ToSet(q))
  BY <1>3 DEF ExistsBijection
<1>. QED BY <1>1, <1>4, FS_CountingElements

-----------------------------------------------------------------------------
\* The inductive invariant.

Typed ==
  /\ sk \in [Sock -> [type: {"none", "STREAM", "DGRAM"}, tcp: Addr \cup {None},
                      port: Port \cup {None}, rxq: Seq(Seq(Byte))]]
  /\ app \in [Sock -> {"free", "new", "bound", "listening", "connected"}]
  /\ heap \in [Addr -> [tcb: Tcb, port: Port \cup {None}]]
  /\ tcpList \in Seq(Addr)
  /\ binds \in SUBSET [port: Port, sock: Sock]

\* What is allocated is on the list, once.
Listed == ToSet(tcpList) = {a \in Addr : ~Free(a)} /\ Distinct(tcpList)

Exclusive == \A s, r \in Sock : s # r /\ InUse(s) /\ InUse(r) => sk[s].tcp # sk[r].tcp

InService == \A s \in Sock : InUse(s) /\ ~Free(sk[s].tcp) => Used(heap[sk[s].tcp].tcb)

\* The control block of a listening socket is one that tcp_loop() never frees.
Listens ==
  \A s \in Sock : app[s] = "listening" =>
    /\ sk[s].port \in Port /\ sk[s].type = "STREAM"
    /\ sk[s].tcp # None => /\ ~Free(sk[s].tcp) /\ heap[sk[s].tcp].tcb.passive
                           /\ heap[sk[s].tcp].port = sk[s].port

\* Another socket of the application listens where s does.
Sharing(s) == \E r \in Sock : r # s /\ app[r] = "listening" /\ sk[r].port = sk[s].port

\* A passive control block for its port that stands behind that of a listening
\* socket has been opened by another one.
Behind ==
  \A s \in Sock : app[s] = "listening" /\ sk[s].tcp # None =>
    \A b \in Addr :
      Before(tcpList, sk[s].tcp, b) /\ heap[b].port = sk[s].port /\ heap[b].tcb.passive => Sharing(s)

\* udp_list holds the datagram sockets that are bound, and one for a port.
Binds ==
  /\ \A b \in binds : /\ app[b.sock] = "bound" /\ sk[b.sock].type = "DGRAM"
                      /\ sk[b.sock].port = b.port
  /\ \A b, c \in binds : b.port = c.port => b = c
  /\ \A s \in Sock : app[s] = "bound" => sk[s].port \in Port
  /\ \A s \in Sock : app[s] = "bound" /\ sk[s].type = "DGRAM" =>
       /\ [port |-> sk[s].port, sock |-> s] \in binds
       /\ sk[s].rxq \in Seq(Seq({Dgram[sk[s].port]}))

IInv == Typed /\ Listed /\ Exclusive /\ InService /\ Listens /\ NoOrphan /\ Behind /\ Binds
-----------------------------------------------------------------------------
\* No open socket has lost its control block.
Live == \A s \in Sock : ~Dangling(s)

\* r is what an event may make of a control block t that it does not free.
Kept(r, t) ==
  /\ r \in Tcb /\ r.state # "FREE" /\ r.passive = t.passive
  /\ Used(t) => Used(r)
  /\ Closing(t) => Closing(r)

(* An event of one control block, and of no socket.                         *)
LEMMA BlockStep ==
  ASSUME IInv, Live, NEW a \in Addr, ~Free(a), NEW r, Kept(r, heap[a].tcb), heap' = Put(a, r),
         UNCHANGED <<sk, app, tcpList, binds>>
  PROVE  IInv' /\ Live'
<1>. DEFINE u == [r EXCEPT !.out = <<>>]
<1>1. r \in Tcb /\ r.state # "FREE" /\ r.passive = heap[a].tcb.passive
  BY DEF Kept
<1>2. u \in Tcb /\ u.state = r.state /\ u.passive = r.passive /\ u.tx = r.tx
  BY <1>1, SentMoves
<1>3. heap \in [Addr -> [tcb: Tcb, port: Port \cup {None}]]
  BY DEF IInv, Typed
<1>4. heap' = [heap EXCEPT ![a].tcb = u]
  BY DEF Put
<1>. HIDE DEF u
<1>5. /\ heap' \in [Addr -> [tcb: Tcb, port: Port \cup {None}]]
      /\ heap'[a].tcb = u /\ heap'[a].port = heap[a].port
      /\ \A b \in Addr : b # a => heap'[b] = heap[b]
  BY <1>2, <1>3, <1>4
<1>6. ASSUME NEW b \in Addr
      PROVE  /\ Free(b)' <=> Free(b)
             /\ heap'[b].port = heap[b].port /\ heap'[b].tcb.passive = heap[b].tcb.passive
             /\ Used(heap[b].tcb) => Used(heap'[b].tcb)
             /\ Closing(heap[b].tcb) => Closing(heap'[b].tcb)
  <2>1. CASE b = a
    BY <1>1, <1>2, <1>5, <2>1 DEF Kept, Used, Closing, Free
  <2>2. CASE b # a
    BY <1>5, <2>2 DEF Free
  <2>. QED BY <2>1, <2>2
<1>7. \A s \in Sock : InUse(s)' <=> InUse(s)
  BY DEF InUse
<1>8. \A s \in Sock : sk[s].tcp \in Addr \cup {None}
  BY DEF IInv, Typed
<1>9. Typed'
  BY <1>5 DEF IInv, Typed
<1>10. Listed'
  BY <1>6 DEF IInv, Listed
<1>11. Exclusive'
  BY <1>7 DEF IInv, Exclusive
<1>12. InService'
  <2>. SUFFICES ASSUME NEW s \in Sock, InUse(s), ~Free(sk[s].tcp)'
                PROVE  Used(heap'[sk[s].tcp].tcb)
    BY <1>7 DEF InService
  <2>1. sk[s].tcp \in Addr
    BY <1>8 DEF InUse
  <2>. QED BY <1>6, <2>1 DEF IInv, InService, Free
<1>13. Listens'
  <2>. SUFFICES ASSUME NEW s \in Sock, app[s] = "listening"
                PROVE  /\ sk[s].port \in Port /\ sk[s].type = "STREAM"
                       /\ sk[s].tcp # None => /\ ~Free(sk[s].tcp)' /\ heap'[sk[s].tcp].tcb.passive
                                              /\ heap'[sk[s].tcp].port = sk[s].port
    BY DEF Listens, Free
  <2>. QED BY <1>6, <1>8 DEF IInv, Listens, Free
<1>14. NoOrphan'
  <2>. SUFFICES ASSUME NEW b \in Addr, ~Free(b)', \A s \in Sock : ~(InUse(s) /\ sk[s].tcp = b)
                PROVE  Closing(heap'[b].tcb)
    BY <1>7 DEF NoOrphan, Closing, Free
  <2>. QED BY <1>6 DEF IInv, NoOrphan, Closing
<1>15. Behind'
  <2>. SUFFICES ASSUME NEW s \in Sock, app[s] = "listening", sk[s].tcp # None, NEW b \in Addr,
                       Before(tcpList, sk[s].tcp, b), heap'[b].port = sk[s].port, heap'[b].tcb.passive
                PROVE  Sharing(s)
    BY DEF Behind, Sharing
  <2>. QED BY <1>6 DEF IInv, Behind
<1>16. Binds'
  BY DEF IInv, Binds
<1>17. Live'
  <2>. SUFFICES ASSUME NEW s \in Sock, InUse(s) PROVE ~Free(sk[s].tcp)'
    BY <1>7 DEF Live, Dangling
  <2>1. sk[s].tcp \in Addr /\ ~Free(sk[s].tcp)
    BY <1>8 DEF InUse, Live, Dangling
  <2>. QED BY <1>6, <2>1
<1>. QED BY <1>9, <1>10, <1>11, <1>12, <1>13, <1>14, <1>15, <1>16, <1>17 DEF IInv

(* tcp_received() and the calls of a connected socket keep a control block. *)
LEMMA ReceivedKeeps ==
  ASSUME NEW t \in Tcb, t.state # "FREE", NEW p \in Peer, NEW s \in Segment
  PROVE  Kept(Received(t, AllWell, p, s), t)
<1>. DEFINE r == Received(t, AllWell, p, s)
<1>1. Moved(r, t)
  BY ReceivedMoves
<1>. HIDE DEF r
<1>2. r \in Tcb /\ r.passive = t.passive
  BY <1>1 DEF Moved
<1>3. CASE r.state = t.state
  <2>1. Used(t) => Used(r)
    BY <1>1, <1>2, <1>3 DEF Moved, Used
  <2>2. Closing(t) => Closing(r)
    BY <1>3 DEF Closing
  <2>. QED BY <1>2, <1>3, <2>1, <2>2 DEF Kept, r
<1>4. CASE <<t.state, r.state>> \in Diagram
  <2>1. r.state # "FREE"
    BY <1>4 DEF Diagram
  <2>2. Used(t) => Used(r)
    BY <1>1, <1>2, <1>4 DEF Moved, Used, Diagram
  <2>3. Closing(t) => Closing(r)
    BY <1>4 DEF Closing, Diagram
  <2>. QED BY <1>2, <2>1, <2>2, <2>3 DEF Kept, r
<1>. QED BY <1>1, <1>3, <1>4 DEF Moved

(* So does a call that leaves the state ESTABLISHED.                        *)
LEMMA CallKeeps ==
  ASSUME NEW t \in Tcb, t.state = "ESTABLISHED"
  PROVE  Kept(Send(t, AllWell, Chunk), t) /\ \A n : Kept(Recv(t, n), t)
<1>1. Kept(Send(t, AllWell, Chunk), t)
  BY SendMoves DEF Kept, Used, Closing
<1>2. ASSUME NEW n PROVE Kept(Recv(t, n), t)
  BY RecvType DEF Kept, Used, Closing, SameSender
<1>. QED BY <1>1, <1>2

(* A set of positions has a first one.                                      *)
LEMMA MinIs ==
  ASSUME NEW S \in SUBSET Nat, S # {}
  PROVE  Min(S) \in S /\ \A i \in S : Min(S) <= i
<1>1. \E k \in S : \A i \in S : k <= i
  <2>1. IsWellFoundedOn(OpToRel(<, Nat), Nat)
    BY NatLessThanWellFounded
  <2>2. PICK k \in S : \A i \in S : <<i, k>> \notin OpToRel(<, Nat)
    BY <2>1, WFMin
  <2>3. \A i \in S : ~(i < k)
    BY <2>2 DEF OpToRel
  <2>. QED BY <2>3
<1>. QED BY <1>1 DEF Min

(* A set of positions of a list has a last one.                             *)
LEMMA MaxIs ==
  ASSUME NEW n \in Nat, NEW S \in SUBSET (1 .. n), S # {}
  PROVE  Max(S) \in S /\ \A i \in S : i <= Max(S)
<1>. DEFINE T == {n - i : i \in S}
<1>1. T \in SUBSET Nat /\ T # {}
  <2>1. \A i \in S : i \in 1 .. n
    OBVIOUS
  <2>2. \A i \in 1 .. n : n - i \in Nat
    OBVIOUS
  <2>. QED BY <2>1, <2>2
<1>2. PICK k \in S : n - k = Min(T)
  BY <1>1, MinIs
<1>3. \A i \in S : i <= k
  <2>. SUFFICES ASSUME NEW i \in S PROVE i <= k
    OBVIOUS
  <2>1. n - i \in T
    OBVIOUS
  <2>2. Min(T) <= n - i
    BY <1>1, <2>1, MinIs
  <2>. HIDE DEF T
  <2>3. n - k <= n - i /\ i \in Int /\ k \in Int
    BY <1>2, <2>2
  <2>. QED BY <2>3
<1>4. \E x \in S : \A i \in S : x >= i
  BY <1>3
<1>. QED BY <1>4 DEF Max

(* What the search of tcp_ip_recv() finds is on the list, for that port.    *)
LEMMA DemuxFinds ==
  ASSUME Typed, Listed, NEW p, NEW port, Demux(p, port) # None
  PROVE  /\ Demux(p, port) \in Addr /\ ~Free(Demux(p, port))
         /\ heap[Demux(p, port)].port = port
<1>. DEFINE on == OnPort(port)
            ends == {i \in on : ~heap[tcpList[i]].tcb.passive \/ heap[tcpList[i]].tcb.dest = p}
            k == IF ends # {} THEN Min(ends) ELSE Max(on)
<1>1. tcpList \in Seq(Addr) /\ Len(tcpList) \in Nat /\ DOMAIN tcpList = 1 .. Len(tcpList)
  BY DEF Typed
<1>2. on # {} /\ Demux(p, port) = tcpList[k]
  BY DEF Demux
<1>3. on \in SUBSET (1 .. Len(tcpList)) /\ on \in SUBSET Nat /\ ends \in SUBSET Nat
  BY <1>1 DEF OnPort
<1>4. k \in on
  <2>1. CASE ends = {}
    BY <1>1, <1>2, <1>3, <2>1, MaxIs
  <2>2. CASE ends # {}
    <3>1. Min(ends) \in ends
      BY <1>3, <2>2, MinIs
    <3>. QED BY <2>2, <3>1
  <2>. QED BY <2>1, <2>2
<1>. HIDE DEF k, on
<1>5. k \in DOMAIN tcpList /\ heap[tcpList[k]].port = port
  BY <1>4 DEF on, OnPort
<1>6. tcpList[k] \in ToSet(tcpList)
  BY <1>5 DEF ToSet
<1>. QED BY <1>2, <1>5, <1>6 DEF Listed

(* SEGMENT ARRIVES.                                                         *)
LEMMA SegmentStep ==
  ASSUME IInv, Live, NEW p \in Peer, NEW port \in Port, NEW s \in Segs[p], SegmentArrives(p, port, s)
  PROVE  IInv' /\ Live'
<1>. DEFINE a == Demux(p, port)
            r == Received(heap[a].tcb, AllWell, p, s)
<1>1. a # None /\ heap' = Put(a, r) /\ UNCHANGED <<sk, app, tcpList, binds>>
  BY DEF SegmentArrives
<1>2. a \in Addr /\ ~Free(a)
  BY <1>1, DemuxFinds DEF IInv
<1>. HIDE DEF a
<1>3. heap[a].tcb \in Tcb /\ s \in Segment
  BY <1>2, SocketsAssumption DEF IInv, Typed
<1>4. Kept(r, heap[a].tcb)
  BY <1>2, <1>3, ReceivedKeeps DEF Free
<1>. HIDE DEF r
<1>. QED BY <1>1, <1>2, <1>4, BlockStep

(* The control block that a connected socket sends and reads on.            *)
LEMMA ServedBlock ==
  ASSUME IInv, NEW s \in Sock, Status(s) \in {"ESTABLISHED", "CLOSE_WAIT"}
  PROVE  /\ sk[s].tcp \in Addr /\ ~Free(sk[s].tcp) /\ heap[sk[s].tcp].tcb \in Tcb
         /\ heap[sk[s].tcp].tcb.state = Status(s)
<1>1. sk[s].tcp # None
  BY DEF Status
<1>2. sk[s].tcp \in Addr
  BY <1>1 DEF IInv, Typed
<1>. QED BY <1>1, <1>2 DEF Status, Free, IInv, Typed

(* sendto()                                                                 *)
LEMMA SendToStep ==
  ASSUME IInv, Live, NEW s \in Sock, SendTo(s) PROVE IInv' /\ Live'
<1>. DEFINE a == sk[s].tcp
            r == Send(heap[a].tcb, AllWell, Chunk)
<1>1. /\ Status(s) = "ESTABLISHED"
      /\ heap' = Put(a, r) /\ UNCHANGED <<sk, app, tcpList, binds>>
  BY DEF SendTo
<1>2. a \in Addr /\ ~Free(a) /\ heap[a].tcb \in Tcb /\ heap[a].tcb.state = "ESTABLISHED"
  BY <1>1, ServedBlock
<1>3. Kept(r, heap[a].tcb)
  BY <1>2, CallKeeps
<1>. HIDE DEF r, a
<1>. QED BY <1>1, <1>2, <1>3, BlockStep

(* recvfrom() on a connection.                                              *)
LEMMA RecvFromStreamStep ==
  ASSUME IInv, Live, NEW s \in Sock, NEW n, sk[s].type # "DGRAM", RecvFrom(s, n)
  PROVE  IInv' /\ Live'
<1>. DEFINE a == sk[s].tcp
            r == Recv(heap[a].tcb, n)
<1>1. /\ Status(s) = "ESTABLISHED"
      /\ heap' = Put(a, r) /\ UNCHANGED <<sk, app, tcpList, binds>>
  BY DEF RecvFrom
<1>2. a \in Addr /\ ~Free(a) /\ heap[a].tcb \in Tcb /\ heap[a].tcb.state = "ESTABLISHED"
  BY <1>1, ServedBlock
<1>3. Kept(r, heap[a].tcb)
  BY <1>2, CallKeeps
<1>. HIDE DEF r, a
<1>. QED BY <1>1, <1>2, <1>3, BlockStep
-----------------------------------------------------------------------------
\* The calls and events that change sockets only.

\* An open socket keeps its control block, and what listens goes on to.
SameSockets ==
  /\ \A s \in Sock : InUse(s)' <=> InUse(s)
  /\ \A s \in Sock : InUse(s) => sk'[s].tcp = sk[s].tcp
  /\ \A s \in Sock : app'[s] = "listening" <=> app[s] = "listening"
  /\ \A s \in Sock : app[s] = "listening" =>
       sk'[s].tcp = sk[s].tcp /\ sk'[s].port = sk[s].port /\ sk'[s].type = sk[s].type

(* They leave all that is said of control blocks as it is.                  *)
LEMMA SocketStep ==
  ASSUME IInv, Live, UNCHANGED <<heap, tcpList>>, Typed', Binds', SameSockets
  PROVE  IInv' /\ Live'
<1>1. \A a \in Addr : Free(a)' <=> Free(a)
  BY DEF Free
<1>2. Listed'
  BY <1>1 DEF IInv, Listed
<1>3. Exclusive'
  BY DEF IInv, Exclusive, SameSockets
<1>4. \A s \in Sock : InUse(s) => sk[s].tcp \in Addr
  BY DEF IInv, Typed, InUse
<1>5. InService'
  BY <1>1, <1>4 DEF IInv, InService, SameSockets
<1>6. Listens'
  <2>. SUFFICES ASSUME NEW s \in Sock, app'[s] = "listening"
                PROVE  /\ sk'[s].port \in Port /\ sk'[s].type = "STREAM"
                       /\ sk'[s].tcp # None => /\ ~(heap'[sk'[s].tcp].tcb.state = "FREE")
                                               /\ heap'[sk'[s].tcp].tcb.passive
                                               /\ heap'[sk'[s].tcp].port = sk'[s].port
    BY DEF Listens, Free
  <2>1. app[s] = "listening"
    BY DEF SameSockets
  <2>2. sk'[s].tcp = sk[s].tcp /\ sk'[s].port = sk[s].port /\ sk'[s].type = sk[s].type
    BY <2>1 DEF SameSockets
  <2>. QED BY <2>1, <2>2 DEF IInv, Listens, Free
<1>7. NoOrphan'
  <2>. SUFFICES ASSUME NEW a \in Addr, ~Free(a)', ~Closing(heap'[a].tcb)
                PROVE  \E s \in Sock : InUse(s)' /\ sk'[s].tcp = a
    BY DEF NoOrphan, Closing
  <2>1. ~Free(a) /\ ~Closing(heap[a].tcb)
    BY <1>1
  <2>2. PICK s \in Sock : InUse(s) /\ sk[s].tcp = a
    BY <2>1 DEF IInv, NoOrphan, Closing
  <2>. QED BY <2>2 DEF SameSockets
<1>8. Behind'
  <2>. SUFFICES ASSUME NEW s \in Sock, app'[s] = "listening", sk'[s].tcp # None, NEW b \in Addr,
                       Before(tcpList', sk'[s].tcp, b), heap'[b].port = sk'[s].port,
                       heap'[b].tcb.passive
                PROVE  \E r \in Sock : r # s /\ app'[r] = "listening" /\ sk'[r].port = sk'[s].port
    BY DEF Behind, Sharing
  <2>1. app[s] = "listening"
    BY DEF SameSockets
  <2>2. sk'[s].tcp = sk[s].tcp /\ sk'[s].port = sk[s].port
    BY <2>1 DEF SameSockets
  <2>3. Sharing(s)
    BY <2>1, <2>2 DEF IInv, Behind
  <2>4. PICK r \in Sock : r # s /\ app[r] = "listening" /\ sk[r].port = sk[s].port
    BY <2>3 DEF Sharing
  <2>5. app'[r] = "listening" /\ sk'[r].port = sk[r].port
    BY <2>4 DEF SameSockets
  <2>. QED BY <2>2, <2>4, <2>5
<1>9. Live'
  <2>. SUFFICES ASSUME NEW s \in Sock, InUse(s)' PROVE ~(heap'[sk'[s].tcp].tcb.state = "FREE")
    BY DEF Live, Dangling, Free
  <2>1. InUse(s) /\ sk'[s].tcp = sk[s].tcp
    BY DEF SameSockets
  <2>. QED BY <2>1 DEF Live, Dangling, Free
<1>. QED BY <1>2, <1>3, <1>5, <1>6, <1>7, <1>8, <1>9 DEF IInv

(* socket()                                                                 *)
LEMMA SocketCallStep ==
  ASSUME IInv, Live, NEW s \in Sock, NEW type \in {"STREAM", "DGRAM"}, Socket(s, type)
  PROVE  IInv' /\ Live'
<1>1. /\ app[s] = "free" /\ sk' = [sk EXCEPT ![s].type = type]
      /\ app' = [app EXCEPT ![s] = "new"] /\ UNCHANGED <<heap, tcpList, binds>>
  BY DEF Socket, InPool
<1>2. Typed
  BY DEF IInv
<1>3. /\ sk'[s].tcp = sk[s].tcp /\ app'[s] = "new"
      /\ \A r \in Sock : r # s => sk'[r] = sk[r] /\ app'[r] = app[r]
  BY <1>1, <1>2 DEF Typed
<1>4. Typed'
  BY <1>1, <1>2 DEF Typed
<1>5. SameSockets
  BY <1>1, <1>3 DEF SameSockets, InUse
<1>6. Binds'
  <2>1. \A b \in binds : b.sock \in Sock /\ b.sock # s
    BY <1>1, <1>2 DEF Typed, IInv, Binds
  <2>2. \A r \in Sock : app'[r] = "bound" => r # s
    BY <1>3
  <2>. QED BY <1>1, <1>3, <2>1, <2>2 DEF IInv, Binds
<1>. QED BY <1>1, <1>4, <1>5, <1>6, SocketStep

(* bind() of a stream socket.                                               *)
LEMMA BindTcpStep ==
  ASSUME IInv, Live, NEW s \in Sock, NEW p \in Port, sk[s].type # "DGRAM", Bind(s, p)
  PROVE  IInv' /\ Live'
<1>1. /\ app[s] = "new" /\ sk' = [sk EXCEPT ![s].port = p]
      /\ app' = [app EXCEPT ![s] = "bound"] /\ UNCHANGED <<heap, tcpList, binds>>
  BY DEF Bind, BindTcp
<1>2. Typed
  BY DEF IInv
<1>3. /\ sk'[s].tcp = sk[s].tcp /\ sk'[s].port = p /\ sk'[s].type # "DGRAM" /\ app'[s] = "bound"
      /\ \A r \in Sock : r # s => sk'[r] = sk[r] /\ app'[r] = app[r]
  BY <1>1, <1>2 DEF Typed
<1>4. Typed'
  BY <1>1, <1>2 DEF Typed
<1>5. SameSockets
  BY <1>1, <1>3 DEF SameSockets, InUse
<1>6. Binds'
  <2>1. \A b \in binds : b.sock \in Sock /\ b.sock # s
    BY <1>1, <1>2 DEF Typed, IInv, Binds
  <2>2. /\ \A b \in binds' : /\ app'[b.sock] = "bound" /\ sk'[b.sock].type = "DGRAM"
                             /\ sk'[b.sock].port = b.port
        /\ \A b, c \in binds' : b.port = c.port => b = c
    BY <1>1, <1>3, <2>1 DEF IInv, Binds
  <2>3. \A r \in Sock : app'[r] = "bound" => sk'[r].port \in Port
    BY <1>3 DEF IInv, Binds
  <2>4. \A r \in Sock : app'[r] = "bound" /\ sk'[r].type = "DGRAM" =>
          /\ [port |-> sk'[r].port, sock |-> r] \in binds'
          /\ sk'[r].rxq \in Seq(Seq({Dgram[sk'[r].port]}))
    BY <1>1, <1>3 DEF IInv, Binds
  <2>. QED BY <2>2, <2>3, <2>4 DEF Binds
<1>. QED BY <1>1, <1>4, <1>5, <1>6, SocketStep

(* bind() of a datagram socket, when the port can be given.                 *)
LEMMA BindUdpStep ==
  ASSUME IInv, Live, NEW s \in Sock, NEW p \in Port, sk[s].type = "DGRAM", Bind(s, p)
  PROVE  IInv' /\ Live'
<1>. DEFINE ok == Cardinality(binds) < MaxBinds /\ FindUdpByAddr(p) = {}
            new == [port |-> p, sock |-> s]
<1>1. /\ app[s] = "new" /\ UNCHANGED <<heap, tcpList>>
      /\ sk' = [sk EXCEPT ![s].rxq = <<>>, ![s].port = IF ok THEN p ELSE @]
      /\ binds' = IF ok THEN binds \cup {new} ELSE binds
      /\ app' = IF ok THEN [app EXCEPT ![s] = "bound"] ELSE app
  BY DEF Bind, BindUdp
<1>2. Typed
  BY DEF IInv
<1>3. ok => \A b \in binds : b.port # p
  <2>. SUFFICES ASSUME ok, NEW b \in binds, b.port = p PROVE FALSE
    OBVIOUS
  <2>1. b = [port |-> p, sock |-> b.sock] /\ b.sock \in Sock
    BY <1>2 DEF Typed
  <2>. QED BY <2>1 DEF FindUdpByAddr
<1>. HIDE DEF ok
<1>. DEFINE none == <<>>
            w == IF ok THEN p ELSE sk[s].port
            v == [sk[s] EXCEPT !.rxq = none, !.port = w]
            V == [type: {"none", "STREAM", "DGRAM"}, tcp: Addr \cup {None},
                  port: Port \cup {None}, rxq: Seq(Seq(Byte))]
<1>8. sk' = [sk EXCEPT ![s] = v]
  BY <1>1, <1>2 DEF Typed
<1>9. /\ v \in V /\ v.tcp = sk[s].tcp /\ v.type = "DGRAM" /\ v.rxq = <<>>
      /\ ok => v.port = p
  <2>1. sk[s] \in V /\ none \in Seq(Seq(Byte)) /\ none = <<>>
    BY <1>2 DEF Typed
  <2>2. w \in Port \cup {None} /\ (ok => w = p)
    BY <2>1
  <2>. HIDE DEF none, w
  <2>. QED BY <2>1, <2>2
<1>. HIDE DEF v
<1>4. /\ sk'[s] = v
      /\ app'[s] \in {"new", "bound"} /\ (app'[s] = "bound" <=> ok)
      /\ \A r \in Sock : r # s => sk'[r] = sk[r] /\ app'[r] = app[r]
  <2>1. app'[s] \in {"new", "bound"} /\ (app'[s] = "bound" <=> ok)
    BY <1>1, <1>2 DEF Typed
  <2>2. \A r \in Sock : r # s => app'[r] = app[r]
    BY <1>1, <1>2 DEF Typed
  <2>3. sk'[s] = v /\ \A r \in Sock : r # s => sk'[r] = sk[r]
    BY <1>2, <1>8 DEF Typed
  <2>. QED BY <2>1, <2>2, <2>3
<1>5. Typed'
  <2>1. sk' \in [Sock -> V]
    BY <1>2, <1>8, <1>9 DEF Typed
  <2>2. app' \in [Sock -> {"free", "new", "bound", "listening", "connected"}]
    BY <1>1, <1>2 DEF Typed
  <2>3. binds' \in SUBSET [port: Port, sock: Sock]
    BY <1>1, <1>2 DEF Typed
  <2>. QED BY <1>1, <1>2, <2>1, <2>2, <2>3 DEF Typed
<1>6. SameSockets
  BY <1>1, <1>4, <1>9 DEF SameSockets, InUse
<1>7. Binds'
  <2>1. \A b \in binds : b.sock \in Sock /\ b.sock # s
    BY <1>1, <1>2 DEF Typed, IInv, Binds
  <2>2. \A b \in binds : /\ app'[b.sock] = "bound" /\ sk'[b.sock].type = "DGRAM"
                         /\ sk'[b.sock].port = b.port
    BY <1>4, <2>1 DEF IInv, Binds
  <2>3. ok => new \in binds' /\ new.port = p /\ new.sock = s
    BY <1>1
  <2>4. \A b \in binds' : b \in binds \/ (ok /\ b = new)
    BY <1>1
  <2>5. binds \subseteq binds'
    BY <1>1
  <2>. HIDE DEF new
  <2>6. \A b \in binds' : /\ app'[b.sock] = "bound" /\ sk'[b.sock].type = "DGRAM"
                          /\ sk'[b.sock].port = b.port
    BY <1>4, <1>9, <2>2, <2>3, <2>4
  <2>7. \A b, c \in binds' : b.port = c.port => b = c
    BY <1>3, <2>3, <2>4 DEF IInv, Binds
  <2>8. \A r \in Sock : app'[r] = "bound" => sk'[r].port \in Port
    BY <1>4, <1>9 DEF IInv, Binds
  <2>9. ASSUME NEW r \in Sock, app'[r] = "bound", sk'[r].type = "DGRAM"
        PROVE  /\ [port |-> sk'[r].port, sock |-> r] \in binds'
               /\ sk'[r].rxq \in Seq(Seq({Dgram[sk'[r].port]}))
    <3>1. CASE r = s
      <4>1. sk'[r].port = p /\ sk'[r].rxq = <<>> /\ [port |-> p, sock |-> r] \in binds'
        BY <1>4, <1>9, <2>3, <2>9, <3>1 DEF new
      <4>. QED BY <4>1
    <3>2. CASE r # s
      <4>1. sk'[r] = sk[r] /\ app[r] = "bound"
        BY <1>4, <2>9, <3>2
      <4>2. /\ [port |-> sk[r].port, sock |-> r] \in binds
            /\ sk[r].rxq \in Seq(Seq({Dgram[sk[r].port]}))
        BY <2>9, <4>1 DEF IInv, Binds
      <4>. QED BY <2>5, <4>1, <4>2
    <3>. QED BY <3>1, <3>2
  <2>. QED BY <2>6, <2>7, <2>8, <2>9 DEF Binds
<1>. QED BY <1>1, <1>5, <1>6, <1>7, SocketStep

\* Only the queue of the socket s changes, and holds datagrams like before.
QueueOf(s, q) ==
  /\ sk' = [sk EXCEPT ![s].rxq = q] /\ UNCHANGED <<app, heap, tcpList, binds>>
  /\ q \in Seq(Seq(Byte))
  /\ app[s] = "bound" /\ sk[s].type = "DGRAM" => q \in Seq(Seq({Dgram[sk[s].port]}))

(* That is all there is to a datagram that comes or goes.                   *)
LEMMA QueueStep ==
  ASSUME IInv, Live, NEW s \in Sock, NEW q, QueueOf(s, q)
  PROVE  IInv' /\ Live'
<1>1. Typed
  BY DEF IInv
<1>2. /\ \A r \in Sock : /\ sk'[r].tcp = sk[r].tcp /\ sk'[r].type = sk[r].type
                         /\ sk'[r].port = sk[r].port
      /\ \A r \in Sock : r # s => sk'[r].rxq = sk[r].rxq
      /\ sk'[s].rxq = q
  BY <1>1 DEF Typed, QueueOf
<1>3. Typed'
  BY <1>1 DEF Typed, QueueOf
<1>4. SameSockets
  BY <1>2 DEF SameSockets, InUse, QueueOf
<1>5. Binds'
  <2>1. \A b \in binds : b.sock \in Sock
    BY <1>1 DEF Typed
  <2>2. \A r \in Sock : app[r] = "bound" /\ sk[r].type = "DGRAM" =>
          sk'[r].rxq \in Seq(Seq({Dgram[sk[r].port]}))
    <3>. SUFFICES ASSUME NEW r \in Sock, app[r] = "bound", sk[r].type = "DGRAM"
                  PROVE  sk'[r].rxq \in Seq(Seq({Dgram[sk[r].port]}))
      OBVIOUS
    <3>1. CASE r = s
      BY <1>2, <3>1, Zenon DEF QueueOf
    <3>2. CASE r # s
      <4>1. sk[r].rxq \in Seq(Seq({Dgram[sk[r].port]}))
        BY Zenon DEF IInv, Binds
      <4>. QED BY <1>2, <3>2, <4>1, Zenon
    <3>. QED BY <3>1, <3>2
  <2>3. UNCHANGED <<app, binds>>
    BY DEF QueueOf
  <2>4. \A r \in Sock : app'[r] = "bound" /\ sk'[r].type = "DGRAM" =>
          /\ [port |-> sk'[r].port, sock |-> r] \in binds'
          /\ sk'[r].rxq \in Seq(Seq({Dgram[sk'[r].port]}))
    <3>. SUFFICES ASSUME NEW r \in Sock, app[r] = "bound", sk[r].type = "DGRAM"
                  PROVE  /\ [port |-> sk'[r].port, sock |-> r] \in binds
                         /\ sk'[r].rxq \in Seq(Seq({Dgram[sk'[r].port]}))
      BY <1>2, <2>3
    <3>1. [port |-> sk[r].port, sock |-> r] \in binds
      BY DEF IInv, Binds
    <3>. QED BY <1>2, <2>2, <3>1, Zenon
  <2>. QED BY <1>2, <2>1, <2>3, <2>4 DEF IInv, Binds
<1>. QED BY <1>3, <1>4, <1>5, SocketStep DEF QueueOf

(* What the queue of a datagram socket is read as.                          *)
LEMMA RecvQueue ==
  ASSUME NEW S, NEW q \in Seq(Seq(S)), NEW n
  PROVE  Recv([state |-> "ESTABLISHED", rxData |-> q], n).rxData \in Seq(Seq(S))
<1>. DEFINE t == [state |-> "ESTABLISHED", rxData |-> q]
            gone == Cardinality({i \in DOMAIN q : Held(q, i) < n})
            left == Unread(q, gone, n - Held(q, gone))
<1>1. left \in Seq(Seq(S))
  BY UnreadType
<1>2. Recv(t, n) = [t EXCEPT !.rxData = left]
  BY DEF Recv, Unread
<1>. HIDE DEF left
<1>. QED BY <1>1, <1>2

(* recvfrom() of a datagram.                                                *)
LEMMA RecvFromDgramStep ==
  ASSUME IInv, Live, NEW s \in Sock, NEW n, sk[s].type = "DGRAM", RecvFrom(s, n)
  PROVE  IInv' /\ Live'
<1>. DEFINE q == Recv([state |-> "ESTABLISHED", rxData |-> sk[s].rxq], n).rxData
<1>1. sk' = [sk EXCEPT ![s].rxq = q] /\ UNCHANGED <<app, heap, tcpList, binds>>
  BY DEF RecvFrom
<1>2. q \in Seq(Seq(Byte))
  BY RecvQueue DEF IInv, Typed
<1>3. app[s] = "bound" /\ sk[s].type = "DGRAM" => q \in Seq(Seq({Dgram[sk[s].port]}))
  BY RecvQueue DEF IInv, Binds
<1>. HIDE DEF q
<1>4. QueueOf(s, q)
  BY <1>1, <1>2, <1>3 DEF QueueOf
<1>. QED BY <1>4, QueueStep

(* A datagram arrives.                                                      *)
LEMMA DatagramStep ==
  ASSUME IInv, Live, NEW port \in Port, DatagramArrives(port)
  PROVE  IInv' /\ Live'
<1>1. PICK s \in FindUdpByAddr(port) : sk' = UdpRecv(s, port)
  BY DEF DatagramArrives
<1>. DEFINE q == Append(sk[s].rxq, <<Dgram[port]>>)
<1>2. s \in Sock /\ [port |-> port, sock |-> s] \in binds
  BY <1>1 DEF FindUdpByAddr
<1>3. app[s] = "bound" /\ sk[s].type = "DGRAM" /\ sk[s].port = port
  BY <1>2 DEF IInv, Binds
<1>4. Dgram[port] \in Byte
  BY SocketsAssumption
<1>5. sk' = [sk EXCEPT ![s].rxq = q] /\ UNCHANGED <<app, heap, tcpList, binds>>
  BY <1>1 DEF UdpRecv, DatagramArrives
<1>6. q \in Seq(Seq(Byte))
  <2>1. sk[s].rxq \in Seq(Seq(Byte)) /\ <<Dgram[port]>> \in Seq(Byte)
    BY <1>2, <1>4 DEF IInv, Typed
  <2>. QED BY <2>1
<1>7. q \in Seq(Seq({Dgram[sk[s].port]}))
  <2>1. sk[s].rxq \in Seq(Seq({Dgram[port]})) /\ <<Dgram[port]>> \in Seq({Dgram[port]})
    BY <1>2, <1>3 DEF IInv, Binds
  <2>. QED BY <1>3, <2>1
<1>. HIDE DEF q
<1>8. QueueOf(s, q)
  BY <1>5, <1>6, <1>7 DEF QueueOf
<1>. QED BY <1>2, <1>8, QueueStep
-----------------------------------------------------------------------------
\* The calls that give a control block to a socket or take it away.

(* They do nothing to the datagram sockets.                                 *)
LEMMA BindsStay ==
  ASSUME IInv, UNCHANGED binds,
         \A s \in Sock : app'[s] = "bound" =>
           app[s] = "bound" /\ sk'[s].type = sk[s].type /\ sk'[s].port = sk[s].port,
         \A s \in Sock : app[s] = "bound" /\ sk[s].type = "DGRAM" =>
                          app'[s] = "bound" /\ sk'[s] = sk[s]
  PROVE  Binds'
<1>1. \A b \in binds : b.sock \in Sock
  BY DEF IInv, Typed
<1>2. \A b \in binds' : /\ app'[b.sock] = "bound" /\ sk'[b.sock].type = "DGRAM"
                        /\ sk'[b.sock].port = b.port
  BY <1>1 DEF IInv, Binds
<1>3. \A b, c \in binds' : b.port = c.port => b = c
  BY DEF IInv, Binds
<1>4. \A s \in Sock : app'[s] = "bound" => sk'[s].port \in Port
  BY DEF IInv, Binds
<1>5. ASSUME NEW s \in Sock, app'[s] = "bound", sk'[s].type = "DGRAM"
      PROVE  /\ [port |-> sk'[s].port, sock |-> s] \in binds'
             /\ sk'[s].rxq \in Seq(Seq({Dgram[sk'[s].port]}))
  <2>1. app[s] = "bound" /\ sk[s].type = "DGRAM" /\ sk'[s] = sk[s]
    BY <1>5
  <2>2. /\ [port |-> sk[s].port, sock |-> s] \in binds
        /\ sk[s].rxq \in Seq(Seq({Dgram[sk[s].port]}))
    BY <1>5, <2>1 DEF IInv, Binds
  <2>. QED BY <2>1, <2>2
<1>. QED BY <1>2, <1>3, <1>4, <1>5 DEF Binds

(* close(): the socket goes, its control block is on its way.               *)
LEMMA CloseSocketStep ==
  ASSUME IInv, Live, NEW s \in Sock, CloseSocket(s)
  PROVE  IInv' /\ Live'
<1>0. PICK a \in Addr : a = sk[s].tcp /\ ~Free(a) /\ heap[a].tcb \in Tcb
                          /\ heap[a].tcb.state \in {"ESTABLISHED", "CLOSE_WAIT"}
  BY ServedBlock DEF CloseSocket
<1>. DEFINE r == Close(heap[a].tcb, AllWell)
            u == [r EXCEPT !.out = <<>>]
<1>1. /\ app[s] = "connected" /\ Status(s) \in {"ESTABLISHED", "CLOSE_WAIT"}
      /\ heap' = [heap EXCEPT ![a].tcb = u]
      /\ app' = [app EXCEPT ![s] = "free"] /\ sk' = [sk EXCEPT ![s] = Unused]
      /\ UNCHANGED <<tcpList, binds>>
  BY <1>0 DEF CloseSocket, Put
<1>2. Typed
  BY DEF IInv
<1>4. r \in Tcb /\ r.state \in {"FIN_WAIT_1", "LAST_ACK"} /\ r.passive = heap[a].tcb.passive
  BY <1>0, CloseMoves
<1>. HIDE DEF r
<1>5. u \in Tcb /\ u.state = r.state /\ u.passive = r.passive
  BY <1>4, SentMoves
<1>. HIDE DEF u
<1>6. /\ heap' \in [Addr -> [tcb: Tcb, port: Port \cup {None}]]
      /\ heap'[a].tcb = u /\ heap'[a].port = heap[a].port
      /\ \A b \in Addr : b # a => heap'[b] = heap[b]
  BY <1>1, <1>2, <1>5 DEF Typed
<1>7. Unused \in [type: {"none", "STREAM", "DGRAM"}, tcp: Addr \cup {None},
                  port: Port \cup {None}, rxq: Seq(Seq(Byte))]
  <2>1. <<>> \in Seq(Seq(Byte))
    OBVIOUS
  <2>. QED BY <2>1 DEF Unused
<1>8. Typed'
  BY <1>1, <1>2, <1>6, <1>7 DEF Typed
<1>9. /\ app'[s] = "free"
      /\ \A q \in Sock : q # s => sk'[q] = sk[q] /\ app'[q] = app[q]
  BY <1>1, <1>2 DEF Typed
<1>10. ~InUse(s)' /\ \A q \in Sock : q # s => (InUse(q)' <=> InUse(q))
  BY <1>9 DEF InUse
<1>11. InUse(s) /\ \A q \in Sock : q # s /\ InUse(q) => sk[q].tcp \in Addr /\ sk[q].tcp # a
  <2>1. InUse(s)
    BY <1>0, <1>1, SocketsAssumption DEF InUse
  <2>2. \A q \in Sock : InUse(q) => sk[q].tcp \in Addr
    BY <1>2 DEF InUse, Typed
  <2>. QED BY <1>0, <2>1, <2>2 DEF IInv, Exclusive
<1>12. \A b \in Addr : /\ Free(b)' <=> Free(b)
                       /\ heap'[b].port = heap[b].port
                       /\ heap'[b].tcb.passive = heap[b].tcb.passive
  <2>1. Free(a)' <=> Free(a)
    BY <1>0, <1>4, <1>5, <1>6 DEF Free
  <2>. QED BY <1>4, <1>5, <1>6, <2>1 DEF Free
<1>13. Listed'
  BY <1>1, <1>12 DEF IInv, Listed
<1>14. Exclusive'
  BY <1>9, <1>10 DEF IInv, Exclusive
<1>15. InService'
  <2>. SUFFICES ASSUME NEW q \in Sock, InUse(q)', ~(heap'[sk'[q].tcp].tcb.state = "FREE")
                PROVE  Used(heap'[sk'[q].tcp].tcb)
    BY DEF InService, Free
  <2>1. q # s /\ InUse(q) /\ sk'[q] = sk[q]
    BY <1>9, <1>10
  <2>2. heap'[sk[q].tcp] = heap[sk[q].tcp]
    BY <1>6, <1>11, <2>1
  <2>. QED BY <2>1, <2>2 DEF IInv, InService, Free
<1>16. Listens'
  <2>. SUFFICES ASSUME NEW q \in Sock, app'[q] = "listening"
                PROVE  /\ sk'[q].port \in Port /\ sk'[q].type = "STREAM"
                       /\ sk'[q].tcp # None => /\ ~(heap'[sk'[q].tcp].tcb.state = "FREE")
                                               /\ heap'[sk'[q].tcp].tcb.passive
                                               /\ heap'[sk'[q].tcp].port = sk'[q].port
    BY DEF Listens, Free
  <2>1. q # s /\ app[q] = "listening" /\ sk'[q] = sk[q]
    BY <1>9
  <2>2. sk[q].tcp # None => heap'[sk[q].tcp] = heap[sk[q].tcp]
    BY <1>6, <1>11, <2>1 DEF InUse
  <2>. QED BY <2>1, <2>2 DEF IInv, Listens, Free
<1>17. NoOrphan'
  <2>. SUFFICES ASSUME NEW b \in Addr, ~Free(b)', ~Closing(heap'[b].tcb)
                PROVE  \E q \in Sock : InUse(q)' /\ sk'[q].tcp = b
    BY DEF NoOrphan, Closing
  <2>1. b # a
    BY <1>4, <1>5, <1>6 DEF Closing
  <2>2. ~Free(b) /\ ~Closing(heap[b].tcb)
    BY <1>6, <1>12, <2>1
  <2>3. PICK q \in Sock : InUse(q) /\ sk[q].tcp = b
    BY <2>2 DEF IInv, NoOrphan, Closing
  <2>4. q # s
    BY <1>0, <2>1, <2>3
  <2>. QED BY <1>9, <1>10, <2>3, <2>4
<1>18. Behind'
  <2>. SUFFICES ASSUME NEW q \in Sock, app'[q] = "listening", sk'[q].tcp # None, NEW b \in Addr,
                       Before(tcpList', sk'[q].tcp, b), heap'[b].port = sk'[q].port,
                       heap'[b].tcb.passive
                PROVE  \E x \in Sock : x # q /\ app'[x] = "listening" /\ sk'[x].port = sk'[q].port
    BY DEF Behind, Sharing
  <2>1. app[q] = "listening" /\ sk'[q] = sk[q]
    BY <1>9
  <2>2. Sharing(q)
    BY <1>1, <1>12, <2>1 DEF IInv, Behind
  <2>3. PICK x \in Sock : x # q /\ app[x] = "listening" /\ sk[x].port = sk[q].port
    BY <2>2 DEF Sharing
  <2>4. x # s
    BY <1>1, <2>3
  <2>. QED BY <1>9, <2>1, <2>3, <2>4
<1>19. Binds'
  BY <1>1, <1>9, BindsStay
<1>20. Live'
  <2>. SUFFICES ASSUME NEW q \in Sock, InUse(q)' PROVE ~(heap'[sk'[q].tcp].tcb.state = "FREE")
    BY DEF Live, Dangling, Free
  <2>1. q # s /\ InUse(q) /\ sk'[q] = sk[q]
    BY <1>9, <1>10
  <2>2. heap'[sk[q].tcp] = heap[sk[q].tcp]
    BY <1>6, <1>11, <2>1
  <2>. QED BY <2>1, <2>2 DEF Live, Dangling, Free
<1>. QED BY <1>8, <1>13, <1>14, <1>15, <1>16, <1>17, <1>18, <1>19, <1>20 DEF IInv

\* tcp_open() put the new control block t for port p at a, behind the others.
Opened(a, p, t) ==
  /\ a \in Addr /\ Free(a)
  /\ heap'[a].port = p /\ heap'[a].tcb.state = t.state /\ heap'[a].tcb.passive = t.passive
  /\ heap'[a].tcb.tx = t.tx
  /\ \A b \in Addr : b # a => heap'[b] = heap[b]
  /\ \A b, c : Before(tcpList', b, c) <=> Before(tcpList, b, c) \/ (b \in ToSet(tcpList) /\ c = a)

(* That is what tcp_open() does, or nothing.                                *)
LEMMA OpenStep ==
  ASSUME IInv, NEW p \in Port, NEW t \in Tcb, t.state # "FREE", NEW a \in Places(p), TcpOpen(a, p, t)
  PROVE  /\ heap' \in [Addr -> [tcb: Tcb, port: Port \cup {None}]] /\ tcpList' \in Seq(Addr)
         /\ Listed'
         /\ a = None => UNCHANGED <<heap, tcpList>>
         /\ a # None => Opened(a, p, t)
<1>1. heap \in [Addr -> [tcb: Tcb, port: Port \cup {None}]] /\ tcpList \in Seq(Addr) /\ Listed
  BY DEF IInv, Typed
<1>2. CASE a = None
  <2>1. UNCHANGED <<heap, tcpList>>
    BY <1>2 DEF TcpOpen
  <2>2. Listed'
    BY <1>1, <2>1 DEF Listed, Free
  <2>. QED BY <1>1, <1>2, <2>1, <2>2
<1>3. CASE a # None
  <2>. DEFINE u == [t EXCEPT !.out = <<>>]
              h == [tcb |-> u, port |-> p]
  <2>1. a \in Addr /\ Free(a)
    BY <1>3 DEF Places
  <2>2. heap' = [heap EXCEPT ![a] = h] /\ tcpList' = Append(tcpList, a)
    BY <1>3 DEF TcpOpen
  <2>3. u \in Tcb /\ u.state = t.state /\ u.passive = t.passive /\ u.tx = t.tx
    BY SentMoves
  <2>. HIDE DEF u
  <2>4. h \in [tcb: Tcb, port: Port \cup {None}] /\ h.tcb = u /\ h.port = p
    BY <2>3
  <2>. HIDE DEF h
  <2>5. /\ heap' \in [Addr -> [tcb: Tcb, port: Port \cup {None}]]
        /\ heap'[a] = h /\ \A b \in Addr : b # a => heap'[b] = heap[b]
    BY <1>1, <2>1, <2>2, <2>4
  <2>6. /\ tcpList' \in Seq(Addr) /\ ToSet(tcpList') = ToSet(tcpList) \cup {a}
        /\ \A b, c : Before(tcpList', b, c) <=> Before(tcpList, b, c) \/ (b \in ToSet(tcpList) /\ c = a)
    BY <1>1, <2>1, <2>2, AppendOrder
  <2>7. \A b \in Addr : Free(b)' <=> (b # a /\ Free(b))
    BY <2>3, <2>4, <2>5 DEF Free
  <2>8. Distinct(tcpList')
    <3>1. a \notin ToSet(tcpList)
      BY <1>1, <2>1 DEF Listed
    <3>. QED BY <1>1, <2>6, <3>1 DEF Listed, Distinct
  <2>9. Listed'
    BY <1>1, <2>1, <2>6, <2>7, <2>8 DEF Listed
  <2>10. Opened(a, p, t)
    BY <2>1, <2>3, <2>4, <2>5, <2>6 DEF Opened
  <2>. QED BY <1>3, <2>5, <2>6, <2>9, <2>10
<1>. QED BY <1>2, <1>3

(* What every step that opens a control block for the socket s has in       *)
(* common: nothing that was in use changes, and a is new to all.            *)
LEMMA OpenedFacts ==
  ASSUME IInv, Live, NEW p \in Port, NEW t \in Tcb, Used(t), NEW a \in Addr, Opened(a, p, t), Listed'
  PROVE  /\ Used(heap'[a].tcb) /\ ~Free(a)'
         /\ a \notin ToSet(tcpList) /\ \A b : ~Before(tcpList', a, b)
         /\ \A q \in Sock : InUse(q) =>
              /\ sk[q].tcp \in Addr /\ sk[q].tcp # a /\ ~Free(sk[q].tcp)
              /\ heap'[sk[q].tcp] = heap[sk[q].tcp]
<1>1. Used(heap'[a].tcb)
  BY DEF Opened, Used
<1>2. ~Free(a)'
  BY <1>1 DEF Used, Free
<1>3. a \notin ToSet(tcpList)
  BY DEF IInv, Listed, Opened
<1>4. \A b : ~Before(tcpList', a, b)
  <2>. SUFFICES ASSUME NEW b, Before(tcpList', a, b) PROVE FALSE
    OBVIOUS
  <2>1. Before(tcpList, a, b) \/ a \in ToSet(tcpList)
    BY DEF Opened
  <2>. QED BY <1>3, <2>1, BeforeIn
<1>5. ASSUME NEW q \in Sock, InUse(q)
      PROVE  /\ sk[q].tcp \in Addr /\ sk[q].tcp # a /\ ~Free(sk[q].tcp)
             /\ heap'[sk[q].tcp] = heap[sk[q].tcp]
  <2>1. sk[q].tcp \in Addr /\ ~Free(sk[q].tcp)
    BY <1>5 DEF IInv, Typed, InUse, Live, Dangling
  <2>. QED BY <2>1 DEF Opened
<1>. QED BY <1>1, <1>2, <1>3, <1>4, <1>5

\* listen() and connect(): the socket s gets the control block t, if there is
\* memory for it, and is what  to  says from then on.
Takes(s, a, p, t, to) ==
  /\ app[s] \in {"new", "bound"} /\ sk[s].type = "STREAM"
  /\ a \in Places(p) /\ TcpOpen(a, p, t)
  /\ sk' = [sk EXCEPT ![s].tcp = a]
  /\ app' = IF a = None THEN app ELSE [app EXCEPT ![s] = to]
  /\ UNCHANGED binds
  /\ to \in {"listening", "connected"}
  /\ to = "listening" => t.passive /\ sk[s].port = p
  /\ t.passive => to = "listening"

(* Without memory the socket is left without a control block.               *)
LEMMA TakesNoneStep ==
  ASSUME IInv, Live, NEW s \in Sock, NEW p \in Port, NEW t \in Tcb, NEW to, Takes(s, None, p, t, to)
  PROVE  IInv' /\ Live'
<1>1. Typed
  BY DEF IInv
<1>2. UNCHANGED <<heap, tcpList, app, binds>> /\ sk' = [sk EXCEPT ![s].tcp = None]
  BY DEF Takes, TcpOpen
<1>3. /\ sk'[s].type = "STREAM" /\ sk'[s].port = sk[s].port
      /\ \A q \in Sock : q # s => sk'[q] = sk[q]
  BY <1>1, <1>2 DEF Typed, Takes
<1>4. Typed'
  <2>1. sk' \in [Sock -> [type: {"none", "STREAM", "DGRAM"}, tcp: Addr \cup {None},
                         port: Port \cup {None}, rxq: Seq(Seq(Byte))]]
    BY <1>1, <1>2 DEF Typed
  <2>. QED BY <1>1, <1>2, <2>1 DEF Typed
<1>5. SameSockets
  BY <1>2, <1>3 DEF SameSockets, InUse, Takes
<1>6. Binds'
  BY <1>2, <1>3, BindsStay DEF Takes
<1>. QED BY <1>2, <1>4, <1>5, <1>6, SocketStep

(* With memory it owns what it opened.                                      *)
LEMMA TakesStep ==
  ASSUME IInv, Live, NEW s \in Sock, NEW p \in Port, NEW t \in Tcb, Used(t), NEW to,
         NEW a \in Addr, Takes(s, a, p, t, to)
  PROVE  IInv' /\ Live'
<1>0. a # None /\ t.state # "FREE"
  BY SocketsAssumption DEF Used
<1>1. /\ app[s] \in {"new", "bound"} /\ sk' = [sk EXCEPT ![s].tcp = a]
      /\ app' = [app EXCEPT ![s] = to] /\ UNCHANGED binds
  BY <1>0 DEF Takes
<1>2. Typed
  BY DEF IInv
<1>3. /\ heap' \in [Addr -> [tcb: Tcb, port: Port \cup {None}]] /\ tcpList' \in Seq(Addr)
      /\ Listed' /\ Opened(a, p, t)
  BY <1>0, OpenStep DEF Takes
<1>4. /\ sk'[s].tcp = a /\ sk'[s].port = sk[s].port /\ sk'[s].type = "STREAM" /\ app'[s] = to
      /\ \A q \in Sock : q # s => sk'[q] = sk[q] /\ app'[q] = app[q]
  BY <1>1, <1>2 DEF Typed, Takes
<1>5. Typed'
  <2>1. sk' \in [Sock -> [type: {"none", "STREAM", "DGRAM"}, tcp: Addr \cup {None},
                         port: Port \cup {None}, rxq: Seq(Seq(Byte))]]
    BY <1>1, <1>2 DEF Typed
  <2>2. app' \in [Sock -> {"free", "new", "bound", "listening", "connected"}]
    <3>1. to \in {"free", "new", "bound", "listening", "connected"}
      BY DEF Takes
    <3>. QED BY <1>1, <1>2, <3>1 DEF Typed
  <2>3. binds' \in SUBSET [port: Port, sock: Sock]
    BY <1>1, <1>2 DEF Typed
  <2>. QED BY <1>3, <2>1, <2>2, <2>3 DEF Typed
<1>6. /\ Used(heap'[a].tcb) /\ ~Free(a)'
      /\ a \notin ToSet(tcpList) /\ \A b : ~Before(tcpList', a, b)
      /\ \A q \in Sock : InUse(q) =>
           /\ sk[q].tcp \in Addr /\ sk[q].tcp # a /\ ~Free(sk[q].tcp)
           /\ heap'[sk[q].tcp] = heap[sk[q].tcp]
  BY <1>3, OpenedFacts
<1>7. ~InUse(s) /\ \A q \in Sock : q # s => (InUse(q)' <=> InUse(q))
  BY <1>1, <1>4 DEF InUse
<1>8. Exclusive'
  BY <1>4, <1>6, <1>7 DEF IInv, Exclusive
<1>9. InService'
  <2>. SUFFICES ASSUME NEW q \in Sock, InUse(q)' PROVE Used(heap'[sk'[q].tcp].tcb)
    BY DEF InService
  <2>1. CASE q = s
    BY <1>4, <1>6, <2>1
  <2>2. CASE q # s
    <3>1. InUse(q) /\ sk'[q] = sk[q]
      BY <1>4, <1>7, <2>2
    <3>. QED BY <1>6, <3>1 DEF IInv, InService
  <2>. QED BY <2>1, <2>2
<1>10. Listens'
  <2>. SUFFICES ASSUME NEW q \in Sock, app'[q] = "listening"
                PROVE  /\ sk'[q].port \in Port /\ sk'[q].type = "STREAM"
                       /\ sk'[q].tcp # None => /\ ~(heap'[sk'[q].tcp].tcb.state = "FREE")
                                               /\ heap'[sk'[q].tcp].tcb.passive
                                               /\ heap'[sk'[q].tcp].port = sk'[q].port
    BY DEF Listens, Free
  <2>1. CASE q = s
    <3>1. t.passive /\ sk[s].port = p
      BY <1>4, <2>1 DEF Takes
    <3>. QED BY <1>3, <1>4, <1>6, <2>1, <3>1 DEF Opened, Free
  <2>2. CASE q # s
    <3>1. app[q] = "listening" /\ sk'[q] = sk[q]
      BY <1>4, <2>2
    <3>2. sk[q].tcp # None => heap'[sk[q].tcp] = heap[sk[q].tcp]
      BY <1>6, <3>1 DEF InUse
    <3>. QED BY <3>1, <3>2 DEF IInv, Listens, Free
  <2>. QED BY <2>1, <2>2
<1>11. NoOrphan'
  <2>. SUFFICES ASSUME NEW b \in Addr, ~Free(b)', ~Closing(heap'[b].tcb)
                PROVE  \E q \in Sock : InUse(q)' /\ sk'[q].tcp = b
    BY DEF NoOrphan, Closing
  <2>1. CASE b = a
    <3>1. InUse(s)'
      BY <1>0, <1>4 DEF InUse, Takes
    <3>. QED BY <1>4, <2>1, <3>1
  <2>2. CASE b # a
    <3>1. heap'[b] = heap[b]
      BY <1>3, <2>2 DEF Opened
    <3>2. PICK q \in Sock : InUse(q) /\ sk[q].tcp = b
      BY <3>1 DEF IInv, NoOrphan, Closing, Free
    <3>. QED BY <1>4, <1>7, <3>2
  <2>. QED BY <2>1, <2>2
<1>12. Behind'
  <2>. SUFFICES ASSUME NEW q \in Sock, app'[q] = "listening", sk'[q].tcp # None, NEW b \in Addr,
                       Before(tcpList', sk'[q].tcp, b), heap'[b].port = sk'[q].port,
                       heap'[b].tcb.passive
                PROVE  \E x \in Sock : x # q /\ app'[x] = "listening" /\ sk'[x].port = sk'[q].port
    BY DEF Behind, Sharing
  <2>1. q # s /\ app[q] = "listening" /\ sk'[q] = sk[q]
    BY <1>4, <1>6
  <2>2. Before(tcpList, sk[q].tcp, b) \/ b = a
    BY <1>3, <2>1 DEF Opened
  <2>3. CASE b = a
    <3>1. t.passive /\ p = sk[q].port
      BY <1>3, <2>1, <2>3 DEF Opened
    <3>2. app'[s] = "listening" /\ sk'[s].port = p
      BY <1>4, <3>1 DEF Takes
    <3>. QED BY <2>1, <3>1, <3>2
  <2>4. CASE b # a /\ Before(tcpList, sk[q].tcp, b)
    <3>1. heap'[b] = heap[b]
      BY <1>3, <2>4 DEF Opened
    <3>2. Sharing(q)
      BY <2>1, <2>4, <3>1 DEF IInv, Behind
    <3>3. PICK x \in Sock : x # q /\ app[x] = "listening" /\ sk[x].port = sk[q].port
      BY <3>2 DEF Sharing
    <3>4. x # s
      BY <1>1, <3>3
    <3>. QED BY <1>4, <2>1, <3>3, <3>4
  <2>. QED BY <2>2, <2>3, <2>4
<1>13. Binds'
  BY <1>1, <1>4, BindsStay DEF Takes
<1>14. Live'
  <2>. SUFFICES ASSUME NEW q \in Sock, InUse(q)' PROVE ~(heap'[sk'[q].tcp].tcb.state = "FREE")
    BY DEF Live, Dangling, Free
  <2>1. CASE q = s
    BY <1>4, <1>6, <2>1 DEF Free
  <2>2. CASE q # s
    <3>1. InUse(q) /\ sk'[q] = sk[q]
      BY <1>4, <1>7, <2>2
    <3>. QED BY <1>6, <3>1 DEF Free
  <2>. QED BY <2>1, <2>2
<1>. QED BY <1>3, <1>5, <1>8, <1>9, <1>10, <1>11, <1>12, <1>13, <1>14 DEF IInv

(* listen()                                                                 *)
LEMMA ListenStep ==
  ASSUME IInv, Live, NEW s \in Sock, Listen(s)
  PROVE  IInv' /\ Live'
<1>. DEFINE p == sk[s].port
            t == OpenPassive(Isn)
<1>1. PICK a \in Places(p) : /\ TcpOpen(a, p, t) /\ sk' = [sk EXCEPT ![s].tcp = a]
                             /\ app' = IF a = None THEN app ELSE [app EXCEPT ![s] = "listening"]
  BY DEF Listen
<1>2. app[s] = "bound" /\ sk[s].type = "STREAM" /\ UNCHANGED binds
  BY DEF Listen
<1>3. p \in Port /\ t \in Tcb /\ Used(t) /\ t.passive
  BY <1>2, NewMoves DEF IInv, Binds, Used
<1>4. a = None \/ a \in Addr
  BY DEF Places
<1>. HIDE DEF t
<1>5. Takes(s, a, p, t, "listening")
  BY <1>1, <1>2, <1>3 DEF Takes
<1>. HIDE DEF p
<1>. QED BY <1>3, <1>4, <1>5, TakesStep, TakesNoneStep

(* connect()                                                                *)
LEMMA ConnectStep ==
  ASSUME IInv, Live, NEW s \in Sock, NEW p \in Port, NEW dest \in Servers, Connect(s, p, dest)
  PROVE  IInv' /\ Live'
<1>. DEFINE t == OpenActive(dest, Isn, AllWell)
<1>1. PICK a \in Places(p) : /\ TcpOpen(a, p, t) /\ sk' = [sk EXCEPT ![s].tcp = a]
                             /\ app' = IF a = None THEN app ELSE [app EXCEPT ![s] = "connected"]
  BY DEF Connect
<1>2. app[s] \in {"new", "bound"} /\ sk[s].type = "STREAM" /\ UNCHANGED binds
  BY DEF Connect
<1>3. t \in Tcb /\ Used(t) /\ ~t.passive
  <2>1. AllWell \in Env /\ dest \in Peer /\ Isn \in SeqNo
    BY SocketsAssumption DEF AllWell, Env
  <2>2. /\ t \in Tcb /\ t.state = "SYN_SENT" /\ ~t.passive /\ t.tx # None
        /\ t.tx = Seg(Isn, 0, {"SYN"}, <<>>)
    BY <2>1, OpenActiveType
  <2>. HIDE DEF t
  <2>3. "SYN" \in t.tx.fl
    BY <2>2 DEF Seg
  <2>. QED BY <2>2, <2>3 DEF Used
<1>4. a = None \/ a \in Addr
  BY DEF Places
<1>. HIDE DEF t
<1>5. Takes(s, a, p, t, "connected")
  BY <1>1, <1>2, <1>3 DEF Takes
<1>. QED BY <1>3, <1>4, <1>5, TakesStep, TakesNoneStep

(* accept(): the new socket owns what the listening one had, and that one   *)
(* what it opened, if there was memory for it.                              *)
LEMMA AcceptStep ==
  ASSUME IInv, Live, NEW s \in Sock, NEW c \in Sock, Accept(s, c)
  PROVE  IInv' /\ Live'
<1>. DEFINE t == OpenPassive(Isn)
<1>0. /\ app[s] = "listening" /\ Status(s) \in {"ESTABLISHED", "CLOSE_WAIT"} /\ app[c] = "free"
      /\ app' = [app EXCEPT ![c] = "connected"] /\ UNCHANGED binds
  BY DEF Accept, InPool
<1>1. PICK old \in Addr : old = sk[s].tcp
  BY <1>0, ServedBlock
<1>2. PICK p \in Port : p = sk[s].port
  BY <1>0 DEF IInv, Listens
<1>3. PICK a \in Places(p) :
        TcpOpen(a, p, t) /\ sk' = [sk EXCEPT ![c].type = "STREAM", ![c].tcp = old, ![s].tcp = a]
  BY <1>1, <1>2 DEF Accept
<1>4. Typed /\ s # c /\ old # None /\ a \in Addr \cup {None}
  BY <1>0, SocketsAssumption DEF IInv, Places
<1>5. t \in Tcb /\ Used(t) /\ t.passive /\ t.state # "FREE"
  BY NewMoves DEF Used
<1>. HIDE DEF t
<1>6. /\ sk' \in [Sock -> [type: {"none", "STREAM", "DGRAM"}, tcp: Addr \cup {None},
                           port: Port \cup {None}, rxq: Seq(Seq(Byte))]]
      /\ sk'[c].tcp = old /\ app'[c] = "connected"
      /\ sk'[s].tcp = a /\ sk'[s].port = p /\ sk'[s].type = sk[s].type /\ app'[s] = "listening"
      /\ \A q \in Sock : q # s /\ q # c => sk'[q] = sk[q] /\ app'[q] = app[q]
  <2>. DEFINE R == [type: {"none", "STREAM", "DGRAM"}, tcp: Addr \cup {None},
                    port: Port \cup {None}, rxq: Seq(Seq(Byte))]
              w == [sk EXCEPT ![c].type = "STREAM", ![c].tcp = old]
  <2>1. sk \in [Sock -> R]
    BY <1>4 DEF Typed
  <2>2. w \in [Sock -> R] /\ w[c].tcp = old /\ \A q \in Sock : q # c => w[q] = sk[q]
    BY <2>1
  <2>3. sk' = [w EXCEPT ![s].tcp = a]
    BY <1>3
  <2>. HIDE DEF w
  <2>4. /\ sk' \in [Sock -> R] /\ sk'[s].tcp = a /\ sk'[s].port = w[s].port /\ sk'[s].type = w[s].type
        /\ \A q \in Sock : q # s => sk'[q] = w[q]
    BY <1>4, <2>2, <2>3
  <2>5. /\ app'[c] = "connected" /\ app'[s] = "listening"
        /\ \A q \in Sock : q # c => app'[q] = app[q]
    BY <1>0, <1>4 DEF Typed
  <2>. QED BY <1>2, <1>4, <2>2, <2>4, <2>5
<1>7. /\ heap' \in [Addr -> [tcb: Tcb, port: Port \cup {None}]] /\ tcpList' \in Seq(Addr)
      /\ Listed'
      /\ a = None => UNCHANGED <<heap, tcpList>>
      /\ a # None => Opened(a, p, t)
  BY <1>3, <1>5, OpenStep
<1>8. Typed'
  <2>1. app' \in [Sock -> {"free", "new", "bound", "listening", "connected"}]
    BY <1>0, <1>4 DEF Typed
  <2>. QED BY <1>0, <1>4, <1>6, <1>7, <2>1 DEF Typed
<1>9. ASSUME NEW q \in Sock, InUse(q)
      PROVE  /\ sk[q].tcp \in Addr /\ sk[q].tcp # a /\ ~Free(sk[q].tcp)
             /\ heap'[sk[q].tcp] = heap[sk[q].tcp]
  <2>1. CASE a = None
    BY <1>4, <1>7, <1>9, <2>1, SocketsAssumption DEF Typed, InUse, Live, Dangling
  <2>2. CASE a # None
    BY <1>4, <1>5, <1>7, <1>9, <2>2, OpenedFacts
  <2>. QED BY <2>1, <2>2
<1>10. a # None => /\ a \in Addr /\ Used(heap'[a].tcb) /\ ~Free(a)'
                   /\ heap'[a].tcb.passive /\ heap'[a].port = p
                   /\ \A b : ~Before(tcpList', a, b)
  <2>. SUFFICES ASSUME a # None
                PROVE  /\ a \in Addr /\ Used(heap'[a].tcb) /\ ~Free(a)'
                       /\ heap'[a].tcb.passive /\ heap'[a].port = p
                       /\ \A b : ~Before(tcpList', a, b)
    OBVIOUS
  <2>1. a \in Addr /\ Opened(a, p, t)
    BY <1>4, <1>7
  <2>2. Used(heap'[a].tcb) /\ ~Free(a)' /\ \A b : ~Before(tcpList', a, b)
    BY <1>5, <1>7, <2>1, OpenedFacts
  <2>. QED BY <1>5, <2>1, <2>2 DEF Opened
<1>11. \A b \in Addr : b # a => heap'[b] = heap[b]
  BY <1>7 DEF Opened
<1>12. \A b, d : Before(tcpList', b, d) => Before(tcpList, b, d) \/ d = a
  BY <1>7 DEF Opened
<1>13. /\ InUse(s) /\ ~InUse(c) /\ InUse(c)' /\ (InUse(s)' <=> a # None)
       /\ \A q \in Sock : q # s /\ q # c => (InUse(q)' <=> InUse(q))
  BY <1>0, <1>1, <1>4, <1>6 DEF InUse
<1>14. \A q \in Sock : q # s /\ InUse(q) => sk[q].tcp # old
  BY <1>1, <1>13 DEF IInv, Exclusive
<1>15. old # a /\ heap'[old] = heap[old] /\ ~Free(old)
  BY <1>1, <1>9, <1>13
<1>16. Exclusive'
  <2>. SUFFICES ASSUME NEW q \in Sock, NEW x \in Sock, q # x, InUse(q)', InUse(x)'
                PROVE  sk'[q].tcp # sk'[x].tcp
    BY DEF Exclusive
  <2>1. \A y \in Sock : y # s /\ y # c /\ InUse(y)' => sk'[y].tcp = sk[y].tcp /\ sk[y].tcp # old /\ sk[y].tcp # a
    BY <1>6, <1>9, <1>13, <1>14
  <2>2. CASE q \in {s, c} \/ x \in {s, c}
    BY <1>6, <1>15, <2>1, <2>2
  <2>3. CASE q \notin {s, c} /\ x \notin {s, c}
    BY <1>13, <2>1, <2>3 DEF IInv, Exclusive
  <2>. QED BY <2>2, <2>3
<1>17. ASSUME NEW q \in Sock, InUse(q)'
       PROVE  Used(heap'[sk'[q].tcp].tcb)
  <2>1. CASE q = s
    BY <1>6, <1>10, <1>13, <1>17, <2>1
  <2>2. CASE q = c
    BY <1>1, <1>6, <1>13, <1>15, <2>2 DEF IInv, InService
  <2>3. CASE q # s /\ q # c
    <3>1. InUse(q) /\ sk'[q] = sk[q]
      BY <1>6, <1>13, <1>17, <2>3
    <3>. QED BY <1>9, <3>1 DEF IInv, InService
  <2>. QED BY <2>1, <2>2, <2>3
<1>18. InService'
  BY <1>17 DEF InService
<1>19. Live'
  BY <1>17 DEF Live, Dangling, Free, Used
<1>20. Listens'
  <2>. SUFFICES ASSUME NEW q \in Sock, app'[q] = "listening"
                PROVE  /\ sk'[q].port \in Port /\ sk'[q].type = "STREAM"
                       /\ sk'[q].tcp # None => /\ ~(heap'[sk'[q].tcp].tcb.state = "FREE")
                                               /\ heap'[sk'[q].tcp].tcb.passive
                                               /\ heap'[sk'[q].tcp].port = sk'[q].port
    BY DEF Listens, Free
  <2>1. CASE q = s
    <3>1. sk[s].type = "STREAM"
      BY <1>0 DEF IInv, Listens
    <3>. QED BY <1>6, <1>10, <2>1, <3>1 DEF Free
  <2>2. CASE q # s
    <3>1. q # c /\ app[q] = "listening" /\ sk'[q] = sk[q]
      BY <1>6, <2>2
    <3>2. sk[q].tcp # None => heap'[sk[q].tcp] = heap[sk[q].tcp]
      BY <1>9, <3>1 DEF InUse
    <3>. QED BY <3>1, <3>2 DEF IInv, Listens, Free
  <2>. QED BY <2>1, <2>2
<1>21. NoOrphan'
  <2>. SUFFICES ASSUME NEW b \in Addr, ~Free(b)', ~Closing(heap'[b].tcb)
                PROVE  \E q \in Sock : InUse(q)' /\ sk'[q].tcp = b
    BY DEF NoOrphan, Closing
  <2>1. CASE b = a
    BY <1>4, <1>6, <1>13, <2>1, SocketsAssumption
  <2>2. CASE b # a
    <3>1. heap'[b] = heap[b]
      BY <1>11, <2>2
    <3>2. PICK q \in Sock : InUse(q) /\ sk[q].tcp = b
      BY <3>1 DEF IInv, NoOrphan, Closing, Free
    <3>3. CASE q = s
      BY <1>1, <1>6, <1>13, <3>2, <3>3
    <3>4. CASE q # s
      BY <1>6, <1>13, <3>2, <3>4
    <3>. QED BY <3>3, <3>4
  <2>. QED BY <2>1, <2>2
<1>22. Behind'
  <2>. SUFFICES ASSUME NEW q \in Sock, app'[q] = "listening", sk'[q].tcp # None, NEW b \in Addr,
                       Before(tcpList', sk'[q].tcp, b), heap'[b].port = sk'[q].port,
                       heap'[b].tcb.passive
                PROVE  \E x \in Sock : x # q /\ app'[x] = "listening" /\ sk'[x].port = sk'[q].port
    BY DEF Behind, Sharing
  <2>1. q # s /\ q # c
    BY <1>6, <1>10
  <2>2. app[q] = "listening" /\ sk'[q] = sk[q]
    BY <1>6, <2>1
  <2>3. CASE b = a
    <3>1. sk[q].port = p
      BY <1>4, <1>10, <2>2, <2>3, SocketsAssumption
    <3>. QED BY <1>6, <2>1, <2>2, <3>1
  <2>4. CASE b # a
    <3>1. heap'[b] = heap[b] /\ Before(tcpList, sk[q].tcp, b)
      BY <1>11, <1>12, <2>2, <2>4
    <3>2. Sharing(q)
      BY <2>2, <3>1 DEF IInv, Behind
    <3>3. PICK x \in Sock : x # q /\ app[x] = "listening" /\ sk[x].port = sk[q].port
      BY <3>2 DEF Sharing
    <3>4. app'[x] = "listening" /\ sk'[x].port = sk[x].port
      BY <1>0, <1>2, <1>6, <3>3
    <3>. QED BY <2>2, <3>3, <3>4
  <2>. QED BY <2>3, <2>4
<1>23. Binds'
  <2>1. \A q \in Sock : app'[q] = "bound" => app[q] = "bound" /\ sk'[q] = sk[q]
    BY <1>6
  <2>2. \A q \in Sock : app[q] = "bound" => app'[q] = "bound" /\ sk'[q] = sk[q]
    BY <1>0, <1>6
  <2>. QED BY <1>0, <2>1, <2>2, BindsStay
<1>. QED BY <1>7, <1>8, <1>16, <1>18, <1>19, <1>20, <1>21, <1>22, <1>23 DEF IInv

\* tcp_loop() left these control blocks as they were, but for what it freed.
Looped ==
  /\ heap' \in [Addr -> [tcb: Tcb, port: Port \cup {None}]]
  /\ \A a \in Addr :
       /\ Free(a) => Free(a)'
       /\ Free(a)' => Free(a) \/ heap[a].tcb.state \in {"CLOSED", "TIME_WAIT"}
       /\ ~Free(a)' => /\ heap'[a].port = heap[a].port /\ heap'[a].tcb.state = heap[a].tcb.state
                       /\ heap'[a].tcb.passive = heap[a].tcb.passive
                       /\ heap'[a].tcb.tx = heap[a].tcb.tx
                       /\ SameText(heap'[a].tcb, heap[a].tcb)
       /\ Free(a)' => heap'[a] = Nothing
  /\ Left(tcpList', tcpList, {a \in Addr : Free(a)'}, Addr)

(* That is so.                                                              *)
LEMMA TcpLoopIs ==
  ASSUME Typed, NEW expired \in SUBSET Addr, TcpLoop(expired)
  PROVE  Looped
<1>. DEFINE Turn(a) == IF Free(a) THEN heap[a].tcb ELSE Loop(heap[a].tcb, AllWell, a \in expired)
            after == [a \in Addr |-> Turn(a)]
            gone == {a \in Addr : after[a].state = "FREE"}
            Kept2(a) == [heap[a] EXCEPT !.tcb = [after[a] EXCEPT !.out = <<>>]]
            H(a) == IF a \in gone THEN Nothing ELSE Kept2(a)
<1>1. heap' = [a \in Addr |-> H(a)] /\ tcpList' = Without(tcpList, gone)
  BY DEF TcpLoop
<1>2. heap \in [Addr -> [tcb: Tcb, port: Port \cup {None}]] /\ tcpList \in Seq(Addr)
  BY DEF Typed
<1>3. \A a \in Addr : heap'[a] = H(a)
  BY <1>1
<1>4. ASSUME NEW a \in Addr
      PROVE  /\ H(a) \in [tcb: Tcb, port: Port \cup {None}]
             /\ Free(a) => a \in gone
             /\ a \in gone => /\ H(a) = Nothing /\ Nothing.tcb.state = "FREE"
                              /\ Free(a) \/ heap[a].tcb.state \in {"CLOSED", "TIME_WAIT"}
             /\ a \notin gone => /\ H(a).port = heap[a].port /\ H(a).tcb.state = heap[a].tcb.state
                                 /\ H(a).tcb.state # "FREE"
                                 /\ H(a).tcb.passive = heap[a].tcb.passive
                                 /\ H(a).tcb.tx = heap[a].tcb.tx
                                 /\ SameText(H(a).tcb, heap[a].tcb)
  <2>. DEFINE t == heap[a].tcb
              r == after[a]
              u == [r EXCEPT !.out = <<>>]
  <2>1. t \in Tcb
    BY <1>2
  <2>2. r = Turn(a)
    OBVIOUS
  <2>3. /\ r \in Tcb /\ r.passive = t.passive /\ r.tx = t.tx /\ SameText(r, t)
        /\ Free(a) => r = t
        /\ r.state = t.state \/ (r.state = "FREE" /\ t.state \in {"CLOSED", "TIME_WAIT"})
    <3>1. CASE Free(a)
      <4>1. r = t
        BY <3>1, <2>2
      <4>. HIDE DEF r, t
      <4>. QED BY <2>1, <4>1 DEF SameText
    <3>2. CASE ~Free(a)
      <4>1. r = Loop(t, AllWell, a \in expired) /\ (a \in expired) \in BOOLEAN
        BY <3>2, <2>2
      <4>. HIDE DEF r, t
      <4>. QED BY <2>1, <3>2, <4>1, LoopMoves
    <3>. QED BY <3>1, <3>2
  <2>4. Free(a) <=> t.state = "FREE"
    BY DEF Free
  <2>5. a \in gone <=> r.state = "FREE"
    OBVIOUS
  <2>6. Kept2(a) = [heap[a] EXCEPT !.tcb = u]
    OBVIOUS
  <2>7. H(a) = IF a \in gone THEN Nothing ELSE Kept2(a)
    OBVIOUS
  <2>8. /\ Nothing \in [tcb: Tcb, port: Port \cup {None}] /\ Nothing.tcb.state = "FREE"
    <3>1. Nothing.tcb \in Tcb /\ Nothing.port = None /\ Nothing.tcb.state = "FREE"
      BY NewMoves
    <3>2. Nothing = [tcb |-> Nothing.tcb, port |-> Nothing.port]
      BY DEF Nothing
    <3>. QED BY <3>1, <3>2
  <2>. HIDE DEF r, gone, H, Kept2
  <2>9. /\ u \in Tcb /\ u.state = r.state /\ u.passive = r.passive /\ u.tx = r.tx /\ SameText(u, r)
    BY <2>3, SentMoves
  <2>. HIDE DEF u
  <2>10. /\ Kept2(a) \in [tcb: Tcb, port: Port \cup {None}] /\ Kept2(a).tcb = u
         /\ Kept2(a).port = heap[a].port
    BY <1>2, <2>6, <2>9
  <2>11. CASE a \in gone
    BY <2>3, <2>4, <2>5, <2>7, <2>8, <2>11 DEF t
  <2>12. CASE a \notin gone
    BY <2>3, <2>4, <2>5, <2>7, <2>9, <2>10, <2>12 DEF SameText, t
  <2>. QED BY <2>11, <2>12
<1>. HIDE DEF gone, H
<1>5. \A a \in Addr : Free(a)' <=> a \in gone
  BY <1>3, <1>4 DEF Free
<1>6. gone = {a \in Addr : Free(a)'}
  BY <1>5 DEF gone
<1>7. Left(tcpList', tcpList, {a \in Addr : Free(a)'}, Addr)
  BY <1>1, <1>2, <1>6, WithoutLeft
<1>8. heap' \in [Addr -> [tcb: Tcb, port: Port \cup {None}]]
  BY <1>1, <1>4
<1>9. \A a \in Addr :
       /\ Free(a) => Free(a)'
       /\ Free(a)' => Free(a) \/ heap[a].tcb.state \in {"CLOSED", "TIME_WAIT"}
       /\ ~Free(a)' => /\ heap'[a].port = heap[a].port /\ heap'[a].tcb.state = heap[a].tcb.state
                       /\ heap'[a].tcb.passive = heap[a].tcb.passive
                       /\ heap'[a].tcb.tx = heap[a].tcb.tx
                       /\ SameText(heap'[a].tcb, heap[a].tcb)
       /\ Free(a)' => heap'[a] = Nothing
  BY <1>3, <1>4, <1>5
<1>. QED BY <1>7, <1>8, <1>9 DEF Looped

\* The socket s lost its control block, which carried a refused SYN.
Refused(s) ==
  LET t == heap[sk[s].tcp].tcb
  IN  t.tx # None /\ "SYN" \in t.tx.fl /\ t.state \in {"CLOSED", "SYN_SENT"}

(* tcp_loop(): what it frees was closed, or was refused.                    *)
LEMMA TcpLoopStep ==
  ASSUME IInv, Live, NEW expired \in SUBSET Addr, TcpLoop(expired)
  PROVE  IInv' /\ \A s \in Sock : Dangling(s)' => Refused(s)
<1>1. Looped
  BY TcpLoopIs DEF IInv
<1>2. UNCHANGED <<sk, app, binds>> /\ Typed
  BY DEF TcpLoop, IInv
<1>3. \A s \in Sock : InUse(s)' <=> InUse(s)
  BY <1>2 DEF InUse
<1>4. \A s \in Sock : InUse(s) => sk[s].tcp \in Addr /\ ~Free(sk[s].tcp) /\ Used(heap[sk[s].tcp].tcb)
  BY <1>2 DEF Typed, InUse, Live, Dangling, IInv, InService
<1>5. /\ tcpList' \in Seq(Addr) /\ ToSet(tcpList') = ToSet(tcpList) \ {a \in Addr : Free(a)'}
      /\ \A b, c : Before(tcpList', b, c) => Before(tcpList, b, c)
  BY <1>1 DEF Looped, Left
<1>6. Typed'
  BY <1>1, <1>2, <1>5 DEF Typed, Looped
<1>7. Listed'
  <2>1. ToSet(tcpList') = {a \in Addr : ~Free(a)'}
    BY <1>1, <1>5 DEF IInv, Listed, Looped
  <2>2. Distinct(tcpList')
    BY <1>5 DEF IInv, Listed, Distinct
  <2>. QED BY <2>1, <2>2 DEF Listed
<1>8. Exclusive'
  BY <1>2, <1>3 DEF IInv, Exclusive
<1>9. InService'
  <2>. SUFFICES ASSUME NEW s \in Sock, InUse(s), heap'[sk[s].tcp].tcb.state # "FREE"
                PROVE  Used(heap'[sk[s].tcp].tcb)
    BY <1>2, <1>3 DEF InService, Free
  <2>. QED BY <1>1, <1>4 DEF Looped, Used, Free
<1>10. Listens'
  <2>. SUFFICES ASSUME NEW s \in Sock, app[s] = "listening"
                PROVE  /\ sk[s].port \in Port /\ sk[s].type = "STREAM"
                       /\ sk[s].tcp # None => /\ ~(heap'[sk[s].tcp].tcb.state = "FREE")
                                              /\ heap'[sk[s].tcp].tcb.passive
                                              /\ heap'[sk[s].tcp].port = sk[s].port
    BY <1>2 DEF Listens, Free
  <2>1. sk[s].port \in Port /\ sk[s].type = "STREAM"
    BY DEF IInv, Listens
  <2>2. ASSUME sk[s].tcp # None
        PROVE  /\ ~(heap'[sk[s].tcp].tcb.state = "FREE")
               /\ heap'[sk[s].tcp].tcb.passive
               /\ heap'[sk[s].tcp].port = sk[s].port
    <3>1. sk[s].tcp \in Addr /\ ~Free(sk[s].tcp) /\ Used(heap[sk[s].tcp].tcb)
      BY <1>4, <2>2 DEF InUse
    <3>2. heap[sk[s].tcp].tcb.passive /\ heap[sk[s].tcp].port = sk[s].port
      BY <2>2 DEF IInv, Listens
    <3>3. heap[sk[s].tcp].tcb.state \notin {"CLOSED", "TIME_WAIT"}
      BY <3>1, <3>2 DEF Used
    <3>. QED BY <1>1, <3>1, <3>2, <3>3 DEF Looped, Free
  <2>. QED BY <2>1, <2>2
<1>11. NoOrphan'
  <2>. SUFFICES ASSUME NEW b \in Addr, ~Free(b)', ~Closing(heap'[b].tcb)
                PROVE  \E s \in Sock : InUse(s) /\ sk[s].tcp = b
    BY <1>2, <1>3 DEF NoOrphan, Closing
  <2>1. ~Free(b) /\ ~Closing(heap[b].tcb)
    BY <1>1 DEF Looped, Closing
  <2>. QED BY <2>1 DEF IInv, NoOrphan, Closing
<1>12. Behind'
  <2>. SUFFICES ASSUME NEW s \in Sock, app[s] = "listening", sk[s].tcp # None, NEW b \in Addr,
                       Before(tcpList', sk[s].tcp, b), heap'[b].port = sk[s].port,
                       heap'[b].tcb.passive
                PROVE  Sharing(s)
    BY <1>2 DEF Behind, Sharing
  <2>1. ~Free(b)'
    BY <1>5, BeforeIn
  <2>2. heap'[b].port = heap[b].port /\ heap'[b].tcb.passive = heap[b].tcb.passive
    BY <1>1, <2>1 DEF Looped
  <2>. QED BY <1>5, <2>2 DEF IInv, Behind
<1>13. Binds'
  BY <1>2 DEF IInv, Binds
<1>14. ASSUME NEW s \in Sock, Dangling(s)' PROVE Refused(s)
  <2>1. InUse(s) /\ heap'[sk[s].tcp].tcb.state = "FREE"
    BY <1>2, <1>3, <1>14 DEF Dangling, Free
  <2>2. sk[s].tcp \in Addr /\ ~Free(sk[s].tcp) /\ Used(heap[sk[s].tcp].tcb)
    BY <1>4, <2>1
  <2>3. heap[sk[s].tcp].tcb.state \in {"CLOSED", "TIME_WAIT"}
    BY <1>1, <2>1, <2>2 DEF Looped, Free
  <2>. QED BY <2>2, <2>3 DEF Used, Refused
<1>. QED BY <1>6, <1>7, <1>8, <1>9, <1>10, <1>11, <1>12, <1>13, <1>14 DEF IInv
-----------------------------------------------------------------------------
\* The steps together.

(* The pool is full and no memory is taken when the program starts.         *)
LEMMA InitStep == Init => IInv
<1>. SUFFICES ASSUME Init PROVE IInv
  OBVIOUS
<1>1. /\ sk = [s \in Sock |-> Unused] /\ app = [s \in Sock |-> "free"]
      /\ heap = [a \in Addr |-> Nothing] /\ tcpList = <<>> /\ binds = {}
  BY DEF Init
<1>2. \A s \in Sock : app[s] = "free" /\ ~InUse(s)
  BY <1>1 DEF InUse
<1>3. \A a \in Addr : Free(a)
  BY <1>1, NewMoves DEF Free
<1>4. Typed
  <2>1. Unused \in [type: {"none", "STREAM", "DGRAM"}, tcp: Addr \cup {None},
                    port: Port \cup {None}, rxq: Seq(Seq(Byte))]
    <3>1. <<>> \in Seq(Seq(Byte))
      OBVIOUS
    <3>. QED BY <3>1 DEF Unused
  <2>2. Nothing \in [tcb: Tcb, port: Port \cup {None}]
    <3>1. Nothing.tcb \in Tcb /\ Nothing.port = None
      BY NewMoves
    <3>2. Nothing = [tcb |-> Nothing.tcb, port |-> Nothing.port]
      BY DEF Nothing
    <3>. QED BY <3>1, <3>2
  <2>3. tcpList \in Seq(Addr)
    BY <1>1
  <2>. QED BY <1>1, <2>1, <2>2, <2>3 DEF Typed
<1>5. Listed
  <2>1. \A b, c : ~Before(tcpList, b, c)
    BY <1>1 DEF Before
  <2>2. ToSet(tcpList) = {}
    BY <1>1 DEF ToSet
  <2>. QED BY <1>3, <2>1, <2>2 DEF Listed, Distinct
<1>6. Exclusive /\ InService /\ Listens /\ Behind
  BY <1>2 DEF Exclusive, InService, Listens, Behind
<1>7. NoOrphan
  BY <1>3 DEF NoOrphan
<1>8. Binds
  BY <1>1, <1>2 DEF Binds
<1>. QED BY <1>4, <1>5, <1>6, <1>7, <1>8 DEF IInv

(* Every step keeps the invariant, and takes the control block of an open   *)
(* socket only if the peer refused its SYN.                                 *)
LEMMA NextStep ==
  ASSUME IInv, Next
  PROVE  IInv' /\ \A s \in Sock : Dangling(s)' => Refused(s)
<1>. DEFINE Goal == IInv' /\ Live'
<1>1. Live
  BY DEF Next, Live
<1>2. Bound \subseteq Port
  BY SocketsAssumption
<1>3. Goal => IInv' /\ \A s \in Sock : Dangling(s)' => Refused(s)
  BY DEF Live
<1>. SUFFICES ASSUME ~(IInv' /\ \A s \in Sock : Dangling(s)' => Refused(s)) PROVE Goal
  BY <1>3
<1>4. ASSUME NEW s \in Sock, NEW type \in {"STREAM", "DGRAM"}, Socket(s, type) PROVE Goal
  BY <1>1, <1>4, SocketCallStep
<1>5. ASSUME NEW s \in Sock, NEW p \in Bound, Bind(s, p) PROVE Goal
  <2>1. p \in Port
    BY <1>2
  <2>. QED BY <1>1, <1>5, <2>1, BindTcpStep, BindUdpStep
<1>6. ASSUME NEW s \in Sock, Listen(s) PROVE Goal
  BY <1>1, <1>6, ListenStep
<1>7. ASSUME NEW s \in Sock, NEW c \in Sock, Accept(s, c) PROVE Goal
  BY <1>1, <1>7, AcceptStep
<1>8. ASSUME NEW s \in Sock, NEW p \in Port, NEW dest \in Servers, Connect(s, p, dest) PROVE Goal
  BY <1>1, <1>8, ConnectStep
<1>9. ASSUME NEW s \in Sock, SendTo(s) PROVE Goal
  BY <1>1, <1>9, SendToStep
<1>10. ASSUME NEW s \in Sock, NEW n \in Reads, RecvFrom(s, n) PROVE Goal
  BY <1>1, <1>10, RecvFromStreamStep, RecvFromDgramStep
<1>11. ASSUME NEW s \in Sock, CloseSocket(s) PROVE Goal
  BY <1>1, <1>11, CloseSocketStep
<1>12. ASSUME NEW p \in Peer, NEW port \in Port, NEW s \in Segs[p], SegmentArrives(p, port, s)
       PROVE  Goal
  BY <1>1, <1>12, SegmentStep
<1>13. ASSUME NEW port \in Port, DatagramArrives(port) PROVE Goal
  BY <1>1, <1>13, DatagramStep
<1>14. ASSUME NEW expired \in SUBSET {a \in Addr : heap[a].tcb.tmr}, TcpLoop(expired) PROVE Goal
  <2>1. expired \in SUBSET Addr
    OBVIOUS
  <2>. QED BY <1>1, <1>14, <2>1, TcpLoopStep
<1>. HIDE DEF Goal
<1>. QED
  BY <1>4, <1>5, <1>6, <1>7, <1>8, <1>9, <1>10, <1>11, <1>12, <1>13, <1>14 DEF Next

(* The invariant of the socket layer.                                       *)
THEOREM Inductive == Spec => []IInv
<1>1. Init => IInv
  BY InitStep
<1>2. IInv /\ [Next]_vars => IInv'
  <2>. SUFFICES ASSUME IInv, [Next]_vars PROVE IInv'
    OBVIOUS
  <2>1. CASE Next
    BY <2>1, NextStep
  <2>2. CASE UNCHANGED vars
    <3>1. UNCHANGED <<sk, app, heap, tcpList, binds>>
      BY <2>2 DEF vars
    <3>2. /\ Typed' /\ Listed' /\ Exclusive' /\ InService'
      BY <3>1 DEF IInv, Typed, Listed, Exclusive, InService, InUse, Free
    <3>3. Listens' /\ NoOrphan'
      BY <3>1 DEF IInv, Listens, NoOrphan, InUse, Free
    <3>4. Behind' /\ Binds'
      BY <3>1 DEF IInv, Behind, Sharing, Binds
    <3>. QED BY <3>2, <3>3, <3>4 DEF IInv
  <2>. QED BY <2>1, <2>2
<1>. QED BY <1>1, <1>2, PTL DEF Spec

(* What malloc() gave is on tcp_list exactly once, and what free() took     *)
(* back is not on it; no two open sockets share a control block.            *)
THEOREM BlocksAreOwned == Spec => []OwnsItsBlock
<1>1. IInv => OwnsItsBlock
  <2>. SUFFICES ASSUME IInv PROVE OwnsItsBlock
    OBVIOUS
  <2>1. tcpList \in Seq(Addr) /\ Distinct(tcpList) /\ ToSet(tcpList) = {a \in Addr : ~Free(a)}
    BY DEF IInv, Typed, Listed
  <2>2. Len(tcpList) = Cardinality(ToSet(tcpList))
    BY <2>1, DistinctCounts
  <2>. QED BY <2>1, <2>2 DEF IInv, Exclusive, OwnsItsBlock
<1>. QED BY <1>1, Inductive, PTL

(* A control block that no open socket has is on its way through the close. *)
THEOREM NoneIsOrphaned == Spec => []NoOrphan
<1>1. IInv => NoOrphan
  BY DEF IInv
<1>. QED BY <1>1, Inductive, PTL

(* Only a connect() that the peer refused loses its control block to        *)
(* tcp_loop() while the socket is open.                                     *)
THEOREM LoopFreesOnlyRefused == Spec => FreesOnlyRefused
<1>. DEFINE Only == \A s \in Sock : ~Dangling(s) /\ Dangling(s)' =>
                      LET t == heap[sk[s].tcp].tcb
                      IN  t.tx # None /\ "SYN" \in t.tx.fl /\ t.state \in {"CLOSED", "SYN_SENT"}
<1>1. IInv /\ [Next]_vars => [Only]_vars
  <2>. SUFFICES ASSUME IInv, Next PROVE Only
    OBVIOUS
  <2>. QED BY NextStep DEF Refused
<1>. QED BY <1>1, Inductive, PTL DEF Spec, FreesOnlyRefused

(* The search of tcp_ip_recv() finds the connection with the sender, and    *)
(* else the control block of the socket that listens.                       *)
LEMMA SearchServes == IInv => DemuxServes
<1>. SUFFICES ASSUME IInv, NEW p \in Peer, NEW port \in Port, PortIsFree(port)
     PROVE  LET Mine == {a \in ToSet(tcpList) : heap[a].port = port /\ heap[a].tcb.dest = p}
                Listeners == {s \in Sock : app[s] = "listening" /\ sk[s].port = port}
            IN  /\ Mine # {} => Demux(p, port) \in Mine
                /\ Mine = {} => \A s \in Sock : Listeners = {s} /\ sk[s].tcp # None
                                                  => Demux(p, port) = sk[s].tcp
  BY DEF DemuxServes
<1>. DEFINE Mine == {a \in ToSet(tcpList) : heap[a].port = port /\ heap[a].tcb.dest = p}
            Listeners == {s \in Sock : app[s] = "listening" /\ sk[s].port = port}
            on == OnPort(port)
            ends == {i \in on : ~heap[tcpList[i]].tcb.passive \/ heap[tcpList[i]].tcb.dest = p}
<1>1. Len(tcpList) \in Nat /\ DOMAIN tcpList = 1 .. Len(tcpList)
  BY DEF IInv, Typed
<1>2. on \in SUBSET (1 .. Len(tcpList)) /\ ends \in SUBSET Nat
  BY <1>1 DEF OnPort
<1>3. \A i \in on : /\ i \in DOMAIN tcpList /\ tcpList[i] \in ToSet(tcpList)
                    /\ heap[tcpList[i]].port = port /\ heap[tcpList[i]].tcb.passive
  BY DEF OnPort, PortIsFree, ToSet
<1>4. \A a \in ToSet(tcpList) : heap[a].port = port => \E i \in on : tcpList[i] = a
  BY DEF OnPort, ToSet
<1>5. on # {} => Demux(p, port) = tcpList[IF ends # {} THEN Min(ends) ELSE Max(on)]
  BY DEF Demux
<1>6. \A i \in ends : i \in on /\ heap[tcpList[i]].tcb.dest = p
  BY <1>3
<1>7. \A i \in on : heap[tcpList[i]].tcb.dest = p => i \in ends
  OBVIOUS
<1>. HIDE DEF on, ends
<1>8. ASSUME Mine # {} PROVE Demux(p, port) \in Mine
  <2>1. PICK a \in ToSet(tcpList) : heap[a].port = port /\ heap[a].tcb.dest = p
    BY <1>8
  <2>2. PICK i \in on : tcpList[i] = a
    BY <1>4, <2>1
  <2>3. i \in ends
    BY <1>7, <2>1, <2>2
  <2>4. Min(ends) \in ends
    BY <1>2, <2>3, MinIs
  <2>5. Demux(p, port) = tcpList[Min(ends)]
    BY <1>5, <2>2, <2>3
  <2>. QED BY <1>3, <1>6, <2>4, <2>5
<1>9. ASSUME Mine = {}, NEW s \in Sock, Listeners = {s}, sk[s].tcp # None
      PROVE  Demux(p, port) = sk[s].tcp
  <2>1. app[s] = "listening" /\ sk[s].port = port
    BY <1>9
  <2>2. PICK a \in Addr : a = sk[s].tcp
    BY <1>9 DEF IInv, Typed
  <2>3. ~Free(a) /\ heap[a].port = port
    BY <1>9, <2>1, <2>2 DEF IInv, Listens
  <2>4. a \in ToSet(tcpList)
    BY <2>3 DEF IInv, Listed
  <2>5. PICK k \in on : tcpList[k] = a
    BY <1>4, <2>3, <2>4
  <2>6. ends = {}
    BY <1>3, <1>6, <1>9
  <2>. DEFINE m == Max(on)
  <2>7. m \in on /\ \A i \in on : i <= m
    BY <1>1, <1>2, <2>5, MaxIs
  <2>8. Demux(p, port) = tcpList[m]
    BY <1>5, <2>5, <2>6
  <2>. HIDE DEF m
  <2>9. k \in Nat /\ m \in Nat /\ k <= m
    BY <1>2, <2>5, <2>7
  <2>10. CASE k < m
    <3>1. Before(tcpList, a, tcpList[m])
      BY <1>3, <2>5, <2>7, <2>10 DEF Before
    <3>2. tcpList[m] \in Addr
      BY <1>3, <2>7 DEF IInv, Listed
    <3>3. Sharing(s)
      BY <1>3, <1>9, <2>1, <2>2, <2>7, <3>1, <3>2 DEF IInv, Behind
    <3>4. PICK r \in Sock : r # s /\ app[r] = "listening" /\ sk[r].port = port
      BY <2>1, <3>3 DEF Sharing
    <3>. QED BY <1>9, <3>4
  <2>. QED BY <2>2, <2>5, <2>8, <2>9, <2>10
<1>. QED BY <1>8, <1>9

(* That holds whatever the sockets do and the peers send.                   *)
THEOREM SearchFindsServer == Spec => []DemuxServes
  BY SearchServes, Inductive, PTL

(* A datagram socket that is bound is the one of its port, and only         *)
(* datagrams for that port wait in its queue.                               *)
THEOREM DatagramsAreServed == Spec => []DatagramsReachTheirSocket
<1>1. IInv => DatagramsReachTheirSocket
  <2>. SUFFICES ASSUME IInv, NEW s \in Sock, app[s] = "bound", sk[s].type = "DGRAM"
       PROVE  /\ FindUdpByAddr(sk[s].port) = {s}
              /\ \A i \in DOMAIN sk[s].rxq : \A j \in DOMAIN sk[s].rxq[i] :
                   sk[s].rxq[i][j] = Dgram[sk[s].port]
    BY DEF DatagramsReachTheirSocket
  <2>. DEFINE b == [port |-> sk[s].port, sock |-> s]
  <2>1. b \in binds /\ sk[s].rxq \in Seq(Seq({Dgram[sk[s].port]}))
    BY DEF IInv, Binds
  <2>2. ASSUME NEW r \in Sock, [port |-> sk[s].port, sock |-> r] \in binds PROVE r = s
    <3>1. [port |-> sk[s].port, sock |-> r] = b
      BY <2>1, <2>2 DEF IInv, Binds
    <3>. QED BY <3>1
  <2>3. FindUdpByAddr(sk[s].port) = {s}
    BY <2>1, <2>2 DEF FindUdpByAddr
  <2>4. ASSUME NEW i \in DOMAIN sk[s].rxq, NEW j \in DOMAIN sk[s].rxq[i]
        PROVE  sk[s].rxq[i][j] = Dgram[sk[s].port]
    <3>. DEFINE D == {Dgram[sk[s].port]}
                q == sk[s].rxq
    <3>1. q \in Seq(Seq(D))
      BY <2>1
    <3>. HIDE DEF D, q
    <3>2. i \in DOMAIN q /\ j \in DOMAIN q[i]
      BY DEF q
    <3>3. q[i] \in Seq(D)
      BY <3>1, <3>2
    <3>4. q[i][j] \in D
      BY <3>2, <3>3
    <3>. QED BY <3>4 DEF D, q
  <2>. QED BY <2>3, <2>4
<1>. QED BY <1>1, Inductive, PTL
-----------------------------------------------------------------------------
\* Whose text waits on a connection.

\* The text that waits is that of the peer, which is known before any is
\* taken, and the number expected next is one of the peer's.
Own(t) ==
  /\ t.rxData \in Seq(Seq({t.dest, Junk}))
  /\ t.state \in {"LISTEN", "SYN_SENT", "SYN_RECEIVED"} => t.rxData = <<>>
  /\ t.state = "SYN_SENT" => t.dest \in Servers
  /\ t.state \in {"SYN_RECEIVED", "ESTABLISHED"} => t.dest \in Peer /\ t.rnxt \in NumbersOf(t.dest)

Owned == \A a \in Addr : Own(heap[a].tcb)

(* A segment carries the bytes of its sender, and numbers of its own.       *)
LEMMA SegmentIsOwn ==
  ASSUME PeersApart, NEW p \in Peer, NEW s \in Segs[p]
  PROVE  /\ TextBlock(s) \in Seq({p, Junk})
         /\ s.seq \in NumbersOf(p) /\ SnAdd(s.seq, 1) \in NumbersOf(p)
         /\ SnAdd(s.seq, Len(TextBlock(s))) \in NumbersOf(p)
<1>1. /\ s.seq \in NumbersOf(p) /\ SnAdd(s.seq, 1) \in NumbersOf(p)
      /\ SnAdd(s.seq, Len(TextBlock(s))) \in NumbersOf(p)
  BY DEF NumbersOf
<1>2. s \in Segment /\ s.data \in Seq({p})
  BY SocketsAssumption DEF PeersApart
<1>. DEFINE n == IF SegLen(s) > Wnd THEN Wnd ELSE SegLen(s)
            D(i) == IF i <= Len(s.data) THEN s.data[i] ELSE Junk
<1>3. Len(s.data) \in Nat /\ \A i \in 1 .. Len(s.data) : s.data[i] = p
  BY <1>2
<1>4. n \in Nat
  <2>1. SegLen(s) \in Nat
    <3>1. One("SYN", s) \in Nat /\ One("FIN", s) \in Nat
      BY DEF One
    <3>. QED BY <1>3, <3>1 DEF SegLen
  <2>. QED BY <2>1, WndAssumption
<1>5. \A i \in 1 .. n : D(i) \in {p, Junk}
  BY <1>3, <1>4
<1>. HIDE DEF n, D
<1>6. [i \in 1 .. n |-> D(i)] \in Seq({p, Junk})
  BY <1>4, <1>5
<1>7. TextBlock(s) = [i \in 1 .. n |-> D(i)]
  BY DEF TextBlock, n, D
<1>. QED BY <1>1, <1>6, <1>7

(* The handlers of tcp_received() take text in sequence only, hence only    *)
(* from the peer.                                                           *)
LEMMA ReceivedOwn ==
  ASSUME PeersApart, NEW t \in Tcb, Own(t), NEW p \in Peer, NEW s \in Segs[p]
  PROVE  Own(Received(t, AllWell, p, s))
<1>. DEFINE r == Received(t, AllWell, p, s)
            b == TextBlock(s)
            next == SnAdd(s.seq, 1)
            after == SnAdd(s.seq, Len(b))
<1>1. s \in Segment /\ ({"SYN", "ACK"} \subseteq s.fl => p \in Servers)
  BY SocketsAssumption
<1>2. Moved(r, t) /\ Took(r, t, p, s)
  BY <1>1, ReceivedMoves
<1>3. /\ b \in Seq({p, Junk}) /\ s.seq \in NumbersOf(p)
      /\ next \in NumbersOf(p) /\ after \in NumbersOf(p)
  BY SegmentIsOwn
<1>4. ASSUME t.state = "ESTABLISHED", s.seq = t.rnxt PROVE p = t.dest
  BY <1>3, <1>4 DEF PeersApart, Own
<1>5. /\ r.state = t.state \/ <<t.state, r.state>> \in Diagram
      /\ r.dest = t.dest \/ (t.state = "LISTEN" /\ r.dest = p)
      /\ t.state = "LISTEN" /\ r.state = "SYN_RECEIVED" => r.dest = p /\ r.rnxt = next
      /\ t.state = "SYN_SENT" /\ r.state = "ESTABLISHED" => {"SYN", "ACK"} \subseteq s.fl /\ r.rnxt = next
      /\ t.state = "SYN_RECEIVED" => r.rnxt = t.rnxt
      /\ t.state = "ESTABLISHED" /\ r.state = "ESTABLISHED" =>
           \/ r.rnxt = t.rnxt
           \/ s.seq = t.rnxt /\ r.rnxt = after
      /\ \/ r.rxData = t.rxData
         \/ t.state = "ESTABLISHED" /\ s.seq = t.rnxt /\ r.rxData = Append(t.rxData, b)
  BY <1>2 DEF Moved, Took
<1>. HIDE DEF r, b, next, after
<1>6. r.rxData \in Seq(Seq({r.dest, Junk}))
  <2>1. CASE r.rxData = t.rxData /\ r.dest = t.dest
    BY <2>1 DEF Own
  <2>2. CASE r.rxData = t.rxData /\ t.state = "LISTEN"
    <3>1. r.rxData = <<>>
      BY <2>2 DEF Own
    <3>2. <<>> \in Seq(Seq({r.dest, Junk}))
      OBVIOUS
    <3>. QED BY <3>1, <3>2
  <2>3. CASE t.state = "ESTABLISHED" /\ s.seq = t.rnxt /\ r.rxData = Append(t.rxData, b)
    <3>1. p = t.dest /\ r.dest = t.dest
      BY <1>4, <1>5, <2>3
    <3>2. t.rxData \in Seq(Seq({r.dest, Junk})) /\ b \in Seq({r.dest, Junk})
      BY <1>3, <3>1 DEF Own
    <3>. QED BY <2>3, <3>2
  <2>. QED BY <1>5, <2>1, <2>2, <2>3
<1>7. ASSUME r.state \in {"LISTEN", "SYN_SENT", "SYN_RECEIVED"} PROVE r.rxData = <<>>
  <2>1. t.state \in {"LISTEN", "SYN_SENT", "SYN_RECEIVED"}
    BY <1>5, <1>7 DEF Diagram
  <2>. QED BY <1>5, <2>1 DEF Own
<1>8. ASSUME r.state = "SYN_SENT" PROVE r.dest \in Servers
  <2>1. t.state = "SYN_SENT"
    BY <1>5, <1>8 DEF Diagram
  <2>. QED BY <1>5, <2>1 DEF Own
<1>9. ASSUME r.state = "SYN_RECEIVED" PROVE r.dest \in Peer /\ r.rnxt \in NumbersOf(r.dest)
  <2>1. t.state \in {"LISTEN", "SYN_RECEIVED"}
    BY <1>5, <1>9 DEF Diagram
  <2>. QED BY <1>3, <1>5, <1>9, <2>1 DEF Own
<1>10. ASSUME r.state = "ESTABLISHED" PROVE r.dest \in Peer /\ r.rnxt \in NumbersOf(r.dest)
  <2>1. t.state \in {"SYN_SENT", "SYN_RECEIVED", "ESTABLISHED"}
    BY <1>5, <1>10 DEF Diagram
  <2>2. CASE t.state = "SYN_SENT"
    <3>1. p \in Servers /\ t.dest \in Servers /\ r.dest = t.dest
      BY <1>1, <1>5, <1>10, <2>2 DEF Own
    <3>2. r.dest = p
      BY <3>1 DEF PeersApart
    <3>. QED BY <1>3, <1>5, <1>10, <2>2, <3>2
  <2>3. CASE t.state = "SYN_RECEIVED"
    BY <1>5, <2>3 DEF Own
  <2>4. CASE t.state = "ESTABLISHED"
    <3>1. r.dest = t.dest /\ t.dest \in Peer /\ t.rnxt \in NumbersOf(t.dest)
      BY <1>5, <2>4 DEF Own
    <3>. QED BY <1>3, <1>4, <1>5, <1>10, <2>4, <3>1
  <2>. QED BY <2>1, <2>2, <2>3, <2>4
<1>. QED BY <1>6, <1>7, <1>8, <1>9, <1>10 DEF Own, r

(* What changes neither the peer nor the text, nor opens anything.          *)
LEMMA SameTextOwn ==
  ASSUME NEW t, Own(t), NEW r, SameText(r, t),
         r.state = t.state \/ r.state \notin {"LISTEN", "SYN_SENT", "SYN_RECEIVED", "ESTABLISHED"}
  PROVE  Own(r)
  BY DEF Own, SameText

(* One control block changes.                                               *)
LEMMA PutOwn ==
  ASSUME Typed, Owned, NEW a \in Addr, NEW r \in Tcb, Own(r), heap' = Put(a, r)
  PROVE  Owned'
<1>. DEFINE u == [r EXCEPT !.out = <<>>]
<1>1. u.state = r.state /\ SameText(u, r)
  BY SentMoves
<1>2. heap' = [heap EXCEPT ![a].tcb = u]
  BY DEF Put
<1>. HIDE DEF u
<1>3. Own(u)
  BY <1>1, SameTextOwn
<1>4. heap \in [Addr -> [tcb: Tcb, port: Port \cup {None}]]
  BY DEF Typed
<1>5. heap'[a].tcb = u /\ \A b \in Addr : b # a => heap'[b].tcb = heap[b].tcb
  BY <1>2, <1>4
<1>. QED BY <1>3, <1>5 DEF Owned

(* One control block is opened.                                             *)
LEMMA OpenOwn ==
  ASSUME Typed, Owned, NEW p, NEW a \in Places(p), NEW t \in Tcb, Own(t), TcpOpen(a, p, t)
  PROVE  Owned'
<1>. DEFINE u == [t EXCEPT !.out = <<>>]
            h == [tcb |-> u, port |-> p]
<1>1. CASE a = None
  BY <1>1 DEF TcpOpen, Owned
<1>2. CASE a # None
  <2>1. a \in Addr /\ heap' = [heap EXCEPT ![a] = h] /\ h.tcb = u
    BY <1>2 DEF Places, TcpOpen
  <2>2. u.state = t.state /\ SameText(u, t)
    BY SentMoves
  <2>. HIDE DEF u, h
  <2>3. Own(u)
    BY <2>2, SameTextOwn
  <2>4. heap'[a].tcb = u /\ \A b \in Addr : b # a => heap'[b].tcb = heap[b].tcb
    BY <2>1 DEF Typed
  <2>. QED BY <2>3, <2>4 DEF Owned
<1>. QED BY <1>1, <1>2

(* A control block that is opened has no text yet.                          *)
LEMMA OpenedIsOwn ==
  /\ OpenPassive(Isn) \in Tcb /\ Own(OpenPassive(Isn)) /\ Own(Nothing.tcb)
  /\ \A dest \in Servers : OpenActive(dest, Isn, AllWell) \in Tcb /\ Own(OpenActive(dest, Isn, AllWell))
<1>1. \A S : <<>> \in Seq(Seq(S))
  OBVIOUS
<1>2. OpenPassive(Isn) \in Tcb /\ Own(OpenPassive(Isn)) /\ Own(Nothing.tcb)
  BY <1>1, NewMoves DEF Own
<1>3. ASSUME NEW dest \in Servers
      PROVE  OpenActive(dest, Isn, AllWell) \in Tcb /\ Own(OpenActive(dest, Isn, AllWell))
  <2>1. AllWell \in Env /\ dest \in Peer /\ Isn \in SeqNo
    BY SocketsAssumption DEF AllWell, Env
  <2>. DEFINE t == OpenActive(dest, Isn, AllWell)
  <2>2. t \in Tcb /\ t.state = "SYN_SENT" /\ t.dest = dest /\ t.rxData = <<>>
    BY <2>1, OpenActiveType
  <2>. HIDE DEF t
  <2>3. Own(t)
    BY <1>1, <2>2 DEF Own
  <2>. QED BY <2>2, <2>3 DEF t
<1>. QED BY <1>2, <1>3

(* Every step leaves each connection with the text of its own peer.         *)
LEMMA NextOwn ==
  ASSUME PeersApart, IInv, Owned, Next PROVE Owned'
<1>1. Typed
  BY DEF IInv
<1>2. CASE UNCHANGED heap
  BY <1>2 DEF Owned
<1>3. ASSUME NEW s \in Sock, Listen(s) PROVE Owned'
  <2>1. PICK a \in Places(sk[s].port) : TcpOpen(a, sk[s].port, OpenPassive(Isn))
    BY <1>3 DEF Listen
  <2>. QED BY <1>1, <2>1, OpenedIsOwn, OpenOwn
<1>4. ASSUME NEW s \in Sock, NEW c \in Sock, Accept(s, c) PROVE Owned'
  <2>1. PICK a \in Places(sk[s].port) : TcpOpen(a, sk[s].port, OpenPassive(Isn))
    BY <1>4 DEF Accept
  <2>. QED BY <1>1, <2>1, OpenedIsOwn, OpenOwn
<1>5. ASSUME NEW s \in Sock, NEW p \in Port, NEW dest \in Servers, Connect(s, p, dest) PROVE Owned'
  <2>1. PICK a \in Places(p) : TcpOpen(a, p, OpenActive(dest, Isn, AllWell))
    BY <1>5 DEF Connect
  <2>. QED BY <1>1, <2>1, OpenedIsOwn, OpenOwn
<1>6. ASSUME NEW s \in Sock, SendTo(s) PROVE Owned'
  <2>. DEFINE a == sk[s].tcp
              t == heap[a].tcb
              r == Send(t, AllWell, Chunk)
  <2>1. heap' = Put(a, r) /\ Status(s) = "ESTABLISHED"
    BY <1>6 DEF SendTo
  <2>2. a \in Addr /\ t \in Tcb /\ t.state = "ESTABLISHED"
    BY <2>1, ServedBlock
  <2>3. r \in Tcb /\ r.state = t.state /\ SameText(r, t)
    BY <2>2, SendMoves
  <2>4. Own(r)
    BY <2>2, <2>3, SameTextOwn DEF Owned
  <2>. QED BY <1>1, <2>1, <2>2, <2>3, <2>4, PutOwn
<1>7. ASSUME NEW s \in Sock, NEW n \in Reads, RecvFrom(s, n), sk[s].type # "DGRAM" PROVE Owned'
  <2>. DEFINE a == sk[s].tcp
              t == heap[a].tcb
              r == Recv(t, n)
  <2>1. heap' = Put(a, r) /\ Status(s) = "ESTABLISHED"
    BY <1>7 DEF RecvFrom
  <2>2. a \in Addr /\ t \in Tcb /\ t.state = "ESTABLISHED" /\ Own(t)
    BY <2>1, ServedBlock DEF Owned
  <2>3. /\ r \in Tcb /\ r.state = t.state /\ r.dest = t.dest /\ r.rnxt = t.rnxt
        /\ \A S : t.rxData \in Seq(Seq(S)) => r.rxData \in Seq(Seq(S))
    BY <2>2, RecvType DEF SameSender
  <2>. HIDE DEF r, t
  <2>4. Own(r)
    BY <2>2, <2>3 DEF Own
  <2>. QED BY <1>1, <2>1, <2>2, <2>3, <2>4, PutOwn
<1>8. ASSUME NEW s \in Sock, CloseSocket(s) PROVE Owned'
  <2>. DEFINE a == sk[s].tcp
              t == heap[a].tcb
              r == Close(t, AllWell)
  <2>1. heap' = Put(a, r) /\ Status(s) \in {"ESTABLISHED", "CLOSE_WAIT"}
    BY <1>8 DEF CloseSocket
  <2>2. a \in Addr /\ t \in Tcb /\ t.state \in {"ESTABLISHED", "CLOSE_WAIT"}
    BY <2>1, ServedBlock
  <2>3. r \in Tcb /\ r.state \in {"FIN_WAIT_1", "LAST_ACK"} /\ SameText(r, t)
    BY <2>2, CloseMoves
  <2>4. Own(r)
    BY <2>2, <2>3, SameTextOwn DEF Owned
  <2>. QED BY <1>1, <2>1, <2>2, <2>3, <2>4, PutOwn
<1>9. ASSUME NEW p \in Peer, NEW port \in Port, NEW s \in Segs[p], SegmentArrives(p, port, s)
      PROVE  Owned'
  <2>. DEFINE a == Demux(p, port)
              t == heap[a].tcb
              r == Received(t, AllWell, p, s)
  <2>1. a # None /\ heap' = Put(a, r)
    BY <1>9 DEF SegmentArrives
  <2>2. a \in Addr
    BY <2>1, DemuxFinds DEF IInv
  <2>. HIDE DEF a
  <2>3. t \in Tcb /\ s \in Segment /\ Own(t)
    BY <1>1, <2>2, SocketsAssumption DEF Typed, Owned
  <2>4. Own(r)
    BY <2>3, ReceivedOwn
  <2>5. r \in Tcb
    BY <2>3, ReceivedMoves DEF Moved
  <2>. QED BY <1>1, <2>1, <2>2, <2>4, <2>5, PutOwn
<1>10. ASSUME NEW expired \in SUBSET {a \in Addr : heap[a].tcb.tmr}, TcpLoop(expired) PROVE Owned'
  <2>1. Looped
    <3>1. expired \in SUBSET Addr
      OBVIOUS
    <3>. QED BY <1>1, <1>10, <3>1, TcpLoopIs
  <2>. SUFFICES ASSUME NEW a \in Addr PROVE Own(heap'[a].tcb)
    BY DEF Owned
  <2>2. CASE Free(a)'
    BY <2>1, <2>2, OpenedIsOwn DEF Looped
  <2>3. CASE ~Free(a)'
    <3>1. heap'[a].tcb.state = heap[a].tcb.state /\ SameText(heap'[a].tcb, heap[a].tcb)
      BY <2>1, <2>3 DEF Looped
    <3>. QED BY <3>1, SameTextOwn DEF Owned
  <2>. QED BY <2>2, <2>3
<1>11. ASSUME NEW s \in Sock, NEW p \in Bound, Bind(s, p) PROVE Owned'
  BY <1>2, <1>11 DEF Bind
<1>12. ASSUME NEW s \in Sock, NEW n \in Reads, RecvFrom(s, n), sk[s].type = "DGRAM" PROVE Owned'
  BY <1>2, <1>12 DEF RecvFrom
<1>13. ASSUME NEW port \in Port, DatagramArrives(port) PROVE Owned'
  BY <1>2, <1>13 DEF DatagramArrives
<1>14. ASSUME NEW s \in Sock, NEW type \in {"STREAM", "DGRAM"}, Socket(s, type) PROVE Owned'
  BY <1>2, <1>14 DEF Socket
<1>. HIDE DEF Owned
<1>. QED
  BY <1>3, <1>4, <1>5, <1>6, <1>7, <1>8, <1>9, <1>10, <1>11, <1>12, <1>13, <1>14 DEF Next

(* Where the numbers of the peers lie apart, no connection ever queues text *)
(* of another peer than its own, whatever order their segments arrive in    *)
(* and however often, and whichever sockets come and go.                    *)
THEOREM StreamsStayApart == ASSUME PeersApart PROVE Spec => []StreamsDoNotMix
<1>1. Init => Owned
  BY OpenedIsOwn DEF Init, Owned
<1>2. IInv /\ Owned /\ [Next]_vars => Owned'
  <2>1. ASSUME UNCHANGED vars, Owned PROVE Owned'
    BY <2>1 DEF vars, Owned
  <2>. QED BY <2>1, NextOwn
<1>3. Owned => StreamsDoNotMix
  <2>. SUFFICES ASSUME Owned, NEW a \in Addr, NEW i \in DOMAIN heap[a].tcb.rxData,
                       NEW j \in DOMAIN heap[a].tcb.rxData[i]
                PROVE  heap[a].tcb.rxData[i][j] \in {heap[a].tcb.dest, Junk}
    BY DEF StreamsDoNotMix
  <2>. DEFINE D == {heap[a].tcb.dest, Junk}
              q == heap[a].tcb.rxData
  <2>1. q \in Seq(Seq(D))
    BY DEF Owned, Own
  <2>. HIDE DEF D, q
  <2>2. i \in DOMAIN q /\ j \in DOMAIN q[i]
    BY DEF q
  <2>3. q[i] \in Seq(D)
    BY <2>1, <2>2
  <2>4. q[i][j] \in D
    BY <2>2, <2>3
  <2>. QED BY <2>4 DEF D, q
<1>. QED BY <1>1, <1>2, <1>3, Inductive, PTL DEF Spec
=============================================================================
