------------------------------- MODULE TcpTcb -------------------------------
(***************************************************************************)
(* One TCP control block (tcp_t of dts_net_tcp.c) and what every event of  *)
(* the module does to it: OPEN, CLOSE, SEND, RECEIVE, TIMEOUT and SEGMENT  *)
(* ARRIVES.  The program is single threaded and each handler runs to its   *)
(* end, so a handler is an operator from a control block to a control      *)
(* block; the segments it hands to IP are appended to the field  out.      *)
(*                                                                         *)
(* A handler also depends on what the rest of the system answers while it  *)
(* runs, the record  e :                                                   *)
(*   e.ip    ip_hl_send() accepts the datagram (it refuses it while the    *)
(*           MAC address of the next hop is not resolved);                 *)
(*   e.seg   mem_alloc_tcp_segment() returns a segment;                    *)
(*   e.blk   dblk_node_new_with_buff() returns a data block.               *)
(*                                                                         *)
(* The flags of tx_seg are read in three handlers when tx_seg is NULL.     *)
(* Whatever that read returns, the function called next finds tx_seg NULL  *)
(* and does nothing: both outcomes are the same step here.                 *)
(***************************************************************************)
EXTENDS SeqNum, SequencesExt

CONSTANTS
  Wnd,    \* rcv.wnd, which tcp_open() sets to 1500 and nothing changes
  Byte,   \* the values of a byte of user data
  Junk,   \* a byte of memory that holds no user data
  Peer,   \* the foreign sockets (address and port)
  None    \* the null pointer; as a destination, the address 0.0.0.0

Flags == {"SYN", "ACK", "FIN", "RST"}

Segment == [seq: SeqNo, ack: SeqNo, fl: SUBSET Flags, data: Seq(Byte)]

ASSUME WndAssumption == Wnd \in Nat /\ 0 < Wnd /\ Wnd < SnMod
ASSUME NoneAssumption == None \notin Segment /\ None \notin Peer
ASSUME JunkAssumption == Junk \notin Byte

States == {"CLOSED", "LISTEN", "SYN_SENT", "SYN_RECEIVED", "ESTABLISHED",
           "FIN_WAIT_1", "FIN_WAIT_2", "CLOSE_WAIT", "LAST_ACK", "TIME_WAIT"}

\* FREE: the memory was given back; the other fields are then meaningless.
Tcb ==
  [state: States \cup {"FREE"}, passive: BOOLEAN, dest: Peer \cup {None},
   una: SeqNo, nxt: SeqNo, iss: SeqNo, rnxt: SeqNo, irs: SeqNo,
   tx: Segment \cup {None},              \* tx_seg, as tcp_pack() packed it
   txData: Seq(Seq(Byte)),               \* blocks tcp_send() queued
   rxData: Seq(Seq(Byte \cup {Junk})),   \* blocks tcp_recv() has to read
   tmr: BOOLEAN,                         \* the timer is running
   out: Seq([to: Peer \cup {None}, seg: Segment])]

Env == [ip: BOOLEAN, seg: BOOLEAN, blk: BOOLEAN]
AllWell == [ip |-> TRUE, seg |-> TRUE, blk |-> TRUE]

Seg(seq, ack, fl, data) == [seq |-> seq, ack |-> ack, fl |-> fl, data |-> data]

\* tcp_segment_length(): what the segment occupies in sequence space.
One(f, s) == IF f \in s.fl THEN 1 ELSE 0
SegLen(s) == One("SYN", s) + Len(s.data) + One("FIN", s)

IsFin(tx) == tx # None /\ "FIN" \in tx.fl

-----------------------------------------------------------------------------
\* Sending.

\* tcp_ip_send()
Emit(t, e, s) ==
  IF e.ip THEN [t EXCEPT !.out = Append(@, [to |-> t.dest, seg |-> s])] ELSE t

\* tcp_send_ctrl_seg(): sent once, never queued for retransmission.
SendCtrl(t, e, seq, ack, fl) ==
  LET s == Seg(seq, ack, fl, <<>>)
  IN  IF e.ip THEN [Emit(t, e, s) EXCEPT !.nxt = SnAdd(@, SegLen(s))] ELSE t

\* Variant: the timer is not restarted.
RetransmitOnce(t, e) == IF t.tx = None THEN t ELSE Emit(t, e, t.tx)

\* tcp_retransmit(): restarts the timer even when there is nothing to send.
Retransmit(t, e) ==
  [(IF t.tx = None THEN t ELSE Emit(t, e, t.tx)) EXCEPT !.tmr = TRUE]

\* tcp_tx_seg_complete()
TxComplete(t) ==
  IF t.tx = None THEN t ELSE [t EXCEPT !.tx = None, !.tmr = FALSE]

\* Variant: the timer is not started with the first transmission.
ConstructDataUntimed(t, e) ==
  LET s == Seg(t.una, t.rnxt, {"ACK"}, Head(t.txData)) IN
  IF t.tx = None /\ t.txData # <<>>
  THEN [Emit(t, e, s) EXCEPT !.tx = s, !.txData = Tail(@),
                             !.nxt = SnAdd(@, SegLen(s))]
  ELSE t

\* tcp_construct_data(): one data segment is outstanding at a time.  The block
\* is lost when no segment can be allocated for it.
ConstructData(t, e) ==
  LET s == Seg(t.una, t.rnxt, {"ACK"}, Head(t.txData)) IN
  IF t.tx # None \/ t.txData = <<>> THEN t
  ELSE IF ~e.seg THEN [t EXCEPT !.txData = Tail(@)]
  ELSE [Emit(t, e, s) EXCEPT !.tx = s, !.txData = Tail(@), !.tmr = TRUE,
                             !.nxt = SnAdd(@, SegLen(s))]

\* Variant: the FIN does not wait for the data before it.
ConstructFinAckEarly(t, e) ==
  IF ~IsFin(t.tx) /\ e.seg
  THEN [t EXCEPT !.tx = Seg(t.una, t.rnxt, {"FIN", "ACK"}, <<>>), !.tmr = TRUE,
                 !.nxt = SnAdd(@, 1)]
  ELSE t

\* tcp_contruct_fin_ack(): the FIN leaves when the timer started here expires.
ConstructFinAck(t, e) ==
  IF t.txData = <<>> /\ t.tx = None /\ e.seg
  THEN [t EXCEPT !.tx = Seg(t.una, t.rnxt, {"FIN", "ACK"}, <<>>), !.tmr = TRUE,
                 !.nxt = SnAdd(@, 1)]
  ELSE t

-----------------------------------------------------------------------------
\* Pieces of the segment arrival handlers.

\* Variants: an ACK of a part completes the segment; so does a repeated ACK;
\* the next block is not sent.
HandleAckOfDataPartial(t, e, s) ==
  IF t.tx # None /\ Sncmp(t.una, LE, s.ack, LE, t.nxt)
  THEN ConstructData(TxComplete([t EXCEPT !.una = s.ack]), e)
  ELSE t
HandleAckOfDataTwice(t, e, s) ==
  IF t.tx # None /\ Sncmp(t.una, LE, s.ack, LE, t.nxt)
  THEN ConstructData(TxComplete([t EXCEPT !.una = t.nxt]), e)
  ELSE t
HandleAckOfDataLast(t, e, s) ==
  IF t.tx # None /\ Sncmp(t.una, LS, s.ack, LE, t.nxt) /\ s.ack = t.nxt
  THEN TxComplete([t EXCEPT !.una = s.ack])
  ELSE t

\* tcp_handle_ack_of_data(): only the ACK of the whole segment counts.
HandleAckOfData(t, e, s) ==
  IF t.tx # None /\ Sncmp(t.una, LS, s.ack, LE, t.nxt) /\ s.ack = t.nxt
  THEN ConstructData(TxComplete([t EXCEPT !.una = s.ack]), e)
  ELSE t

\* The block tcp_handle_data() stores.  Its size is the length in sequence
\* space: for each SYN or FIN it ends with a byte from behind the payload.
TextBlock(s) ==
  [i \in 1 .. (IF SegLen(s) > Wnd THEN Wnd ELSE SegLen(s)) |->
     IF i <= Len(s.data) THEN s.data[i] ELSE Junk]

\* Variant: rcv.nxt is one short.
HandleDataShort(t, e, s) ==
  IF s.seq = t.rnxt /\ SegLen(s) > 0 /\ e.blk
  THEN LET b == TextBlock(s)
           r == [t EXCEPT !.rxData = Append(@, b), !.rnxt = SnAdd(@, Len(b) - 1)]
       IN  IF t.tx # None THEN r ELSE SendCtrl(r, e, r.una, r.rnxt, {"ACK"})
  ELSE t

\* tcp_handle_data().  With a segment outstanding no ACK is sent: the code
\* stores the new number in tx_seg->ack, but tx_seg is never packed again.
HandleData(t, e, s) ==
  IF s.seq = t.rnxt /\ SegLen(s) > 0 /\ e.blk
  THEN LET b == TextBlock(s)
           r == [t EXCEPT !.rxData = Append(@, b), !.rnxt = SnAdd(@, Len(b))]
       IN  IF t.tx # None THEN r ELSE SendCtrl(r, e, r.una, r.rnxt, {"ACK"})
  ELSE t

\* Variant: rcv.nxt is taken from the wrong field.
HandleFinAckSwapped(t, e, s) ==
  IF Sncmp(t.una, LS, s.ack, LE, t.nxt)
  THEN SendCtrl([t EXCEPT !.una = s.ack, !.rnxt = s.ack], e, s.ack, s.ack, {"ACK"})
  ELSE t

\* tcp_handle_fin_ack(): a FIN is acknowledged only when its own ACK is new.
HandleFinAck(t, e, s) ==
  LET next == SnAdd(s.seq, 1) IN
  IF Sncmp(t.una, LS, s.ack, LE, t.nxt)
  THEN SendCtrl([t EXCEPT !.una = s.ack, !.rnxt = next], e, s.ack, next, {"ACK"})
  ELSE t

\* tcp_handle_ack_of_fin_ack(), which leaves snd.una behind.
AcksFin(t, s) == IsFin(t.tx) /\ s.ack = SnAdd(t.tx.seq, 1)

\* process_received_seq(): does the segment start or end in the window?
Acceptable(t, s) ==
  LET InWindow(x) == Sncmp(t.rnxt, LE, x, LS, SnAdd(t.rnxt, Wnd))
  IN  \/ InWindow(s.seq)
      \/ SegLen(s) > 0 /\ InWindow(SnAdd(s.seq, SegLen(s) - 1))

\* Variant: no ACK in reply.
RejectSilently(t, e, s) == t

\* The reply of process_received_seq() to a segment outside the window.
Reject(t, e, s) ==
  IF "RST" \in s.fl THEN t ELSE SendCtrl(t, e, t.nxt, t.rnxt, {"ACK"})

-----------------------------------------------------------------------------
\* SEGMENT ARRIVES, one operator per state; p is the peer that sent s.

\* Variant: the peer of the first handshake is kept.
ReceivedWhenListenKeepsDest(t, e, p, s) ==
  LET n == [t EXCEPT !.rnxt = SnAdd(s.seq, 1), !.irs = s.seq,
                     !.dest = IF @ = None THEN p ELSE @]
      a == SendCtrl(n, e, n.iss, n.rnxt, {"SYN", "ACK"})
  IN  IF s.fl # {"SYN"} THEN t
      ELSE IF e.ip THEN [a EXCEPT !.state = "SYN_RECEIVED"] ELSE a

\* received_when_listen(): the RST for an ACK is no reason to stop, and it is
\* addressed to the peer of the previous handshake, if there was one.
ReceivedWhenListen(t, e, p, s) ==
  LET r == IF "ACK" \in s.fl THEN SendCtrl(t, e, s.ack, 0, {"RST"}) ELSE t
      n == [r EXCEPT !.rnxt = SnAdd(s.seq, 1), !.irs = s.seq, !.dest = p]
      a == SendCtrl(n, e, n.iss, n.rnxt, {"SYN", "ACK"})
  IN  IF "RST" \in s.fl THEN t
      ELSE IF "SYN" \notin s.fl THEN r
      ELSE IF e.ip THEN [a EXCEPT !.state = "SYN_RECEIVED"] ELSE a

\* Variant: an ACK of the SYN is not asked of the SYN,ACK.
ReceivedWhenSynSentAnyAck(t, e, s) ==
  LET n == [t EXCEPT !.rnxt = SnAdd(s.seq, 1), !.irs = s.seq, !.una = s.ack]
  IN  IF "SYN" \in s.fl /\ e.ip
      THEN [TxComplete(SendCtrl(n, e, n.una, n.rnxt, {"ACK"}))
              EXCEPT !.state = "ESTABLISHED"]
      ELSE t

\* received_when_syn_sent().  The last comparison is on the raw numbers.
ReceivedWhenSynSent(t, e, s) ==
  LET n == [t EXCEPT !.rnxt = SnAdd(s.seq, 1), !.irs = s.seq, !.una = s.ack]
      acksSyn    == Sncmp(t.iss, LS, s.ack, LE, t.nxt)
      ackInRange == Sncmp(t.una, LE, s.ack, LE, t.nxt)
  IN  IF "ACK" \notin s.fl THEN t
      ELSE IF ~acksSyn /\ "RST" \notin s.fl THEN SendCtrl(t, e, s.ack, s.seq, {"RST"})
      ELSE IF ~ackInRange THEN t
      ELSE IF "RST" \in s.fl THEN [t EXCEPT !.state = "CLOSED"]
      ELSE IF "SYN" \notin s.fl THEN t
      ELSE IF n.una > n.iss /\ e.ip
      THEN [TxComplete(SendCtrl(n, e, n.una, n.rnxt, {"ACK"})) EXCEPT !.state = "ESTABLISHED"]
      ELSE n

\* Variant: the ACK of the SYN,ACK is taken for a bad one.
ReceivedWhenSynReceivedStrict(t, e, s) ==
  LET a == IF Sncmp(t.una, LE, s.ack, LS, t.nxt)
           THEN [t EXCEPT !.una = s.ack, !.state = "ESTABLISHED"]
           ELSE SendCtrl(t, e, s.ack, 0, {"RST"})
  IN  IF ~Acceptable(t, s) THEN Reject(t, e, s)
      ELSE IF "RST" \in s.fl \/ "ACK" \notin s.fl THEN t
      ELSE a

\* received_when_syn_received(): after a bad ACK the FIN is still looked at;
\* the FIN is not counted and the text is dropped.
ReceivedWhenSynReceived(t, e, s) ==
  LET a == IF Sncmp(t.una, LE, s.ack, LE, t.nxt)
           THEN [t EXCEPT !.una = s.ack, !.state = "ESTABLISHED"]
           ELSE SendCtrl(t, e, s.ack, 0, {"RST"})
  IN  IF ~Acceptable(t, s) THEN Reject(t, e, s)
      ELSE IF "RST" \in s.fl THEN [t EXCEPT !.state = IF t.passive THEN "LISTEN" ELSE "CLOSED"]
      ELSE IF "ACK" \notin s.fl THEN t
      ELSE IF "FIN" \in s.fl THEN [a EXCEPT !.state = "CLOSE_WAIT"] ELSE a

\* Variant: the state changes only when the FIN is acknowledged.
ReceivedWhenEstablishedStays(t, e, s) ==
  LET d == HandleData(HandleAckOfData(t, e, s), e, s) IN
  IF ~Acceptable(t, s) THEN Reject(t, e, s)
  ELSE IF "RST" \in s.fl \/ "ACK" \notin s.fl THEN t
  ELSE IF "FIN" \in s.fl /\ HandleFinAck(d, e, s) # d
  THEN [HandleFinAck(d, e, s) EXCEPT !.state = "CLOSE_WAIT"]
  ELSE d

\* received_when_established(): RST is ignored; a FIN closes the connection
\* wherever it lies in the window.
ReceivedWhenEstablished(t, e, s) ==
  LET a == IF IsFin(t.tx) THEN t ELSE HandleAckOfData(t, e, s)
      d == HandleData(a, e, s)
  IN  IF ~Acceptable(t, s) THEN Reject(t, e, s)
      ELSE IF "RST" \in s.fl \/ "ACK" \notin s.fl THEN t
      ELSE IF "FIN" \in s.fl THEN [HandleFinAck(d, e, s) EXCEPT !.state = "CLOSE_WAIT"]
      ELSE d

\* Variants: the FIN stays queued; the FIN is not built after the data.
AwaitAckOfFinKept(t, e, s, done) ==
  IF "ACK" \in s.fl /\ AcksFin(t, s) THEN [t EXCEPT !.state = done] ELSE t
AwaitAckOfFinIdle(t, e, s, done) ==
  IF "ACK" \in s.fl /\ AcksFin(t, s)
  THEN [TxComplete(t) EXCEPT !.state = done]
  ELSE IF "ACK" \notin s.fl \/ IsFin(t.tx) THEN t ELSE HandleAckOfData(t, e, s)

\* FIN_WAIT_1 and LAST_ACK: ACKs only, any sequence number.  Once the FIN is
\* acknowledged the state is  done ; else the FIN is built when its turn comes.
AwaitAckOfFin(t, e, s, done) ==
  IF "ACK" \in s.fl /\ AcksFin(t, s)
  THEN [TxComplete(t) EXCEPT !.state = done]
  ELSE ConstructFinAck(IF "ACK" \notin s.fl \/ IsFin(t.tx) THEN t
                       ELSE HandleAckOfData(t, e, s), e)

\* received_when_fin_wait_1(), received_when_last_ack()
ReceivedWhenFinWait1(t, e, s) == AwaitAckOfFin(t, e, s, "FIN_WAIT_2")
ReceivedWhenLastAck(t, e, s) == AwaitAckOfFin(t, e, s, "CLOSED")

FinAndAck(s) == {"FIN", "ACK"} \subseteq s.fl

\* received_when_fin_wait_2()
ReceivedWhenFinWait2(t, e, s) ==
  IF FinAndAck(s)
  THEN HandleFinAck([t EXCEPT !.state = "TIME_WAIT", !.tmr = TRUE], e, s)
  ELSE t

\* received_when_time_wait(), received_when_close_wait()
ReceivedWhenFinSeen(t, e, s) == IF FinAndAck(s) THEN HandleFinAck(t, e, s) ELSE t

\* tcp_received(): a control block in CLOSED has no handler.
Received(t, e, p, s) ==
  IF t.state = "LISTEN" THEN ReceivedWhenListen(t, e, p, s)
  ELSE IF t.state = "SYN_SENT" THEN ReceivedWhenSynSent(t, e, s)
  ELSE IF t.state = "SYN_RECEIVED" THEN ReceivedWhenSynReceived(t, e, s)
  ELSE IF t.state = "ESTABLISHED" THEN ReceivedWhenEstablished(t, e, s)
  ELSE IF t.state = "FIN_WAIT_1" THEN ReceivedWhenFinWait1(t, e, s)
  ELSE IF t.state = "LAST_ACK" THEN ReceivedWhenLastAck(t, e, s)
  ELSE IF t.state = "FIN_WAIT_2" THEN ReceivedWhenFinWait2(t, e, s)
  ELSE IF t.state \in {"TIME_WAIT", "CLOSE_WAIT"} THEN ReceivedWhenFinSeen(t, e, s)
  ELSE t

-----------------------------------------------------------------------------
\* The user's calls and the timer.

NewTcb(passive, dest, isn) ==
  [state |-> "CLOSED", passive |-> passive, dest |-> dest,
   una |-> isn, nxt |-> isn, iss |-> isn, rnxt |-> 0, irs |-> 0,
   tx |-> None, txData |-> <<>>, rxData |-> <<>>, tmr |-> FALSE, out |-> <<>>]

\* tcp_open(), open_when_closed().  isn is the clock in seconds.
OpenPassive(isn) == [NewTcb(TRUE, None, isn) EXCEPT !.state = "LISTEN"]
OpenActive(dest, isn, e) ==
  LET syn == Seg(isn, 0, {"SYN"}, <<>>)
      t == [NewTcb(FALSE, dest, isn) EXCEPT !.tx = syn, !.nxt = SnAdd(isn, 1)]
  IN  [Retransmit(t, e) EXCEPT !.state = "SYN_SENT"]

\* tcp_close(): only ESTABLISHED and CLOSE_WAIT have a handler.
Close(t, e) ==
  IF t.state = "ESTABLISHED" THEN [ConstructFinAck(t, e) EXCEPT !.state = "FIN_WAIT_1"]
  ELSE IF t.state = "CLOSE_WAIT" THEN [ConstructFinAck(t, e) EXCEPT !.state = "LAST_ACK"]
  ELSE t

\* tcp_send(): the bytes it accepts, and the control block after it.
SendAccepts(t, e) == t.state = "ESTABLISHED" /\ e.blk
Send(t, e, chunk) ==
  IF t.state = "ESTABLISHED"
  THEN ConstructData(IF e.blk THEN [t EXCEPT !.txData = Append(@, chunk)] ELSE t, e)
  ELSE t

\* Variant: no timeout handler for LAST_ACK.
TimeoutNotLastAck(t, e) ==
  LET r == [t EXCEPT !.tmr = FALSE] IN
  IF t.state \in {"SYN_SENT", "ESTABLISHED", "FIN_WAIT_1"} THEN Retransmit(r, e)
  ELSE IF t.state = "TIME_WAIT" THEN [r EXCEPT !.state = "CLOSED"]
  ELSE r

\* tcp_timeout() after timer_stop(): CLOSE_WAIT has no handler.
Timeout(t, e) ==
  LET r == [t EXCEPT !.tmr = FALSE] IN
  IF t.state \in {"SYN_SENT", "ESTABLISHED", "FIN_WAIT_1", "LAST_ACK"} THEN Retransmit(r, e)
  ELSE IF t.state = "TIME_WAIT" THEN [r EXCEPT !.state = "CLOSED"]
  ELSE r

\* tcp_loop() for one control block; expired: has its running timer expired?
Loop(t, e, expired) ==
  LET r == IF expired THEN Timeout(t, e) ELSE t IN
  IF r.state = "CLOSED" THEN [r EXCEPT !.state = "FREE"] ELSE r

-----------------------------------------------------------------------------
\* tcp_recv() of n bytes, in ESTABLISHED only.

\* How many bytes the first i blocks hold.
Held(b, i) == Len(FlattenSeq(SubSeq(b, 1, i)))

\* What the turn of the loop for block i reads (dblk_read()).
TurnReads(b, n, i) ==
  LET room == n - Held(b, i - 1)
  IN  IF room <= 0 THEN <<>> ELSE SubSeq(b[i], 1, IF Len(b[i]) < room THEN Len(b[i]) ELSE room)

\* What is left of a sequence after its first k elements.
After(q, k) == IF k \in 0 .. Len(q) THEN SubSeq(q, k + 1, Len(q)) ELSE <<>>

\* recv_when_established(): a block leaves the queue when it does not fill the
\* rest of the request; one that fills it exactly stays, with nothing to read.
Recv(t, n) ==
  LET gone == Cardinality({i \in DOMAIN t.rxData : Held(t.rxData, i) < n})
      rest == After(t.rxData, gone)
  IN  IF t.state # "ESTABLISHED" THEN t
      ELSE [t EXCEPT !.rxData =
              IF rest = <<>> THEN rest
              ELSE <<After(Head(rest), n - Held(t.rxData, gone))>> \o Tail(rest)]

\* The value tcp_recv() returns, and the bytes it consumed in stream order.
RecvTakes(t, n) ==
  LET b == FlattenSeq(t.rxData)
  IN  IF t.state # "ESTABLISHED" THEN <<>>
      ELSE SubSeq(b, 1, IF Len(b) < n THEN Len(b) ELSE n)

\* What the caller finds in its buffer: every turn of the loop writes at the
\* start of it, for recv_when_established() never advances  data.
RecvBuffer(t, n) ==
  LET b == t.rxData
      Writers(j) == {i \in DOMAIN b : Len(TurnReads(b, n, i)) >= j}
  IN  [j \in 1 .. Len(RecvTakes(t, n)) |->
         IF Writers(j) = {} THEN Junk ELSE b[CHOOSE i \in Writers(j) :
                                               \A k \in Writers(j) : k <= i][j]]
=============================================================================
