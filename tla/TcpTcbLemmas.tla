---------------------------- MODULE TcpTcbLemmas ----------------------------
(***************************************************************************)
(* What the handlers of TcpTcb return, whoever calls them: the facts that  *)
(* the proofs about an endpoint, a connection and the sockets rest on.     *)
(***************************************************************************)
EXTENDS TcpTcb, SequenceTheorems, FiniteSetTheorems, WellFoundedInduction, TLAPS

\* The fields that say what is outstanding and what happens to it.
SameSender(r, t) ==
  /\ r.state = t.state /\ r.passive = t.passive /\ r.iss = t.iss
  /\ r.tx = t.tx /\ r.txData = t.txData /\ r.tmr = t.tmr

\* The fields that say who the peer is and what has arrived from it.
SameReceiver(r, t) ==
  /\ r.dest = t.dest /\ r.rnxt = t.rnxt /\ r.irs = t.irs /\ r.rxData = t.rxData

\* What was handed to IP.
Outs(t) == ToSet(t.out)

-----------------------------------------------------------------------------
\* Sequence numbers; what every helper of TcpTcb returns, and what it leaves alone.

(* Addition of unsigned words yields an unsigned word.                      *)
LEMMA SnAddType == ASSUME NEW a \in SeqNo, NEW n \in Nat PROVE SnAdd(a, n) \in SeqNo
  BY SnModAssumption DEF SeqNo, SnAdd

(* Adding nothing: an ACK or a RST takes no sequence number.                *)
LEMMA SnAddZero == ASSUME NEW a \in SeqNo PROVE SnAdd(a, 0) = a
  BY SnModAssumption DEF SeqNo, SnAdd

(* Adding one: a SYN or a FIN takes one sequence number.                    *)
LEMMA SnAddOne ==
  ASSUME NEW a \in SeqNo
  PROVE  SnAdd(a, 1) = IF a + 1 = SnMod THEN 0 ELSE a + 1
  BY SnModAssumption DEF SeqNo, SnAdd

(* A number that follows a by one step, and that sncmp() puts behind a, is  *)
(* the only one in the interval.                                            *)
LEMMA SncmpStep ==
  ASSUME NEW a \in SeqNo, NEW x \in SeqNo, Sncmp(a, LS, x, LE, SnAdd(a, 1)), x > a
  PROVE  x = SnAdd(a, 1)
<1>1. SnAdd(a, 1) = IF a + 1 = SnMod THEN 0 ELSE a + 1
  BY SnAddOne
<1>. QED BY <1>1, SnModAssumption DEF SeqNo, Sncmp, Rel, LS, LE

(* What a segment occupies in sequence space is a number.                   *)
LEMMA SegLenType == ASSUME NEW s \in Segment PROVE SegLen(s) \in Nat
<1>1. s.data \in Seq(Byte)
  BY DEF Segment
<1>2. Len(s.data) \in Nat
  BY <1>1, LenProperties
<1>3. \A f : One(f, s) \in Nat
  BY DEF One
<1>. QED BY <1>2, <1>3 DEF SegLen

(* A segment built from typed parts is a segment.                           *)
LEMMA SegType ==
  ASSUME NEW seq \in SeqNo, NEW ack \in SeqNo, NEW fl \in SUBSET Flags,
         NEW data \in Seq(Byte)
  PROVE  /\ Seg(seq, ack, fl, data) \in Segment
         /\ Seg(seq, ack, fl, data) # None
         /\ Seg(seq, ack, fl, data).fl = fl
<1>1. Seg(seq, ack, fl, data) \in Segment
  BY DEF Seg, Segment
<1>. QED BY <1>1, NoneAssumption DEF Seg

(* Zero is a sequence number.                                               *)
LEMMA ZeroType == 0 \in SeqNo
  BY SnModAssumption DEF SeqNo

(* What a sequence holds after an element was appended.                     *)
LEMMA AppendOuts ==
  ASSUME NEW T, NEW q \in Seq(T), NEW x
  PROVE  ToSet(Append(q, x)) = ToSet(q) \cup {x}
<1>1. Len(q) \in Nat /\ DOMAIN q = 1 .. Len(q)
  OBVIOUS
<1>2. /\ DOMAIN Append(q, x) = 1 .. Len(q) + 1
      /\ \A i \in 1 .. Len(q) : Append(q, x)[i] = q[i]
      /\ Append(q, x)[Len(q) + 1] = x
  OBVIOUS
<1>. QED BY <1>1, <1>2 DEF ToSet

(* tcp_ip_send() changes nothing but what it hands to IP.                   *)
LEMMA EmitType ==
  ASSUME NEW t \in Tcb, NEW e \in Env, NEW s \in Segment
  PROVE  /\ Emit(t, e, s) \in Tcb
         /\ SameSender(Emit(t, e, s), t)
         /\ SameReceiver(Emit(t, e, s), t)
         /\ Emit(t, e, s).una = t.una /\ Emit(t, e, s).nxt = t.nxt
         /\ Outs(Emit(t, e, s)) =
              IF e.ip THEN Outs(t) \cup {[to |-> t.dest, seg |-> s]} ELSE Outs(t)
<1>. DEFINE o == Append(t.out, [to |-> t.dest, seg |-> s])
<1>1. o \in Seq([to: Peer \cup {None}, seg: Segment])
  BY DEF Tcb
<1>. HIDE DEF o
<1>2. [t EXCEPT !.out = o] \in Tcb
  BY <1>1 DEF Tcb
<1>3. Emit(t, e, s) \in Tcb
  BY <1>2 DEF Emit, o
<1>4. SameSender(Emit(t, e, s), t)
  BY DEF Emit, Tcb, SameSender
<1>5. /\ Emit(t, e, s).una = t.una /\ Emit(t, e, s).nxt = t.nxt
      /\ SameReceiver(Emit(t, e, s), t)
  BY DEF Emit, Tcb, SameReceiver
<1>6. Emit(t, e, s).out = IF e.ip THEN o ELSE t.out
  BY DEF Emit, Tcb, o
<1>7. ToSet(o) = ToSet(t.out) \cup {[to |-> t.dest, seg |-> s]}
  BY AppendOuts DEF Tcb, o
<1>. QED BY <1>3, <1>4, <1>5, <1>6, <1>7 DEF Outs

(* tcp_send_ctrl_seg() leaves what is queued and outstanding alone.         *)
LEMMA SendCtrlType ==
  ASSUME NEW t \in Tcb, NEW e \in Env, NEW seq \in SeqNo, NEW ack \in SeqNo,
         NEW fl \in SUBSET Flags
  PROVE  /\ SendCtrl(t, e, seq, ack, fl) \in Tcb
         /\ SameSender(SendCtrl(t, e, seq, ack, fl), t)
         /\ SameReceiver(SendCtrl(t, e, seq, ack, fl), t)
         /\ SendCtrl(t, e, seq, ack, fl).una = t.una
         /\ SendCtrl(t, e, seq, ack, fl).nxt =
              IF e.ip THEN SnAdd(t.nxt, SegLen(Seg(seq, ack, fl, <<>>))) ELSE t.nxt
         /\ Outs(SendCtrl(t, e, seq, ack, fl)) =
              IF e.ip THEN Outs(t) \cup {[to |-> t.dest, seg |-> Seg(seq, ack, fl, <<>>)]}
              ELSE Outs(t)
<1>. DEFINE s == Seg(seq, ack, fl, <<>>)
            r == Emit(t, e, s)
            n == SnAdd(r.nxt, SegLen(s))
<1>0. <<>> \in Seq(Byte)
  OBVIOUS
<1>1. s \in Segment
  BY <1>0, SegType
<1>2. /\ r \in Tcb /\ SameSender(r, t) /\ r.una = t.una /\ r.nxt = t.nxt
      /\ SameReceiver(r, t)
      /\ Outs(r) = IF e.ip THEN Outs(t) \cup {[to |-> t.dest, seg |-> s]} ELSE Outs(t)
  BY <1>1, EmitType
<1>3. r.nxt \in SeqNo
  BY <1>2 DEF Tcb
<1>4. n \in SeqNo
  BY <1>1, <1>3, SegLenType, SnAddType
<1>5. SendCtrl(t, e, seq, ack, fl) = IF e.ip THEN [r EXCEPT !.nxt = n] ELSE t
  BY DEF SendCtrl
<1>8. n = SnAdd(t.nxt, SegLen(s))
  BY <1>2
<1>. HIDE DEF r, n, s
<1>6. [r EXCEPT !.nxt = n] \in Tcb
  BY <1>2, <1>4 DEF Tcb
<1>7. /\ SameSender([r EXCEPT !.nxt = n], t) /\ [r EXCEPT !.nxt = n].una = t.una
      /\ SameReceiver([r EXCEPT !.nxt = n], t) /\ [r EXCEPT !.nxt = n].nxt = n
      /\ Outs([r EXCEPT !.nxt = n]) = Outs(r)
  BY <1>2 DEF Tcb, SameSender, SameReceiver, Outs
<1>. QED BY <1>2, <1>5, <1>6, <1>7, <1>8 DEF SameSender, SameReceiver, s

(* An ACK or a RST takes no sequence number.                                *)
LEMMA SendCtrlPlain ==
  ASSUME NEW t \in Tcb, NEW e \in Env, NEW seq \in SeqNo, NEW ack \in SeqNo,
         NEW fl \in SUBSET Flags, "SYN" \notin fl, "FIN" \notin fl
  PROVE  SendCtrl(t, e, seq, ack, fl).nxt = t.nxt
<1>1. SegLen(Seg(seq, ack, fl, <<>>)) = 0
  BY DEF SegLen, Seg, One
<1>2. t.nxt \in SeqNo
  BY DEF Tcb
<1>. QED BY <1>1, <1>2, SendCtrlType, SnAddZero

(* tcp_retransmit() ends with a running timer.                              *)
LEMMA RetransmitType ==
  ASSUME NEW t \in Tcb, NEW e \in Env
  PROVE  /\ Retransmit(t, e) \in Tcb
         /\ SameSender(Retransmit(t, e), [t EXCEPT !.tmr = TRUE])
         /\ SameReceiver(Retransmit(t, e), t)
         /\ Retransmit(t, e).una = t.una /\ Retransmit(t, e).nxt = t.nxt
         /\ Outs(Retransmit(t, e)) =
              IF e.ip /\ t.tx # None THEN Outs(t) \cup {[to |-> t.dest, seg |-> t.tx]} ELSE Outs(t)
<1>. DEFINE r == IF t.tx = None THEN t ELSE Emit(t, e, t.tx)
<1>1. t.tx # None => t.tx \in Segment
  BY DEF Tcb
<1>2. /\ r \in Tcb /\ SameSender(r, t) /\ r.una = t.una /\ r.nxt = t.nxt
      /\ SameReceiver(r, t)
      /\ Outs(r) = IF e.ip /\ t.tx # None
                   THEN Outs(t) \cup {[to |-> t.dest, seg |-> t.tx]} ELSE Outs(t)
  BY <1>1, EmitType DEF SameSender, SameReceiver
<1>3. Retransmit(t, e) = [r EXCEPT !.tmr = TRUE]
  BY DEF Retransmit
<1>. HIDE DEF r
<1>4. [r EXCEPT !.tmr = TRUE] \in Tcb
  BY <1>2 DEF Tcb
<1>5. Outs([r EXCEPT !.tmr = TRUE]) = Outs(r)
  BY <1>2 DEF Tcb, Outs
<1>6. /\ SameSender([r EXCEPT !.tmr = TRUE], [t EXCEPT !.tmr = TRUE])
      /\ SameReceiver([r EXCEPT !.tmr = TRUE], t)
      /\ [r EXCEPT !.tmr = TRUE].una = t.una /\ [r EXCEPT !.tmr = TRUE].nxt = t.nxt
  BY <1>2 DEF Tcb, SameSender, SameReceiver
<1>. QED BY <1>2, <1>3, <1>4, <1>5, <1>6

(* tcp_tx_seg_complete() leaves nothing outstanding.                        *)
LEMMA TxCompleteType ==
  ASSUME NEW t \in Tcb
  PROVE  /\ TxComplete(t) \in Tcb
         /\ TxComplete(t).tx = None
         /\ TxComplete(t).state = t.state /\ TxComplete(t).txData = t.txData
         /\ TxComplete(t).passive = t.passive /\ TxComplete(t).iss = t.iss
         /\ TxComplete(t).una = t.una /\ TxComplete(t).nxt = t.nxt
         /\ SameReceiver(TxComplete(t), t) /\ Outs(TxComplete(t)) = Outs(t)
<1>1. TxComplete(t) \in Tcb
  BY DEF TxComplete, Tcb
<1>. QED BY <1>1 DEF TxComplete, Tcb, SameReceiver, Outs

\* A data segment has just been made out of the first block of the queue.
DataOut(r, t) ==
  /\ r.tx \in Segment /\ r.tx # None /\ r.tx.fl = {"ACK"} /\ r.tmr
  /\ r.tx = Seg(t.una, t.rnxt, {"ACK"}, Head(t.txData)) /\ r.nxt = SnAdd(t.nxt, SegLen(r.tx))
  /\ r.txData = Tail(t.txData)

(* tcp_construct_data() sends the first block, drops it or does nothing.    *)
LEMMA ConstructDataType ==
  ASSUME NEW t \in Tcb, NEW e \in Env
  PROVE  /\ ConstructData(t, e) \in Tcb
         /\ ConstructData(t, e).state = t.state
         /\ ConstructData(t, e).passive = t.passive
         /\ ConstructData(t, e).iss = t.iss /\ ConstructData(t, e).una = t.una
         /\ t.tx # None \/ t.txData = <<>> => ConstructData(t, e) = t
         /\ t.tx = None /\ t.txData # <<>> /\ ~e.seg =>
              /\ SameSender(ConstructData(t, e), [t EXCEPT !.txData = Tail(@)])
              /\ ConstructData(t, e).nxt = t.nxt /\ ConstructData(t, e).tx = None
              /\ ConstructData(t, e).txData = Tail(t.txData)
              /\ Outs(ConstructData(t, e)) = Outs(t)
         /\ SameReceiver(ConstructData(t, e), t)
         /\ t.tx = None /\ t.txData # <<>> /\ e.seg =>
              /\ DataOut(ConstructData(t, e), t)
              /\ Outs(ConstructData(t, e)) =
                   IF e.ip THEN Outs(t) \cup {[to |-> t.dest, seg |-> ConstructData(t, e).tx]}
                   ELSE Outs(t)
<1>. DEFINE s == Seg(t.una, t.rnxt, {"ACK"}, Head(t.txData))
            r == Emit(t, e, s)
            n == SnAdd(r.nxt, SegLen(s))
            q == Tail(t.txData)
            d == [r EXCEPT !.tx = s, !.txData = q, !.tmr = TRUE, !.nxt = n]
<1>1. CASE t.tx # None \/ t.txData = <<>>
  BY <1>1 DEF ConstructData, SameReceiver
<1>2. CASE t.tx = None /\ t.txData # <<>> /\ ~e.seg
  <2>1. ConstructData(t, e) = [t EXCEPT !.txData = q]
    BY <1>2 DEF ConstructData, Tcb
  <2>2. q \in Seq(Seq(Byte))
    BY <1>2 DEF Tcb
  <2>. HIDE DEF q
  <2>3. [t EXCEPT !.txData = q] \in Tcb
    BY <2>2 DEF Tcb
  <2>4. SameSender([t EXCEPT !.txData = q], [t EXCEPT !.txData = Tail(@)])
    BY DEF q, SameSender
  <2>5. [t EXCEPT !.txData = q].txData = Tail(t.txData)
    BY DEF q, Tcb
  <2>6. Outs([t EXCEPT !.txData = q]) = Outs(t)
    BY DEF Outs
  <2>. QED BY <1>2, <2>1, <2>3, <2>4, <2>5, <2>6 DEF Tcb, SameReceiver
<1>3. CASE t.tx = None /\ t.txData # <<>> /\ e.seg
  <2>1. Head(t.txData) \in Seq(Byte) /\ q \in Seq(Seq(Byte))
    BY <1>3 DEF Tcb
  <2>2. t.una \in SeqNo /\ t.rnxt \in SeqNo /\ {"ACK"} \in SUBSET Flags
    BY DEF Tcb, Flags
  <2>3. s \in Segment /\ s # None /\ s.fl = {"ACK"}
    BY <2>1, <2>2, SegType
  <2>4. s = Seg(t.una, t.rnxt, {"ACK"}, Head(t.txData))
    OBVIOUS
  <2>5. /\ r \in Tcb /\ SameSender(r, t) /\ r.una = t.una /\ r.nxt = t.nxt /\ SameReceiver(r, t)
        /\ Outs(r) = IF e.ip THEN Outs(t) \cup {[to |-> t.dest, seg |-> s]} ELSE Outs(t)
    BY <2>3, EmitType
  <2>6. r.nxt \in SeqNo
    BY <2>5 DEF Tcb
  <2>7. n \in SeqNo /\ n = SnAdd(t.nxt, SegLen(s))
    BY <2>3, <2>5, <2>6, SegLenType, SnAddType
  <2>8. ConstructData(t, e) = [r EXCEPT !.tx = s, !.txData = Tail(r.txData), !.tmr = TRUE, !.nxt = n]
    BY <1>3 DEF ConstructData
  <2>9. ConstructData(t, e) = d
    BY <2>5, <2>8 DEF SameSender
  <2>. HIDE DEF r, s, q, n
  <2>10. d \in Tcb
    BY <2>1, <2>3, <2>5, <2>7 DEF Tcb
  <2>11. /\ d.state = t.state /\ d.passive = t.passive /\ d.iss = t.iss /\ d.una = t.una
    BY <2>5 DEF Tcb, SameSender
  <2>12. d.tx = s /\ d.txData = q /\ d.tmr /\ d.nxt = n /\ SameReceiver(d, t) /\ Outs(d) = Outs(r)
    BY <2>5 DEF Tcb, SameReceiver, Outs
  <2>13. DataOut(d, t)
    BY <2>3, <2>4, <2>7, <2>12 DEF DataOut, q
  <2>. QED BY <1>3, <2>5, <2>9, <2>10, <2>11, <2>12, <2>13
<1>. QED BY <1>1, <1>2, <1>3

(* tcp_contruct_fin_ack() queues the FIN when nothing goes before it.       *)
LEMMA ConstructFinAckType ==
  ASSUME NEW t \in Tcb, NEW e \in Env
  PROVE  /\ ConstructFinAck(t, e) \in Tcb
         /\ ConstructFinAck(t, e).state = t.state
         /\ ConstructFinAck(t, e).passive = t.passive
         /\ ConstructFinAck(t, e).iss = t.iss /\ ConstructFinAck(t, e).una = t.una
         /\ ConstructFinAck(t, e).txData = t.txData
         /\ ~(t.txData = <<>> /\ t.tx = None /\ e.seg) => ConstructFinAck(t, e) = t
         /\ t.txData = <<>> /\ t.tx = None /\ e.seg =>
              /\ ConstructFinAck(t, e).tx # None /\ ConstructFinAck(t, e).tmr
              /\ ConstructFinAck(t, e).tx = Seg(t.una, t.rnxt, {"FIN", "ACK"}, <<>>)
              /\ ConstructFinAck(t, e).nxt = SnAdd(t.nxt, 1)
         /\ SameReceiver(ConstructFinAck(t, e), t) /\ Outs(ConstructFinAck(t, e)) = Outs(t)
<1>. DEFINE s == Seg(t.una, t.rnxt, {"FIN", "ACK"}, <<>>)
            n == SnAdd(t.nxt, 1)
            d == [t EXCEPT !.tx = s, !.tmr = TRUE, !.nxt = n]
<1>1. t.una \in SeqNo /\ t.rnxt \in SeqNo /\ {"FIN", "ACK"} \in SUBSET Flags
  BY DEF Tcb, Flags
<1>2. <<>> \in Seq(Byte)
  OBVIOUS
<1>3. s \in Segment /\ s # None
  BY <1>1, <1>2, SegType
<1>4. n \in SeqNo
  BY SnAddType DEF Tcb
<1>5. ConstructFinAck(t, e) = IF t.txData = <<>> /\ t.tx = None /\ e.seg THEN d ELSE t
  BY DEF ConstructFinAck
<1>. HIDE DEF s, n
<1>6. d \in Tcb
  BY <1>3, <1>4 DEF Tcb
<1>7. /\ d.state = t.state /\ d.passive = t.passive /\ d.iss = t.iss
      /\ d.una = t.una /\ d.txData = t.txData /\ d.tx = s /\ d.tmr /\ d.nxt = n
      /\ SameReceiver(d, t) /\ Outs(d) = Outs(t)
  BY DEF Tcb, SameReceiver, Outs
<1>. HIDE DEF d
<1>. QED BY <1>3, <1>5, <1>6, <1>7 DEF s, n, SameReceiver

\* The outstanding segment of t is acknowledged, and the next block is sent.
AckedAll(r, t, e) ==
  /\ t.tx # None /\ r.una = t.nxt
  /\ t.txData = <<>> => /\ r.tx = None /\ r.txData = <<>> /\ r.nxt = t.nxt
                        /\ Outs(r) = Outs(t)
  /\ t.txData # <<>> /\ ~e.seg =>
       r.tx = None /\ r.txData = Tail(t.txData) /\ r.nxt = t.nxt /\ Outs(r) = Outs(t)
  /\ t.txData # <<>> /\ e.seg =>
       /\ r.tx = Seg(t.nxt, t.rnxt, {"ACK"}, Head(t.txData)) /\ r.tx \in Segment
       /\ r.txData = Tail(t.txData) /\ r.nxt = SnAdd(t.nxt, SegLen(r.tx))
       /\ Outs(r) \subseteq Outs(t) \cup {[to |-> t.dest, seg |-> r.tx]}

(* tcp_handle_ack_of_data() completes the outstanding segment and sends the *)
(* next block, or changes nothing.                                          *)
LEMMA HandleAckOfDataType ==
  ASSUME NEW t \in Tcb, NEW e \in Env, NEW s \in Segment
  PROVE  LET r == HandleAckOfData(t, e, s) IN
         /\ r \in Tcb /\ r.state = t.state /\ r.passive = t.passive /\ r.iss = t.iss
         /\ SameReceiver(r, t)
         /\ \/ r = t
            \/ r.tx = None /\ (e.seg => r.txData = <<>>) /\ t.tx # None
            \/ r.tx # None /\ r.tx.fl = {"ACK"} /\ r.tmr /\ t.tx # None
         /\ r = t \/ (s.ack = t.nxt /\ AckedAll(r, t, e))
<1>. DEFINE u == [t EXCEPT !.una = s.ack]
            c == TxComplete(u)
            d == ConstructData(c, e)
            r == HandleAckOfData(t, e, s)
<1>1. s.ack \in SeqNo
  BY DEF Segment
<1>2. u \in Tcb
  BY <1>1 DEF Tcb
<1>3. /\ u.state = t.state /\ u.passive = t.passive /\ u.iss = t.iss /\ SameReceiver(u, t)
      /\ u.una = s.ack /\ u.nxt = t.nxt /\ u.txData = t.txData /\ Outs(u) = Outs(t)
  BY DEF Tcb, SameReceiver, Outs
<1>4. r = t \/ (r = d /\ t.tx # None /\ s.ack = t.nxt)
  BY DEF HandleAckOfData
<1>. HIDE DEF u, r
<1>5. /\ c \in Tcb /\ c.tx = None /\ c.state = t.state /\ c.passive = t.passive /\ c.iss = t.iss
      /\ SameReceiver(c, t) /\ c.una = s.ack /\ c.nxt = t.nxt /\ c.txData = t.txData
      /\ Outs(c) = Outs(t)
  BY <1>2, <1>3, TxCompleteType DEF SameReceiver
<1>. HIDE DEF c
<1>6. /\ d \in Tcb /\ d.state = t.state /\ d.passive = t.passive /\ d.iss = t.iss
      /\ SameReceiver(d, t) /\ d.una = s.ack
  BY <1>5, ConstructDataType DEF SameReceiver
<1>8. t.tx # None /\ s.ack = t.nxt => AckedAll(d, t, e)
  <2>. SUFFICES ASSUME t.tx # None, s.ack = t.nxt PROVE AckedAll(d, t, e)
    OBVIOUS
  <2>1. CASE t.txData = <<>>
    <3>0. c \in Tcb /\ c.txData = <<>>
      BY <1>5, <2>1
    <3>1. d = c
      BY <3>0, ConstructDataType, Zenon
    <3>. HIDE DEF d
    <3>. QED BY <1>5, <2>1, <3>1 DEF AckedAll
  <2>2. CASE t.txData # <<>> /\ e.seg
    <3>1. /\ DataOut(d, c)
          /\ Outs(d) = IF e.ip THEN Outs(c) \cup {[to |-> c.dest, seg |-> d.tx]} ELSE Outs(c)
      BY <1>5, <2>2, ConstructDataType
    <3>. HIDE DEF d
    <3>. QED BY <1>5, <1>6, <2>2, <3>1 DEF AckedAll, DataOut, SameReceiver
  <2>3. CASE t.txData # <<>> /\ ~e.seg
    <3>1. d.nxt = c.nxt /\ d.tx = None /\ d.txData = Tail(c.txData) /\ Outs(d) = Outs(c)
      BY <1>5, <2>3, ConstructDataType
    <3>. HIDE DEF d
    <3>. QED BY <1>5, <1>6, <2>3, <3>1 DEF AckedAll
  <2>. QED BY <2>1, <2>2, <2>3
<1>7. \/ d.tx = None /\ (e.seg => d.txData = <<>>)
      \/ d.tx # None /\ d.tx.fl = {"ACK"} /\ d.tmr
  <2>1. CASE c.txData = <<>>
    BY <2>1, <1>5, ConstructDataType
  <2>2. CASE c.txData # <<>> /\ ~e.seg
    <3>1. SameSender(d, [c EXCEPT !.txData = Tail(@)])
      BY <2>2, <1>5, ConstructDataType
    <3>. QED BY <2>2, <3>1, <1>5 DEF SameSender, Tcb
  <2>3. CASE c.txData # <<>> /\ e.seg
    <3>1. DataOut(d, c)
      BY <2>3, <1>5, ConstructDataType
    <3>. QED BY <3>1 DEF DataOut
  <2>. QED BY <2>1, <2>2, <2>3 DEF Env
<1>. HIDE DEF d
<1>. QED BY <1>4, <1>6, <1>7, <1>8 DEF r, SameReceiver

(* What tcp_handle_data() stores is made of bytes.                          *)
LEMMA TextBlockType ==
  ASSUME NEW s \in Segment
  PROVE  TextBlock(s) \in Seq(Byte \cup {Junk})
<1>. DEFINE k == IF SegLen(s) > Wnd THEN Wnd ELSE SegLen(s)
<1>1. k \in Nat
  BY SegLenType, WndAssumption
<1>2. s.data \in Seq(Byte)
  BY DEF Segment
<1>3. \A i \in 1 .. k : (IF i <= Len(s.data) THEN s.data[i] ELSE Junk) \in Byte \cup {Junk}
  <2>. SUFFICES ASSUME NEW i \in 1 .. k, i <= Len(s.data) PROVE s.data[i] \in Byte
    OBVIOUS
  <2>. QED BY <1>1, <1>2
<1>. HIDE DEF k
<1>4. [i \in 1 .. k |-> IF i <= Len(s.data) THEN s.data[i] ELSE Junk]
        \in [1 .. k -> Byte \cup {Junk}]
  BY <1>3
<1>5. \A f \in [1 .. k -> Byte \cup {Junk}] : f \in Seq(Byte \cup {Junk})
  BY <1>1, IsASeq
<1>. QED BY <1>4, <1>5 DEF TextBlock, k

\* The segment s is the next one: its text is queued, and an ACK may go out.
Stored(r, t, s) ==
  /\ s.seq = t.rnxt /\ SegLen(s) > 0
  /\ r.rxData = Append(t.rxData, TextBlock(s))
  /\ r.rnxt = SnAdd(t.rnxt, Len(TextBlock(s)))
  /\ r.irs = t.irs
  /\ Outs(r) \subseteq Outs(t) \cup {[to |-> t.dest, seg |-> Seg(t.una, r.rnxt, {"ACK"}, <<>>)]}

(* tcp_handle_data() does not touch what is outstanding or queued to send.  *)
LEMMA HandleDataType ==
  ASSUME NEW t \in Tcb, NEW e \in Env, NEW s \in Segment
  PROVE  LET r == HandleData(t, e, s) IN
         /\ r \in Tcb /\ SameSender(r, t) /\ r.una = t.una /\ r.nxt = t.nxt /\ r.dest = t.dest
         /\ r = t \/ Stored(r, t, s)
<1>. DEFINE b == TextBlock(s)
            x == Append(t.rxData, b)
            n == SnAdd(t.rnxt, Len(b))
            r == [t EXCEPT !.rxData = x, !.rnxt = n]
            a == SendCtrl(r, e, r.una, r.rnxt, {"ACK"})
<1>1. b \in Seq(Byte \cup {Junk})
  BY TextBlockType
<1>2. Len(b) \in Nat
  BY <1>1, LenProperties
<1>. HIDE DEF b
<1>3. x \in Seq(Seq(Byte \cup {Junk}))
  BY <1>1 DEF Tcb
<1>4. n \in SeqNo
  BY <1>2, SnAddType DEF Tcb
<1>5. HandleData(t, e, s) = t \/ (HandleData(t, e, s) \in {r, a} /\ s.seq = t.rnxt /\ SegLen(s) > 0)
  BY DEF HandleData, b
<1>. HIDE DEF x, n
<1>6. /\ r \in Tcb /\ SameSender(r, t) /\ r.una = t.una /\ r.nxt = t.nxt /\ r.dest = t.dest
      /\ r.irs = t.irs /\ r.rxData = x /\ r.rnxt = n /\ Outs(r) = Outs(t)
  BY <1>3, <1>4 DEF Tcb, SameSender, Outs
<1>. HIDE DEF r
<1>7. r.una \in SeqNo /\ r.rnxt \in SeqNo /\ {"ACK"} \in SUBSET Flags
  BY <1>6 DEF Tcb, Flags
<1>8. /\ a \in Tcb /\ SameSender(a, r) /\ a.una = r.una /\ a.nxt = r.nxt /\ SameReceiver(a, r)
      /\ Outs(a) \subseteq Outs(r) \cup {[to |-> r.dest, seg |-> Seg(r.una, r.rnxt, {"ACK"}, <<>>)]}
  BY <1>6, <1>7, SendCtrlType, SendCtrlPlain
<1>. HIDE DEF a
<1>9. HandleData(t, e, s) = t \/ Stored(HandleData(t, e, s), t, s)
  BY <1>5, <1>6, <1>8 DEF Stored, SameReceiver, b, x, n
<1>. QED BY <1>5, <1>6, <1>8, <1>9 DEF SameSender, SameReceiver

\* The FIN s is counted, and an ACK may go out.
FinCounted(r, t, s) ==
  /\ Sncmp(t.una, LS, s.ack, LE, t.nxt) /\ r.una = s.ack
  /\ r.rnxt = SnAdd(s.seq, 1) /\ r.irs = t.irs /\ r.rxData = t.rxData
  /\ Outs(r) \subseteq Outs(t) \cup {[to |-> t.dest, seg |-> Seg(s.ack, r.rnxt, {"ACK"}, <<>>)]}

(* Neither does tcp_handle_fin_ack().                                       *)
LEMMA HandleFinAckType ==
  ASSUME NEW t \in Tcb, NEW e \in Env, NEW s \in Segment
  PROVE  LET r == HandleFinAck(t, e, s) IN
         /\ r \in Tcb /\ SameSender(r, t) /\ r.nxt = t.nxt /\ r.dest = t.dest
         /\ r = t \/ FinCounted(r, t, s)
<1>. DEFINE n == SnAdd(s.seq, 1)
            r == [t EXCEPT !.una = s.ack, !.rnxt = n]
            a == SendCtrl(r, e, s.ack, n, {"ACK"})
<1>1. n \in SeqNo /\ s.ack \in SeqNo /\ {"ACK"} \in SUBSET Flags
  BY SnAddType DEF Segment, Flags
<1>2. \/ HandleFinAck(t, e, s) = t
      \/ HandleFinAck(t, e, s) = a /\ Sncmp(t.una, LS, s.ack, LE, t.nxt)
  BY DEF HandleFinAck
<1>. HIDE DEF n
<1>3. /\ r \in Tcb /\ SameSender(r, t) /\ r.nxt = t.nxt /\ r.dest = t.dest /\ r.irs = t.irs
      /\ r.rxData = t.rxData /\ r.una = s.ack /\ r.rnxt = n /\ Outs(r) = Outs(t)
  BY <1>1 DEF Tcb, SameSender, Outs
<1>. HIDE DEF r
<1>4. /\ a \in Tcb /\ SameSender(a, r) /\ a.una = r.una /\ a.nxt = r.nxt /\ SameReceiver(a, r)
      /\ Outs(a) \subseteq Outs(r) \cup {[to |-> r.dest, seg |-> Seg(s.ack, n, {"ACK"}, <<>>)]}
  BY <1>1, <1>3, SendCtrlType, SendCtrlPlain
<1>. HIDE DEF a
<1>5. HandleFinAck(t, e, s) = t \/ FinCounted(HandleFinAck(t, e, s), t, s)
  BY <1>2, <1>3, <1>4 DEF FinCounted, SameReceiver, n
<1>. QED BY <1>2, <1>3, <1>4, <1>5 DEF SameSender, SameReceiver

(* Nor the reply to a segment outside the window.                           *)
LEMMA RejectType ==
  ASSUME NEW t \in Tcb, NEW e \in Env, NEW s \in Segment
  PROVE  LET r == Reject(t, e, s) IN
         /\ r \in Tcb /\ SameSender(r, t) /\ SameReceiver(r, t) /\ r.una = t.una /\ r.nxt = t.nxt
         /\ Outs(r) \subseteq Outs(t) \cup {[to |-> t.dest, seg |-> Seg(t.nxt, t.rnxt, {"ACK"}, <<>>)]}
<1>1. t.nxt \in SeqNo /\ t.rnxt \in SeqNo /\ {"ACK"} \in SUBSET Flags
  BY DEF Tcb, Flags
<1>. DEFINE a == SendCtrl(t, e, t.nxt, t.rnxt, {"ACK"})
<1>2. /\ a \in Tcb /\ SameSender(a, t) /\ SameReceiver(a, t) /\ a.una = t.una /\ a.nxt = t.nxt
      /\ Outs(a) \subseteq Outs(t) \cup {[to |-> t.dest, seg |-> Seg(t.nxt, t.rnxt, {"ACK"}, <<>>)]}
  BY <1>1, SendCtrlType, SendCtrlPlain
<1>3. Reject(t, e, s) \in {t, a}
  BY DEF Reject
<1>. HIDE DEF a
<1>. QED BY <1>2, <1>3 DEF SameSender, SameReceiver

(* Another state for the same control block.                                *)
LEMMA StateType ==
  ASSUME NEW t \in Tcb, NEW st \in States \cup {"FREE"}
  PROVE  /\ [t EXCEPT !.state = st] \in Tcb
         /\ [t EXCEPT !.state = st].state = st
         /\ [t EXCEPT !.state = st].tx = t.tx
         /\ [t EXCEPT !.state = st].txData = t.txData
         /\ [t EXCEPT !.state = st].tmr = t.tmr
  BY DEF Tcb

(* A new control block is one.                                              *)
LEMMA NewTcbType ==
  ASSUME NEW passive \in BOOLEAN, NEW dest \in Peer \cup {None}, NEW isn \in SeqNo,
         NEW st \in States \cup {"FREE"}
  PROVE  [NewTcb(passive, dest, isn) EXCEPT !.state = st] \in Tcb
<1>1. /\ <<>> \in Seq(Seq(Byte)) /\ <<>> \in Seq(Seq(Byte \cup {Junk}))
      /\ <<>> \in Seq([to: Peer \cup {None}, seg: Segment])
  OBVIOUS
<1>2. NewTcb(passive, dest, isn) \in Tcb
  BY <1>1, ZeroType DEF NewTcb, Tcb, States
<1>. QED BY <1>2, StateType

-----------------------------------------------------------------------------
\* What the handlers of the handshake return.

\* Nothing but what was handed to IP has changed.
Unmoved(r, t) ==
  SameSender(r, t) /\ SameReceiver(r, t) /\ r.una = t.una /\ r.nxt = t.nxt

(* tcp_open(), active: the SYN is outstanding.                              *)
LEMMA OpenActiveType ==
  ASSUME NEW dest \in Peer, NEW isn \in SeqNo, NEW e \in Env
  PROVE  LET r == OpenActive(dest, isn, e)
             syn == Seg(isn, 0, {"SYN"}, <<>>)
         IN /\ r \in Tcb /\ r.state = "SYN_SENT" /\ ~r.passive /\ r.iss = isn
            /\ r.tx = syn /\ syn \in Segment /\ r.tx # None /\ r.txData = <<>> /\ r.tmr
            /\ r.una = isn /\ r.nxt = SnAdd(isn, 1)
            /\ r.dest = dest /\ r.rxData = <<>>
            /\ Outs(r) \subseteq {[to |-> dest, seg |-> syn]}
<1>. DEFINE fl == {"SYN"}
            data == <<>>
            syn == Seg(isn, 0, fl, data)
            b == NewTcb(FALSE, dest, isn)
            m == SnAdd(isn, 1)
            t == [b EXCEPT !.tx = syn, !.nxt = m]
            u == Retransmit(t, e)
            r == [u EXCEPT !.state = "SYN_SENT"]
<1>1. m \in SeqNo /\ fl \in SUBSET Flags /\ data \in Seq(Byte)
  BY SnAddType DEF Flags
<1>2. OpenActive(dest, isn, e) = r
  BY DEF OpenActive
<1>. HIDE DEF fl, data, m
<1>3. syn \in Segment /\ syn # None
  BY <1>1, ZeroType, SegType
<1>4. b \in Tcb
  <2>1. /\ <<>> \in Seq(Seq(Byte)) /\ <<>> \in Seq(Seq(Byte \cup {Junk}))
        /\ <<>> \in Seq([to: Peer \cup {None}, seg: Segment])
    OBVIOUS
  <2>. QED BY <2>1, ZeroType DEF NewTcb, Tcb, States
<1>5. /\ ~b.passive /\ b.iss = isn /\ b.una = isn /\ b.dest = dest /\ b.txData = <<>>
      /\ b.rxData = <<>> /\ b.out = <<>>
  BY DEF NewTcb
<1>. HIDE DEF syn, b
<1>6. /\ t \in Tcb /\ t.tx = syn /\ t.nxt = m /\ ~t.passive /\ t.iss = isn /\ t.una = isn
      /\ t.dest = dest /\ t.txData = <<>> /\ t.rxData = <<>> /\ t.out = <<>>
  BY <1>1, <1>3, <1>4, <1>5 DEF Tcb
<1>7. Outs(t) = {}
  BY <1>6 DEF Outs, ToSet
<1>. HIDE DEF t
<1>8. /\ u \in Tcb /\ SameSender(u, [t EXCEPT !.tmr = TRUE]) /\ SameReceiver(u, t)
      /\ u.una = t.una /\ u.nxt = t.nxt
      /\ Outs(u) \subseteq {[to |-> dest, seg |-> syn]}
  BY <1>6, <1>7, RetransmitType
<1>9. /\ u.tx = syn /\ u.tmr /\ ~u.passive /\ u.iss = isn /\ u.txData = <<>>
      /\ u.dest = dest /\ u.rxData = <<>>
  BY <1>6, <1>8 DEF SameSender, SameReceiver, Tcb
<1>. HIDE DEF u
<1>10. /\ r \in Tcb /\ r.state = "SYN_SENT" /\ r.tx = u.tx /\ r.tmr = u.tmr /\ r.passive = u.passive
       /\ r.iss = u.iss /\ r.una = u.una /\ r.nxt = u.nxt /\ r.txData = u.txData
       /\ r.dest = u.dest /\ r.rxData = u.rxData /\ Outs(r) = Outs(u)
  BY <1>8 DEF Tcb, States, Outs
<1>. HIDE DEF r
<1>. QED BY <1>2, <1>3, <1>6, <1>8, <1>9, <1>10 DEF syn, fl, data, m

\* A SYN from p was answered with a SYN,ACK, if IP took it.
SynAnswered(r, t, e, p, s) ==
  /\ "SYN" \in s.fl
  /\ r.dest = p /\ r.irs = s.seq /\ r.rnxt = SnAdd(s.seq, 1)
  /\ r.state = IF e.ip THEN "SYN_RECEIVED" ELSE t.state
  /\ "ACK" \notin s.fl =>
       IF e.ip
       THEN /\ r.nxt = SnAdd(t.nxt, 1)
            /\ Outs(r) = Outs(t) \cup
                 {[to |-> p, seg |-> Seg(t.iss, r.rnxt, {"SYN", "ACK"}, <<>>)]}
       ELSE r.nxt = t.nxt /\ Outs(r) = Outs(t)

(* received_when_listen() answers a SYN, and may send a RST for an ACK.     *)
LEMMA ListenType ==
  ASSUME NEW t \in Tcb, NEW e \in Env, NEW p \in Peer, NEW s \in Segment
  PROVE  LET r == ReceivedWhenListen(t, e, p, s) IN
         /\ r \in Tcb /\ r.passive = t.passive /\ r.iss = t.iss /\ r.tx = t.tx
         /\ r.txData = t.txData /\ r.rxData = t.rxData /\ r.una = t.una
         /\ \/ r = t
            \/ Unmoved(r, t) /\ "ACK" \in s.fl
            \/ SynAnswered(r, t, e, p, s)
<1>. DEFINE fl == {"SYN", "ACK"}
            data == <<>>
            r == IF "ACK" \in s.fl THEN SendCtrl(t, e, s.ack, 0, {"RST"}) ELSE t
            m == SnAdd(s.seq, 1)
            n == [r EXCEPT !.rnxt = m, !.irs = s.seq, !.dest = p]
            a == SendCtrl(n, e, n.iss, n.rnxt, fl)
            q == [a EXCEPT !.state = "SYN_RECEIVED"]
            v == ReceivedWhenListen(t, e, p, s)
<1>1. s.seq \in SeqNo /\ s.ack \in SeqNo /\ m \in SeqNo /\ fl \in SUBSET Flags
  BY SnAddType DEF Segment, Flags
<1>2. r \in Tcb /\ Unmoved(r, t) /\ ("ACK" \notin s.fl => Outs(r) = Outs(t) /\ r = t)
  <2>1. {"RST"} \in SUBSET Flags
    BY DEF Flags
  <2>2. /\ SendCtrl(t, e, s.ack, 0, {"RST"}) \in Tcb
        /\ Unmoved(SendCtrl(t, e, s.ack, 0, {"RST"}), t)
    BY <1>1, <2>1, ZeroType, SendCtrlType, SendCtrlPlain DEF Unmoved
  <2>. QED BY <2>2 DEF Unmoved, SameSender, SameReceiver
<1>3. \/ v = t
      \/ v = r
      \/ v = IF e.ip THEN q ELSE a
  BY DEF ReceivedWhenListen
<1>4. "SYN" \notin s.fl => v \in {t, r}
  BY DEF ReceivedWhenListen
<1>. HIDE DEF v, r, m
<1>5. /\ n \in Tcb /\ SameSender(n, r) /\ n.una = r.una /\ n.nxt = r.nxt /\ n.rxData = r.rxData
      /\ n.rnxt = m /\ n.irs = s.seq /\ n.dest = p /\ Outs(n) = Outs(r)
  BY <1>1, <1>2 DEF Tcb, SameSender, Outs
<1>. HIDE DEF n
<1>6. n.iss \in SeqNo /\ n.rnxt \in SeqNo /\ n.nxt \in SeqNo
  BY <1>5 DEF Tcb
<1>7. SegLen(Seg(n.iss, n.rnxt, fl, data)) = 1
  BY DEF SegLen, Seg, One
<1>. HIDE DEF fl
<1>8. /\ a \in Tcb /\ SameSender(a, n) /\ SameReceiver(a, n) /\ a.una = n.una
      /\ a.nxt = IF e.ip THEN SnAdd(n.nxt, 1) ELSE n.nxt
      /\ Outs(a) = IF e.ip THEN Outs(n) \cup {[to |-> n.dest, seg |-> Seg(n.iss, n.rnxt, fl, data)]}
                   ELSE Outs(n)
  <2>1. a \in Tcb /\ SameSender(a, n) /\ SameReceiver(a, n) /\ a.una = n.una
    BY <1>1, <1>5, <1>6, SendCtrlType
  <2>2. a.nxt = IF e.ip THEN SnAdd(n.nxt, SegLen(Seg(n.iss, n.rnxt, fl, data))) ELSE n.nxt
    BY <1>1, <1>5, <1>6, SendCtrlType
  <2>3. Outs(a) = IF e.ip THEN Outs(n) \cup {[to |-> n.dest, seg |-> Seg(n.iss, n.rnxt, fl, data)]}
                  ELSE Outs(n)
    <3>1. \A seq \in SeqNo, ack \in SeqNo :
            Outs(SendCtrl(n, e, seq, ack, fl)) =
              IF e.ip THEN Outs(n) \cup {[to |-> n.dest, seg |-> Seg(seq, ack, fl, <<>>)]}
              ELSE Outs(n)
      BY <1>1, <1>5, SendCtrlType
    <3>. QED BY <1>6, <3>1, Zenon
  <2>. HIDE DEF a, data
  <2>. QED BY <1>7, <2>1, <2>2, <2>3
<1>. HIDE DEF a, data
<1>9. /\ q \in Tcb /\ q.state = "SYN_RECEIVED" /\ q.passive = a.passive /\ q.iss = a.iss
      /\ q.tx = a.tx /\ q.txData = a.txData /\ SameReceiver(q, a) /\ q.una = a.una
      /\ q.nxt = a.nxt /\ Outs(q) = Outs(a)
  BY <1>8 DEF Tcb, States, SameReceiver, Outs
<1>. HIDE DEF q
<1>10. CASE v = t
  BY <1>10 DEF v
<1>11. CASE v = r
  BY <1>2, <1>11 DEF v, Unmoved, SameSender, SameReceiver
<1>12. CASE "SYN" \in s.fl /\ v = IF e.ip THEN q ELSE a
  <2>1. SameSender(a, t) /\ a.una = t.una /\ a.rxData = t.rxData
    BY <1>2, <1>5, <1>8 DEF Unmoved, SameSender, SameReceiver
  <2>2. a.dest = p /\ a.irs = s.seq /\ a.rnxt = m /\ n.iss = t.iss /\ n.rnxt = a.rnxt
    BY <1>2, <1>5, <1>8 DEF Unmoved, SameSender, SameReceiver
  <2>3. "ACK" \notin s.fl => n.nxt = t.nxt /\ Outs(n) = Outs(t)
    BY <1>2, <1>5 DEF Unmoved
  <2>4. a \in Tcb /\ n.dest = p
    BY <1>5, <1>8
  <2>5. CASE e.ip
    <3>1. v = q
      BY <1>12, <2>5
    <3>2. /\ v \in Tcb /\ v.passive = t.passive /\ v.iss = t.iss /\ v.tx = t.tx
          /\ v.txData = t.txData /\ v.rxData = t.rxData /\ v.una = t.una
      BY <1>9, <2>1, <2>2, <3>1, Zenon DEF SameSender, SameReceiver
    <3>3. v.dest = p /\ v.irs = s.seq /\ v.rnxt = m /\ v.state = "SYN_RECEIVED"
      BY <1>9, <2>1, <2>2, <3>1, Zenon DEF SameSender, SameReceiver
    <3>4. "ACK" \notin s.fl => v.nxt = SnAdd(t.nxt, 1)
      BY <1>8, <1>9, <2>3, <2>5, <3>1, Zenon
    <3>5. "ACK" \notin s.fl =>
            Outs(v) = Outs(t) \cup {[to |-> p, seg |-> Seg(t.iss, v.rnxt, fl, data)]}
      <4>1. Outs(a) = Outs(n) \cup {[to |-> p, seg |-> Seg(t.iss, v.rnxt, fl, data)]}
        BY <1>8, <2>2, <2>4, <2>5, <3>3, Zenon
      <4>. QED BY <1>9, <2>3, <3>1, <4>1, Zenon
    <3>. HIDE DEF v
    <3>6. SynAnswered(v, t, e, p, s)
      BY <1>12, <2>5, <3>3, <3>4, <3>5, Zenon DEF SynAnswered, m, fl, data
    <3>. QED BY <3>2, <3>6 DEF v
  <2>6. CASE ~e.ip
    <3>1. v = a
      BY <1>12, <2>6
    <3>2. /\ v \in Tcb /\ v.passive = t.passive /\ v.iss = t.iss /\ v.tx = t.tx
          /\ v.txData = t.txData /\ v.rxData = t.rxData /\ v.una = t.una
      BY <2>1, <2>4, <3>1, Zenon DEF SameSender
    <3>3. v.dest = p /\ v.irs = s.seq /\ v.rnxt = m /\ v.state = t.state
      BY <2>1, <2>2, <3>1, Zenon DEF SameSender
    <3>4. "ACK" \notin s.fl => v.nxt = t.nxt /\ Outs(v) = Outs(t)
      BY <1>8, <2>3, <2>6, <3>1, Zenon
    <3>. HIDE DEF v
    <3>6. SynAnswered(v, t, e, p, s)
      BY <1>12, <2>6, <3>3, <3>4, Zenon DEF SynAnswered, m
    <3>. QED BY <3>2, <3>6 DEF v
  <2>. QED BY <2>5, <2>6
<1>. QED BY <1>3, <1>4, <1>10, <1>11, <1>12

\* The SYN,ACK s is taken: as that of the peer, and as the answer to our SYN.
SynTaken(r, t, s) ==
  /\ "SYN" \in s.fl /\ "ACK" \in s.fl /\ Sncmp(t.iss, LS, s.ack, LE, t.nxt)
  /\ r.una = s.ack /\ r.irs = s.seq /\ r.rnxt = SnAdd(s.seq, 1)
  /\ \/ r.state = t.state /\ r.tx = t.tx /\ r.tmr = t.tmr /\ Outs(r) = Outs(t)
     \/ /\ r.state = "ESTABLISHED" /\ r.tx = None /\ s.ack > t.iss
        /\ Outs(r) \subseteq
             Outs(t) \cup {[to |-> t.dest, seg |-> Seg(s.ack, r.rnxt, {"ACK"}, <<>>)]}

(* received_when_syn_sent() takes the SYN,ACK, closes on a RST, or sends    *)
(* a RST for an ACK of something else.                                      *)
LEMMA SynSentType ==
  ASSUME NEW t \in Tcb, NEW e \in Env, NEW s \in Segment
  PROVE  LET r == ReceivedWhenSynSent(t, e, s) IN
         /\ r \in Tcb /\ r.passive = t.passive /\ r.iss = t.iss /\ r.dest = t.dest
         /\ r.txData = t.txData /\ r.rxData = t.rxData /\ r.nxt = t.nxt
         /\ \/ r = t
            \/ /\ Unmoved(r, t) /\ "ACK" \in s.fl
               /\ ~Sncmp(t.iss, LS, s.ack, LE, t.nxt)
            \/ r.state = "CLOSED" /\ r.tx = t.tx /\ "RST" \in s.fl
            \/ SynTaken(r, t, s)
<1>. DEFINE m == SnAdd(s.seq, 1)
            n == [t EXCEPT !.rnxt = m, !.irs = s.seq, !.una = s.ack]
            k == SendCtrl(t, e, s.ack, s.seq, {"RST"})
            a == SendCtrl(n, e, n.una, n.rnxt, {"ACK"})
            c == [t EXCEPT !.state = "CLOSED"]
            b == TxComplete(a)
            q == [b EXCEPT !.state = "ESTABLISHED"]
            v == ReceivedWhenSynSent(t, e, s)
            acks == Sncmp(t.iss, LS, s.ack, LE, t.nxt)
<1>1. s.seq \in SeqNo /\ s.ack \in SeqNo /\ m \in SeqNo
  BY SnAddType DEF Segment
<1>2. k \in Tcb /\ Unmoved(k, t)
  <2>1. {"RST"} \in SUBSET Flags
    BY DEF Flags
  <2>. QED BY <1>1, <2>1, SendCtrlType, SendCtrlPlain DEF Unmoved
<1>3. \/ v = t
      \/ v = k /\ "ACK" \in s.fl /\ ~acks
      \/ v = c /\ "RST" \in s.fl
      \/ (v = n \/ (v = q /\ n.una > n.iss)) /\ "ACK" \in s.fl /\ "SYN" \in s.fl /\ acks
  BY DEF ReceivedWhenSynSent
<1>. HIDE DEF v, k, m
<1>4. /\ n \in Tcb /\ SameSender(n, t) /\ n.una = s.ack /\ n.nxt = t.nxt /\ n.rxData = t.rxData
      /\ n.rnxt = m /\ n.irs = s.seq /\ n.dest = t.dest /\ Outs(n) = Outs(t)
  BY <1>1 DEF Tcb, SameSender, Outs
<1>. HIDE DEF n
<1>5. n.una \in SeqNo /\ n.rnxt \in SeqNo /\ {"ACK"} \in SUBSET Flags
  BY <1>4 DEF Tcb, Flags
<1>6. /\ a \in Tcb /\ SameSender(a, n) /\ SameReceiver(a, n) /\ a.una = n.una /\ a.nxt = n.nxt
      /\ Outs(a) \subseteq Outs(n) \cup {[to |-> n.dest, seg |-> Seg(n.una, n.rnxt, {"ACK"}, <<>>)]}
  BY <1>4, <1>5, SendCtrlType, SendCtrlPlain
<1>. HIDE DEF a
<1>7. /\ b \in Tcb /\ b.tx = None /\ b.txData = a.txData /\ b.passive = a.passive
      /\ b.iss = a.iss /\ b.una = a.una /\ b.nxt = a.nxt /\ SameReceiver(b, a)
      /\ Outs(b) = Outs(a)
  BY <1>6, TxCompleteType
<1>. HIDE DEF b
<1>8. /\ q \in Tcb /\ q.state = "ESTABLISHED" /\ q.tx = b.tx /\ q.txData = b.txData
      /\ q.passive = b.passive /\ q.iss = b.iss /\ q.una = b.una /\ q.nxt = b.nxt
      /\ SameReceiver(q, b) /\ Outs(q) = Outs(b)
  BY <1>7 DEF Tcb, States, SameReceiver, Outs
<1>9. /\ c \in Tcb /\ c.state = "CLOSED" /\ c.tx = t.tx /\ c.txData = t.txData /\ c.rxData = t.rxData
      /\ c.passive = t.passive /\ c.iss = t.iss /\ c.nxt = t.nxt /\ c.dest = t.dest
  BY DEF Tcb, States
<1>. HIDE DEF q, c
<1>10. CASE v = t
  BY <1>10 DEF v
<1>11. CASE v = k /\ "ACK" \in s.fl /\ ~acks
  BY <1>2, <1>11, Zenon DEF v, Unmoved, SameSender, SameReceiver
<1>12. CASE v = c /\ "RST" \in s.fl
  BY <1>9, <1>12, Zenon DEF v
<1>13. CASE v = n /\ "ACK" \in s.fl /\ "SYN" \in s.fl /\ acks
  <2>1. SynTaken(n, t, s)
    BY <1>4, <1>13, Zenon DEF SynTaken, SameSender, m
  <2>. QED BY <1>4, <1>13, <2>1, Zenon DEF v, SameSender
<1>14. CASE v = q /\ n.una > n.iss /\ "ACK" \in s.fl /\ "SYN" \in s.fl /\ acks
  <2>1. s.ack > t.iss
    BY <1>4, <1>14, Zenon DEF SameSender
  <2>2. /\ q.una = s.ack /\ q.irs = s.seq /\ q.rnxt = m /\ q.tx = None /\ q.state = "ESTABLISHED"
        /\ q.passive = t.passive /\ q.iss = t.iss /\ q.dest = t.dest
    BY <1>4, <1>6, <1>7, <1>8, Zenon DEF SameSender, SameReceiver
  <2>3. q.txData = t.txData /\ q.rxData = t.rxData /\ q.nxt = t.nxt
    BY <1>4, <1>6, <1>7, <1>8, Zenon DEF SameSender, SameReceiver
  <2>4. Outs(q) \subseteq Outs(t) \cup {[to |-> t.dest, seg |-> Seg(s.ack, q.rnxt, {"ACK"}, <<>>)]}
    BY <1>4, <1>6, <1>7, <1>8, <2>2, Zenon
  <2>5. SynTaken(q, t, s)
    BY <1>14, <2>1, <2>2, <2>4, Zenon DEF SynTaken, m
  <2>. QED BY <1>8, <1>14, <2>2, <2>3, <2>5, Zenon DEF v
<1>. QED BY <1>3, <1>10, <1>11, <1>12, <1>13, <1>14

\* The ACK of the SYN,ACK is taken; a FIN it carries is seen, not counted.
SynAcked(r, t, s) ==
  /\ "ACK" \in s.fl /\ "RST" \notin s.fl /\ Sncmp(t.una, LE, s.ack, LE, t.nxt)
  /\ r.una = s.ack /\ r.state = IF "FIN" \in s.fl THEN "CLOSE_WAIT" ELSE "ESTABLISHED"
  /\ r.nxt = t.nxt /\ SameReceiver(r, t) /\ Outs(r) = Outs(t)

(* received_when_syn_received() waits for the ACK of the SYN,ACK.           *)
LEMMA SynReceivedType ==
  ASSUME NEW t \in Tcb, NEW e \in Env, NEW s \in Segment
  PROVE  LET r == ReceivedWhenSynReceived(t, e, s) IN
         /\ r \in Tcb /\ r.passive = t.passive /\ r.iss = t.iss
         /\ r.tx = t.tx /\ r.txData = t.txData /\ SameReceiver(r, t)
         /\ \/ /\ Unmoved(r, t)
               /\ Outs(r) \subseteq
                    Outs(t) \cup {[to |-> t.dest, seg |-> Seg(t.nxt, t.rnxt, {"ACK"}, <<>>)]}
            \/ /\ r.state = IF t.passive THEN "LISTEN" ELSE "CLOSED"
               /\ "RST" \in s.fl
            \/ /\ r.state \in {t.state, "CLOSE_WAIT"} /\ "ACK" \in s.fl
               /\ ~Sncmp(t.una, LE, s.ack, LE, t.nxt)
            \/ SynAcked(r, t, s)
<1>. DEFINE j == Reject(t, e, s)
            st == IF t.passive THEN "LISTEN" ELSE "CLOSED"
            b == [t EXCEPT !.state = st]
            k == [t EXCEPT !.una = s.ack, !.state = "ESTABLISHED"]
            w == [k EXCEPT !.state = "CLOSE_WAIT"]
            x == SendCtrl(t, e, s.ack, 0, {"RST"})
            y == [x EXCEPT !.state = "CLOSE_WAIT"]
            acks == Sncmp(t.una, LE, s.ack, LE, t.nxt)
            v == ReceivedWhenSynReceived(t, e, s)
<1>1. s.ack \in SeqNo /\ {"RST"} \in SUBSET Flags /\ st \in States \cup {"FREE"}
  BY DEF Segment, Flags, States
<1>2. \/ v \in {t, j}
      \/ v = b /\ "RST" \in s.fl
      \/ v \in {x, y} /\ "ACK" \in s.fl /\ ~acks
      \/ /\ "ACK" \in s.fl /\ "RST" \notin s.fl /\ acks
         /\ v = IF "FIN" \in s.fl THEN w ELSE k
  BY DEF ReceivedWhenSynReceived
<1>3. /\ j \in Tcb /\ Unmoved(j, t)
      /\ Outs(j) \subseteq Outs(t) \cup {[to |-> t.dest, seg |-> Seg(t.nxt, t.rnxt, {"ACK"}, <<>>)]}
  BY RejectType DEF Unmoved
<1>. HIDE DEF v, j, st
<1>4. /\ b \in Tcb /\ b.state = st /\ b.passive = t.passive /\ b.iss = t.iss
      /\ b.tx = t.tx /\ b.txData = t.txData /\ SameReceiver(b, t)
  BY <1>1 DEF Tcb, SameReceiver
<1>5. /\ k \in Tcb /\ k.passive = t.passive /\ k.iss = t.iss /\ k.tx = t.tx /\ k.txData = t.txData
      /\ k.una = s.ack /\ k.state = "ESTABLISHED" /\ k.nxt = t.nxt /\ SameReceiver(k, t)
      /\ Outs(k) = Outs(t)
  BY <1>1 DEF Tcb, States, SameReceiver, Outs
<1>. HIDE DEF k
<1>6. /\ w \in Tcb /\ w.passive = k.passive /\ w.iss = k.iss /\ w.tx = k.tx /\ w.txData = k.txData
      /\ w.una = k.una /\ w.state = "CLOSE_WAIT" /\ w.nxt = k.nxt /\ SameReceiver(w, k)
      /\ Outs(w) = Outs(k)
  BY <1>5 DEF Tcb, States, SameReceiver, Outs
<1>7. x \in Tcb /\ SameSender(x, t) /\ SameReceiver(x, t)
  BY <1>1, ZeroType, SendCtrlType
<1>. HIDE DEF x, w, b
<1>8. /\ y \in Tcb /\ y.state = "CLOSE_WAIT" /\ y.passive = x.passive /\ y.iss = x.iss
      /\ y.tx = x.tx /\ y.txData = x.txData /\ SameReceiver(y, t)
  BY <1>7 DEF Tcb, States, SameReceiver
<1>. HIDE DEF y
<1>9. CASE v = t
  BY <1>9, Zenon DEF v, Unmoved, SameSender, SameReceiver
<1>10. CASE v = j
  BY <1>3, <1>10, Zenon DEF v, Unmoved, SameSender
<1>11. CASE v = b /\ "RST" \in s.fl
  BY <1>4, <1>11, Zenon DEF v, st
<1>12. CASE v \in {x, y} /\ "ACK" \in s.fl /\ ~acks
  <2>1. CASE v = x
    <3>1. v.state \in {t.state, "CLOSE_WAIT"}
      BY <1>7, <2>1 DEF SameSender
    <3>. QED BY <1>7, <1>12, <2>1, <3>1, Zenon DEF v, SameSender
  <2>2. CASE v = y
    <3>1. v.state \in {t.state, "CLOSE_WAIT"}
      BY <1>8, <2>2
    <3>. QED BY <1>7, <1>8, <1>12, <2>2, <3>1, Zenon DEF v, SameSender
  <2>. QED BY <1>12, <2>1, <2>2
<1>13. CASE /\ "ACK" \in s.fl /\ "RST" \notin s.fl /\ acks
            /\ v = IF "FIN" \in s.fl THEN w ELSE k
  <2>1. CASE "FIN" \in s.fl
    <3>1. v = w
      BY <1>13, <2>1
    <3>2. /\ v \in Tcb /\ v.passive = t.passive /\ v.iss = t.iss /\ v.tx = t.tx
          /\ v.txData = t.txData /\ SameReceiver(v, t)
      BY <1>5, <1>6, <3>1, Zenon DEF SameReceiver
    <3>3. SynAcked(v, t, s)
      BY <1>5, <1>6, <1>13, <2>1, <3>1, Zenon DEF SynAcked, SameReceiver
    <3>. QED BY <3>2, <3>3 DEF v
  <2>2. CASE "FIN" \notin s.fl
    <3>1. v = k
      BY <1>13, <2>2
    <3>2. SynAcked(v, t, s)
      BY <1>5, <1>13, <2>2, <3>1, Zenon DEF SynAcked
    <3>. QED BY <1>5, <3>1, <3>2, Zenon DEF v
  <2>. QED BY <2>1, <2>2
<1>. QED BY <1>2, <1>9, <1>10, <1>11, <1>12, <1>13

(* What is left of a sequence has elements of the same kind.                *)
LEMMA AfterType ==
  ASSUME NEW T, NEW q \in Seq(T), NEW k
  PROVE  After(q, k) \in Seq(T)
<1>1. CASE k \in 0 .. Len(q)
  <2>1. Len(q) \in Nat
    BY LenProperties
  <2>2. /\ k + 1 \in 1 .. Len(q) + 1 /\ Len(q) \in k .. Len(q)
        /\ \A i \in k + 1 .. Len(q) : q[i] \in T
    BY <1>1, <2>1
  <2>3. SubSeq(q, k + 1, Len(q)) \in Seq(T)
    BY <1>1, <2>1, <2>2, SubSeqProperties
  <2>. QED BY <1>1, <2>3 DEF After
<1>2. CASE k \notin 0 .. Len(q)
  BY <1>2 DEF After
<1>. QED BY <1>1, <1>2

\* What recv_when_established() leaves of the blocks q when it has read  gone
\* of them whole and m bytes of the next.
Unread(q, gone, m) ==
  IF After(q, gone) = <<>> THEN After(q, gone)
  ELSE <<After(Head(After(q, gone)), m)>> \o Tail(After(q, gone))

(* They are blocks of the same bytes.                                       *)
LEMMA UnreadType ==
  ASSUME NEW S, NEW q \in Seq(Seq(S)), NEW gone, NEW m
  PROVE  Unread(q, gone, m) \in Seq(Seq(S))
<1>. DEFINE rest == After(q, gone)
            first == After(Head(rest), m)
<1>1. rest \in Seq(Seq(S))
  BY AfterType
<1>. HIDE DEF rest
<1>2. CASE rest = <<>>
  BY <1>1, <1>2 DEF Unread, rest
<1>3. CASE rest # <<>>
  <2>1. Head(rest) \in Seq(S) /\ Tail(rest) \in Seq(Seq(S))
    BY <1>1, <1>3
  <2>2. first \in Seq(S)
    BY <2>1, AfterType
  <2>3. Unread(q, gone, m) = <<first>> \o Tail(rest)
    BY <1>3 DEF Unread, rest
  <2>. HIDE DEF first
  <2>4. <<first>> \in Seq(Seq(S))
    BY <2>2
  <2>. QED BY <2>1, <2>3, <2>4, ConcatProperties
<1>. QED BY <1>2, <1>3

(* recv_when_established() only takes bytes from the queue.                 *)
LEMMA RecvType ==
  ASSUME NEW t \in Tcb, NEW n
  PROVE  LET r == Recv(t, n) IN
         /\ r \in Tcb /\ SameSender(r, t) /\ r.una = t.una /\ r.nxt = t.nxt
         /\ r.dest = t.dest /\ r.rnxt = t.rnxt /\ r.irs = t.irs /\ Outs(r) = Outs(t)
         /\ \A S : t.rxData \in Seq(Seq(S)) => r.rxData \in Seq(Seq(S))
<1>. DEFINE gone == Cardinality({i \in DOMAIN t.rxData : Held(t.rxData, i) < n})
            left == Unread(t.rxData, gone, n - Held(t.rxData, gone))
            r == [t EXCEPT !.rxData = left]
<1>1. t.rxData \in Seq(Seq(Byte \cup {Junk}))
  BY DEF Tcb
<1>2. ASSUME NEW S, t.rxData \in Seq(Seq(S)) PROVE left \in Seq(Seq(S))
  BY <1>2, UnreadType
<1>3. Recv(t, n) \in {t, r}
  BY DEF Recv, Unread
<1>. HIDE DEF gone, left
<1>4. /\ r \in Tcb /\ SameSender(r, t) /\ r.una = t.una /\ r.nxt = t.nxt
      /\ r.dest = t.dest /\ r.rnxt = t.rnxt /\ r.irs = t.irs /\ Outs(r) = Outs(t)
      /\ r.rxData = left
  BY <1>1, <1>2 DEF Tcb, SameSender, Outs
<1>. HIDE DEF r
<1>5. \A S : t.rxData \in Seq(Seq(S)) => r.rxData \in Seq(Seq(S))
  BY <1>2, <1>4
<1>. QED BY <1>3, <1>4, <1>5 DEF SameSender

-----------------------------------------------------------------------------
\* The bytes of a queue of blocks: FlattenSeq() of SequencesExt is defined by
\* recursion, and what it returns for every queue is proved here once.

(* A set of numbers has a member that is 0 or whose predecessor is not in   *)
(* it. The lemmas below look with it at the first element at which          *)
(* something would go wrong.                                                *)
LEMMA Least ==
  ASSUME NEW S \in SUBSET Nat, S # {}
  PROVE  \E k \in S : k = 0 \/ k - 1 \notin S
<1>. DEFINE R == {p \in Nat \X Nat : p[1] < p[2]}
<1>1. \A x, y \in Nat : x < y => <<x, y>> \in R
  OBVIOUS
<1>2. IsWellFoundedOn(R, Nat)
  BY NatLessThanWellFounded DEF OpToRel
<1>. HIDE DEF R
<1>3. PICK x \in S : \A y \in S : <<y, x>> \notin R
  BY <1>2, WFMin
<1>4. x = 0 \/ (x - 1 \in Nat /\ x - 1 < x)
  OBVIOUS
<1>. QED BY <1>1, <1>3, <1>4

\* f[i] is the concatenation of the first i elements of q.
Unrolls(f, q, n) == f = [i \in 1 .. n |-> IF i = 1 THEN q[i] ELSE f[i - 1] \o q[i]]

(* There is such a function for every sequence and every length.            *)
LEMMA UnrollsExists ==
  ASSUME NEW q, NEW n \in Nat
  PROVE  \E f : Unrolls(f, q, n)
<1>. DEFINE S == {k \in Nat : ~ \E f : Unrolls(f, q, k)}
<1>1. ASSUME S # {} PROVE FALSE
  <2>1. PICK k \in S : k = 0 \/ k - 1 \notin S
    BY <1>1, Least
  <2>. DEFINE e == [i \in 1 .. 0 |-> 0]
  <2>2. Unrolls(e, q, 0)
    BY DEF Unrolls
  <2>. HIDE DEF e
  <2>3. k # 0 /\ k - 1 \in Nat /\ k - 1 \notin S
    BY <2>1, <2>2
  <2>4. PICK f : Unrolls(f, q, k - 1)
    BY <2>3
  <2>. DEFINE g == [i \in 1 .. k |-> IF i = k THEN (IF k = 1 THEN q[k] ELSE f[k - 1] \o q[k]) ELSE f[i]]
  <2>5. ASSUME NEW i \in 1 .. k PROVE g[i] = IF i = 1 THEN q[i] ELSE g[i - 1] \o q[i]
    <3>1. CASE i = k
      <4>1. i # 1 => i - 1 \in 1 .. k /\ i - 1 # k
        BY <2>3, <3>1
      <4>2. i # 1 => g[i - 1] = f[k - 1]
        BY <3>1, <4>1
      <4>. QED BY <3>1, <4>2
    <3>2. CASE i # k
      <4>1. i \in 1 .. k - 1 /\ (i # 1 => i - 1 \in 1 .. k - 1)
        BY <2>3, <3>2
      <4>2. f[i] = IF i = 1 THEN q[i] ELSE f[i - 1] \o q[i]
        BY <2>4, <4>1 DEF Unrolls
      <4>3. i # 1 => i - 1 \in 1 .. k /\ i - 1 # k
        BY <2>3, <4>1
      <4>. QED BY <3>2, <4>2, <4>3
    <3>. QED BY <3>1, <3>2
  <2>6. g = [i \in 1 .. k |-> g[i]]
    OBVIOUS
  <2>. HIDE DEF g
  <2>7. [i \in 1 .. k |-> g[i]] = [i \in 1 .. k |-> IF i = 1 THEN q[i] ELSE g[i - 1] \o q[i]]
    BY <2>5
  <2>8. Unrolls(g, q, k)
    BY <2>6, <2>7, Zenon DEF Unrolls
  <2>. QED BY <2>1, <2>8
<1>. QED BY <1>1

(* FlattenSeq() returns the last of those concatenations.                   *)
LEMMA FlattenIs ==
  ASSUME NEW S, NEW q \in Seq(Seq(S)), q # <<>>
  PROVE  \E f : Unrolls(f, q, Len(q)) /\ FlattenSeq(q) = f[Len(q)]
<1>1. Len(q) # 0 /\ Len(q) \in Nat
  OBVIOUS
<1>2. FlattenSeq(q) = (CHOOSE g : Unrolls(g, q, Len(q)))[Len(q)]
  BY <1>1 DEF FlattenSeq, Unrolls
<1>. QED BY <1>1, <1>2, UnrollsExists

(* The first concatenation is the first element.                            *)
LEMMA UnrollsFirst ==
  ASSUME NEW q, NEW n \in Nat, n # 0, NEW f, Unrolls(f, q, n)
  PROVE  f[1] = q[1]
<1>1. 1 \in 1 .. n
  OBVIOUS
<1>. QED BY <1>1 DEF Unrolls

(* Each of the others is one element longer than the one before it.         *)
LEMMA UnrollsNext ==
  ASSUME NEW q, NEW n \in Nat, NEW f, Unrolls(f, q, n), NEW i \in 1 .. n, i # 1
  PROVE  f[i] = f[i - 1] \o q[i] /\ i - 1 \in 1 .. n
<1>1. f[i] = IF i = 1 THEN q[i] ELSE f[i - 1] \o q[i]
  BY DEF Unrolls
<1>2. i - 1 \in 1 .. n
  OBVIOUS
<1>. QED BY <1>1, <1>2, Zenon

(* Every concatenation is a sequence of what the elements are made of.      *)
LEMMA UnrollsType ==
  ASSUME NEW S, NEW n \in Nat, NEW q, \A i \in 1 .. n : q[i] \in Seq(S), NEW f, Unrolls(f, q, n)
  PROVE  \A i \in 1 .. n : f[i] \in Seq(S)
<1>. DEFINE Bad == {k \in 1 .. n : f[k] \notin Seq(S)}
<1>1. Bad \in SUBSET Nat
  OBVIOUS
<1>2. ASSUME Bad # {} PROVE FALSE
  <2>1. PICK k \in Bad : k = 0 \/ k - 1 \notin Bad
    BY <1>1, <1>2, Least
  <2>2. k \in 1 .. n /\ f[k] \notin Seq(S) /\ n # 0
    BY <2>1
  <2>3. q[k] \in Seq(S)
    BY <2>2
  <2>4. CASE k = 1
    <3>2. f[1] = q[1]
      BY <2>2, UnrollsFirst
    <3>. QED BY <2>2, <2>3, <2>4, <3>2
  <2>5. CASE k # 1
    <3>1. f[k] = f[k - 1] \o q[k] /\ k - 1 \in 1 .. n
      BY <2>2, <2>5, UnrollsNext
    <3>2. f[k - 1] \in Seq(S)
      BY <2>1, <2>2, <3>1
    <3>. QED BY <2>2, <2>3, <3>1, <3>2
  <2>. QED BY <2>4, <2>5
<1>. QED BY <1>2

(* The blocks of a queue, read one after the other, hold nothing but what   *)
(* the blocks hold.                                                         *)
LEMMA FlattenType ==
  ASSUME NEW S, NEW q \in Seq(Seq(S))
  PROVE  FlattenSeq(q) \in Seq(S)
<1>1. CASE q = <<>>
  <2>1. Len(q) = 0
    BY <1>1
  <2>2. FlattenSeq(q) = <<>>
    BY <1>1, <2>1 DEF FlattenSeq
  <2>. QED BY <2>2
<1>2. CASE q # <<>>
  <2>1. PICK f : Unrolls(f, q, Len(q)) /\ FlattenSeq(q) = f[Len(q)]
    BY <1>2, FlattenIs
  <2>2. Len(q) \in 1 .. Len(q)
    BY <1>2
  <2>3. Len(q) \in Nat /\ \A i \in 1 .. Len(q) : q[i] \in Seq(S)
    OBVIOUS
  <2>. QED BY <2>1, <2>2, <2>3, UnrollsType
<1>. QED BY <1>1, <1>2

(* A block put at the end of a queue is read last.                          *)
LEMMA FlattenAppend ==
  ASSUME NEW S, NEW q \in Seq(Seq(S)), NEW b \in Seq(S)
  PROVE  FlattenSeq(Append(q, b)) = FlattenSeq(q) \o b
<1>. DEFINE w == Append(q, b)
            n == Len(q)
<1>1. /\ w \in Seq(Seq(S)) /\ Len(w) = n + 1 /\ n \in Nat /\ w[n + 1] = b
      /\ \A i \in 1 .. n : q[i] = w[i]
      /\ w # <<>>
  <2>1. n \in Nat /\ w \in Seq(Seq(S)) /\ Len(w) = n + 1
    OBVIOUS
  <2>2. w[n + 1] = b /\ \A i \in 1 .. n : q[i] = w[i]
    OBVIOUS
  <2>. HIDE DEF w, n
  <2>3. w # <<>>
    BY <2>1
  <2>. QED BY <2>1, <2>2, <2>3
<1>2. PICK f : Unrolls(f, w, Len(w)) /\ FlattenSeq(w) = f[Len(w)]
  BY <1>1, FlattenIs
<1>. HIDE DEF w, n
<1>3. n + 1 \in 1 .. Len(w) /\ Len(w) \in Nat /\ n + 1 - 1 = n
  BY <1>1
<1>4. CASE q = <<>>
  <2>1. n = 0 /\ FlattenSeq(q) = <<>>
    <3>1. n = 0
      BY <1>4 DEF n
    <3>. QED BY <1>4, <3>1 DEF FlattenSeq, n
  <2>2. Len(w) \in 1 .. Len(w) /\ Len(w) = 1
    BY <1>1, <2>1
  <2>3. f[1] = w[1]
    <3>1. Len(w) # 0
      BY <2>2
    <3>. QED BY <1>2, <1>3, <3>1, UnrollsFirst
  <2>4. FlattenSeq(w) = b
    BY <1>1, <1>2, <2>1, <2>2, <2>3
  <2>5. <<>> \o b = b
    OBVIOUS
  <2>. QED BY <2>1, <2>4, <2>5 DEF w
<1>5. CASE q # <<>>
  <2>1. PICK g : Unrolls(g, q, n) /\ FlattenSeq(q) = g[n]
    BY <1>5, FlattenIs DEF n
  <2>2. n \in 1 .. n /\ n \in 0 .. n /\ n # 0
    BY <1>1, <1>5 DEF n
  <2>3. f[n + 1] = f[n] \o b
    <3>1. PICK l \in Nat : l = Len(w) /\ l = n + 1
      BY <1>1, <1>3
    <3>2. l \in 1 .. l /\ l # 1 /\ l - 1 = n
      BY <1>1, <2>2, <3>1
    <3>3. Unrolls(f, w, l) /\ w[l] = b
      BY <1>1, <1>2, <3>1
    <3>4. f[l] = f[l - 1] \o w[l]
      <4>1. f[l] = IF l = 1 THEN w[l] ELSE f[l - 1] \o w[l]
        BY <3>2, <3>3 DEF Unrolls
      <4>. QED BY <3>2, <4>1, Zenon
    <3>. QED BY <3>1, <3>2, <3>3, <3>4, Zenon
  <2>4. g[n] = f[n]
    <3>. DEFINE Bad == {i \in 1 .. n : g[i] # f[i]}
    <3>1. Bad \in SUBSET Nat
      OBVIOUS
    <3>2. ASSUME Bad # {} PROVE FALSE
      <4>1. PICK i \in Bad : i = 0 \/ i - 1 \notin Bad
        BY <3>1, <3>2, Least
      <4>2. i \in 1 .. n /\ i \in 1 .. Len(w) /\ g[i] # f[i]
        <5>1. i \in 1 .. n /\ g[i] # f[i]
          BY <4>1
        <5>. QED BY <1>1, <5>1
      <4>3. q[i] = w[i]
        BY <1>1, <4>2
      <4>4. g[i] = IF i = 1 THEN q[i] ELSE g[i - 1] \o q[i]
        BY <2>1, <4>2 DEF Unrolls
      <4>5. f[i] = IF i = 1 THEN w[i] ELSE f[i - 1] \o w[i]
        BY <1>2, <4>2 DEF Unrolls
      <4>6. CASE i = 1
        BY <4>2, <4>3, <4>4, <4>5, <4>6
      <4>7. CASE i # 1
        <5>1. i - 1 \in 1 .. n
          <6>1. n \in Nat /\ i \in 1 .. n
            BY <1>1, <4>2
          <6>. QED BY <4>7, <6>1
        <5>2. g[i - 1] = f[i - 1]
          BY <4>1, <4>2, <5>1
        <5>. QED BY <4>2, <4>3, <4>4, <4>5, <4>7, <5>2
      <4>. QED BY <4>6, <4>7
    <3>3. Bad = {}
      BY <3>2
    <3>. QED BY <2>2, <3>3
  <2>. QED BY <1>1, <1>2, <2>1, <2>3, <2>4 DEF w
<1>. QED BY <1>4, <1>5

(* No blocks, no bytes; one block, its bytes.                               *)
LEMMA FlattenNone == FlattenSeq(<<>>) = <<>>
<1>1. Len(<<>>) = 0
  OBVIOUS
<1>. QED BY <1>1 DEF FlattenSeq

(* A queue of one block is read as that block.                              *)
LEMMA FlattenOne == ASSUME NEW S, NEW b \in Seq(S) PROVE FlattenSeq(<<b>>) = b
<1>. DEFINE none == <<>>
<1>1. none \in Seq(Seq(S)) /\ <<b>> = Append(none, b) /\ FlattenSeq(none) = <<>>
  BY FlattenNone
<1>. HIDE DEF none
<1>2. FlattenSeq(Append(none, b)) = FlattenSeq(none) \o b
  BY <1>1, FlattenAppend
<1>3. <<>> \o b = b
  OBVIOUS
<1>. QED BY <1>1, <1>2, <1>3

\* Three sequences are joined in any order: named, for the proofs that have many at hand.
Joins(u, v, w) == (u \o v) \o w = u \o (v \o w)

(* They always are.                                                         *)
LEMMA JoinAssociative ==
  ASSUME NEW S, NEW u \in Seq(S), NEW v \in Seq(S), NEW w \in Seq(S)
  PROVE  Joins(u, v, w)
  BY ConcatAssociative DEF Joins

(* Two queues, one behind the other, are read one after the other.          *)
LEMMA FlattenConcat ==
  ASSUME NEW S, NEW p \in Seq(Seq(S)), NEW q \in Seq(Seq(S))
  PROVE  FlattenSeq(p \o q) = FlattenSeq(p) \o FlattenSeq(q)
<1>. DEFINE L == Len(q)
            First(k) == SubSeq(q, 1, k)
            Bad == {k \in 0 .. L : FlattenSeq(p \o First(k)) # FlattenSeq(p) \o FlattenSeq(First(k))}
<1>1. L \in Nat /\ First(L) = q /\ FlattenSeq(p) \in Seq(S)
  BY FlattenType
<1>2. First(0) = <<>>
  OBVIOUS
<1>3. FlattenSeq(p \o First(0)) = FlattenSeq(p) \o FlattenSeq(First(0))
  <2>1. p \o <<>> = p /\ FlattenSeq(p) \o <<>> = FlattenSeq(p)
    BY <1>1
  <2>. QED BY <1>2, <2>1, FlattenNone
<1>4. ASSUME NEW k \in 1 .. L
      PROVE  /\ First(k - 1) \in Seq(Seq(S)) /\ q[k] \in Seq(S)
             /\ First(k) = Append(First(k - 1), q[k])
  <2>1. q[k] \in Seq(S) /\ First(k - 1) \in Seq(Seq(S))
    OBVIOUS
  <2>2. First(k) = First(k - 1) \o <<q[k]>>
    BY SubSeqRecursiveSecond
  <2>3. Append(First(k - 1), q[k]) = First(k - 1) \o <<q[k]>>
    BY <2>1, AppendIsConcat
  <2>. QED BY <2>1, <2>2, <2>3
<1>5. Bad \in SUBSET Nat
  OBVIOUS
<1>. HIDE DEF First
<1>6. ASSUME Bad # {} PROVE FALSE
  <2>1. PICK k \in Bad : k = 0 \/ k - 1 \notin Bad
    BY <1>5, <1>6, Least
  <2>2. k # 0
    BY <1>3, <2>1
  <2>3. k \in 1 .. L /\ k - 1 \in 0 .. L
    BY <1>1, <2>1, <2>2
  <2>4. FlattenSeq(p \o First(k - 1)) = FlattenSeq(p) \o FlattenSeq(First(k - 1))
    BY <2>1, <2>2, <2>3
  <2>. DEFINE x == First(k - 1)
              b == q[k]
  <2>5. x \in Seq(Seq(S)) /\ b \in Seq(S) /\ First(k) = Append(x, b)
    BY <1>4, <2>3
  <2>6. FlattenSeq(p \o First(k)) # FlattenSeq(p) \o FlattenSeq(First(k))
    BY <2>1
  <2>7. FlattenSeq(p \o x) = FlattenSeq(p) \o FlattenSeq(x)
    BY <2>4
  <2>. HIDE DEF x, b, L
  <2>8. p \o Append(x, b) = Append(p \o x, b) /\ p \o x \in Seq(Seq(S))
    <3>1. p \o x \in Seq(Seq(S)) /\ <<b>> \in Seq(Seq(S))
      BY <2>5
    <3>2. Append(x, b) = x \o <<b>> /\ Append(p \o x, b) = (p \o x) \o <<b>>
      BY <2>5, <3>1, AppendIsConcat
    <3>3. (p \o x) \o <<b>> = p \o (x \o <<b>>)
      <4>1. Joins(p, x, <<b>>)
        BY <2>5, <3>1, JoinAssociative
      <4>. QED BY <4>1, Zenon DEF Joins
    <3>. QED BY <3>1, <3>2, <3>3
  <2>9. FlattenSeq(Append(p \o x, b)) = FlattenSeq(p \o x) \o b
    BY <2>5, <2>8, FlattenAppend
  <2>10. FlattenSeq(Append(x, b)) = FlattenSeq(x) \o b /\ FlattenSeq(x) \in Seq(S)
    BY <2>5, FlattenAppend, FlattenType
  <2>11. (FlattenSeq(p) \o FlattenSeq(x)) \o b = FlattenSeq(p) \o (FlattenSeq(x) \o b)
    <3>1. Joins(FlattenSeq(p), FlattenSeq(x), b)
      BY <1>1, <2>5, <2>10, JoinAssociative
    <3>. QED BY <3>1, Zenon DEF Joins
  <2>. QED BY <2>5, <2>6, <2>7, <2>8, <2>9, <2>10, <2>11
<1>7. Bad = {}
  BY <1>6
<1>8. L \in 0 .. L
  BY <1>1
<1>9. FlattenSeq(p \o First(L)) = FlattenSeq(p) \o FlattenSeq(First(L))
  BY <1>7, <1>8
<1>. QED BY <1>1, <1>9

(* tcp_recv() of n bytes that end in block B.                               *)
LEMMA CutConcat ==
  ASSUME NEW S, NEW A \in Seq(S), NEW B \in Seq(S), NEW C \in Seq(S),
         NEW n \in Nat, Len(A) <= n, n <= Len(A) + Len(B)
  PROVE  SubSeq(A \o (B \o C), 1, n) = A \o SubSeq(B, 1, n - Len(A))
<1>. DEFINE F == A \o (B \o C)
            x == SubSeq(F, 1, n)
            y == SubSeq(B, 1, n - Len(A))
<1>1. /\ F \in Seq(S) /\ Len(F) = Len(A) + Len(B) + Len(C)
      /\ x \in Seq(S) /\ Len(x) = n
      /\ y \in Seq(S) /\ Len(y) = n - Len(A)
  OBVIOUS
<1>2. /\ \A i \in 1 .. Len(F) : F[i] = IF i <= Len(A) THEN A[i]
                                      ELSE IF i <= Len(A) + Len(B) THEN B[i - Len(A)]
                                      ELSE C[i - Len(A) - Len(B)]
      /\ \A i \in 1 .. n : x[i] = F[i]
      /\ \A i \in 1 .. Len(y) : y[i] = B[i]
  OBVIOUS
<1>. HIDE DEF F, x, y
<1>3. /\ A \o y \in Seq(S) /\ Len(A \o y) = n
      /\ \A i \in 1 .. n : (A \o y)[i] = IF i <= Len(A) THEN A[i] ELSE y[i - Len(A)]
  BY <1>1
<1>4. ASSUME NEW i \in 1 .. n PROVE x[i] = (A \o y)[i]
  <2>. DEFINE m == Len(A)
              l == Len(F)
  <2>0. /\ m \in Nat /\ l \in Nat /\ n <= l /\ n <= m + Len(B) /\ i \in 1 .. l
        /\ Len(y) = n - m
    BY <1>1
  <2>1. x[i] = F[i] /\ (A \o y)[i] = IF i <= m THEN A[i] ELSE y[i - m]
    BY <1>2, <1>3
  <2>2. F[i] = IF i <= m THEN A[i] ELSE IF i <= m + Len(B) THEN B[i - m] ELSE C[i - m - Len(B)]
    BY <1>2, <2>0
  <2>. HIDE DEF m, l
  <2>3. CASE i <= m
    BY <2>1, <2>2, <2>3
  <2>4. CASE ~(i <= m)
    <3>1. i <= m + Len(B) /\ i - m \in 1 .. Len(y)
      BY <2>0, <2>4
    <3>2. y[i - m] = B[i - m]
      BY <1>2, <3>1, Zenon
    <3>. QED BY <2>1, <2>2, <2>4, <3>1, <3>2
  <2>. QED BY <2>3, <2>4
<1>5. x = A \o y
  BY <1>1, <1>3, <1>4, SeqEqual
<1>. QED BY <1>5 DEF F, x, y

(* What the first blocks of a queue hold, and what the others hold.         *)
LEMMA HeldSplits ==
  ASSUME NEW S, NEW q \in Seq(Seq(S)), NEW i \in 0 .. Len(q)
  PROVE  LET r == SubSeq(q, i + 1, Len(q)) IN
         /\ r \in Seq(Seq(S))
         /\ FlattenSeq(SubSeq(q, 1, i)) \in Seq(S) /\ FlattenSeq(r) \in Seq(S)
         /\ FlattenSeq(q) = FlattenSeq(SubSeq(q, 1, i)) \o FlattenSeq(r)
         /\ Held(q, i) = Len(FlattenSeq(SubSeq(q, 1, i))) /\ Held(q, i) \in Nat
<1>. DEFINE f == SubSeq(q, 1, i)
            r == SubSeq(q, i + 1, Len(q))
<1>1. f \in Seq(Seq(S)) /\ r \in Seq(Seq(S))
  OBVIOUS
<1>2. q = f \o r
  <2>1. 1 \in 1 .. Len(q) + 1 /\ i \in 1 - 1 .. Len(q) /\ Len(q) \in i .. Len(q)
    OBVIOUS
  <2>2. SubSeq(q, 1, i) \o SubSeq(q, i + 1, Len(q)) = SubSeq(q, 1, Len(q))
    BY <2>1, ConcatAdjacentSubSeq
  <2>. QED BY <2>2, SubSeqFull
<1>3. Held(q, i) = Len(FlattenSeq(f))
  BY DEF Held
<1>. HIDE DEF f, r
<1>4. FlattenSeq(f) \in Seq(S) /\ FlattenSeq(r) \in Seq(S)
  BY <1>1, FlattenType
<1>5. FlattenSeq(q) = FlattenSeq(f) \o FlattenSeq(r)
  BY <1>1, <1>2, FlattenConcat
<1>6. Len(FlattenSeq(f)) \in Nat
  BY <1>4, LenProperties
<1>. QED BY <1>1, <1>3, <1>4, <1>5, <1>6 DEF f, r

(* The next block.                                                          *)
LEMMA HeldNext ==
  ASSUME NEW S, NEW q \in Seq(Seq(S)), NEW i \in 0 .. Len(q), i # Len(q)
  PROVE  LET r == SubSeq(q, i + 1, Len(q)) IN
         /\ r # <<>> /\ Head(r) = q[i + 1] /\ q[i + 1] \in Seq(S)
         /\ Tail(r) = SubSeq(q, i + 2, Len(q)) /\ Tail(r) \in Seq(Seq(S))
         /\ FlattenSeq(r) = q[i + 1] \o FlattenSeq(Tail(r))
         /\ Held(q, i + 1) = Held(q, i) + Len(q[i + 1])
<1>. DEFINE r == SubSeq(q, i + 1, Len(q))
            f == SubSeq(q, 1, i)
            b == q[i + 1]
<1>1. i + 1 \in 1 .. Len(q) /\ Len(q) \in i + 1 .. Len(q) /\ Len(q) \in Nat
  OBVIOUS
<1>2. Head(r) = b /\ Tail(r) = SubSeq(q, i + 1 + 1, Len(q))
  BY <1>1, HeadTailOfSubSeq
<1>3. r = <<b>> \o SubSeq(q, i + 1 + 1, Len(q))
  BY <1>1, SubSeqRecursiveFirst
<1>4. i + 1 + 1 = i + 2 /\ b \in Seq(S)
  BY <1>1
<1>5. SubSeq(q, i + 2, Len(q)) \in Seq(Seq(S)) /\ r \in Seq(Seq(S)) /\ Len(r) > 0
  BY <1>1
<1>6. SubSeq(q, 1, i + 1) = Append(f, b) /\ f \in Seq(Seq(S))
  <2>1. 1 \in 1 .. Len(q) /\ i + 1 \in 1 .. Len(q) /\ i + 1 - 1 = i
    BY <1>1
  <2>2. SubSeq(q, 1, i + 1) = SubSeq(q, 1, i + 1 - 1) \o <<b>>
    BY <2>1, SubSeqRecursiveSecond
  <2>3. f \in Seq(Seq(S))
    OBVIOUS
  <2>. QED BY <1>4, <2>1, <2>2, <2>3, AppendIsConcat
<1>7. Held(q, i + 1) = Len(FlattenSeq(SubSeq(q, 1, i + 1))) /\ Held(q, i) = Len(FlattenSeq(f))
  BY DEF Held
<1>. HIDE DEF f, r, b
<1>8. FlattenSeq(Append(f, b)) = FlattenSeq(f) \o b /\ FlattenSeq(f) \in Seq(S)
  BY <1>4, <1>6, FlattenAppend, FlattenType
<1>9. Len(FlattenSeq(f) \o b) = Len(FlattenSeq(f)) + Len(b)
  BY <1>4, <1>8, ConcatProperties
<1>10. FlattenSeq(r) = b \o FlattenSeq(Tail(r))
  <2>1. <<b>> \in Seq(Seq(S)) /\ Tail(r) \in Seq(Seq(S)) /\ r = <<b>> \o Tail(r)
    BY <1>2, <1>3, <1>4, <1>5
  <2>2. FlattenSeq(r) = FlattenSeq(<<b>>) \o FlattenSeq(Tail(r))
    BY <2>1, FlattenConcat
  <2>. QED BY <1>4, <2>2, FlattenOne
<1>11. r # <<>>
  BY <1>5
<1>12. Tail(r) = SubSeq(q, i + 2, Len(q))
  BY <1>2, <1>4
<1>13. Held(q, i + 1) = Held(q, i) + Len(b)
  BY <1>6, <1>7, <1>8, <1>9
<1>. QED BY <1>2, <1>4, <1>5, <1>10, <1>11, <1>12, <1>13 DEF r, b

(* tcp_recv() takes the blocks that end before byte n; a queue that is      *)
(* longer gives a part of the next one.                                     *)
LEMMA GoneIsPrefix ==
  ASSUME NEW S, NEW q \in Seq(Seq(S)), NEW n \in Nat
  PROVE  \E k \in 0 .. Len(q) :
           /\ Cardinality({i \in DOMAIN q : Held(q, i) < n}) = k
           /\ Held(q, k) <= n
           /\ k # Len(q) => n <= Held(q, k + 1)
<1>. DEFINE L == Len(q)
            H(i) == Held(q, i)
            Gone == {i \in 1 .. L : H(i) < n}
            Bad == {i \in 1 .. L : ~(H(i) < n)}
<1>1. L \in Nat /\ DOMAIN q = 1 .. L
  OBVIOUS
<1>2. \A i \in 0 .. L : H(i) \in Nat
  BY HeldSplits
<1>3. \A i \in 0 .. L : i # L => H(i) <= H(i + 1)
  <2>1. ASSUME NEW i \in 0 .. L, i # L PROVE H(i) <= H(i + 1)
    <3>1. q[i + 1] \in Seq(S) /\ Held(q, i + 1) = Held(q, i) + Len(q[i + 1])
      BY <2>1, HeldNext
    <3>2. Len(q[i + 1]) \in Nat
      BY <3>1, LenProperties
    <3>. QED BY <1>2, <2>1, <3>1, <3>2
  <2>. QED BY <2>1
<1>4. H(0) = 0
  <2>1. SubSeq(q, 1, 0) = <<>>
    OBVIOUS
  <2>2. Held(q, 0) = Len(FlattenSeq(<<>>))
    BY <2>1 DEF Held
  <2>. QED BY <2>2, FlattenNone
<1>. HIDE DEF H, L
\* Held() never falls.
<1>5. ASSUME NEW i \in 0 .. L, NEW j \in i .. L PROVE H(i) <= H(j)
  <2>. DEFINE Low == {k \in i .. L : ~(H(i) <= H(k))}
  <2>1. Low \in SUBSET Nat
    BY <1>1
  <2>2. ASSUME Low # {} PROVE FALSE
    <3>1. PICK k \in Low : k = 0 \/ k - 1 \notin Low
      BY <2>1, <2>2, Least
    <3>2. k \in i .. L /\ ~(H(i) <= H(k))
      BY <3>1
    <3>3. k # i /\ k \in Nat
      <4>1. H(i) \in Nat
        BY <1>2
      <4>. QED BY <1>1, <3>2, <4>1
    <3>4. k - 1 \in i .. L /\ k - 1 \in 0 .. L /\ k - 1 # L /\ k - 1 + 1 = k /\ k # 0
      BY <1>1, <3>2, <3>3
    <3>5. H(i) <= H(k - 1)
      BY <3>1, <3>4
    <3>6. H(k - 1) <= H(k - 1 + 1)
      BY <1>3, <3>4
    <3>7. H(i) \in Nat /\ H(k - 1) \in Nat /\ H(k) \in Nat
      BY <1>1, <1>2, <3>2, <3>4
    <3>. QED BY <3>2, <3>4, <3>5, <3>6, <3>7
  <2>3. Low = {}
    BY <2>2
  <2>. QED BY <2>3
<1>6. \E k \in 0 .. L : Gone = 1 .. k /\ H(k) <= n /\ (k # L => n <= H(k + 1))
  <2>1. CASE Bad = {}
    <3>1. Gone = 1 .. L
      BY <2>1
    <3>2. H(L) <= n
      <4>1. CASE L = 0
        BY <1>4, <4>1
      <4>2. CASE L # 0
        <5>1. L \in 1 .. L /\ L \in 0 .. L
          BY <1>1, <4>2
        <5>2. H(L) < n /\ H(L) \in Nat
          BY <1>2, <2>1, <5>1
        <5>. QED BY <5>2
      <4>. QED BY <4>1, <4>2
    <3>3. L \in 0 .. L
      BY <1>1
    <3>. QED BY <3>1, <3>2, <3>3
  <2>2. CASE Bad # {}
    <3>0. Bad \in SUBSET Nat
      OBVIOUS
    <3>1. PICK i \in Bad : i = 0 \/ i - 1 \notin Bad
      BY <2>2, <3>0, Least
    <3>2. i \in 1 .. L /\ ~(H(i) < n)
      BY <3>1
    <3>3. PICK k \in 0 .. L : k + 1 = i
      BY <1>1, <3>2
    <3>4. k # L /\ k = i - 1 /\ k \in Nat /\ i # 0
      BY <1>1, <3>2, <3>3
    <3>5. H(k) <= n
      <4>1. CASE k = 0
        BY <1>4, <4>1
      <4>2. CASE k # 0
        <5>1. k \in 1 .. L /\ k \notin Bad
          BY <1>1, <3>1, <3>3, <3>4, <4>2
        <5>2. H(k) < n /\ H(k) \in Nat
          BY <1>2, <5>1
        <5>. QED BY <5>2
      <4>. QED BY <4>1, <4>2
    <3>6. n <= H(k + 1)
      <4>1. H(i) \in Nat
        BY <1>1, <1>2, <3>2
      <4>. QED BY <3>2, <3>3, <4>1
    <3>7. ASSUME NEW j \in 1 .. L PROVE H(j) < n <=> j \in 1 .. k
      <4>0. H(i) \in Nat /\ H(j) \in Nat /\ H(k) \in Nat
        BY <1>1, <1>2, <3>2
      <4>1. CASE j \in 1 .. k
        <5>1. k \in 1 .. L /\ k \notin Bad
          BY <1>1, <3>1, <3>3, <3>4, <4>1
        <5>2. H(k) < n
          BY <5>1
        <5>3. j \in 0 .. L /\ k \in j .. L
          BY <1>1, <4>1
        <5>4. H(j) <= H(k)
          BY <1>5, <5>3
        <5>. QED BY <4>0, <4>1, <5>2, <5>4
      <4>2. CASE j \notin 1 .. k
        <5>1. i \in 0 .. L /\ j \in i .. L
          BY <1>1, <3>2, <3>3, <4>2
        <5>2. H(i) <= H(j)
          BY <1>5, <5>1
        <5>. QED BY <3>2, <4>0, <4>2, <5>2
      <4>. QED BY <4>1, <4>2
    <3>8. Gone = 1 .. k
      <4>1. 1 .. k \subseteq 1 .. L
        BY <1>1
      <4>. QED BY <3>7, <4>1
    <3>. QED BY <3>4, <3>5, <3>6, <3>8
  <2>. QED BY <2>1, <2>2
<1>7. PICK k \in 0 .. L : Gone = 1 .. k /\ H(k) <= n /\ (k # L => n <= H(k + 1))
  BY <1>6
<1>8. Cardinality(1 .. k) = k
  <2>1. 1 \in Int /\ k \in Int /\ k >= 0
    BY <1>1
  <2>2. Cardinality(1 .. k) = IF 1 > k THEN 0 ELSE k - 1 + 1
    BY <2>1, FS_Interval
  <2>. QED BY <2>1, <2>2
<1>9. {i \in DOMAIN q : Held(q, i) < n} = 1 .. k
  BY <1>1, <1>7 DEF H
<1>. QED BY <1>7, <1>8, <1>9 DEF H, L

(* What tcp_recv() takes and what it leaves are the queue as it was.        *)
LEMMA RecvConserves ==
  ASSUME NEW S, NEW t \in Tcb, t.rxData \in Seq(Seq(S)), NEW n \in Nat
  PROVE  /\ RecvTakes(t, n) \in Seq(S)
         /\ RecvTakes(t, n) \o FlattenSeq(Recv(t, n).rxData) = FlattenSeq(t.rxData)
<1>. DEFINE q == t.rxData
            F == FlattenSeq(q)
<1>0. F \in Seq(S) /\ Len(F) \in Nat /\ SubSeq(F, 1, Len(F)) = F /\ F \o <<>> = F /\ <<>> \o F = F
  <2>1. F \in Seq(S)
    BY FlattenType
  <2>. HIDE DEF F
  <2>. QED BY <2>1
<1>1. CASE t.state # "ESTABLISHED"
  <2>1. Recv(t, n) = t /\ RecvTakes(t, n) = <<>>
    BY <1>1 DEF Recv, RecvTakes
  <2>. QED BY <1>0, <2>1
<1>2. CASE t.state = "ESTABLISHED"
  <2>. DEFINE gone == Cardinality({i \in DOMAIN q : Held(q, i) < n})
              rest == After(q, gone)
  <2>1. PICK k \in 0 .. Len(q) : gone = k /\ Held(q, k) <= n /\ (k # Len(q) => n <= Held(q, k + 1))
    BY GoneIsPrefix
  <2>2. RecvTakes(t, n) = SubSeq(F, 1, IF Len(F) < n THEN Len(F) ELSE n)
    BY <1>2 DEF RecvTakes
  <2>3. rest = SubSeq(q, k + 1, Len(q))
    BY <2>1 DEF After
  <2>4. Recv(t, n).rxData = IF rest = <<>> THEN rest
                            ELSE <<After(Head(rest), n - Held(q, gone))>> \o Tail(rest)
    BY <1>2 DEF Recv, Tcb
  <2>. DEFINE A == FlattenSeq(SubSeq(q, 1, k))
  <2>5. A \in Seq(S) /\ FlattenSeq(rest) \in Seq(S) /\ F = A \o FlattenSeq(rest)
        /\ Held(q, k) = Len(A) /\ Len(A) \in Nat
    BY <2>3, HeldSplits
  <2>6. CASE k = Len(q)
    <3>1. rest = <<>>
      BY <2>3, <2>6
    <3>2. F = A
      <4>1. A \o <<>> = A
        BY <2>5
      <4>. QED BY <2>5, <3>1, <4>1, FlattenNone
    <3>3. Len(F) <= n
      BY <2>1, <2>5, <3>2
    <3>. HIDE DEF F, gone, rest
    <3>4. (IF Len(F) < n THEN Len(F) ELSE n) = Len(F)
      <4>1. \A l \in Nat : l <= n => (IF l < n THEN l ELSE n) = l
        OBVIOUS
      <4>. QED BY <1>0, <3>3, <4>1, Zenon
    <3>5. RecvTakes(t, n) = F
      BY <1>0, <2>2, <3>4
    <3>6. FlattenSeq(Recv(t, n).rxData) = <<>>
      BY <2>4, <3>1, FlattenNone
    <3>7. RecvTakes(t, n) \in Seq(S) /\ RecvTakes(t, n) \o FlattenSeq(Recv(t, n).rxData) = F
      BY <1>0, <3>5, <3>6
    <3>. QED BY <3>7 DEF F
  <2>7. CASE k # Len(q)
    <3>. DEFINE B == q[k + 1]
                C == FlattenSeq(Tail(rest))
                first == After(B, n - Len(A))
    <3>1. /\ rest # <<>> /\ Head(rest) = B /\ B \in Seq(S) /\ Tail(rest) \in Seq(Seq(S))
          /\ FlattenSeq(rest) = B \o C /\ Held(q, k + 1) = Held(q, k) + Len(B)
      BY <2>3, <2>7, HeldNext
    <3>2. Recv(t, n).rxData = <<first>> \o Tail(rest)
      BY <2>1, <2>4, <2>5, <3>1
    <3>3. C \in Seq(S) /\ F = A \o (B \o C)
      BY <2>5, <3>1, FlattenType
    <3>4. Len(B) \in Nat /\ Len(A) <= n /\ n <= Len(A) + Len(B)
      <4>1. Len(B) \in Nat
        BY <3>1, LenProperties
      <4>. QED BY <2>1, <2>5, <2>7, <3>1, <4>1
    <3>. HIDE DEF A, B, C, F, gone, rest
    <3>5. first = SubSeq(B, n - Len(A) + 1, Len(B)) /\ first \in Seq(S)
      <4>1. n - Len(A) \in 0 .. Len(B)
        BY <2>5, <3>4
      <4>2. first = SubSeq(B, n - Len(A) + 1, Len(B))
        BY <4>1 DEF After
      <4>3. SubSeq(B, n - Len(A) + 1, Len(B)) \in Seq(S)
        BY <3>1, <4>1
      <4>. QED BY <4>2, <4>3
    <3>. HIDE DEF first
    <3>6. FlattenSeq(<<first>> \o Tail(rest)) = first \o C
      <4>1. <<first>> \in Seq(Seq(S))
        BY <3>5
      <4>2. FlattenSeq(<<first>> \o Tail(rest)) = FlattenSeq(<<first>>) \o FlattenSeq(Tail(rest))
        BY <3>1, <4>1, FlattenConcat
      <4>. QED BY <3>5, <4>2, FlattenOne DEF C
    <3>7. SubSeq(F, 1, n) \o (first \o C) = F
      <4>1. /\ A \in Seq(S) /\ B \in Seq(S) /\ C \in Seq(S) /\ Len(A) <= n /\ n <= Len(A) + Len(B)
            /\ F = A \o (B \o C) /\ first = SubSeq(B, n - Len(A) + 1, Len(B))
        BY <2>5, <3>1, <3>3, <3>4, <3>5
      <4>. DEFINE k1 == n - Len(A)
                  b1 == SubSeq(B, 1, k1)
      <4>2. SubSeq(F, 1, n) = A \o b1
        BY <4>1, CutConcat
      <4>3. k1 \in 0 .. Len(B) /\ Len(B) \in Nat
        BY <2>5, <3>4
      <4>. HIDE DEF k1
      <4>4. b1 \in Seq(S) /\ 1 \in 1 .. Len(B) + 1 /\ k1 \in 1 - 1 .. Len(B) /\ Len(B) \in k1 .. Len(B)
        BY <4>1, <4>3
      <4>5. b1 \o SubSeq(B, k1 + 1, Len(B)) = SubSeq(B, 1, Len(B))
        BY <4>1, <4>4, ConcatAdjacentSubSeq
      <4>6. b1 \o first = B
        BY <4>1, <4>5, SubSeqFull DEF k1
      <4>. HIDE DEF b1
      <4>7. first \o C \in Seq(S)
        BY <3>3, <3>5, ConcatProperties
      <4>8. Joins(A, b1, first \o C) /\ Joins(b1, first, C)
        BY <3>3, <3>5, <4>1, <4>4, <4>7, JoinAssociative
      <4>9. (A \o b1) \o (first \o C) = A \o (b1 \o (first \o C))
        BY <4>8, Zenon DEF Joins
      <4>10. (b1 \o first) \o C = b1 \o (first \o C)
        BY <4>8, Zenon DEF Joins
      <4>. QED BY <4>1, <4>2, <4>6, <4>9, <4>10, Zenon
    <3>8. n <= Len(F)
      <4>1. Len(B \o C) = Len(B) + Len(C) /\ B \o C \in Seq(S) /\ Len(C) \in Nat
        BY <3>1, <3>3, ConcatProperties, LenProperties
      <4>2. Len(F) = Len(A) + Len(B \o C)
        BY <2>5, <3>3, <4>1, ConcatProperties
      <4>. QED BY <2>5, <3>4, <4>1, <4>2
    <3>9. RecvTakes(t, n) = SubSeq(F, 1, n)
      <4>1. \A l \in Nat : n <= l => (IF l < n THEN l ELSE n) = n
        OBVIOUS
      <4>2. (IF Len(F) < n THEN Len(F) ELSE n) = n
        BY <1>0, <3>8, <4>1, Zenon
      <4>. QED BY <2>2, <4>2
    <3>10. SubSeq(F, 1, n) \in Seq(S)
      BY <1>0, <3>8
    <3>. QED BY <3>2, <3>6, <3>7, <3>9, <3>10 DEF F
  <2>. QED BY <2>6, <2>7
<1>. QED BY <1>1, <1>2
=============================================================================
