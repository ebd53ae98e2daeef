--------------------------- MODULE TcpPairProofs ---------------------------
(***************************************************************************)
(* Theorems of TcpPair: two hosts, a network that loses, duplicates,       *)
(* delays and reorders, any amount of text, any window, any sequence       *)
(* numbers that do not wrap, any answers of IP and of the allocator.       *)
(* First the numbers; from Join on the text, and Stream.                   *)
(*                                                                         *)
(* One hypothesis is made, Stale = {}: no segment of an earlier connection *)
(* is in the network.                                                      *)
(***************************************************************************)
EXTENDS TcpPair, TcpTcbLemmas

-----------------------------------------------------------------------------
\* The inductive invariant, of a host h with control block t, and of its peer
\* with gt.  The numbers of RFC 793, as operators: the provers compute with
\* them and need not look into the control blocks.

SndUna(t) == t.una
SndNxt(t) == t.nxt
RcvNxt(t) == t.rnxt
SegSeq(s) == s.seq
SegAck(s) == s.ack
SegEnd(s) == s.seq + Len(s.data)
Start(h) == Isn[h] + 1           \* the number of the first byte of h
Limit(h) == Start(h) + MaxBytes[h]  \* no text of h reaches beyond

Ready(t) == t.state \notin {"LISTEN", "SYN_SENT"}                   \* knows the peer's ISN
Up(t) == t.state \notin {"LISTEN", "SYN_SENT", "SYN_RECEIVED"}      \* Connected
PeerFin(t) == t.state \in {"CLOSE_WAIT", "LAST_ACK", "TIME_WAIT", "CLOSED", "FREE"}

\* The FIN has a number; the number behind the text that has one.
FinAcked(t) == t.state \in {"FIN_WAIT_2", "TIME_WAIT", "CLOSED", "FREE"}
FinMade(t) == IsFin(t.tx) \/ FinAcked(t)
TextEnd(t) == IF FinMade(t) THEN SndNxt(t) - 1 ELSE SndNxt(t)

\* A segment that h may have sent.  What it says stays true while h goes on.
SegOk(h, s, t) ==
  /\ "RST" \notin s.fl
  /\ "SYN" \in s.fl => /\ SegSeq(s) = Isn[h] /\ s.data = <<>> /\ "FIN" \notin s.fl
                       /\ "ACK" \in s.fl => h = Server
  /\ "SYN" \notin s.fl => "ACK" \in s.fl
  /\ "ACK" \in s.fl => Ready(t) /\ Start(Other(h)) <= SegAck(s) /\ SegAck(s) <= RcvNxt(t)
  /\ s.data # <<>> => "FIN" \notin s.fl /\ SegEnd(s) <= TextEnd(t)
  /\ "FIN" \in s.fl => s.data = <<>> /\ FinMade(t) /\ SegSeq(s) + 1 = SndNxt(t)

\* What was handed to IP in this step.
OutsOk(h, t) == \A o \in Outs(t) : o.to = Other(h) /\ SegOk(h, o.seg, t)

Role(h, t) ==
  /\ t.iss = Isn[h]
  /\ h = Client => t.state \notin {"LISTEN", "SYN_RECEIVED"} /\ t.dest = Server
  /\ h = Server => t.state # "SYN_SENT" /\ (Ready(t) => t.dest = Client)

\* The blocks of a queue have room before end : block k may start at off[k].
Places(q, nxt, end, off) ==
  /\ nxt <= off[1] /\ \A k \in 1 .. Len(q) + 1 : off[k] \in Nat /\ off[k] <= end
  /\ \A k \in 1 .. Len(q) : off[k] + Len(q[k]) <= off[k + 1]
Room(t, end) == \E off : Places(t.txData, SndNxt(t), end, off)

\* Before the connection is up; while there may be text to send; once the
\* FIN was made.
Fresh(h, t) ==
  /\ SndUna(t) = Isn[h] \/ (t.state = "SYN_SENT" /\ SndUna(t) = Start(h))
  /\ SndNxt(t) = IF t.state = "LISTEN" THEN Isn[h] ELSE Start(h)
  /\ t.tx = IF t.state = "SYN_SENT" THEN Seg(Isn[h], 0, {"SYN"}, <<>>) ELSE None
  /\ t.txData = <<>> /\ t.rxData = <<>>

Sending(h, t, snt) ==
  /\ t.state \in {"ESTABLISHED", "CLOSE_WAIT", "FIN_WAIT_1", "LAST_ACK"}
  /\ Start(h) <= SndUna(t) /\ SndUna(t) <= SndNxt(t) /\ Room(t, Start(h) + Len(snt))
  /\ t.tx = None => SndUna(t) = SndNxt(t)
  /\ t.tx # None => t.tx.fl = {"ACK"} /\ SegOk(h, t.tx, t)

Closing(h, t) ==
  /\ FinAcked(t) \/ (t.state \in {"FIN_WAIT_1", "LAST_ACK"} /\ IsFin(t.tx))
  /\ Start(h) <= SndUna(t) /\ SndUna(t) <= SndNxt(t) /\ SndNxt(t) <= Limit(h) + 1
  /\ IsFin(t.tx) => t.tx.fl = {"FIN", "ACK"} /\ SegOk(h, t.tx, t)

Sender(h, t, snt) ==
  IF Up(t) THEN Sending(h, t, snt) \/ Closing(h, t) ELSE Fresh(h, t)

\* What h believes of its peer is so.
Trusts(h, t, gt) ==
  /\ Up(t) => Ready(gt) /\ SndUna(t) <= RcvNxt(gt)
  /\ FinMade(t) => SndNxt(t) <= RcvNxt(gt) + 1
  /\ Ready(t) => /\ t.irs = Isn[Other(h)]
                 /\ Start(Other(h)) <= RcvNxt(t) /\ RcvNxt(t) <= SndNxt(gt)

\* h has all of the text of its peer, or has not been told that it ended.
Ends(t, gt) ==
  /\ PeerFin(t) => FinMade(gt) /\ SndNxt(gt) <= RcvNxt(t) + 1
  /\ Ready(t) /\ ~PeerFin(t) => RcvNxt(t) <= TextEnd(gt)

\* Only text is in the queue of the user.
Clean(t) == t.state = "ESTABLISHED" => t.rxData \in Seq(Seq(Byte))

\* One side, as its peer knows it.
Core(h, t, gt) == t \in Tcb /\ Role(h, t) /\ Trusts(h, t, gt) /\ OutsOk(h, t)
Side(h, t, snt, gt) == Core(h, t, gt) /\ Sender(h, t, snt) /\ Ends(t, gt) /\ Clean(t)

\* h goes on from t to r, and nothing it has said becomes false.
Grown(t, r) ==
  /\ Ready(t) => Ready(r) /\ RcvNxt(t) <= RcvNxt(r)
  /\ SndNxt(t) <= SndNxt(r) /\ TextEnd(t) <= TextEnd(r)
  /\ FinMade(t) => FinMade(r) /\ SndNxt(r) = SndNxt(t)

-----------------------------------------------------------------------------
\* Arithmetic: no sequence number of the connection wraps.

(* A sum that does not wrap.                                                *)
LEMMA Plain == ASSUME NEW a \in Nat, NEW k \in Nat, a + k < SnMod PROVE SnAdd(a, k) = a + k
  BY SnModAssumption DEF SnAdd

(* sncmp() on numbers that do not wrap.                                     *)
LEMMA Between ==
  ASSUME NEW a \in SeqNo, NEW b \in SeqNo, NEW x \in SeqNo, a <= b
  PROVE  /\ Sncmp(a, LS, x, LE, b) <=> a < x /\ x <= b
         /\ Sncmp(a, LE, x, LE, b) <=> a <= x /\ x <= b
  BY SnModAssumption DEF SeqNo, Sncmp, Rel, LS, LE

(* The two hosts and their numbers.                                         *)
LEMMA Hosts ==
  ASSUME NEW h \in Host
  PROVE  /\ Other(h) \in Host /\ Other(h) # h /\ Other(Other(h)) = h /\ Host = Peer
         /\ h # None /\ Other(h) \in Peer
         /\ Isn[h] \in Nat /\ Isn[h] \in SeqNo /\ MaxBytes[h] \in Nat
         /\ Start(h) \in Nat /\ Start(h) = Isn[h] + 1
         /\ Limit(h) \in Nat /\ Limit(h) = Start(h) + MaxBytes[h] /\ Limit(h) + 1 < SnMod
<1>1. Other(h) \in Host /\ Other(h) # h /\ Other(Other(h)) = h
  BY HostAssumption DEF Host, Other
<1>2. Host = Peer /\ h # None
  BY HostAssumption, NoneAssumption DEF Host
<1>3. Isn[h] \in SeqNo /\ MaxBytes[h] \in Nat /\ Isn[h] + MaxBytes[h] + 2 < SnMod
  BY BoundAssumption
<1>4. Isn[h] \in Nat
  BY <1>3, SnModAssumption DEF SeqNo
<1>5. \A i, m \in Nat : i + m + 2 < SnMod => i + 1 + m + 1 < SnMod
  BY SnModAssumption
<1>6. Start(h) \in Nat /\ Limit(h) \in Nat /\ Limit(h) + 1 < SnMod
  BY <1>3, <1>4, <1>5, SnModAssumption DEF Start, Limit
<1>. QED BY <1>1, <1>2, <1>3, <1>4, <1>6 DEF Start, Limit

(* The numbers of a control block and of a segment.                         *)
LEMMA Numbers ==
  ASSUME NEW t \in Tcb
  PROVE  /\ SndUna(t) \in SeqNo /\ SndNxt(t) \in SeqNo /\ RcvNxt(t) \in SeqNo
         /\ SndUna(t) \in Nat /\ SndNxt(t) \in Nat /\ RcvNxt(t) \in Nat
         /\ TextEnd(t) \in Int /\ TextEnd(t) <= SndNxt(t) /\ SndNxt(t) <= TextEnd(t) + 1
<1>1. SndUna(t) \in SeqNo /\ SndNxt(t) \in SeqNo /\ RcvNxt(t) \in SeqNo
  BY DEF Tcb, SndUna, SndNxt, RcvNxt
<1>2. SndUna(t) \in Nat /\ SndNxt(t) \in Nat /\ RcvNxt(t) \in Nat
  BY <1>1, SnModAssumption DEF SeqNo
<1>. QED BY <1>1, <1>2 DEF TextEnd

(* The numbers of a segment are sequence numbers.                           *)
LEMMA SegNumbers ==
  ASSUME NEW s \in Segment
  PROVE  /\ SegSeq(s) \in SeqNo /\ SegAck(s) \in SeqNo /\ SegSeq(s) \in Nat /\ SegAck(s) \in Nat
         /\ Len(s.data) \in Nat /\ SegEnd(s) = SegSeq(s) + Len(s.data) /\ SegEnd(s) \in Nat
         /\ s.data = <<>> <=> Len(s.data) = 0
<1>1. SegSeq(s) \in SeqNo /\ SegAck(s) \in SeqNo /\ s.data \in Seq(Byte)
  BY DEF Segment, SegSeq, SegAck
<1>2. Len(s.data) \in Nat /\ (s.data = <<>> <=> Len(s.data) = 0)
  BY <1>1
<1>3. SegSeq(s) \in Nat /\ SegAck(s) \in Nat
  BY <1>1, SnModAssumption DEF SeqNo
<1>4. SegEnd(s) = SegSeq(s) + Len(s.data)
  BY DEF SegEnd, SegSeq
<1>. QED BY <1>1, <1>2, <1>3, <1>4

-----------------------------------------------------------------------------
\* What grows stays true.

(* What a segment said when it was sent remains true.                       *)
LEMMA SegOkGrown ==
  ASSUME NEW h, NEW s \in Segment, NEW t \in Tcb, NEW r \in Tcb, Grown(t, r), SegOk(h, s, t),
         h \in Host
  PROVE  SegOk(h, s, r)
<1>1. "ACK" \in s.fl => Ready(r) /\ Start(Other(h)) <= SegAck(s) /\ SegAck(s) <= RcvNxt(r)
  <2>1. "ACK" \in s.fl => Ready(t) /\ Start(Other(h)) <= SegAck(s) /\ SegAck(s) <= RcvNxt(t)
    BY DEF SegOk
  <2>2. Ready(t) => Ready(r) /\ RcvNxt(t) <= RcvNxt(r)
    BY DEF Grown
  <2>. QED BY <2>1, <2>2, Numbers, SegNumbers
<1>2. "FIN" \in s.fl => s.data = <<>> /\ FinMade(r) /\ SegSeq(s) + 1 = SndNxt(r)
  BY DEF SegOk, Grown
<1>3. s.data # <<>> => "FIN" \notin s.fl /\ SegEnd(s) <= TextEnd(r)
  <2>1. s.data # <<>> => "FIN" \notin s.fl /\ SegEnd(s) <= TextEnd(t)
    BY DEF SegOk
  <2>2. TextEnd(t) <= TextEnd(r)
    BY DEF Grown
  <2>. QED BY <2>1, <2>2, Numbers, SegNumbers
<1>. QED BY <1>1, <1>2, <1>3 DEF SegOk

(* Growth goes on.                                                          *)
LEMMA GrownTrans ==
  ASSUME NEW t \in Tcb, NEW q \in Tcb, NEW r \in Tcb, Grown(t, q), Grown(q, r)
  PROVE  Grown(t, r)
<1>1. /\ SndNxt(t) \in Nat /\ RcvNxt(t) \in Nat /\ TextEnd(t) \in Int
      /\ SndNxt(q) \in Nat /\ RcvNxt(q) \in Nat /\ TextEnd(q) \in Int
      /\ SndNxt(r) \in Nat /\ RcvNxt(r) \in Nat /\ TextEnd(r) \in Int
  BY Numbers
<1>. QED BY <1>1 DEF Grown

(* Nothing new has a number, and nothing is forgotten.                      *)
LEMMA Steady ==
  ASSUME NEW t \in Tcb, NEW r \in Tcb, SndNxt(r) = SndNxt(t), FinMade(t) <=> FinMade(r),
         Ready(t) => Ready(r) /\ RcvNxt(t) <= RcvNxt(r)
  PROVE  Grown(t, r)
<1>1. TextEnd(r) = TextEnd(t)
  BY DEF TextEnd
<1>. QED BY <1>1, Numbers DEF Grown

(* A host that has made its FIN is connected.                               *)
LEMMA FinIsUp ==
  ASSUME NEW h \in Host, NEW t \in Tcb, NEW snt, Sender(h, t, snt), FinMade(t)
  PROVE  Up(t)
<1>1. Seg(Isn[h], 0, {"SYN"}, <<>>).fl = {"SYN"}
  BY DEF Seg
<1>2. ~Up(t) => ~IsFin(t.tx)
  BY <1>1 DEF Sender, Fresh, IsFin
<1>. QED BY <1>2 DEF FinMade, FinAcked, Up

(* The peer still trusts a host that has grown.                             *)
LEMMA PeerGrown ==
  ASSUME NEW h \in Host, NEW t \in Tcb, NEW r \in Tcb, Grown(t, r),
         NEW gt, NEW gsnt, Side(h, gt, gsnt, t)
  PROVE  Side(h, gt, gsnt, r)
<1>1. /\ gt \in Tcb /\ Role(h, gt) /\ Trusts(h, gt, t) /\ OutsOk(h, gt)
      /\ Sender(h, gt, gsnt) /\ Ends(gt, t) /\ Clean(gt)
  BY DEF Side, Core
<1>2. FinMade(gt) => Ready(t)
  BY <1>1, FinIsUp DEF Trusts
<1>3. /\ SndNxt(t) \in Nat /\ RcvNxt(t) \in Nat /\ TextEnd(t) \in Int
      /\ SndNxt(r) \in Nat /\ RcvNxt(r) \in Nat /\ TextEnd(r) \in Int
      /\ SndNxt(gt) \in Nat /\ RcvNxt(gt) \in Nat /\ SndUna(gt) \in Nat
  BY <1>1, Numbers
<1>4. Trusts(h, gt, r)
  BY <1>1, <1>2, <1>3 DEF Trusts, Grown
<1>5. Ends(gt, r)
  BY <1>1, <1>3 DEF Ends, Grown
<1>. QED BY <1>1, <1>4, <1>5 DEF Side, Core

(* What a host sends are segments.                                          *)
LEMMA OutsAre == ASSUME NEW t \in Tcb, NEW o \in Outs(t) PROVE o.seg \in Segment
<1>. DEFINE P == [to: Peer \cup {None}, seg: Segment]
<1>1. t.out \in Seq(P)
  BY DEF Tcb
<1>2. \A x \in P : x.seg \in Segment
  OBVIOUS
<1>. HIDE DEF P
<1>3. \A q \in Seq(P) : \A i \in DOMAIN q : q[i] \in P
  OBVIOUS
<1>4. o \in P
  BY <1>1, <1>3 DEF Outs, ToSet
<1>. QED BY <1>2, <1>4

(* What was handed to IP before stays true, and one segment is added.       *)
LEMMA OutsGrown ==
  ASSUME NEW h \in Host, NEW t \in Tcb, NEW r \in Tcb, Grown(t, r), OutsOk(h, t),
         NEW s \in Segment, SegOk(h, s, r),
         Outs(r) \subseteq Outs(t) \cup {[to |-> Other(h), seg |-> s]}
  PROVE  OutsOk(h, r)
<1>1. \A o \in Outs(t) : o.seg \in Segment
  BY OutsAre
<1>2. ASSUME NEW o \in Outs(t) PROVE o.to = Other(h) /\ SegOk(h, o.seg, r)
  BY <1>1, <1>2, SegOkGrown DEF OutsOk
<1>3. ASSUME NEW o, o = [to |-> Other(h), seg |-> s] PROVE o.to = Other(h) /\ SegOk(h, o.seg, r)
  BY <1>3
<1>. QED BY <1>2, <1>3 DEF OutsOk

(* Segments sent stay right as the host goes on.                            *)
LEMMA OutsKept ==
  ASSUME NEW h \in Host, NEW t \in Tcb, NEW r \in Tcb, Grown(t, r), OutsOk(h, t),
         Outs(r) = Outs(t)
  PROVE  OutsOk(h, r)
<1>1. \A o \in Outs(t) : o.seg \in Segment
  BY OutsAre
<1>. QED BY <1>1, SegOkGrown DEF OutsOk

(* An ACK of what has arrived.                                              *)
LEMMA AckSegOk ==
  ASSUME NEW h \in Host, NEW t \in Tcb, Ready(t), NEW seq \in SeqNo, NEW ack \in SeqNo,
         Start(Other(h)) <= ack, ack <= RcvNxt(t)
  PROVE  Seg(seq, ack, {"ACK"}, <<>>) \in Segment /\ SegOk(h, Seg(seq, ack, {"ACK"}, <<>>), t)
<1>. DEFINE s == Seg(seq, ack, {"ACK"}, <<>>)
<1>0. {"ACK"} \in SUBSET Flags /\ <<>> \in Seq(Byte)
  BY DEF Flags
<1>1. s \in Segment /\ s.fl = {"ACK"} /\ s.data = <<>> /\ SegAck(s) = ack
  <2>1. s \in Segment
    BY <1>0, SegType
  <2>. QED BY <2>1 DEF Seg, SegAck
<1>. HIDE DEF s
<1>2. SegOk(h, s, t)
  BY <1>1 DEF SegOk
<1>. QED BY <1>1, <1>2 DEF s

(* A segment with the text up to snd.nxt.                                   *)
LEMMA DataSegOk ==
  ASSUME NEW h \in Host, NEW t \in Tcb, Ready(t), ~FinMade(t), NEW seq \in SeqNo, NEW ack \in SeqNo,
         NEW data \in Seq(Byte), Start(Other(h)) <= ack, ack <= RcvNxt(t),
         seq + Len(data) = SndNxt(t)
  PROVE  LET s == Seg(seq, ack, {"ACK"}, data) IN
         s \in Segment /\ SegOk(h, s, t) /\ s.fl = {"ACK"} /\ SegLen(s) = Len(data)
<1>. DEFINE s == Seg(seq, ack, {"ACK"}, data)
<1>1. {"ACK"} \in SUBSET Flags /\ Len(data) \in Nat
  BY DEF Flags
<1>2. s \in Segment
  BY <1>1, SegType
<1>3. s.fl = {"ACK"} /\ s.data = data /\ SegAck(s) = ack /\ SegEnd(s) = seq + Len(data)
  BY DEF Seg, SegAck, SegEnd
<1>. HIDE DEF s
<1>4. SegEnd(s) <= TextEnd(t)
  BY <1>3, Numbers DEF TextEnd
<1>5. SegOk(h, s, t)
  BY <1>3, <1>4 DEF SegOk
<1>6. SegLen(s) = Len(data)
  BY <1>1, <1>3 DEF SegLen, One
<1>. QED BY <1>2, <1>3, <1>5, <1>6 DEF s

-----------------------------------------------------------------------------
\* What each side knows of the other after a step of h from t to r.

(* A connection that left LISTEN talks to the other host.                   *)
LEMMA Dest == ASSUME NEW h \in Host, NEW t, Role(h, t), Ready(t) PROVE t.dest = Other(h)
  BY HostAssumption DEF Role, Host, Other

(* After a step that gives no number away.                                  *)
LEMMA CoreSteps ==
  ASSUME NEW h \in Host, NEW t, NEW gt \in Tcb, Core(h, t, gt), Ready(t), NEW r \in Tcb, Ready(r),
         Up(t) => Up(r), Up(r) => Ready(gt) /\ SndUna(r) <= RcvNxt(gt),
         r.iss = t.iss, r.dest = t.dest, r.irs = t.irs, SndNxt(r) = SndNxt(t),
         FinMade(t) <=> FinMade(r),
         RcvNxt(t) <= RcvNxt(r), RcvNxt(r) <= SndNxt(gt),
         NEW s \in Segment, Grown(t, r) => SegOk(h, s, r),
         Outs(r) \subseteq Outs(t) \cup {[to |-> t.dest, seg |-> s]}
  PROVE  Core(h, r, gt) /\ Grown(t, r)
<1>1. t \in Tcb /\ Role(h, t) /\ Trusts(h, t, gt) /\ OutsOk(h, t)
  BY DEF Core
<1>2. Grown(t, r)
  BY <1>1, Steady
<1>3. OutsOk(h, r)
  BY <1>1, <1>2, Dest, OutsGrown
<1>4. Role(h, r)
  BY <1>1 DEF Role, Up, Ready
<1>5. Start(Other(h)) <= RcvNxt(r)
  <2>1. Start(Other(h)) <= RcvNxt(t)
    BY <1>1 DEF Trusts
  <2>. QED BY <1>1, <2>1, Numbers, Hosts
<1>6. Trusts(h, r, gt)
  <2>1. t.irs = Isn[Other(h)] /\ (FinMade(t) => SndNxt(t) <= RcvNxt(gt) + 1)
    BY <1>1 DEF Trusts
  <2>. QED BY <1>5, <2>1 DEF Trusts
<1>. QED BY <1>2, <1>3, <1>4, <1>6 DEF Core

(* A step that sends one segment and moves rcv.nxt keeps Core.              *)
LEMMA CoreMoves ==
  ASSUME NEW h \in Host, NEW t, NEW gt \in Tcb, Core(h, t, gt), Up(t), NEW r \in Tcb, Up(r),
         r.iss = t.iss, r.dest = t.dest, r.irs = t.irs, SndNxt(r) = SndNxt(t),
         FinMade(t) <=> FinMade(r),
         RcvNxt(t) <= RcvNxt(r), RcvNxt(r) <= SndNxt(gt), SndUna(r) <= RcvNxt(gt),
         NEW s \in Segment, Grown(t, r) => SegOk(h, s, r),
         Outs(r) \subseteq Outs(t) \cup {[to |-> t.dest, seg |-> s]}
  PROVE  Core(h, r, gt) /\ Grown(t, r)
<1>1. Ready(t) /\ Ready(r)
  BY DEF Up, Ready
<1>2. Ready(gt)
  BY DEF Core, Trusts
<1>. QED BY <1>1, <1>2, CoreSteps

(* A step that sends nothing and moves no number but snd.una keeps Core.    *)
LEMMA CoreKept ==
  ASSUME NEW h \in Host, NEW t, NEW gt \in Tcb, Core(h, t, gt), Up(t), NEW r \in Tcb, Up(r),
         r.iss = t.iss, r.dest = t.dest, r.irs = t.irs, SndNxt(r) = SndNxt(t),
         FinMade(t) <=> FinMade(r), RcvNxt(r) = RcvNxt(t), SndUna(r) <= RcvNxt(gt),
         Outs(r) = Outs(t)
  PROVE  Core(h, r, gt) /\ Grown(t, r)
<1>1. t \in Tcb /\ Trusts(h, t, gt) /\ Ready(t) /\ Ready(r)
  BY DEF Core, Up, Ready
<1>2. /\ Start(Other(h)) <= RcvNxt(r) /\ RcvNxt(r) <= SndNxt(gt) /\ RcvNxt(r) <= RcvNxt(r)
      /\ RcvNxt(r) \in SeqNo
  BY <1>1, Numbers DEF Trusts
<1>3. PICK s \in Segment : SegOk(h, s, r)
  BY <1>1, <1>2, AckSegOk
<1>. QED BY <1>2, <1>3, CoreMoves

-----------------------------------------------------------------------------
\* The queue has room.

(* The first queued block fits before the end of the text.                  *)
LEMMA RoomHead ==
  ASSUME NEW q \in Seq(Seq(Byte)), NEW nxt \in Nat, NEW end \in Nat, NEW off, Places(q, nxt, end, off)
  PROVE  /\ nxt <= end
         /\ q # <<>> => Head(q) \in Seq(Byte) /\ Len(Head(q)) \in Nat /\ nxt + Len(Head(q)) <= end
<1>1. Len(q) \in Nat /\ (q # <<>> => Len(q) >= 1)
  OBVIOUS
<1>2. 1 \in 1 .. Len(q) + 1 /\ (q # <<>> => 1 \in 1 .. Len(q) /\ 2 \in 1 .. Len(q) + 1)
  BY <1>1
<1>3. nxt <= off[1] /\ off[1] \in Nat /\ off[1] <= end
  BY <1>2 DEF Places
<1>4. ASSUME q # <<>> PROVE Head(q) \in Seq(Byte) /\ Len(Head(q)) \in Nat /\ nxt + Len(Head(q)) <= end
  <2>1. Head(q) = q[1] /\ Head(q) \in Seq(Byte)
    BY <1>4
  <2>2. Len(Head(q)) \in Nat
    BY <2>1
  <2>3. off[1] + Len(Head(q)) <= off[2] /\ off[2] \in Nat /\ off[2] <= end
    BY <1>2, <1>4, <2>1 DEF Places
  <2>. HIDE DEF Places
  <2>4. \A a, b, c, n : a \in Nat /\ b \in Nat /\ c \in Nat /\ n \in Nat /\ nxt <= a /\ a + n <= b
                          /\ b <= end => nxt + n <= end
    OBVIOUS
  <2>. QED BY <1>3, <2>1, <2>2, <2>3, <2>4
<1>. QED BY <1>3, <1>4

(* The rest of the queue fits once the first block is sent.                 *)
LEMMA RoomTail ==
  ASSUME NEW q \in Seq(Seq(Byte)), NEW nxt \in Nat, NEW end \in Nat, NEW off, Places(q, nxt, end, off),
         q # <<>>, NEW next \in Nat, next <= nxt + Len(Head(q))
  PROVE  \E o : Places(Tail(q), next, end, o)
<1>. DEFINE o == [k \in 1 .. Len(q) |-> off[k + 1]]
<1>1. Len(q) \in Nat /\ Len(q) >= 1 /\ Len(Tail(q)) = Len(q) - 1 /\ Tail(q) \in Seq(Seq(Byte))
  OBVIOUS
<1>2. \A k \in 1 .. Len(q) - 1 : Tail(q)[k] = q[k + 1]
  BY <1>1
<1>3. next <= o[1]
  <2>1. 1 \in 1 .. Len(q) /\ 1 \in 1 .. Len(q) + 1 /\ 2 \in 1 .. Len(q) + 1 /\ o[1] = off[2]
    BY <1>1
  <2>2. off[1] + Len(q[1]) <= off[2] /\ nxt <= off[1] /\ off[1] \in Nat /\ off[2] \in Nat
    BY <2>1 DEF Places
  <2>3. Head(q) = q[1] /\ Len(q[1]) \in Nat
    BY <2>1
  <2>. HIDE DEF o
  <2>4. \A a, b, n \in Nat : nxt <= a /\ a + n <= b /\ next <= nxt + n => next <= b
    OBVIOUS
  <2>. QED BY <2>1, <2>2, <2>3, <2>4
<1>4. \A k \in 1 .. Len(Tail(q)) + 1 : o[k] \in Nat /\ o[k] <= end
  <2>1. ASSUME NEW k \in 1 .. Len(q) PROVE o[k] \in Nat /\ o[k] <= end
    <3>1. k + 1 \in 1 .. Len(q) + 1
      BY <1>1
    <3>. QED BY <3>1 DEF Places
  <2>. QED BY <1>1, <2>1
<1>5. \A k \in 1 .. Len(Tail(q)) : o[k] + Len(Tail(q)[k]) <= o[k + 1]
  <2>1. ASSUME NEW k \in 1 .. Len(q) - 1 PROVE o[k] + Len(Tail(q)[k]) <= o[k + 1]
    <3>1. k + 1 \in 1 .. Len(q) /\ k \in 1 .. Len(q)
      BY <1>1
    <3>2. off[k + 1] + Len(q[k + 1]) <= off[k + 1 + 1]
      BY <3>1 DEF Places
    <3>3. o[k] = off[k + 1] /\ o[k + 1] = off[k + 1 + 1]
      BY <3>1
    <3>. QED BY <1>2, <3>2, <3>3
  <2>. QED BY <1>1, <2>1
<1>. HIDE DEF o
<1>. QED BY <1>3, <1>4, <1>5 DEF Places

(* A block that tcp_send() appends fits.                                    *)
LEMMA RoomAppend ==
  ASSUME NEW q \in Seq(Seq(Byte)), NEW nxt \in Nat, NEW end \in Nat, NEW off, Places(q, nxt, end, off),
         NEW x \in Seq(Byte)
  PROVE  \E o : Places(Append(q, x), nxt, end + Len(x), o)
<1>. DEFINE n == Len(q)
            o == [k \in 1 .. n + 2 |-> IF k <= n + 1 THEN off[k] ELSE end + Len(x)]
            w == Append(q, x)
<1>1. n \in Nat /\ Len(x) \in Nat /\ Len(w) = n + 1 /\ w[n + 1] = x /\ \A k \in 1 .. n : w[k] = q[k]
  OBVIOUS
<1>. HIDE DEF w, n
<1>2. /\ nxt <= off[1] /\ \A k \in 1 .. n + 1 : off[k] \in Nat /\ off[k] <= end
      /\ \A k \in 1 .. n : off[k] + Len(q[k]) <= off[k + 1]
  BY DEF Places, n
<1>3. o[n + 2] = end + Len(x) /\ \A k \in 1 .. n + 1 : o[k] = off[k]
  BY <1>1
<1>. HIDE DEF o
<1>4. nxt <= o[1]
  BY <1>1, <1>2, <1>3
<1>5. ASSUME NEW k \in 1 .. n + 2 PROVE o[k] \in Nat /\ o[k] <= end + Len(x)
  <2>1. CASE k = n + 2
    BY <1>1, <1>3, <2>1
  <2>2. CASE k # n + 2
    <3>1. k \in 1 .. n + 1
      BY <1>1, <2>2
    <3>2. o[k] \in Nat /\ o[k] <= end
      BY <1>2, <1>3, <3>1
    <3>. QED BY <1>1, <3>2
  <2>. QED BY <2>1, <2>2
<1>6. ASSUME NEW k \in 1 .. n + 1 PROVE o[k] + Len(w[k]) <= o[k + 1]
  <2>1. CASE k = n + 1
    <3>1. off[k] \in Nat /\ off[k] <= end /\ o[k] = off[k] /\ o[k + 1] = end + Len(x) /\ w[k] = x
      BY <1>1, <1>2, <1>3, <2>1
    <3>. QED BY <1>1, <3>1
  <2>2. CASE k # n + 1
    <3>1. k \in 1 .. n /\ k + 1 \in 1 .. n + 1
      BY <1>1, <2>2
    <3>. QED BY <1>1, <1>2, <1>3, <3>1
  <2>. QED BY <2>1, <2>2
<1>7. Len(w) + 1 = n + 2
  BY <1>1
<1>8. Places(w, nxt, end + Len(x), o)
  BY <1>1, <1>4, <1>5, <1>6, <1>7, Zenon DEF Places
<1>. QED BY <1>8 DEF w

-----------------------------------------------------------------------------
\* What the sending side of h does.

(* A host that does not move has not gone back.                             *)
LEMMA GrownSame == ASSUME NEW t \in Tcb PROVE Grown(t, t)
  BY Numbers DEF Grown

(* A data segment is as long as its text.                                   *)
LEMMA AckLen ==
  ASSUME NEW seq, NEW ack, NEW data \in Seq(Byte)
  PROVE  SegLen(Seg(seq, ack, {"ACK"}, data)) = Len(data)
<1>1. Len(data) \in Nat
  OBVIOUS
<1>. QED BY <1>1 DEF Seg, SegLen, One

(* While there may be text to send, no FIN has been made.                   *)
LEMMA SendingFacts ==
  ASSUME NEW h \in Host, NEW t \in Tcb, NEW snt \in Seq(Byte), Len(snt) <= MaxBytes[h],
         Sending(h, t, snt)
  PROVE  /\ Up(t) /\ Ready(t) /\ ~FinMade(t) /\ TextEnd(t) = SndNxt(t)
         /\ Start(h) + Len(snt) \in Nat /\ Start(h) + Len(snt) <= Limit(h)
         /\ SndNxt(t) <= Start(h) + Len(snt)
<1>1. Up(t) /\ Ready(t) /\ ~FinAcked(t)
  BY DEF Sending, Up, Ready, FinAcked
<1>2. ~IsFin(t.tx)
  <2>1. t.tx # None => t.tx.fl = {"ACK"}
    BY DEF Sending
  <2>. QED BY <2>1 DEF IsFin
<1>3. Start(h) + Len(snt) \in Nat /\ Start(h) + Len(snt) <= Limit(h)
  <2>1. Len(snt) \in Nat
    OBVIOUS
  <2>. QED BY <2>1, Hosts
<1>4. SndNxt(t) <= Start(h) + Len(snt)
  <2>1. PICK off : Places(t.txData, SndNxt(t), Start(h) + Len(snt), off)
    BY DEF Sending, Room
  <2>2. t.txData \in Seq(Seq(Byte))
    BY DEF Tcb
  <2>. QED BY <1>3, <2>1, <2>2, Numbers, RoomHead
<1>. QED BY <1>1, <1>2, <1>3, <1>4 DEF FinMade, TextEnd

(* tcp_construct_data() sends the next block, and the numbers it takes are  *)
(* those of text the user has sent.                                         *)
LEMMA ConstructKeeps ==
  ASSUME NEW h \in Host, NEW t, NEW gt \in Tcb, NEW snt \in Seq(Byte), Len(snt) <= MaxBytes[h],
         Core(h, t, gt), Sending(h, t, snt), NEW e \in Env
  PROVE  LET r == ConstructData(t, e) IN
         /\ Core(h, r, gt) /\ Sending(h, r, snt) /\ Grown(t, r)
         /\ r.state = t.state /\ SameReceiver(r, t)
<1>. DEFINE r == ConstructData(t, e)
            end == Start(h) + Len(snt)
<1>0. t \in Tcb /\ Role(h, t) /\ Trusts(h, t, gt) /\ OutsOk(h, t)
  BY DEF Core
<1>1. /\ r \in Tcb /\ r.state = t.state /\ r.iss = t.iss /\ r.una = t.una
      /\ SameReceiver(r, t)
  BY <1>0, ConstructDataType
<1>2. /\ Up(t) /\ Ready(t) /\ ~FinMade(t) /\ TextEnd(t) = SndNxt(t)
      /\ end \in Nat /\ end <= Limit(h)
  BY <1>0, SendingFacts
<1>3. /\ Start(h) <= SndUna(t) /\ SndUna(t) <= SndNxt(t)
      /\ t.tx = None => SndUna(t) = SndNxt(t)
      /\ t.state \in {"ESTABLISHED", "CLOSE_WAIT", "FIN_WAIT_1", "LAST_ACK"}
  BY DEF Sending
<1>4. PICK off : Places(t.txData, SndNxt(t), end, off)
  BY DEF Sending, Room
<1>5. t.txData \in Seq(Seq(Byte)) /\ SndNxt(t) \in Nat
  BY <1>0, Numbers DEF Tcb
<1>6. t.tx # None \/ t.txData = <<>> => r = t
  BY <1>0, ConstructDataType
<1>7. t.tx = None /\ t.txData # <<>> /\ ~e.seg =>
        r.nxt = t.nxt /\ r.tx = None /\ r.txData = Tail(t.txData) /\ Outs(r) = Outs(t)
  BY <1>0, ConstructDataType
<1>8. t.tx = None /\ t.txData # <<>> /\ e.seg =>
        /\ r.tx = Seg(t.una, t.rnxt, {"ACK"}, Head(t.txData))
        /\ r.nxt = SnAdd(t.nxt, SegLen(r.tx)) /\ r.txData = Tail(t.txData)
        /\ Outs(r) \subseteq Outs(t) \cup {[to |-> t.dest, seg |-> r.tx]}
  BY <1>0, ConstructDataType DEF DataOut
<1>. HIDE DEF r, end
<1>9. CASE t.tx # None \/ t.txData = <<>>
  BY <1>0, <1>6, <1>9, GrownSame DEF r, SameReceiver
<1>10. SndUna(r) = SndUna(t) /\ RcvNxt(r) = RcvNxt(t) /\ Up(r) /\ Ready(r) /\ ~FinAcked(r)
  BY <1>1, <1>2, <1>3 DEF SndUna, RcvNxt, SameReceiver, Up, Ready, FinAcked
<1>11. CASE t.tx = None /\ t.txData # <<>> /\ ~e.seg
  <2>1. SndNxt(r) = SndNxt(t) /\ ~FinMade(r)
    BY <1>7, <1>10, <1>11 DEF SndNxt, FinMade, IsFin
  <2>2. r.dest = t.dest /\ r.irs = t.irs
    BY <1>1 DEF SameReceiver
  <2>3. SndUna(r) <= RcvNxt(gt)
    BY <1>0, <1>2, <1>10 DEF Trusts
  <2>4. Core(h, r, gt) /\ Grown(t, r)
    BY <1>1, <1>2, <1>7, <1>10, <1>11, <2>1, <2>2, <2>3, CoreKept
  <2>5. Room(r, end)
    <3>1. SndNxt(t) <= SndNxt(t) + Len(Head(t.txData))
      BY <1>2, <1>4, <1>5, <1>11, RoomHead
    <3>2. \E o : Places(Tail(t.txData), SndNxt(t), end, o)
      BY <1>2, <1>4, <1>5, <1>11, <3>1, RoomTail
    <3>. QED BY <1>7, <1>11, <2>1, <3>2 DEF Room
  <2>6. Sending(h, r, snt)
    BY <1>1, <1>3, <1>7, <1>10, <1>11, <2>1, <2>5 DEF Sending, end
  <2>. QED BY <1>1, <2>4, <2>6 DEF r
<1>12. CASE t.tx = None /\ t.txData # <<>> /\ e.seg
  <2>. DEFINE b == Head(t.txData)
              x == Seg(t.una, t.rnxt, {"ACK"}, b)
  <2>1. b \in Seq(Byte) /\ Len(b) \in Nat /\ SndNxt(t) + Len(b) <= end
    BY <1>2, <1>4, <1>5, <1>12, RoomHead
  <2>2. r.tx = x /\ SegLen(x) = Len(b) /\ r.nxt = SnAdd(t.nxt, Len(b))
    BY <1>8, <1>12, <2>1, AckLen
  <2>3. SndNxt(r) = SndNxt(t) + Len(b)
    <3>1. SndNxt(t) + Len(b) < SnMod
      <4>1. \A m, n \in Nat : m <= end /\ end <= n /\ n + 1 < SnMod => m < SnMod
        BY <1>2, SnModAssumption
      <4>2. Limit(h) \in Nat /\ Limit(h) + 1 < SnMod
        BY Hosts
      <4>3. SndNxt(t) + Len(b) \in Nat
        BY <1>5, <2>1
      <4>. QED BY <1>2, <2>1, <4>1, <4>2, <4>3, Zenon
    <3>. QED BY <1>5, <2>1, <2>2, <3>1, Plain DEF SndNxt
  <2>4. x.fl = {"ACK"}
    BY DEF Seg
  <2>. HIDE DEF b, x
  <2>5. ~FinMade(r)
    BY <1>10, <2>2, <2>4 DEF FinMade, IsFin
  <2>6. TextEnd(r) = SndNxt(r)
    BY <2>5 DEF TextEnd
  <2>7. Grown(t, r)
    BY <1>0, <1>2, <1>5, <1>10, <2>1, <2>3, <2>6, Numbers DEF Grown
  <2>8. x \in Segment /\ SegOk(h, x, r)
    <3>1. t.una \in SeqNo /\ t.rnxt \in SeqNo /\ t.rnxt = RcvNxt(r) /\ t.una = SndNxt(t)
      BY <1>0, <1>3, <1>10, <1>12, Numbers DEF RcvNxt, SndUna
    <3>2. Start(Other(h)) <= RcvNxt(r) /\ RcvNxt(r) <= RcvNxt(r)
      BY <1>0, <1>1, <1>2, <1>10, Numbers DEF Trusts
    <3>. QED BY <1>1, <1>10, <2>1, <2>3, <2>5, <3>1, <3>2, DataSegOk DEF x
  <2>9. OutsOk(h, r)
    BY <1>0, <1>1, <1>2, <1>8, <1>12, <2>2, <2>7, <2>8, Dest, OutsGrown
  <2>10. Role(h, r)
    BY <1>0, <1>1 DEF Role, SameReceiver, Ready
  <2>11. Trusts(h, r, gt)
    <3>1. /\ Ready(gt) /\ SndUna(t) <= RcvNxt(gt) /\ t.irs = Isn[Other(h)]
          /\ Start(Other(h)) <= RcvNxt(t) /\ RcvNxt(t) <= SndNxt(gt)
      BY <1>0, <1>2 DEF Trusts
    <3>2. r.irs = t.irs
      BY <1>1 DEF SameReceiver
    <3>. QED BY <1>10, <2>5, <3>1, <3>2 DEF Trusts
  <2>12. Room(r, end)
    <3>0. SndNxt(r) \in Nat /\ SndNxt(r) <= SndNxt(t) + Len(Head(t.txData))
      BY <1>1, <2>3, Numbers DEF b
    <3>1. \E o : Places(Tail(t.txData), SndNxt(r), end, o)
      BY <1>2, <1>4, <1>5, <1>12, <3>0, RoomTail, Zenon
    <3>. QED BY <1>8, <1>12, <3>1 DEF Room
  <2>13. SndUna(r) <= SndNxt(r)
    BY <1>3, <1>5, <1>10, <1>12, <2>1, <2>3
  <2>14. r.tx # None
    BY <2>2, <2>8, NoneAssumption
  <2>15. Sending(h, r, snt)
    BY <1>1, <1>3, <1>10, <2>2, <2>4, <2>8, <2>12, <2>13, <2>14 DEF Sending, end
  <2>. QED BY <1>1, <2>7, <2>9, <2>10, <2>11, <2>15 DEF r, Core
<1>. QED BY <1>9, <1>11, <1>12

(* tcp_handle_ack_of_data() takes only what its peer has received for       *)
(* acknowledged, and goes on to the next block.                             *)
LEMMA AckKeeps ==
  ASSUME NEW h \in Host, NEW t, NEW gt \in Tcb, NEW snt \in Seq(Byte), Len(snt) <= MaxBytes[h],
         Core(h, t, gt), Sending(h, t, snt), NEW e \in Env,
         NEW s \in Segment, SegAck(s) <= RcvNxt(gt)
  PROVE  LET r == HandleAckOfData(t, e, s) IN
         /\ Core(h, r, gt) /\ Sending(h, r, snt) /\ Grown(t, r)
         /\ r.state = t.state /\ SameReceiver(r, t)
<1>. DEFINE r == HandleAckOfData(t, e, s)
            u == [t EXCEPT !.una = s.ack]
            c == TxComplete(u)
<1>0. t \in Tcb /\ s.ack \in SeqNo
  BY DEF Core, Segment
<1>1. /\ Up(t) /\ Ready(t) /\ ~FinMade(t)
  BY <1>0, SendingFacts
<1>2. r = t \/ (r = ConstructData(c, e) /\ s.ack = t.nxt)
  BY DEF HandleAckOfData
<1>3. /\ u \in Tcb /\ u.state = t.state /\ u.iss = t.iss /\ SameReceiver(u, t)
      /\ u.una = s.ack /\ u.nxt = t.nxt /\ u.txData = t.txData /\ Outs(u) = Outs(t)
  BY <1>0 DEF Tcb, SameReceiver, Outs
<1>. HIDE DEF r, u
<1>4. /\ c \in Tcb /\ c.tx = None /\ c.state = t.state /\ c.iss = t.iss
      /\ SameReceiver(c, t) /\ c.una = s.ack /\ c.nxt = t.nxt /\ c.txData = t.txData
      /\ Outs(c) = Outs(t)
  BY <1>3, TxCompleteType DEF SameReceiver
<1>. HIDE DEF c
<1>5. CASE r = t
  BY <1>0, <1>5, GrownSame DEF r, SameReceiver
<1>6. CASE r = ConstructData(c, e) /\ s.ack = t.nxt
  <2>1. SndUna(c) = SegAck(s) /\ SndNxt(c) = SndNxt(t) /\ SndUna(c) = SndNxt(c)
    BY <1>4, <1>6 DEF SndUna, SndNxt, SegAck
  <2>2. Up(c) /\ ~FinMade(c) /\ RcvNxt(c) = RcvNxt(t) /\ c.dest = t.dest /\ c.irs = t.irs
    BY <1>1, <1>4 DEF Up, FinMade, FinAcked, IsFin, SameReceiver, RcvNxt
  <2>3. Core(h, c, gt) /\ Grown(t, c)
    BY <1>1, <1>4, <2>1, <2>2, CoreKept
  <2>4. Start(h) <= SndUna(c) /\ SndUna(c) <= SndNxt(c)
    <3>1. /\ Start(h) <= SndUna(t) /\ SndUna(t) <= SndNxt(t)
          /\ SndUna(t) \in Nat /\ SndNxt(t) \in Nat /\ Start(h) \in Nat
      BY <1>0, Numbers, Hosts DEF Sending
    <3>. QED BY <2>1, <3>1
  <2>5. Sending(h, c, snt)
    BY <1>4, <2>1, <2>4 DEF Sending, Room
  <2>6. /\ Core(h, r, gt) /\ Sending(h, r, snt) /\ Grown(c, r)
        /\ r.state = c.state /\ SameReceiver(r, c)
    BY <1>6, <2>3, <2>5, ConstructKeeps
  <2>7. r \in Tcb
    BY <2>6 DEF Core
  <2>8. Grown(t, r)
    BY <1>0, <1>4, <2>3, <2>6, <2>7, GrownTrans
  <2>9. r.state = t.state /\ SameReceiver(r, t)
    BY <1>4, <2>6 DEF SameReceiver
  <2>. QED BY <2>6, <2>8, <2>9 DEF r
<1>. QED BY <1>2, <1>5, <1>6

\* r is c, but perhaps in another state.
Renamed(r, c) ==
  /\ r.iss = c.iss /\ r.tx = c.tx /\ r.txData = c.txData
  /\ r.una = c.una /\ r.nxt = c.nxt /\ SameReceiver(r, c) /\ Outs(r) = Outs(c)

(* tcp_contruct_fin_ack() numbers the FIN when all text was acknowledged.   *)
LEMMA FinBuilt ==
  ASSUME NEW h \in Host, NEW t, NEW gt \in Tcb, NEW snt \in Seq(Byte), Len(snt) <= MaxBytes[h],
         Core(h, t, gt), Sending(h, t, snt), NEW e \in Env,
         NEW r \in Tcb, r.state \in {"FIN_WAIT_1", "LAST_ACK"}, Renamed(r, ConstructFinAck(t, e))
  PROVE  Core(h, r, gt) /\ Sender(h, r, snt) /\ Grown(t, r)
<1>. DEFINE c == ConstructFinAck(t, e)
            x == Seg(t.una, t.rnxt, {"FIN", "ACK"}, <<>>)
            end == Start(h) + Len(snt)
<1>0. t \in Tcb /\ Role(h, t) /\ Trusts(h, t, gt) /\ OutsOk(h, t)
  BY DEF Core
<1>1. /\ Up(t) /\ Ready(t) /\ ~FinMade(t) /\ TextEnd(t) = SndNxt(t)
      /\ SndNxt(t) <= end /\ end \in Nat /\ end <= Limit(h)
  BY <1>0, SendingFacts
<1>2. /\ Start(h) <= SndUna(t) /\ SndUna(t) <= SndNxt(t)
      /\ t.tx = None => SndUna(t) = SndNxt(t)
  BY DEF Sending
<1>3. /\ Ready(gt) /\ SndUna(t) <= RcvNxt(gt) /\ t.irs = Isn[Other(h)]
      /\ Start(Other(h)) <= RcvNxt(t) /\ RcvNxt(t) <= SndNxt(gt)
  BY <1>0, <1>1 DEF Trusts
<1>4. /\ c.iss = t.iss /\ c.una = t.una /\ c.txData = t.txData
      /\ SameReceiver(c, t) /\ Outs(c) = Outs(t)
      /\ c = t \/ (t.tx = None /\ c.tx = x /\ c.nxt = SnAdd(t.nxt, 1))
  BY <1>0, ConstructFinAckType
<1>. HIDE DEF c, end
<1>5. /\ r.iss = t.iss /\ r.una = t.una /\ r.txData = t.txData /\ r.dest = t.dest /\ r.irs = t.irs
      /\ r.rnxt = t.rnxt /\ Outs(r) = Outs(t) /\ r.tx = c.tx /\ r.nxt = c.nxt
  BY <1>4 DEF Renamed, SameReceiver, c
<1>6. SndUna(r) = SndUna(t) /\ RcvNxt(r) = RcvNxt(t) /\ Up(r) /\ Ready(r) /\ ~FinAcked(r)
  BY <1>5 DEF SndUna, RcvNxt, Up, Ready, FinAcked
<1>7. Role(h, r)
  BY <1>0, <1>1, <1>5 DEF Role
<1>8. CASE c = t
  <2>1. SndNxt(r) = SndNxt(t) /\ ~FinMade(r)
    BY <1>1, <1>5, <1>6, <1>8 DEF SndNxt, FinMade
  <2>2. SndUna(r) <= RcvNxt(gt)
    BY <1>3, <1>6
  <2>3. Core(h, r, gt) /\ Grown(t, r)
    BY <1>1, <1>5, <1>6, <2>1, <2>2, CoreKept
  <2>4. r.tx # None => r.tx.fl = {"ACK"} /\ SegOk(h, r.tx, r)
    <3>1. t.tx # None => t.tx.fl = {"ACK"} /\ SegOk(h, t.tx, t) /\ t.tx \in Segment
      BY <1>0 DEF Sending, Tcb
    <3>. QED BY <1>0, <1>5, <1>8, <2>3, <3>1, SegOkGrown
  <2>5. Room(r, end)
    BY <1>5, <2>1 DEF Sending, Room, end
  <2>6. Sending(h, r, snt)
    BY <1>2, <1>5, <1>6, <1>8, <2>1, <2>4, <2>5 DEF Sending, end
  <2>. QED BY <1>6, <2>3, <2>6 DEF Sender
<1>9. CASE t.tx = None /\ c.tx = x /\ c.nxt = SnAdd(t.nxt, 1)
  <2>1. SndNxt(r) = SndNxt(t) + 1 /\ SndNxt(t) \in Nat /\ SndNxt(r) <= Limit(h) + 1
    <3>1. SndNxt(t) \in Nat /\ Limit(h) \in Nat /\ Limit(h) + 1 < SnMod
      BY <1>0, Hosts, Numbers
    <3>2. SndNxt(t) <= Limit(h)
      BY <1>1, <3>1
    <3>3. SndNxt(t) + 1 < SnMod
      BY <3>1, <3>2, SnModAssumption
    <3>4. SndNxt(r) = SndNxt(t) + 1
      BY <1>5, <1>9, <3>1, <3>3, Plain DEF SndNxt
    <3>. QED BY <3>1, <3>2, <3>4
  <2>2. x \in Segment /\ x.fl = {"FIN", "ACK"} /\ x.data = <<>>
    <3>1. t.una \in SeqNo /\ t.rnxt \in SeqNo /\ {"FIN", "ACK"} \in SUBSET Flags /\ <<>> \in Seq(Byte)
      BY <1>0 DEF Tcb, Flags
    <3>2. x \in Segment
      BY <3>1, SegType
    <3>. QED BY <3>2 DEF Seg
  <2>3. SegSeq(x) = SndNxt(t) /\ SegAck(x) = RcvNxt(r)
    BY <1>2, <1>5, <1>9 DEF Seg, SegSeq, SegAck, SndUna, RcvNxt
  <2>. HIDE DEF x
  <2>4. IsFin(r.tx) /\ FinMade(r) /\ TextEnd(r) = SndNxt(t)
    <3>1. IsFin(r.tx)
      BY <1>5, <1>9, <2>2, NoneAssumption DEF IsFin
    <3>. QED BY <2>1, <3>1 DEF FinMade, TextEnd
  <2>5. Grown(t, r)
    BY <1>1, <1>6, <2>1, <2>4, <1>0, Numbers DEF Grown
  <2>6. SegOk(h, x, r)
    <3>1. Start(Other(h)) <= SegAck(x) /\ SegAck(x) <= RcvNxt(r)
      BY <1>3, <1>6, <2>3, Numbers
    <3>2. SegSeq(x) + 1 = SndNxt(r)
      BY <2>1, <2>3
    <3>. QED BY <1>6, <2>2, <2>4, <3>1, <3>2 DEF SegOk
  <2>7. OutsOk(h, r)
    BY <1>0, <1>5, <2>5, OutsKept
  <2>8. Trusts(h, r, gt)
    <3>1. SndNxt(r) <= RcvNxt(gt) + 1
      BY <1>2, <1>3, <1>9, <2>1, Numbers
    <3>. QED BY <1>3, <1>5, <1>6, <3>1 DEF Trusts
  <2>9. SndUna(r) <= SndNxt(r)
    BY <1>2, <1>6, <1>9, <2>1
  <2>10. Closing(h, r)
    BY <1>2, <1>5, <1>6, <1>9, <2>1, <2>2, <2>4, <2>6, <2>9 DEF Closing
  <2>. QED BY <1>6, <1>7, <2>5, <2>7, <2>8, <2>10 DEF Core, Sender
<1>. QED BY <1>4, <1>8, <1>9

(* An acknowledgement keeps what is known of a sender.                      *)
LEMMA SenderMoves ==
  ASSUME NEW h \in Host, NEW t \in Tcb, NEW r \in Tcb, NEW snt, Grown(t, r),
         r.tx = t.tx, r.txData = t.txData, SndNxt(r) = SndNxt(t),
         SndUna(t) <= SndUna(r), SndUna(r) <= SndNxt(r)
  PROVE  /\ Sending(h, t, snt) /\ r.state \in {"ESTABLISHED", "CLOSE_WAIT", "FIN_WAIT_1", "LAST_ACK"}
              => Sending(h, r, snt)
         /\ Closing(h, t) /\ (FinAcked(r) \/ (r.state \in {"FIN_WAIT_1", "LAST_ACK"} /\ IsFin(r.tx)))
              => Closing(h, r)
<1>1. Start(h) <= SndUna(t) => Start(h) <= SndUna(r)
  BY Numbers, Hosts
<1>2. t.tx # None => t.tx \in Segment
  BY DEF Tcb
<1>3. ASSUME Sending(h, t, snt),
             r.state \in {"ESTABLISHED", "CLOSE_WAIT", "FIN_WAIT_1", "LAST_ACK"}
      PROVE  Sending(h, r, snt)
  <2>1. Room(r, Start(h) + Len(snt))
    BY <1>3 DEF Sending, Room
  <2>2. r.tx = None => SndUna(r) = SndNxt(r)
    <3>1. r.tx = None => SndUna(t) = SndNxt(t)
      BY <1>3 DEF Sending
    <3>. QED BY <3>1, Numbers
  <2>3. r.tx # None => r.tx.fl = {"ACK"} /\ SegOk(h, r.tx, r)
    <3>1. t.tx # None => t.tx.fl = {"ACK"} /\ SegOk(h, t.tx, t)
      BY <1>3 DEF Sending
    <3>. QED BY <1>2, <3>1, SegOkGrown
  <2>4. Start(h) <= SndUna(r)
    BY <1>1, <1>3 DEF Sending
  <2>. QED BY <1>3, <2>1, <2>2, <2>3, <2>4 DEF Sending
<1>4. ASSUME Closing(h, t), FinAcked(r) \/ (r.state \in {"FIN_WAIT_1", "LAST_ACK"} /\ IsFin(r.tx))
      PROVE  Closing(h, r)
  <2>1. IsFin(r.tx) => r.tx.fl = {"FIN", "ACK"} /\ SegOk(h, r.tx, r)
    <3>1. IsFin(t.tx) => t.tx.fl = {"FIN", "ACK"} /\ SegOk(h, t.tx, t) /\ t.tx \in Segment
      BY <1>2, <1>4 DEF Closing, IsFin
    <3>. QED BY <3>1, SegOkGrown
  <2>2. Start(h) <= SndUna(r) /\ SndNxt(r) <= Limit(h) + 1
    BY <1>1, <1>4 DEF Closing
  <2>. QED BY <1>4, <2>1, <2>2 DEF Closing
<1>. QED BY <1>3, <1>4

-----------------------------------------------------------------------------
\* What the receiving side of h does.

(* What handle_data() puts in the receive queue for a segment.              *)
LEMMA BlockFacts ==
  ASSUME NEW s \in Segment, "SYN" \notin s.fl
  PROVE  /\ Len(TextBlock(s)) \in Nat
         /\ SegLen(s) > 0 => 1 <= Len(TextBlock(s)) /\ Len(TextBlock(s)) <= SegLen(s)
         /\ "FIN" \notin s.fl => TextBlock(s) \in Seq(Byte) /\ SegLen(s) = Len(s.data)
         /\ "FIN" \in s.fl /\ s.data = <<>> => SegLen(s) = 1
<1>. DEFINE n == IF SegLen(s) > Wnd THEN Wnd ELSE SegLen(s)
            d == s.data
<1>1. d \in Seq(Byte) /\ Len(d) \in Nat /\ (d = <<>> => Len(d) = 0)
  BY DEF Segment
<1>2. /\ "FIN" \notin s.fl => SegLen(s) = Len(d)
      /\ "FIN" \in s.fl => SegLen(s) = Len(d) + 1
      /\ SegLen(s) \in Nat
  <2>1. SegLen(s) = Len(d) + One("FIN", s)
    BY <1>1, SegLenType DEF SegLen, One
  <2>2. One("FIN", s) = IF "FIN" \in s.fl THEN 1 ELSE 0
    BY DEF One
  <2>. HIDE DEF d
  <2>. QED BY <1>1, <2>1, <2>2
<1>. HIDE DEF d
<1>3. n \in Nat /\ (SegLen(s) > 0 => 1 <= n /\ n <= SegLen(s)) /\ n <= SegLen(s)
  BY <1>2, WndAssumption
<1>4. TextBlock(s) = [i \in 1 .. n |-> IF i <= Len(d) THEN d[i] ELSE Junk]
  BY DEF TextBlock, d
<1>. HIDE DEF n
<1>5. Len(TextBlock(s)) = n
  BY <1>3, <1>4
<1>6. ASSUME "FIN" \notin s.fl PROVE TextBlock(s) \in Seq(Byte)
  <2>1. \A i \in 1 .. n : i <= Len(d) /\ d[i] \in Byte
    BY <1>1, <1>2, <1>3, <1>6
  <2>. QED BY <1>3, <1>4, <2>1
<1>. QED BY <1>1, <1>2, <1>3, <1>5, <1>6 DEF d

(* tcp_handle_data() counts only what its peer has sent, and gives the user *)
(* nothing but text unless the segment is a FIN.                            *)
LEMMA DataKeeps ==
  ASSUME NEW h \in Host, NEW t, NEW gt \in Tcb, Core(h, t, gt), Up(t),
         NEW e \in Env, NEW s \in Segment, SegOk(Other(h), s, gt)
  PROVE  LET r == HandleData(t, e, s) IN
         /\ Core(h, r, gt) /\ Grown(t, r) /\ SameSender(r, t)
         /\ SndUna(r) = SndUna(t) /\ SndNxt(r) = SndNxt(t)
         /\ "FIN" \notin s.fl /\ RcvNxt(t) <= TextEnd(gt) => RcvNxt(r) <= TextEnd(gt)
         /\ "FIN" \notin s.fl /\ t.rxData \in Seq(Seq(Byte)) => r.rxData \in Seq(Seq(Byte))
<1>. DEFINE r == HandleData(t, e, s)
            b == TextBlock(s)
            n == Len(b)
<1>0. t \in Tcb /\ Trusts(h, t, gt) /\ Ready(t)
  BY DEF Core, Up, Ready
<1>1. /\ r \in Tcb /\ SameSender(r, t) /\ r.una = t.una /\ r.nxt = t.nxt /\ r.dest = t.dest
      /\ r = t \/ Stored(r, t, s)
  BY <1>0, HandleDataType
<1>. HIDE DEF r
<1>2. SndUna(r) = SndUna(t) /\ SndNxt(r) = SndNxt(t)
  BY <1>1 DEF SndUna, SndNxt
<1>3. CASE r = t
  BY <1>0, <1>1, <1>2, <1>3, GrownSame DEF r
<1>4. CASE Stored(r, t, s)
  <2>0. /\ s.seq = t.rnxt /\ SegLen(s) > 0 /\ r.rxData = Append(t.rxData, b)
        /\ r.rnxt = SnAdd(t.rnxt, n) /\ r.irs = t.irs
        /\ Outs(r) \subseteq Outs(t) \cup {[to |-> t.dest, seg |-> Seg(t.una, r.rnxt, {"ACK"}, <<>>)]}
    BY <1>4 DEF Stored
  <2>1. /\ Start(Other(h)) <= RcvNxt(t) /\ RcvNxt(t) \in Nat /\ SegSeq(s) = RcvNxt(t)
        /\ Start(Other(h)) = Isn[Other(h)] + 1 /\ Isn[Other(h)] \in Nat
    BY <1>0, <2>0, Hosts, Numbers DEF Trusts, SegSeq, RcvNxt
  <2>2. "SYN" \notin s.fl
    <3>1. SegSeq(s) # Isn[Other(h)]
      BY <2>1
    <3>. QED BY <3>1 DEF SegOk
  <2>3. /\ n \in Nat /\ 1 <= n /\ n <= SegLen(s)
        /\ "FIN" \notin s.fl => b \in Seq(Byte) /\ SegLen(s) = Len(s.data)
        /\ "FIN" \in s.fl /\ s.data = <<>> => SegLen(s) = 1
    BY <2>0, <2>2, BlockFacts
  <2>. HIDE DEF b, n
  <2>4. /\ SndNxt(gt) \in Nat /\ SndNxt(gt) < SnMod
        /\ TextEnd(gt) \in Int /\ TextEnd(gt) <= SndNxt(gt)
    BY Numbers, SnModAssumption DEF SeqNo
  <2>5. RcvNxt(t) + n <= SndNxt(gt) /\ ("FIN" \notin s.fl => RcvNxt(t) + n <= TextEnd(gt))
    <3>1. CASE "FIN" \in s.fl
      <4>1. s.data = <<>> /\ SegSeq(s) + 1 = SndNxt(gt)
        BY <3>1 DEF SegOk
      <4>2. n = 1
        BY <2>3, <3>1, <4>1
      <4>. QED BY <2>1, <3>1, <4>1, <4>2
    <3>2. CASE "FIN" \notin s.fl
      <4>1. s.data # <<>> /\ SegEnd(s) = SegSeq(s) + Len(s.data) /\ Len(s.data) \in Nat
            /\ n <= Len(s.data)
        BY <2>3, <3>2, SegNumbers
      <4>2. SegEnd(s) <= TextEnd(gt)
        BY <4>1 DEF SegOk
      <4>. QED BY <2>1, <2>3, <2>4, <4>1, <4>2
    <3>. QED BY <3>1, <3>2
  <2>6. RcvNxt(r) = RcvNxt(t) + n
    <3>1. RcvNxt(t) + n < SnMod
      BY <2>1, <2>3, <2>4, <2>5, SnModAssumption
    <3>2. RcvNxt(r) = SnAdd(RcvNxt(t), n)
      BY <2>0 DEF RcvNxt
    <3>. QED BY <2>1, <2>3, <3>1, <3>2, Plain
  <2>7. RcvNxt(t) <= RcvNxt(r) /\ RcvNxt(r) <= SndNxt(gt) /\ Start(Other(h)) <= RcvNxt(r)
    BY <2>1, <2>3, <2>5, <2>6, Hosts
  <2>8. Up(r) /\ Ready(r) /\ r.iss = t.iss /\ (FinMade(t) <=> FinMade(r))
    BY <1>1 DEF SameSender, Up, Ready, FinMade, FinAcked
  <2>. DEFINE x == Seg(t.una, r.rnxt, {"ACK"}, <<>>)
  <2>9. x \in Segment /\ SegOk(h, x, r)
    <3>1. t.una \in SeqNo /\ r.rnxt \in SeqNo /\ r.rnxt = RcvNxt(r) /\ RcvNxt(r) <= RcvNxt(r)
      BY <1>0, <1>1, Numbers DEF RcvNxt, SndUna
    <3>. QED BY <1>1, <2>7, <2>8, <3>1, AckSegOk
  <2>10. SndUna(r) <= RcvNxt(gt)
    BY <1>0, <1>2 DEF Trusts
  <2>11. Outs(r) \subseteq Outs(t) \cup {[to |-> t.dest, seg |-> x]}
    BY <2>0
  <2>. HIDE DEF x
  <2>12. Core(h, r, gt) /\ Grown(t, r)
    BY <1>1, <1>2, <2>0, <2>7, <2>8, <2>9, <2>10, <2>11, CoreMoves
  <2>13. "FIN" \notin s.fl /\ t.rxData \in Seq(Seq(Byte)) => r.rxData \in Seq(Seq(Byte))
    BY <2>0, <2>3
  <2>. QED BY <1>1, <1>2, <2>5, <2>6, <2>12, <2>13 DEF r
<1>. QED BY <1>1, <1>3, <1>4

(* tcp_handle_fin_ack() counts the FIN of its peer, which has the last      *)
(* number its peer has given away.                                          *)
LEMMA FinAckKeeps ==
  ASSUME NEW h \in Host, NEW t, NEW gt \in Tcb, Core(h, t, gt), Up(t), SndUna(t) <= SndNxt(t),
         Trusts(Other(h), gt, t), NEW e \in Env, NEW s \in Segment, SegOk(Other(h), s, gt),
         "FIN" \in s.fl, SegAck(s) <= RcvNxt(gt)
  PROVE  LET r == HandleFinAck(t, e, s) IN
         /\ Core(h, r, gt) /\ Grown(t, r) /\ SameSender(r, t)
         /\ SndUna(t) <= SndUna(r) /\ SndUna(r) <= SndNxt(r) /\ SndNxt(r) = SndNxt(t)
         /\ FinMade(gt) /\ SndNxt(gt) <= RcvNxt(r) + 1
<1>. DEFINE r == HandleFinAck(t, e, s)
<1>0. t \in Tcb /\ Trusts(h, t, gt) /\ Ready(t)
  BY DEF Core, Up, Ready
<1>1. /\ r \in Tcb /\ SameSender(r, t) /\ r.nxt = t.nxt /\ r.dest = t.dest
      /\ r = t \/ FinCounted(r, t, s)
  BY <1>0, HandleFinAckType
<1>. HIDE DEF r
<1>2. SndNxt(r) = SndNxt(t)
  BY <1>1 DEF SndNxt
<1>3. FinMade(gt) /\ SegSeq(s) + 1 = SndNxt(gt) /\ SndNxt(gt) <= RcvNxt(t) + 1
  BY <1>0 DEF SegOk, Trusts
<1>4. CASE r = t
  <2>1. SndUna(t) <= SndUna(t)
    BY <1>0, Numbers
  <2>. QED BY <1>0, <1>1, <1>2, <1>3, <1>4, <2>1, GrownSame DEF r
<1>5. CASE FinCounted(r, t, s)
  <2>0. /\ Sncmp(SndUna(t), LS, SegAck(s), LE, SndNxt(t)) /\ SndUna(r) = SegAck(s)
        /\ RcvNxt(r) = SnAdd(SegSeq(s), 1) /\ r.irs = t.irs
        /\ Outs(r) \subseteq Outs(t) \cup {[to |-> t.dest, seg |-> Seg(s.ack, r.rnxt, {"ACK"}, <<>>)]}
    BY <1>5 DEF FinCounted, SndUna, SndNxt, RcvNxt, SegAck, SegSeq
  <2>1. SndUna(t) < SegAck(s) /\ SegAck(s) <= SndNxt(t)
    BY <1>0, <2>0, Numbers, SegNumbers, Between
  <2>2. RcvNxt(r) = SndNxt(gt)
    <3>1. SndNxt(gt) < SnMod /\ SegSeq(s) \in Nat
      BY Numbers, SegNumbers, SnModAssumption DEF SeqNo
    <3>. QED BY <1>3, <2>0, <3>1, Plain
  <2>3. Start(Other(h)) <= RcvNxt(t) /\ RcvNxt(t) <= SndNxt(gt)
    BY <1>0 DEF Trusts
  <2>4. RcvNxt(t) <= RcvNxt(r) /\ RcvNxt(r) <= SndNxt(gt) /\ Start(Other(h)) <= RcvNxt(r)
    BY <1>0, <2>2, <2>3, Numbers, Hosts
  <2>5. Up(r) /\ Ready(r) /\ r.iss = t.iss /\ (FinMade(t) <=> FinMade(r))
    BY <1>1 DEF SameSender, Up, Ready, FinMade, FinAcked
  <2>. DEFINE x == Seg(s.ack, r.rnxt, {"ACK"}, <<>>)
  <2>6. x \in Segment /\ SegOk(h, x, r)
    <3>1. s.ack \in SeqNo /\ r.rnxt \in SeqNo /\ r.rnxt = RcvNxt(r) /\ RcvNxt(r) <= RcvNxt(r)
      BY <1>1, Numbers, SegNumbers DEF RcvNxt, SegAck
    <3>. QED BY <1>1, <2>4, <2>5, <3>1, AckSegOk
  <2>7. Outs(r) \subseteq Outs(t) \cup {[to |-> t.dest, seg |-> x]}
    BY <2>0
  <2>. HIDE DEF x
  <2>8. SndUna(r) <= RcvNxt(gt)
    BY <2>0
  <2>9. Core(h, r, gt) /\ Grown(t, r)
    BY <1>1, <1>2, <2>0, <2>4, <2>5, <2>6, <2>7, <2>8, CoreMoves
  <2>10. SndUna(t) <= SndUna(r) /\ SndUna(r) <= SndNxt(r)
    BY <1>0, <1>2, <2>0, <2>1, Numbers, SegNumbers
  <2>11. SndNxt(gt) <= RcvNxt(r) + 1
    BY <2>2, Numbers
  <2>. QED BY <1>1, <1>2, <1>3, <2>9, <2>10, <2>11 DEF r
<1>. QED BY <1>1, <1>4, <1>5

-----------------------------------------------------------------------------
\* SEGMENT ARRIVES, before the connection is up.

\* The segment s of its peer arrives at h.
Meets(h, t, snt, gt, gsnt, s) ==
  /\ gt \in Tcb /\ snt \in Seq(Byte) /\ Len(snt) <= MaxBytes[h]
  /\ Side(h, t, snt, gt) /\ Side(Other(h), gt, gsnt, t)
  /\ s \in Segment /\ SegOk(Other(h), s, gt)

\* h goes on from t to r.
Stays(h, t, snt, gt, r) == Side(h, r, snt, gt) /\ Grown(t, r)

(* snd.nxt never lies before the first byte of text.                        *)
LEMMA NxtStarts ==
  ASSUME NEW h \in Host, NEW t \in Tcb, NEW snt, Sender(h, t, snt), t.state # "LISTEN"
  PROVE  Start(h) <= SndNxt(t)
<1>1. CASE Up(t)
  <2>1. Start(h) <= SndUna(t) /\ SndUna(t) <= SndNxt(t)
    BY <1>1 DEF Sender, Sending, Closing
  <2>. QED BY <2>1, Numbers, Hosts
<1>2. CASE ~Up(t)
  <2>1. SndNxt(t) = Start(h)
    BY <1>2 DEF Sender, Fresh
  <2>. QED BY <2>1, Hosts
<1>. QED BY <1>1, <1>2

(* What a segment says of the host it arrives at.                           *)
LEMMA Told ==
  ASSUME NEW h \in Host, NEW t, NEW snt, NEW gt, NEW gsnt, NEW s, Meets(h, t, snt, gt, gsnt, s)
  PROVE  /\ t \in Tcb /\ gt \in Tcb /\ s \in Segment /\ "RST" \notin s.fl
         /\ Core(h, t, gt) /\ Role(h, t) /\ Trusts(h, t, gt) /\ OutsOk(h, t)
         /\ Sender(h, t, snt) /\ Ends(t, gt) /\ Clean(t)
         /\ Trusts(Other(h), gt, t) /\ SegOk(Other(h), s, gt)
         /\ "ACK" \in s.fl => /\ Ready(gt) /\ Start(h) <= SegAck(s)
                              /\ SegAck(s) <= RcvNxt(gt) /\ SegAck(s) <= SndNxt(t)
         /\ gt.state # "LISTEN" => Start(Other(h)) <= SndNxt(gt)
         /\ ~Ready(t) => TextEnd(gt) = SndNxt(gt)
<1>1. /\ t \in Tcb /\ gt \in Tcb /\ s \in Segment
      /\ Core(h, t, gt) /\ Role(h, t) /\ Trusts(h, t, gt) /\ OutsOk(h, t)
      /\ Sender(h, t, snt) /\ Ends(t, gt) /\ Clean(t)
      /\ Trusts(Other(h), gt, t) /\ SegOk(Other(h), s, gt) /\ Sender(Other(h), gt, gsnt)
  BY DEF Meets, Side, Core
<1>2. Other(h) \in Host /\ Other(Other(h)) = h
  BY Hosts
<1>3. "RST" \notin s.fl
  BY <1>1 DEF SegOk
<1>4. "ACK" \in s.fl => Ready(gt) /\ Start(h) <= SegAck(s) /\ SegAck(s) <= RcvNxt(gt)
  BY <1>1, <1>2 DEF SegOk
<1>5. Ready(gt) => RcvNxt(gt) <= SndNxt(t)
  BY <1>1 DEF Trusts
<1>6. "ACK" \in s.fl => SegAck(s) <= SndNxt(t)
  BY <1>1, <1>4, <1>5, Numbers, SegNumbers
<1>7. gt.state # "LISTEN" => Start(Other(h)) <= SndNxt(gt)
  BY <1>1, <1>2, NxtStarts
<1>8. ~Ready(t) => TextEnd(gt) = SndNxt(gt)
  <2>1. FinMade(gt) => Ready(t)
    BY <1>1, <1>2, FinIsUp DEF Trusts
  <2>. QED BY <2>1 DEF TextEnd
<1>. QED BY <1>1, <1>3, <1>4, <1>6, <1>7, <1>8

(* received_when_listen(): no ACK can be of this connection.                *)
LEMMA ListenMeets ==
  ASSUME NEW h \in Host, NEW t, NEW snt, NEW gt, NEW gsnt, NEW s, Meets(h, t, snt, gt, gsnt, s),
         NEW e \in Env, t.state = "LISTEN"
  PROVE  LET r == ReceivedWhenListen(t, e, Other(h), s) IN
         /\ "ACK" \notin s.fl
         /\ r \in Tcb /\ r.iss = t.iss /\ r.tx = t.tx
         /\ r.txData = t.txData /\ r.rxData = t.rxData /\ r.una = t.una
         /\ r = t \/ SynAnswered(r, t, e, Other(h), s)
<1>0. /\ t \in Tcb /\ s \in Segment /\ Sender(h, t, snt) /\ Other(h) \in Peer
      /\ "ACK" \in s.fl => Start(h) <= SegAck(s) /\ SegAck(s) <= SndNxt(t)
  BY Told, Hosts
<1>1. SndNxt(t) = Isn[h]
  BY <1>0 DEF Sender, Fresh, Up
<1>2. "ACK" \notin s.fl
  BY <1>0, <1>1, Hosts, SegNumbers
<1>. QED BY <1>0, <1>2, ListenType

(* received_when_listen() answers the SYN of its peer.                      *)
LEMMA ListenKeeps ==
  ASSUME NEW h \in Host, NEW t, NEW snt, NEW gt, NEW gsnt, NEW s, Meets(h, t, snt, gt, gsnt, s),
         NEW e \in Env, t.state = "LISTEN"
  PROVE  Stays(h, t, snt, gt, ReceivedWhenListen(t, e, Other(h), s))
<1>. DEFINE r == ReceivedWhenListen(t, e, Other(h), s)
            g == Other(h)
<1>0. /\ t \in Tcb /\ gt \in Tcb /\ s \in Segment /\ Core(h, t, gt) /\ Role(h, t) /\ OutsOk(h, t)
      /\ Sender(h, t, snt) /\ Trusts(h, t, gt) /\ SegOk(g, s, gt)
      /\ g \in Peer /\ g \in Host
      /\ "ACK" \in s.fl => Start(h) <= SegAck(s) /\ SegAck(s) <= SndNxt(t)
      /\ ~Ready(t) => TextEnd(gt) = SndNxt(gt)
      /\ gt.state # "LISTEN" => Start(g) <= SndNxt(gt)
  BY Told, Hosts
<1>1. /\ h = Server /\ g = Client /\ ~Up(t) /\ ~Ready(t) /\ Role(g, gt)
  BY <1>0 DEF Role, Host, Other, Up, Ready, Meets, Side, Core
<1>2. /\ SndUna(t) = Isn[h] /\ SndNxt(t) = Isn[h] /\ t.tx = None /\ t.txData = <<>> /\ t.rxData = <<>>
  BY <1>0, <1>1 DEF Sender, Fresh
<1>3. Start(g) <= SndNxt(gt) /\ TextEnd(gt) = SndNxt(gt)
  BY <1>0, <1>1 DEF Role
<1>5. /\ "ACK" \notin s.fl
      /\ r \in Tcb /\ r.iss = t.iss /\ r.tx = t.tx
      /\ r.txData = t.txData /\ r.rxData = t.rxData /\ r.una = t.una
      /\ r = t \/ SynAnswered(r, t, e, g, s)
  BY ListenMeets
<1>. HIDE DEF r, g
<1>6. CASE r = t
  BY <1>0, <1>6, GrownSame DEF Stays, Meets, r
<1>7. CASE SynAnswered(r, t, e, g, s)
  <2>1. /\ "SYN" \in s.fl /\ r.dest = g /\ r.irs = s.seq /\ r.rnxt = SnAdd(s.seq, 1)
        /\ r.state = IF e.ip THEN "SYN_RECEIVED" ELSE "LISTEN"
    BY <1>7 DEF SynAnswered
  <2>2. r.irs = Isn[g] /\ RcvNxt(r) = Start(g)
    <3>1. SegSeq(s) = Isn[g]
      BY <1>0, <2>1 DEF SegOk
    <3>2. Isn[g] \in Nat /\ Isn[g] + 1 < SnMod /\ Start(g) = Isn[g] + 1
      <4>1. Isn[g] \in Nat /\ Start(g) = Isn[g] + 1 /\ Limit(g) = Start(g) + MaxBytes[g]
            /\ MaxBytes[g] \in Nat /\ Limit(g) + 1 < SnMod
        BY <1>0, Hosts
      <4>. QED BY <4>1, SnModAssumption
    <3>. QED BY <2>1, <3>1, <3>2, Plain DEF SegSeq, RcvNxt
  <2>3. ~Up(r) /\ ~FinMade(r) /\ ~PeerFin(r) /\ SndUna(r) = Isn[h] /\ ~FinMade(t)
    BY <1>2, <1>5, <2>1, <1>1 DEF Up, FinMade, IsFin, FinAcked, PeerFin, SndUna
  <2>4. Trusts(h, r, gt)
    <3>1. Start(g) <= RcvNxt(r) /\ RcvNxt(r) <= SndNxt(gt)
      BY <1>0, <1>3, <2>2, Hosts
    <3>. QED BY <2>2, <2>3, <3>1 DEF Trusts, g
  <2>5. Role(h, r)
    BY <1>0, <1>1, <1>5, <2>1, HostAssumption DEF Role
  <2>6. Ends(r, gt) /\ Clean(r)
    <3>1. RcvNxt(r) <= TextEnd(gt)
      BY <1>0, <1>3, <2>2, Hosts
    <3>. QED BY <2>1, <2>3, <3>1 DEF Ends, Clean
  <2>7. CASE e.ip
    <3>. DEFINE y == Seg(t.iss, r.rnxt, {"SYN", "ACK"}, <<>>)
    <3>1. /\ r.state = "SYN_RECEIVED" /\ Ready(r) /\ r.nxt = SnAdd(t.nxt, 1)
          /\ Outs(r) \subseteq Outs(t) \cup {[to |-> g, seg |-> y]}
      BY <1>5, <1>7, <2>1, <2>7 DEF SynAnswered, Ready
    <3>2. SndNxt(r) = Start(h)
      <4>1. Isn[h] \in Nat /\ Start(h) = Isn[h] + 1 /\ Isn[h] + 1 < SnMod
        <5>1. Isn[h] \in Nat /\ Start(h) = Isn[h] + 1 /\ Limit(h) = Start(h) + MaxBytes[h]
              /\ MaxBytes[h] \in Nat /\ Limit(h) + 1 < SnMod
          BY Hosts
        <5>. QED BY <5>1, SnModAssumption
      <4>. QED BY <1>2, <3>1, <4>1, Plain DEF SndNxt
    <3>3. Grown(t, r)
      <4>1. TextEnd(t) = SndNxt(t) /\ TextEnd(r) = SndNxt(r)
        BY <2>3 DEF TextEnd
      <4>2. SndNxt(t) <= SndNxt(r)
        BY <1>2, <3>2, Hosts
      <4>. QED BY <1>1, <2>3, <4>1, <4>2 DEF Grown
    <3>4. y \in Segment /\ y.fl = {"SYN", "ACK"} /\ y.data = <<>>
      <4>1. t.iss \in SeqNo /\ r.rnxt \in SeqNo /\ {"SYN", "ACK"} \in SUBSET Flags /\ <<>> \in Seq(Byte)
        BY <1>0, <1>5 DEF Tcb, Flags
      <4>2. y \in Segment
        BY <4>1, SegType
      <4>. QED BY <4>2 DEF Seg
    <3>5. SegSeq(y) = Isn[h] /\ SegAck(y) = RcvNxt(r)
      BY <1>0 DEF Seg, SegSeq, SegAck, RcvNxt, Role
    <3>. HIDE DEF y
    <3>6. SegOk(h, y, r)
      <4>1. Start(g) <= SegAck(y) /\ SegAck(y) <= RcvNxt(r)
        BY <1>0, <2>2, <3>5, Hosts
      <4>. QED BY <1>1, <3>1, <3>4, <3>5, <4>1 DEF SegOk, g
    <3>7. OutsOk(h, r)
      BY <1>0, <1>5, <3>1, <3>3, <3>4, <3>6, OutsGrown DEF g
    <3>8. Sender(h, r, snt)
      BY <1>2, <1>5, <2>3, <3>1, <3>2 DEF Sender, Fresh
    <3>. QED BY <1>5, <2>4, <2>5, <2>6, <3>3, <3>7, <3>8 DEF Stays, Side, Core, r
  <2>8. CASE ~e.ip
    <3>1. r.state = "LISTEN" /\ ~Ready(r) /\ SndNxt(r) = SndNxt(t) /\ Outs(r) = Outs(t)
      BY <1>5, <1>7, <2>1, <2>8 DEF SynAnswered, Ready, SndNxt
    <3>2. Grown(t, r)
      BY <1>0, <1>1, <1>5, <2>3, <3>1, Steady
    <3>3. OutsOk(h, r)
      BY <1>0, <1>5, <3>1, <3>2, OutsKept
    <3>4. Sender(h, r, snt)
      BY <1>2, <1>5, <2>3, <3>1 DEF Sender, Fresh
    <3>. QED BY <1>5, <2>4, <2>5, <2>6, <3>2, <3>3, <3>4 DEF Stays, Side, Core, r
  <2>. QED BY <2>7, <2>8
<1>. QED BY <1>5, <1>6, <1>7

(* An empty send queue fits.                                                *)
LEMMA RoomEmpty ==
  ASSUME NEW h \in Host, NEW t \in Tcb, NEW snt \in Seq(Byte), t.txData = <<>>, SndNxt(t) = Start(h)
  PROVE  Room(t, Start(h) + Len(snt))
<1>. DEFINE off == [k \in 1 .. 1 |-> Start(h)]
            end == Start(h) + Len(snt)
<1>1. Start(h) \in Nat /\ Len(snt) \in Nat /\ Len(t.txData) = 0
  BY Hosts
<1>2. Start(h) <= end /\ Start(h) <= Start(h)
  BY <1>1
<1>. HIDE DEF end
<1>3. Places(t.txData, SndNxt(t), end, off)
  BY <1>1, <1>2 DEF Places
<1>. HIDE DEF off
<1>. QED BY <1>3 DEF Room, end

(* received_when_syn_sent(): an ACK can only be of the SYN.                 *)
LEMMA SynSentMeets ==
  ASSUME NEW h \in Host, NEW t, NEW snt, NEW gt, NEW gsnt, NEW s, Meets(h, t, snt, gt, gsnt, s),
         NEW e \in Env, t.state = "SYN_SENT"
  PROVE  LET r == ReceivedWhenSynSent(t, e, s) IN
         /\ "ACK" \in s.fl => SegAck(s) = Start(h) /\ Sncmp(t.iss, LS, s.ack, LE, t.nxt)
         /\ r \in Tcb /\ r.iss = t.iss /\ r.dest = t.dest
         /\ r.txData = t.txData /\ r.rxData = t.rxData /\ r.nxt = t.nxt
         /\ r = t \/ SynTaken(r, t, s)
<1>0. /\ t \in Tcb /\ s \in Segment /\ Role(h, t) /\ Sender(h, t, snt) /\ "RST" \notin s.fl
      /\ "ACK" \in s.fl => Start(h) <= SegAck(s) /\ SegAck(s) <= SndNxt(t)
  BY Told
<1>1. SndNxt(t) = Start(h) /\ t.iss = Isn[h]
  BY <1>0 DEF Sender, Fresh, Up, Role
<1>2. "ACK" \in s.fl => SegAck(s) = Start(h) /\ Sncmp(t.iss, LS, s.ack, LE, t.nxt)
  <2>. SUFFICES ASSUME "ACK" \in s.fl
                PROVE  SegAck(s) = Start(h) /\ Sncmp(t.iss, LS, s.ack, LE, t.nxt)
    OBVIOUS
  <2>1. /\ Isn[h] \in SeqNo /\ Isn[h] \in Nat /\ Start(h) = Isn[h] + 1
        /\ SndNxt(t) \in SeqNo /\ SegAck(s) \in SeqNo /\ SegAck(s) \in Nat
    BY <1>0, Hosts, Numbers, SegNumbers
  <2>2. SegAck(s) = Start(h) /\ Isn[h] < SegAck(s) /\ SegAck(s) <= SndNxt(t) /\ Isn[h] <= SndNxt(t)
    BY <1>0, <1>1, <2>1
  <2>3. Sncmp(Isn[h], LS, SegAck(s), LE, SndNxt(t))
    BY <2>1, <2>2, Between
  <2>. QED BY <1>1, <2>2, <2>3 DEF SegAck, SndNxt
<1>. QED BY <1>0, <1>2, SynSentType

(* received_when_syn_sent() takes the SYN,ACK of its peer.                  *)
LEMMA SynSentKeeps ==
  ASSUME NEW h \in Host, NEW t, NEW snt, NEW gt, NEW gsnt, NEW s, Meets(h, t, snt, gt, gsnt, s),
         NEW e \in Env, t.state = "SYN_SENT"
  PROVE  Stays(h, t, snt, gt, ReceivedWhenSynSent(t, e, s))
<1>. DEFINE r == ReceivedWhenSynSent(t, e, s)
            g == Other(h)
<1>0. /\ t \in Tcb /\ gt \in Tcb /\ s \in Segment /\ Core(h, t, gt) /\ Role(h, t) /\ OutsOk(h, t)
      /\ Sender(h, t, snt) /\ Trusts(h, t, gt) /\ SegOk(g, s, gt) /\ "RST" \notin s.fl
      /\ snt \in Seq(Byte) /\ Side(h, t, snt, gt)
      /\ g \in Peer /\ g \in Host
      /\ "ACK" \in s.fl => /\ Ready(gt) /\ Start(h) <= SegAck(s)
                           /\ SegAck(s) <= RcvNxt(gt) /\ SegAck(s) <= SndNxt(t)
      /\ ~Ready(t) => TextEnd(gt) = SndNxt(gt)
      /\ gt.state # "LISTEN" => Start(g) <= SndNxt(gt)
  BY Told, Hosts DEF Meets
<1>1. /\ h = Client /\ ~Up(t) /\ ~Ready(t) /\ t.dest = g
  <2>1. h = Client
    BY <1>0 DEF Role, Host
  <2>. QED BY <1>0, <2>1 DEF Role, Other, Up, Ready
<1>2. /\ SndNxt(t) = Start(h) /\ t.txData = <<>> /\ t.rxData = <<>> /\ t.iss = Isn[h]
      /\ t.tx = Seg(Isn[h], 0, {"SYN"}, <<>>)
  BY <1>0, <1>1 DEF Sender, Fresh, Role
<1>3. ~FinMade(t)
  <2>1. Seg(Isn[h], 0, {"SYN"}, <<>>).fl = {"SYN"}
    BY DEF Seg
  <2>. QED BY <1>2, <2>1 DEF FinMade, IsFin, FinAcked
<1>5. /\ "ACK" \in s.fl => SegAck(s) = Start(h) /\ Sncmp(t.iss, LS, s.ack, LE, t.nxt)
      /\ r \in Tcb /\ r.iss = t.iss /\ r.dest = t.dest
      /\ r.txData = t.txData /\ r.rxData = t.rxData /\ r.nxt = t.nxt
      /\ r = t \/ SynTaken(r, t, s)
  BY SynSentMeets
<1>. HIDE DEF r, g
<1>6. CASE r = t
  BY <1>0, <1>6, GrownSame DEF Stays, r
<1>7. CASE SynTaken(r, t, s)
  <2>1. /\ "SYN" \in s.fl /\ "ACK" \in s.fl
        /\ r.una = s.ack /\ r.irs = s.seq /\ r.rnxt = SnAdd(s.seq, 1)
        /\ \/ r.state = "SYN_SENT" /\ r.tx = t.tx /\ Outs(r) = Outs(t)
           \/ /\ r.state = "ESTABLISHED" /\ r.tx = None
              /\ Outs(r) \subseteq
                   Outs(t) \cup {[to |-> t.dest, seg |-> Seg(s.ack, r.rnxt, {"ACK"}, <<>>)]}
    BY <1>7 DEF SynTaken
  <2>2. r.irs = Isn[g] /\ RcvNxt(r) = Start(g)
    <3>1. SegSeq(s) = Isn[g]
      BY <1>0, <2>1 DEF SegOk
    <3>2. Isn[g] \in Nat /\ Isn[g] + 1 < SnMod /\ Start(g) = Isn[g] + 1
      <4>1. Isn[g] \in Nat /\ Start(g) = Isn[g] + 1 /\ Limit(g) = Start(g) + MaxBytes[g]
            /\ MaxBytes[g] \in Nat /\ Limit(g) + 1 < SnMod
        BY <1>0, Hosts
      <4>. QED BY <4>1, SnModAssumption
    <3>. QED BY <2>1, <3>1, <3>2, Plain DEF SegSeq, RcvNxt
  <2>3. /\ SndUna(r) = Start(h) /\ SndUna(r) <= RcvNxt(gt) /\ Ready(gt)
        /\ SndNxt(r) = SndNxt(t) /\ ~PeerFin(r)
    BY <1>0, <1>5, <2>1 DEF SndUna, SndNxt, SegAck, PeerFin
  <2>4. /\ Start(g) <= SndNxt(gt) /\ TextEnd(gt) = SndNxt(gt)
        /\ Start(g) <= RcvNxt(r) /\ RcvNxt(r) <= SndNxt(gt) /\ RcvNxt(r) <= RcvNxt(r)
    BY <1>0, <1>1, <2>2, <2>3, Hosts DEF Ready
  <2>5. Role(h, r)
    BY <1>0, <1>1, <1>5, <2>1 DEF Role, Ready
  <2>6. Ends(r, gt) /\ Clean(r)
    <3>1. r.rxData \in Seq(Seq(Byte))
      BY <1>2, <1>5
    <3>. QED BY <2>2, <2>3, <2>4, <3>1 DEF Ends, Clean
  <2>7. ~FinMade(r)
    <3>1. ~FinAcked(r)
      BY <2>1 DEF FinAcked
    <3>. QED BY <1>3, <2>1, <3>1 DEF FinMade, IsFin
  <2>8. Trusts(h, r, gt)
    BY <2>2, <2>3, <2>4, <2>7 DEF Trusts, g
  <2>9. Grown(t, r)
    BY <1>0, <1>1, <1>3, <1>5, <2>3, <2>7, Steady
  <2>10. CASE r.state = "SYN_SENT" /\ r.tx = t.tx /\ Outs(r) = Outs(t)
    <3>1. OutsOk(h, r)
      BY <1>0, <1>5, <2>9, <2>10, OutsKept
    <3>2. Sender(h, r, snt)
      BY <1>2, <1>5, <2>3, <2>10 DEF Sender, Up, Fresh
    <3>. QED BY <1>5, <2>5, <2>6, <2>8, <2>9, <3>1, <3>2 DEF Stays, Side, Core, r
  <2>11. CASE /\ r.state = "ESTABLISHED" /\ r.tx = None
              /\ Outs(r) \subseteq
                   Outs(t) \cup {[to |-> t.dest, seg |-> Seg(s.ack, r.rnxt, {"ACK"}, <<>>)]}
    <3>. DEFINE x == Seg(s.ack, r.rnxt, {"ACK"}, <<>>)
    <3>1. Up(r) /\ Ready(r)
      BY <2>11 DEF Up, Ready
    <3>2. x \in Segment /\ SegOk(h, x, r)
      <4>1. s.ack \in SeqNo /\ r.rnxt \in SeqNo /\ r.rnxt = RcvNxt(r)
        BY <1>0, <1>5, Numbers, SegNumbers DEF RcvNxt, SegAck
      <4>. QED BY <1>5, <2>4, <3>1, <4>1, AckSegOk DEF g
    <3>3. Outs(r) \subseteq Outs(t) \cup {[to |-> g, seg |-> x]}
      BY <1>1, <2>11
    <3>. HIDE DEF x
    <3>4. OutsOk(h, r)
      BY <1>0, <1>5, <2>9, <3>2, <3>3, OutsGrown DEF g
    <3>5. Room(r, Start(h) + Len(snt))
      BY <1>0, <1>2, <1>5, <2>3, RoomEmpty
    <3>6. Sending(h, r, snt)
      BY <1>2, <2>3, <2>11, <3>5, Hosts DEF Sending
    <3>. QED BY <1>5, <2>5, <2>6, <2>8, <2>9, <3>1, <3>4, <3>6 DEF Stays, Side, Core, Sender, r
  <2>. QED BY <2>1, <2>10, <2>11
<1>. QED BY <1>5, <1>6, <1>7

(* received_when_syn_received(): an ACK can only be of the SYN.             *)
LEMMA SynReceivedMeets ==
  ASSUME NEW h \in Host, NEW t, NEW snt, NEW gt, NEW gsnt, NEW s, Meets(h, t, snt, gt, gsnt, s),
         NEW e \in Env, t.state = "SYN_RECEIVED"
  PROVE  LET r == ReceivedWhenSynReceived(t, e, s) IN
         /\ "ACK" \in s.fl => SegAck(s) = Start(h) /\ Sncmp(t.una, LE, s.ack, LE, t.nxt)
         /\ r \in Tcb /\ r.iss = t.iss /\ r.tx = t.tx /\ r.txData = t.txData
         /\ \/ /\ Unmoved(r, t)
               /\ Outs(r) \subseteq
                    Outs(t) \cup {[to |-> t.dest, seg |-> Seg(t.nxt, t.rnxt, {"ACK"}, <<>>)]}
            \/ SynAcked(r, t, s)
<1>0. /\ t \in Tcb /\ s \in Segment /\ Sender(h, t, snt) /\ "RST" \notin s.fl
      /\ "ACK" \in s.fl => Start(h) <= SegAck(s) /\ SegAck(s) <= SndNxt(t)
  BY Told
<1>1. SndNxt(t) = Start(h) /\ SndUna(t) = Isn[h]
  BY <1>0 DEF Sender, Fresh, Up
<1>2. "ACK" \in s.fl => SegAck(s) = Start(h) /\ Sncmp(t.una, LE, s.ack, LE, t.nxt)
  <2>. SUFFICES ASSUME "ACK" \in s.fl
                PROVE  SegAck(s) = Start(h) /\ Sncmp(t.una, LE, s.ack, LE, t.nxt)
    OBVIOUS
  <2>1. /\ Isn[h] \in SeqNo /\ Isn[h] \in Nat /\ Start(h) = Isn[h] + 1
        /\ SndNxt(t) \in SeqNo /\ SegAck(s) \in SeqNo /\ SegAck(s) \in Nat
    BY <1>0, Hosts, Numbers, SegNumbers
  <2>2. SegAck(s) = Start(h) /\ Isn[h] <= SegAck(s) /\ SegAck(s) <= SndNxt(t) /\ Isn[h] <= SndNxt(t)
    BY <1>0, <1>1, <2>1
  <2>3. Sncmp(Isn[h], LE, SegAck(s), LE, SndNxt(t))
    BY <2>1, <2>2, Between
  <2>. QED BY <1>1, <2>2, <2>3 DEF SegAck, SndNxt, SndUna
<1>. QED BY <1>0, <1>2, SynReceivedType

(* received_when_syn_received() waits for the ACK of its SYN; a FIN that    *)
(* comes with it was not sent before all text had arrived.                  *)
LEMMA SynReceivedKeeps ==
  ASSUME NEW h \in Host, NEW t, NEW snt, NEW gt, NEW gsnt, NEW s, Meets(h, t, snt, gt, gsnt, s),
         NEW e \in Env, t.state = "SYN_RECEIVED"
  PROVE  Stays(h, t, snt, gt, ReceivedWhenSynReceived(t, e, s))
<1>. DEFINE r == ReceivedWhenSynReceived(t, e, s)
            g == Other(h)
<1>0. /\ t \in Tcb /\ gt \in Tcb /\ s \in Segment /\ Core(h, t, gt) /\ Role(h, t) /\ OutsOk(h, t)
      /\ Sender(h, t, snt) /\ Trusts(h, t, gt) /\ SegOk(g, s, gt) /\ "RST" \notin s.fl
      /\ snt \in Seq(Byte) /\ Side(h, t, snt, gt) /\ Trusts(g, gt, t) /\ Ends(t, gt)
      /\ g \in Peer /\ g \in Host
      /\ "ACK" \in s.fl => /\ Ready(gt) /\ Start(h) <= SegAck(s)
                           /\ SegAck(s) <= RcvNxt(gt) /\ SegAck(s) <= SndNxt(t)
  BY Told, Hosts DEF Meets
<1>1. /\ ~Up(t) /\ Ready(t) /\ ~PeerFin(t)
  BY DEF Up, Ready, PeerFin
<1>2. /\ SndNxt(t) = Start(h) /\ SndUna(t) = Isn[h] /\ t.txData = <<>> /\ t.rxData = <<>>
      /\ t.tx = None
  BY <1>0, <1>1 DEF Sender, Fresh
<1>4. /\ "ACK" \in s.fl => SegAck(s) = Start(h) /\ Sncmp(t.una, LE, s.ack, LE, t.nxt)
      /\ r \in Tcb /\ r.iss = t.iss /\ r.tx = t.tx /\ r.txData = t.txData
      /\ \/ /\ Unmoved(r, t)
            /\ Outs(r) \subseteq
                 Outs(t) \cup {[to |-> t.dest, seg |-> Seg(t.nxt, t.rnxt, {"ACK"}, <<>>)]}
         \/ SynAcked(r, t, s)
  BY SynReceivedMeets
<1>. HIDE DEF r, g
<1>5. /\ Start(g) <= RcvNxt(t) /\ RcvNxt(t) <= SndNxt(gt) /\ RcvNxt(t) <= TextEnd(gt)
      /\ RcvNxt(t) <= RcvNxt(t) /\ SndNxt(t) \in SeqNo /\ RcvNxt(t) \in SeqNo
  BY <1>0, <1>1, Numbers DEF Trusts, Ends, g
<1>6. CASE /\ Unmoved(r, t)
           /\ Outs(r) \subseteq
                Outs(t) \cup {[to |-> t.dest, seg |-> Seg(t.nxt, t.rnxt, {"ACK"}, <<>>)]}
  <2>. DEFINE x == Seg(t.nxt, t.rnxt, {"ACK"}, <<>>)
  <2>1. /\ r.state = t.state /\ SndUna(r) = SndUna(t) /\ SndNxt(r) = SndNxt(t)
        /\ RcvNxt(r) = RcvNxt(t) /\ r.dest = t.dest /\ r.irs = t.irs /\ r.rxData = t.rxData
    BY <1>6 DEF Unmoved, SameSender, SameReceiver, SndUna, SndNxt, RcvNxt
  <2>2. ~Up(r) /\ Ready(r) /\ ~PeerFin(r) /\ (FinMade(r) <=> FinMade(t))
    BY <1>1, <1>4, <2>1 DEF Up, Ready, PeerFin, FinMade, FinAcked
  <2>3. x \in Segment /\ SegOk(h, x, r)
    BY <1>4, <1>5, <2>1, <2>2, AckSegOk DEF SndNxt, RcvNxt, g
  <2>4. Outs(r) \subseteq Outs(t) \cup {[to |-> t.dest, seg |-> x]}
    BY <1>6
  <2>. HIDE DEF x
  <2>5. Core(h, r, gt) /\ Grown(t, r)
    BY <1>0, <1>1, <1>4, <1>5, <2>1, <2>2, <2>3, <2>4, CoreSteps
  <2>6. Sender(h, r, snt)
    BY <1>2, <1>4, <2>1, <2>2 DEF Sender, Fresh
  <2>7. Ends(r, gt) /\ Clean(r)
    BY <1>5, <2>1, <2>2 DEF Ends, Clean
  <2>. QED BY <2>5, <2>6, <2>7 DEF Stays, Side, r
<1>7. CASE SynAcked(r, t, s)
  <2>1. /\ "ACK" \in s.fl /\ SndUna(r) = SegAck(s)
        /\ r.state = IF "FIN" \in s.fl THEN "CLOSE_WAIT" ELSE "ESTABLISHED"
        /\ SndNxt(r) = SndNxt(t) /\ RcvNxt(r) = RcvNxt(t) /\ r.dest = t.dest /\ r.irs = t.irs
        /\ r.rxData = t.rxData /\ Outs(r) = Outs(t)
    BY <1>7 DEF SynAcked, SameReceiver, SndUna, SegAck, SndNxt, RcvNxt
  <2>2. /\ Up(r) /\ Ready(r) /\ ~FinMade(r) /\ ~FinMade(t)
        /\ r.state \in {"ESTABLISHED", "CLOSE_WAIT"}
    BY <1>2, <1>4, <2>1 DEF Up, Ready, FinMade, FinAcked, IsFin
  <2>3. Core(h, r, gt) /\ Grown(t, r)
    <3>1. PICK x \in Segment : SegOk(h, x, r)
      BY <1>4, <1>5, <2>1, <2>2, AckSegOk DEF g
    <3>2. Ready(gt) /\ SndUna(r) <= RcvNxt(gt)
      BY <1>0, <2>1
    <3>. QED BY <1>0, <1>1, <1>4, <1>5, <2>1, <2>2, <3>1, <3>2, CoreSteps
  <2>4. SndUna(r) = Start(h) /\ SndNxt(r) = Start(h) /\ Start(h) <= Start(h)
    BY <1>2, <1>4, <2>1, Hosts
  <2>5. Room(r, Start(h) + Len(snt))
    BY <1>0, <1>2, <1>4, <2>4, RoomEmpty
  <2>6. Sending(h, r, snt)
    BY <1>2, <1>4, <2>2, <2>4, <2>5 DEF Sending
  <2>7. Ends(r, gt)
    <3>1. "FIN" \in s.fl => FinMade(gt) /\ SndNxt(gt) <= RcvNxt(r) + 1
      BY <1>0, <2>1 DEF SegOk, Trusts
    <3>. QED BY <1>5, <2>1, <3>1 DEF Ends, PeerFin
  <2>8. Clean(r)
    BY <1>2, <2>1 DEF Clean
  <2>. QED BY <2>2, <2>3, <2>6, <2>7, <2>8 DEF Stays, Side, Sender, r
<1>. QED BY <1>4, <1>6, <1>7

-----------------------------------------------------------------------------
\* SEGMENT ARRIVES, while text and FIN are exchanged.

(* A step of the state machine changes nothing else.                        *)
LEMMA Restated ==
  ASSUME NEW t \in Tcb, NEW st \in States \cup {"FREE"}
  PROVE  LET r == [t EXCEPT !.state = st] IN
         /\ r \in Tcb /\ r.state = st /\ r.iss = t.iss /\ r.tx = t.tx /\ r.txData = t.txData
         /\ SameReceiver(r, t) /\ Outs(r) = Outs(t)
         /\ r.dest = t.dest /\ r.irs = t.irs /\ r.rxData = t.rxData
         /\ SndUna(r) = SndUna(t) /\ SndNxt(r) = SndNxt(t) /\ RcvNxt(r) = RcvNxt(t)
         /\ Renamed(r, t)
<1>1. [t EXCEPT !.state = st] \in Tcb
  BY StateType
<1>2. [t EXCEPT !.state = st].state = st
  BY StateType
<1>. QED BY <1>1, <1>2 DEF Tcb, SameReceiver, Outs, SndUna, SndNxt, RcvNxt, Renamed

(* The peer of h trusts it still.                                           *)
LEMMA Trusted ==
  ASSUME NEW h \in Host, NEW t, NEW snt, NEW gt, NEW gsnt, NEW s, Meets(h, t, snt, gt, gsnt, s),
         NEW r \in Tcb, Grown(t, r)
  PROVE  Trusts(Other(h), gt, r)
<1>1. t \in Tcb /\ Side(Other(h), gt, gsnt, t) /\ Other(h) \in Host
  BY Told, Hosts DEF Meets
<1>2. Side(Other(h), gt, gsnt, r)
  BY <1>1, PeerGrown
<1>. QED BY <1>2 DEF Side, Core

(* received_when_established(): acknowledges, takes the text and leaves for *)
(* CLOSE_WAIT only with all of the text of its peer.                        *)
LEMMA EstablishedKeeps ==
  ASSUME NEW h \in Host, NEW t, NEW snt, NEW gt, NEW gsnt, NEW s, Meets(h, t, snt, gt, gsnt, s),
         NEW e \in Env, t.state = "ESTABLISHED"
  PROVE  Stays(h, t, snt, gt, ReceivedWhenEstablished(t, e, s))
<1>. DEFINE r == ReceivedWhenEstablished(t, e, s)
            a == HandleAckOfData(t, e, s)
            d == HandleData(a, e, s)
            f == HandleFinAck(d, e, s)
            j == Reject(t, e, s)
            c == [f EXCEPT !.state = "CLOSE_WAIT"]
            g == Other(h)
<1>0. /\ t \in Tcb /\ gt \in Tcb /\ s \in Segment /\ Core(h, t, gt)
      /\ Sender(h, t, snt) /\ Trusts(h, t, gt) /\ SegOk(g, s, gt) /\ "RST" \notin s.fl
      /\ snt \in Seq(Byte) /\ Len(snt) <= MaxBytes[h] /\ Side(h, t, snt, gt)
      /\ Ends(t, gt) /\ Clean(t)
      /\ "ACK" \in s.fl => SegAck(s) <= RcvNxt(gt)
  BY Told DEF Meets
<1>1. Sending(h, t, snt)
  BY <1>0 DEF Sender, Up, Closing, FinAcked
<1>2. /\ Up(t) /\ Ready(t) /\ ~FinMade(t) /\ ~IsFin(t.tx) /\ ~PeerFin(t)
      /\ t.rxData \in Seq(Seq(Byte)) /\ RcvNxt(t) <= TextEnd(gt)
  BY <1>0, <1>1, SendingFacts DEF FinMade, PeerFin, Ends, Clean
<1>3. \/ r = t
      \/ r = j
      \/ r = c /\ "FIN" \in s.fl /\ "ACK" \in s.fl
      \/ r = d /\ "FIN" \notin s.fl /\ "ACK" \in s.fl
  BY <1>2 DEF ReceivedWhenEstablished
<1>4. CASE r = t
  BY <1>0, <1>4, GrownSame DEF Stays
<1>. HIDE DEF r, g
<1>5. CASE r = j
  <2>. DEFINE x == Seg(t.nxt, t.rnxt, {"ACK"}, <<>>)
  <2>1. /\ j \in Tcb /\ SameSender(j, t) /\ SameReceiver(j, t) /\ j.una = t.una /\ j.nxt = t.nxt
        /\ Outs(j) \subseteq Outs(t) \cup {[to |-> t.dest, seg |-> x]}
    BY <1>0, RejectType
  <2>. HIDE DEF j
  <2>2. /\ SndUna(j) = SndUna(t) /\ SndNxt(j) = SndNxt(t) /\ RcvNxt(j) = RcvNxt(t)
        /\ Up(j) /\ Ready(j) /\ (FinMade(j) <=> FinMade(t)) /\ ~PeerFin(j)
        /\ j.iss = t.iss /\ j.dest = t.dest /\ j.irs = t.irs /\ j.rxData = t.rxData
        /\ j.tx = t.tx /\ j.txData = t.txData /\ j.state = "ESTABLISHED"
    BY <1>2, <2>1 DEF SameSender, SameReceiver, SndUna, SndNxt, RcvNxt, Up, Ready, FinMade,
                      FinAcked, PeerFin
  <2>3. /\ Start(g) <= RcvNxt(t) /\ RcvNxt(t) <= SndNxt(gt) /\ SndUna(t) <= RcvNxt(gt)
        /\ RcvNxt(t) <= RcvNxt(t) /\ SndNxt(t) \in SeqNo /\ RcvNxt(t) \in SeqNo
        /\ SndUna(t) <= SndUna(t) /\ SndUna(t) <= SndNxt(t)
    BY <1>0, <1>1, <1>2, Numbers DEF Trusts, Sending, g
  <2>4. x \in Segment /\ SegOk(h, x, j)
    BY <2>1, <2>2, <2>3, AckSegOk DEF SndNxt, RcvNxt, g
  <2>. HIDE DEF x
  <2>5. Core(h, j, gt) /\ Grown(t, j)
    BY <1>0, <1>2, <2>1, <2>2, <2>3, <2>4, CoreMoves
  <2>6. Sending(h, j, snt)
    BY <1>0, <1>1, <2>1, <2>2, <2>3, <2>5, SenderMoves
  <2>7. Ends(j, gt) /\ Clean(j)
    BY <1>2, <2>2 DEF Ends, Clean
  <2>. QED BY <1>5, <2>2, <2>5, <2>6, <2>7 DEF Stays, Side, Sender, r
<1>6. ASSUME "ACK" \in s.fl
      PROVE  /\ Core(h, a, gt) /\ Sending(h, a, snt) /\ Grown(t, a) /\ a.state = t.state
             /\ SameReceiver(a, t)
             /\ Core(h, d, gt) /\ Sending(h, d, snt) /\ Grown(t, d) /\ d.state = "ESTABLISHED"
             /\ d \in Tcb /\ SndUna(d) <= SndNxt(d) /\ Up(d)
             /\ "FIN" \notin s.fl => RcvNxt(d) <= TextEnd(gt) /\ d.rxData \in Seq(Seq(Byte))
  <2>1. /\ Core(h, a, gt) /\ Sending(h, a, snt) /\ Grown(t, a) /\ a.state = t.state
        /\ SameReceiver(a, t)
    BY <1>0, <1>1, <1>6, AckKeeps
  <2>. HIDE DEF a
  <2>2. a \in Tcb /\ Up(a) /\ RcvNxt(a) = RcvNxt(t) /\ a.rxData = t.rxData
    BY <1>2, <2>1 DEF Core, Up, SameReceiver, RcvNxt
  <2>3. /\ Core(h, d, gt) /\ Grown(a, d) /\ SameSender(d, a)
        /\ SndUna(d) = SndUna(a) /\ SndNxt(d) = SndNxt(a)
        /\ "FIN" \notin s.fl => RcvNxt(d) <= TextEnd(gt) /\ d.rxData \in Seq(Seq(Byte))
    BY <1>0, <1>2, <2>1, <2>2, DataKeeps DEF g
  <2>. HIDE DEF d
  <2>4. d \in Tcb /\ d.tx = a.tx /\ d.txData = a.txData /\ d.state = "ESTABLISHED" /\ Up(d)
    BY <2>1, <2>3 DEF Core, SameSender, Up
  <2>5. SndUna(a) <= SndNxt(a) /\ SndUna(a) <= SndUna(a)
    BY <2>1, <2>2, Numbers DEF Sending
  <2>6. Sending(h, d, snt)
    BY <2>1, <2>2, <2>3, <2>4, <2>5, SenderMoves
  <2>7. Grown(t, d)
    BY <1>0, <2>1, <2>2, <2>3, <2>4, GrownTrans
  <2>. QED BY <2>1, <2>3, <2>4, <2>5, <2>6, <2>7
<1>. HIDE DEF a, d
<1>7. CASE r = d /\ "FIN" \notin s.fl /\ "ACK" \in s.fl
  <2>1. Ready(d) /\ ~PeerFin(d) /\ Ends(d, gt) /\ Clean(d)
    BY <1>6, <1>7 DEF Ready, PeerFin, Ends, Clean
  <2>. QED BY <1>6, <1>7, <2>1 DEF Stays, Side, Sender, r
<1>8. CASE r = c /\ "FIN" \in s.fl /\ "ACK" \in s.fl
  <2>1. Trusts(g, gt, d)
    BY <1>6, <1>8, Trusted DEF g
  <2>2. /\ Core(h, f, gt) /\ Grown(d, f) /\ SameSender(f, d)
        /\ SndUna(d) <= SndUna(f) /\ SndUna(f) <= SndNxt(f) /\ SndNxt(f) = SndNxt(d)
        /\ FinMade(gt) /\ SndNxt(gt) <= RcvNxt(f) + 1
    BY <1>0, <1>6, <1>8, <2>1, FinAckKeeps DEF g
  <2>. HIDE DEF f
  <2>3. /\ f \in Tcb /\ f.tx = d.tx /\ f.txData = d.txData /\ f.state = "ESTABLISHED" /\ Up(f)
        /\ ~FinAcked(f) /\ Trusts(h, f, gt)
    BY <1>6, <1>8, <2>2 DEF Core, SameSender, Up, FinAcked
  <2>4. Sending(h, f, snt)
    BY <1>6, <1>8, <2>2, <2>3, SenderMoves
  <2>5. /\ c \in Tcb /\ c.state = "CLOSE_WAIT" /\ c.iss = f.iss /\ c.tx = f.tx
        /\ c.txData = f.txData /\ Outs(c) = Outs(f) /\ c.dest = f.dest /\ c.irs = f.irs
        /\ SndUna(c) = SndUna(f) /\ SndNxt(c) = SndNxt(f) /\ RcvNxt(c) = RcvNxt(f)
    BY <2>3, Restated DEF States
  <2>. HIDE DEF c
  <2>6. Up(c) /\ PeerFin(c) /\ Ready(c) /\ (FinMade(f) <=> FinMade(c)) /\ SndUna(c) <= RcvNxt(gt)
    BY <2>3, <2>5 DEF Up, PeerFin, Ready, FinMade, FinAcked, Trusts
  <2>7. Core(h, c, gt) /\ Grown(f, c)
    BY <1>0, <2>2, <2>3, <2>5, <2>6, CoreKept
  <2>8. SndUna(f) <= SndUna(f)
    BY <2>3, Numbers
  <2>9. Sending(h, c, snt)
    BY <2>2, <2>3, <2>4, <2>5, <2>7, <2>8, SenderMoves
  <2>10. Grown(t, f) /\ Grown(t, c)
    BY <1>0, <1>6, <1>8, <2>2, <2>3, <2>5, <2>7, GrownTrans
  <2>11. Ends(c, gt) /\ Clean(c)
    BY <2>2, <2>5, <2>6 DEF Ends, Clean
  <2>. QED BY <1>8, <2>6, <2>7, <2>9, <2>10, <2>11 DEF Stays, Side, Sender, r
<1>. QED BY <1>3, <1>4, <1>5, <1>7, <1>8 DEF r

(* In FIN_WAIT_1 and LAST_ACK the FIN is made behind the text, and only an  *)
(* ACK of it leads on.                                                      *)
LEMMA AwaitKeeps ==
  ASSUME NEW h \in Host, NEW t, NEW snt, NEW gt, NEW gsnt, NEW s, Meets(h, t, snt, gt, gsnt, s),
         NEW e \in Env, NEW done,
         \/ t.state = "FIN_WAIT_1" /\ done = "FIN_WAIT_2"
         \/ t.state = "LAST_ACK" /\ done = "CLOSED"
  PROVE  Stays(h, t, snt, gt, AwaitAckOfFin(t, e, s, done))
<1>. DEFINE r == AwaitAckOfFin(t, e, s, done)
            a == HandleAckOfData(t, e, s)
            w == IF "ACK" \notin s.fl \/ IsFin(t.tx) THEN t ELSE a
            k == ConstructFinAck(w, e)
            c == TxComplete(t)
            x == [c EXCEPT !.state = done]
            g == Other(h)
<1>0. /\ t \in Tcb /\ gt \in Tcb /\ s \in Segment /\ Core(h, t, gt)
      /\ Sender(h, t, snt) /\ Trusts(h, t, gt) /\ SegOk(g, s, gt)
      /\ snt \in Seq(Byte) /\ Len(snt) <= MaxBytes[h] /\ Side(h, t, snt, gt)
      /\ Ends(t, gt) /\ Clean(t)
      /\ "ACK" \in s.fl => SegAck(s) <= RcvNxt(gt)
  BY Told DEF Meets
<1>1. /\ Up(t) /\ Ready(t) /\ ~FinAcked(t) /\ t.state \in {"FIN_WAIT_1", "LAST_ACK"}
      /\ done \in {"FIN_WAIT_2", "CLOSED"} /\ done \in States \cup {"FREE"}
      /\ Sending(h, t, snt) \/ Closing(h, t)
  BY <1>0 DEF Up, Ready, FinAcked, Sender, States
<1>2. \/ r = x /\ IsFin(t.tx)
      \/ r = k
  BY DEF AwaitAckOfFin, AcksFin
<1>3. ASSUME NEW q, RcvNxt(q) = RcvNxt(t), PeerFin(q) <=> PeerFin(t), Ready(q),
             q.state # "ESTABLISHED"
      PROVE  Ends(q, gt) /\ Clean(q)
  BY <1>0, <1>1, <1>3 DEF Ends, Clean
<1>. HIDE DEF r, x, k
<1>4. CASE r = x /\ IsFin(t.tx)
  <2>1. Closing(h, t)
    BY <1>0, <1>1, <1>4, SendingFacts DEF FinMade
  <2>2. /\ c \in Tcb /\ c.tx = None /\ c.iss = t.iss /\ c.una = t.una /\ c.nxt = t.nxt
        /\ SameReceiver(c, t) /\ Outs(c) = Outs(t)
    BY <1>0, TxCompleteType
  <2>. HIDE DEF c
  <2>3. /\ x \in Tcb /\ x.state = done /\ x.iss = c.iss /\ x.tx = c.tx
        /\ SameReceiver(x, c) /\ Outs(x) = Outs(c)
        /\ SndUna(x) = SndUna(c) /\ SndNxt(x) = SndNxt(c) /\ RcvNxt(x) = RcvNxt(c)
    BY <1>1, <2>2, Restated DEF x
  <2>4. /\ SndUna(x) = SndUna(t) /\ SndNxt(x) = SndNxt(t) /\ RcvNxt(x) = RcvNxt(t)
        /\ x.iss = t.iss /\ x.dest = t.dest /\ x.irs = t.irs /\ Outs(x) = Outs(t)
        /\ x.tx = None
    BY <2>2, <2>3 DEF SndUna, SndNxt, RcvNxt, SameReceiver
  <2>5. /\ Up(x) /\ FinAcked(x) /\ ~IsFin(x.tx) /\ Ready(x) /\ (PeerFin(x) <=> PeerFin(t))
        /\ FinMade(x) /\ FinMade(t) /\ x.state # "ESTABLISHED"
    BY <1>1, <1>4, <2>3, <2>4 DEF Up, FinAcked, IsFin, Ready, PeerFin, FinMade
  <2>6. SndUna(x) <= RcvNxt(gt)
    BY <1>0, <1>1, <2>4 DEF Trusts
  <2>7. Core(h, x, gt) /\ Grown(t, x)
    BY <1>0, <1>1, <2>3, <2>4, <2>5, <2>6, CoreKept
  <2>8. Closing(h, x)
    BY <2>1, <2>4, <2>5 DEF Closing
  <2>9. Ends(x, gt) /\ Clean(x)
    BY <1>3, <2>4, <2>5
  <2>. QED BY <1>4, <2>5, <2>7, <2>8, <2>9 DEF Stays, Side, Sender, r
<1>5. CASE r = k
  <2>1. CASE Closing(h, t)
    <3>1. IsFin(t.tx) /\ t.tx # None
      BY <1>1, <2>1 DEF Closing, IsFin
    <3>2. w = t
      BY <3>1
    <3>. HIDE DEF w
    <3>3. k = t
      BY <1>0, <3>1, <3>2, ConstructFinAckType DEF k
    <3>. QED BY <1>0, <1>5, <3>3, GrownSame DEF Stays, r
  <2>2. CASE Sending(h, t, snt)
    <3>1. "ACK" \in s.fl => /\ Core(h, a, gt) /\ Sending(h, a, snt) /\ Grown(t, a)
                            /\ a.state = t.state /\ SameReceiver(a, t)
      BY <1>0, <2>2, AckKeeps
    <3>. HIDE DEF a
    <3>2. /\ Core(h, w, gt) /\ Sending(h, w, snt) /\ Grown(t, w)
          /\ w.state = t.state /\ SameReceiver(w, t)
      <4>1. SameReceiver(t, t) /\ Grown(t, t)
        BY <1>0, GrownSame DEF SameReceiver
      <4>. QED BY <1>0, <2>2, <3>1, <4>1
    <3>3. w \in Tcb
      BY <3>2 DEF Core
    <3>. HIDE DEF w
    <3>4. k \in Tcb /\ k.state = w.state /\ SameReceiver(k, w)
      BY <3>3, ConstructFinAckType DEF k
    <3>5. Renamed(k, ConstructFinAck(w, e))
      BY DEF k, Renamed, SameReceiver
    <3>6. Core(h, k, gt) /\ Sender(h, k, snt) /\ Grown(w, k)
      BY <1>0, <1>1, <3>2, <3>4, <3>5, FinBuilt
    <3>7. Grown(t, k)
      BY <1>0, <3>2, <3>3, <3>4, <3>6, GrownTrans
    <3>8. RcvNxt(k) = RcvNxt(t) /\ k.state = t.state
      BY <3>2, <3>4 DEF SameReceiver, RcvNxt
    <3>9. Ends(k, gt) /\ Clean(k)
      BY <1>1, <1>3, <3>8 DEF PeerFin, Ready
    <3>. QED BY <1>5, <3>6, <3>7, <3>9 DEF Stays, Side, r
  <2>. QED BY <1>1, <2>1, <2>2
<1>. QED BY <1>2, <1>4, <1>5

(* A FIN that was counted: what follows for the side that counted it.       *)
LEMMA CountKeeps ==
  ASSUME NEW h \in Host, NEW t, NEW snt, NEW gt, NEW gsnt, NEW s, Meets(h, t, snt, gt, gsnt, s),
         NEW e \in Env, FinAndAck(s),
         NEW u \in Tcb, Core(h, u, gt), Sender(h, u, snt), Grown(t, u),
         u.state \in {"TIME_WAIT", "CLOSE_WAIT"}
  PROVE  Stays(h, t, snt, gt, HandleFinAck(u, e, s))
<1>. DEFINE f == HandleFinAck(u, e, s)
            g == Other(h)
<1>0. /\ t \in Tcb /\ gt \in Tcb /\ s \in Segment /\ SegOk(g, s, gt)
      /\ "FIN" \in s.fl /\ SegAck(s) <= RcvNxt(gt)
  BY Told DEF FinAndAck
<1>1. Up(u) /\ Trusts(g, gt, u)
  BY Trusted DEF Up
<1>2. /\ Sending(h, u, snt) \/ Closing(h, u)
      /\ SndUna(u) <= SndNxt(u)
  BY <1>1 DEF Sender, Sending, Closing
<1>3. /\ Core(h, f, gt) /\ Grown(u, f) /\ SameSender(f, u)
      /\ SndUna(u) <= SndUna(f) /\ SndUna(f) <= SndNxt(f) /\ SndNxt(f) = SndNxt(u)
      /\ FinMade(gt) /\ SndNxt(gt) <= RcvNxt(f) + 1
  BY <1>0, <1>1, <1>2, FinAckKeeps
<1>. HIDE DEF f, g
<1>4. /\ f \in Tcb /\ f.tx = u.tx /\ f.txData = u.txData /\ f.state = u.state
      /\ Up(f) /\ (FinAcked(f) <=> FinAcked(u)) /\ PeerFin(f) /\ f.state # "ESTABLISHED"
  BY <1>3 DEF Core, SameSender, Up, FinAcked, PeerFin
<1>5. Sender(h, f, snt)
  <2>1. Sending(h, u, snt) => Sending(h, f, snt)
    <3>1. Sending(h, u, snt) => f.state \in {"ESTABLISHED", "CLOSE_WAIT", "FIN_WAIT_1", "LAST_ACK"}
      BY <1>4 DEF Sending
    <3>. QED BY <1>3, <1>4, <3>1, SenderMoves
  <2>2. Closing(h, u) => Closing(h, f)
    <3>1. Closing(h, u) => FinAcked(f)
      BY <1>4 DEF Closing
    <3>. QED BY <1>3, <1>4, <3>1, SenderMoves
  <2>. QED BY <1>2, <1>4, <2>1, <2>2 DEF Sender
<1>6. Grown(t, f)
  BY <1>0, <1>3, <1>4, GrownTrans
<1>7. Ends(f, gt) /\ Clean(f)
  BY <1>3, <1>4 DEF Ends, Clean
<1>. QED BY <1>3, <1>5, <1>6, <1>7 DEF Stays, Side, f

(* received_when_fin_wait_2() enters TIME_WAIT for the FIN of its peer.     *)
LEMMA FinWait2Keeps ==
  ASSUME NEW h \in Host, NEW t, NEW snt, NEW gt, NEW gsnt, NEW s, Meets(h, t, snt, gt, gsnt, s),
         NEW e \in Env, t.state = "FIN_WAIT_2"
  PROVE  Stays(h, t, snt, gt, ReceivedWhenFinWait2(t, e, s))
<1>. DEFINE r == ReceivedWhenFinWait2(t, e, s)
            u == [t EXCEPT !.state = "TIME_WAIT", !.tmr = TRUE]
<1>0. /\ t \in Tcb /\ gt \in Tcb /\ Core(h, t, gt) /\ Sender(h, t, snt) /\ Trusts(h, t, gt)
      /\ Side(h, t, snt, gt)
  BY Told DEF Meets
<1>1. /\ u \in Tcb /\ u.state = "TIME_WAIT" /\ u.iss = t.iss /\ u.tx = t.tx
      /\ u.txData = t.txData /\ u.dest = t.dest /\ u.irs = t.irs /\ Outs(u) = Outs(t)
      /\ SndUna(u) = SndUna(t) /\ SndNxt(u) = SndNxt(t) /\ RcvNxt(u) = RcvNxt(t)
  BY <1>0 DEF Tcb, States, Outs, SndUna, SndNxt, RcvNxt
<1>2. r = IF FinAndAck(s) THEN HandleFinAck(u, e, s) ELSE t
  BY DEF ReceivedWhenFinWait2
<1>. HIDE DEF r, u
<1>3. /\ Up(t) /\ FinAcked(t) /\ Up(u) /\ FinAcked(u) /\ FinMade(t) /\ FinMade(u)
  BY <1>0, <1>1 DEF Up, FinAcked, FinMade
<1>4. SndUna(u) <= RcvNxt(gt)
  BY <1>0, <1>1, <1>3 DEF Trusts
<1>5. Core(h, u, gt) /\ Grown(t, u)
  BY <1>0, <1>1, <1>3, <1>4, CoreKept
<1>6. Closing(h, t) /\ SndUna(t) <= SndUna(u) /\ SndUna(u) <= SndNxt(u)
  BY <1>0, <1>1, <1>3, Numbers DEF Sender, Sending, FinAcked, Closing
<1>7. Sender(h, u, snt)
  BY <1>0, <1>1, <1>3, <1>5, <1>6, SenderMoves DEF Sender
<1>8. CASE FinAndAck(s)
  <2>1. Stays(h, t, snt, gt, HandleFinAck(u, e, s))
    BY <1>1, <1>5, <1>7, <1>8, CountKeeps
  <2>. QED BY <1>2, <1>8, <2>1 DEF r
<1>9. CASE ~FinAndAck(s)
  BY <1>0, <1>2, <1>9, GrownSame DEF Stays, r
<1>. QED BY <1>8, <1>9

(* tcp_received(), in any state.                                            *)
LEMMA ReceivedKeeps ==
  ASSUME NEW h \in Host, NEW t, NEW snt, NEW gt, NEW gsnt, NEW s, Meets(h, t, snt, gt, gsnt, s),
         NEW e \in Env
  PROVE  Stays(h, t, snt, gt, Received(t, e, Other(h), s))
<1>0. t \in Tcb /\ Side(h, t, snt, gt) /\ Core(h, t, gt) /\ Sender(h, t, snt)
  BY Told DEF Meets
<1>1. Stays(h, t, snt, gt, t)
  BY <1>0, GrownSame DEF Stays
<1>2. t.state \in {"TIME_WAIT", "CLOSE_WAIT"} => Stays(h, t, snt, gt, ReceivedWhenFinSeen(t, e, s))
  <2>1. ASSUME t.state \in {"TIME_WAIT", "CLOSE_WAIT"}, FinAndAck(s)
        PROVE  Stays(h, t, snt, gt, HandleFinAck(t, e, s))
    BY <1>0, <2>1, GrownSame, CountKeeps
  <2>. QED BY <1>1, <2>1 DEF ReceivedWhenFinSeen
<1>3. t.state = "LISTEN" => Stays(h, t, snt, gt, ReceivedWhenListen(t, e, Other(h), s))
  BY ListenKeeps
<1>4. t.state = "SYN_SENT" => Stays(h, t, snt, gt, ReceivedWhenSynSent(t, e, s))
  BY SynSentKeeps
<1>5. t.state = "SYN_RECEIVED" => Stays(h, t, snt, gt, ReceivedWhenSynReceived(t, e, s))
  BY SynReceivedKeeps
<1>6. t.state = "ESTABLISHED" => Stays(h, t, snt, gt, ReceivedWhenEstablished(t, e, s))
  BY EstablishedKeeps
<1>7. t.state = "FIN_WAIT_1" => Stays(h, t, snt, gt, ReceivedWhenFinWait1(t, e, s))
  BY AwaitKeeps DEF ReceivedWhenFinWait1
<1>8. t.state = "LAST_ACK" => Stays(h, t, snt, gt, ReceivedWhenLastAck(t, e, s))
  BY AwaitKeeps DEF ReceivedWhenLastAck
<1>9. t.state = "FIN_WAIT_2" => Stays(h, t, snt, gt, ReceivedWhenFinWait2(t, e, s))
  BY FinWait2Keeps
<1>. QED BY <1>1, <1>2, <1>3, <1>4, <1>5, <1>6, <1>7, <1>8, <1>9, Zenon DEF Received

-----------------------------------------------------------------------------
\* The timer and the user.

(* A step that changes nothing but the timer and what was handed to IP.     *)
LEMMA SideSame ==
  ASSUME NEW h \in Host, NEW t, NEW snt, NEW gt \in Tcb, Side(h, t, snt, gt),
         NEW r \in Tcb, r.state = t.state, Renamed(r, [t EXCEPT !.out = r.out]),
         \A o \in Outs(r) : \/ o \in Outs(t)
                            \/ o.to = Other(h) /\ o.seg \in Segment /\ SegOk(h, o.seg, t)
  PROVE  Stays(h, t, snt, gt, r)
<1>0. /\ t \in Tcb /\ Core(h, t, gt) /\ Role(h, t) /\ Trusts(h, t, gt) /\ OutsOk(h, t)
      /\ Sender(h, t, snt) /\ Ends(t, gt) /\ Clean(t)
  BY DEF Side, Core
<1>1. /\ r.iss = t.iss /\ r.tx = t.tx /\ r.txData = t.txData
      /\ r.una = t.una /\ r.nxt = t.nxt
      /\ r.dest = t.dest /\ r.rnxt = t.rnxt /\ r.irs = t.irs /\ r.rxData = t.rxData
  BY <1>0 DEF Renamed, SameReceiver, Tcb
<1>2. SndUna(r) = SndUna(t) /\ SndNxt(r) = SndNxt(t) /\ RcvNxt(r) = RcvNxt(t)
  BY <1>1 DEF SndUna, SndNxt, RcvNxt
<1>3. /\ (Up(r) <=> Up(t)) /\ (Ready(r) <=> Ready(t)) /\ (FinMade(r) <=> FinMade(t))
      /\ (PeerFin(r) <=> PeerFin(t)) /\ (FinAcked(r) <=> FinAcked(t))
  BY <1>1 DEF Up, Ready, FinMade, PeerFin, FinAcked
<1>4. Grown(t, r)
  BY <1>0, <1>2, <1>3, Numbers, Steady
<1>5. Role(h, r) /\ Trusts(h, r, gt) /\ Ends(r, gt) /\ Clean(r)
  <2>1. Role(h, r)
    BY <1>0, <1>1, <1>3 DEF Role
  <2>2. Trusts(h, r, gt)
    BY <1>0, <1>1, <1>2, <1>3 DEF Trusts
  <2>3. Ends(r, gt) /\ Clean(r)
    BY <1>0, <1>1, <1>2, <1>3 DEF Ends, Clean
  <2>. QED BY <2>1, <2>2, <2>3
<1>6. Sender(h, r, snt)
  <2>1. CASE ~Up(t)
    BY <1>0, <1>1, <1>2, <1>3, <2>1 DEF Sender, Fresh
  <2>2. CASE Up(t)
    <3>1. SndUna(t) <= SndUna(r) /\ SndUna(r) <= SndNxt(r)
      BY <1>0, <1>2, <2>2, Numbers DEF Sender, Sending, Closing
    <3>2. Sending(h, t, snt) => Sending(h, r, snt)
      <4>1. Sending(h, t, snt) => r.state \in {"ESTABLISHED", "CLOSE_WAIT", "FIN_WAIT_1", "LAST_ACK"}
        BY DEF Sending
      <4>. QED BY <1>0, <1>1, <1>2, <1>4, <3>1, <4>1, SenderMoves
    <3>3. Closing(h, t) => Closing(h, r)
      <4>1. Closing(h, t) => FinAcked(r) \/ (r.state \in {"FIN_WAIT_1", "LAST_ACK"} /\ IsFin(r.tx))
        BY <1>1, <1>3 DEF Closing
      <4>. QED BY <1>0, <1>1, <1>2, <1>4, <3>1, <4>1, SenderMoves
    <3>. QED BY <1>0, <1>3, <2>2, <3>2, <3>3 DEF Sender
  <2>. QED BY <2>1, <2>2
<1>7. OutsOk(h, r)
  <2>1. \A o \in Outs(r) : o.to = Other(h) /\ o.seg \in Segment /\ SegOk(h, o.seg, t)
    BY <1>0, OutsAre DEF OutsOk
  <2>. QED BY <1>0, <1>4, <2>1, SegOkGrown DEF OutsOk
<1>. QED BY <1>0, <1>4, <1>5, <1>6, <1>7 DEF Stays, Side, Core

(* TIME_WAIT has expired, or tcp_loop() gives the control block back.       *)
LEMMA Retired ==
  ASSUME NEW h \in Host, NEW t, NEW snt, NEW gt \in Tcb, Side(h, t, snt, gt),
         t.state \in {"TIME_WAIT", "CLOSED"},
         NEW r \in Tcb, r.state \in {"CLOSED", "FREE"}, Renamed(r, t)
  PROVE  Stays(h, t, snt, gt, r)
<1>0. /\ t \in Tcb /\ Core(h, t, gt) /\ Trusts(h, t, gt) /\ Sender(h, t, snt) /\ Ends(t, gt)
  BY DEF Side, Core
<1>1. /\ r.iss = t.iss /\ r.tx = t.tx /\ r.txData = t.txData /\ Outs(r) = Outs(t)
      /\ r.dest = t.dest /\ r.irs = t.irs
      /\ SndUna(r) = SndUna(t) /\ SndNxt(r) = SndNxt(t) /\ RcvNxt(r) = RcvNxt(t)
  BY DEF Renamed, SameReceiver, SndUna, SndNxt, RcvNxt
<1>2. /\ Up(t) /\ FinAcked(t) /\ FinMade(t) /\ PeerFin(t)
      /\ Up(r) /\ FinAcked(r) /\ FinMade(r) /\ PeerFin(r) /\ r.state # "ESTABLISHED"
  BY DEF Up, FinAcked, FinMade, PeerFin
<1>3. SndUna(r) <= RcvNxt(gt)
  BY <1>0, <1>1, <1>2 DEF Trusts
<1>4. Core(h, r, gt) /\ Grown(t, r)
  BY <1>0, <1>1, <1>2, <1>3, CoreKept
<1>5. Closing(h, t) /\ SndUna(t) <= SndUna(r) /\ SndUna(r) <= SndNxt(r)
  BY <1>0, <1>1, <1>2, Numbers DEF Sender, Sending, FinAcked, Closing
<1>6. Sender(h, r, snt)
  BY <1>0, <1>1, <1>2, <1>4, <1>5, SenderMoves DEF Sender
<1>7. Ends(r, gt) /\ Clean(r)
  BY <1>0, <1>1, <1>2 DEF Ends, Clean
<1>. QED BY <1>4, <1>6, <1>7 DEF Stays, Side

(* What is sent again was sent before.                                      *)
LEMMA OutstandingOk ==
  ASSUME NEW h \in Host, NEW t \in Tcb, NEW snt, Sender(h, t, snt), t.tx # None,
         t.state \in {"SYN_SENT", "ESTABLISHED", "FIN_WAIT_1", "LAST_ACK"}
  PROVE  t.tx \in Segment /\ SegOk(h, t.tx, t)
<1>1. t.tx \in Segment
  BY DEF Tcb
<1>2. CASE Up(t)
  <2>1. SegOk(h, t.tx, t)
    BY <1>2 DEF Sender, Sending, Closing, FinAcked
  <2>. QED BY <1>1, <2>1
<1>3. CASE ~Up(t)
  <2>1. t.tx = Seg(Isn[h], 0, {"SYN"}, <<>>)
    BY <1>3 DEF Sender, Fresh, Up
  <2>2. t.tx.fl = {"SYN"} /\ t.tx.data = <<>> /\ SegSeq(t.tx) = Isn[h]
    BY <2>1 DEF Seg, SegSeq
  <2>3. SegOk(h, t.tx, t)
    BY <2>2 DEF SegOk
  <2>. QED BY <1>1, <2>3
<1>. QED BY <1>2, <1>3

(* tcp_timeout() sends the outstanding segment again.                       *)
LEMMA TimeoutKeeps ==
  ASSUME NEW h \in Host, NEW t, NEW snt, NEW gt \in Tcb, Side(h, t, snt, gt), NEW e \in Env
  PROVE  Stays(h, t, snt, gt, Timeout(t, e)) /\ Timeout(t, e) \in Tcb
<1>. DEFINE u == [t EXCEPT !.tmr = FALSE]
            r == Timeout(t, e)
            q == Retransmit(u, e)
            c == [u EXCEPT !.state = "CLOSED"]
<1>0. t \in Tcb /\ Role(h, t) /\ Sender(h, t, snt)
  BY DEF Side, Core
<1>1. u \in Tcb /\ u.state = t.state /\ Renamed(u, [t EXCEPT !.out = u.out]) /\ Outs(u) = Outs(t)
  BY <1>0 DEF Tcb, Renamed, SameReceiver, Outs
<1>2. u.tx = t.tx /\ u.dest = t.dest /\ u.txData = t.txData /\ u.una = t.una /\ u.nxt = t.nxt
      /\ u.iss = t.iss /\ SameReceiver(u, t)
  BY <1>0 DEF Tcb, SameReceiver
<1>3. r = IF t.state \in {"SYN_SENT", "ESTABLISHED", "FIN_WAIT_1", "LAST_ACK"} THEN q
          ELSE IF t.state = "TIME_WAIT" THEN c ELSE u
  BY DEF Timeout
<1>. HIDE DEF u, r, q, c
<1>4. Stays(h, t, snt, gt, u)
  BY <1>0, <1>1, SideSame
<1>5. CASE t.state \in {"SYN_SENT", "ESTABLISHED", "FIN_WAIT_1", "LAST_ACK"}
  <2>1. /\ q \in Tcb /\ q.state = t.state /\ q.iss = t.iss /\ q.tx = t.tx /\ q.txData = t.txData
        /\ SameReceiver(q, u) /\ q.una = t.una /\ q.nxt = t.nxt
        /\ Outs(q) = IF e.ip /\ u.tx # None THEN Outs(u) \cup {[to |-> u.dest, seg |-> u.tx]}
                     ELSE Outs(u)
    <3>1. /\ q \in Tcb /\ SameSender(q, [u EXCEPT !.tmr = TRUE]) /\ SameReceiver(q, u)
          /\ q.una = u.una /\ q.nxt = u.nxt
          /\ Outs(q) = IF e.ip /\ u.tx # None THEN Outs(u) \cup {[to |-> u.dest, seg |-> u.tx]}
                       ELSE Outs(u)
      BY <1>1, RetransmitType DEF q
    <3>2. LET v == [u EXCEPT !.tmr = TRUE] IN
            v.state = u.state /\ v.iss = u.iss /\ v.tx = u.tx /\ v.txData = u.txData
      BY <1>1 DEF Tcb
    <3>. QED BY <1>1, <1>2, <3>1, <3>2 DEF SameSender
  <2>2. Renamed(q, [t EXCEPT !.out = q.out])
    BY <1>0, <1>2, <2>1 DEF Renamed, SameReceiver, Outs, Tcb
  <2>3. t.tx # None => t.tx \in Segment /\ SegOk(h, t.tx, t) /\ t.dest = Other(h)
    <3>1. t.dest = Other(h)
      BY <1>0, <1>5, HostAssumption DEF Role, Host, Other, Ready
    <3>. QED BY <1>0, <1>5, <3>1, OutstandingOk
  <2>4. \A o \in Outs(q) : \/ o \in Outs(t)
                           \/ o.to = Other(h) /\ o.seg \in Segment /\ SegOk(h, o.seg, t)
    <3>1. ASSUME NEW o, o = [to |-> t.dest, seg |-> t.tx], t.tx # None
          PROVE  o.to = Other(h) /\ o.seg \in Segment /\ SegOk(h, o.seg, t)
      BY <2>3, <3>1
    <3>2. \A o \in Outs(q) : o \in Outs(t) \/ (t.tx # None /\ o = [to |-> t.dest, seg |-> t.tx])
      BY <1>1, <1>2, <2>1
    <3>. QED BY <3>1, <3>2
  <2>5. Stays(h, t, snt, gt, q)
    BY <1>0, <2>1, <2>2, <2>4, SideSame
  <2>. QED BY <1>3, <1>5, <2>1, <2>5 DEF r
<1>6. CASE t.state = "TIME_WAIT"
  <2>1. c \in Tcb /\ c.state = "CLOSED" /\ Renamed(c, u)
    BY <1>1, Restated DEF States, c
  <2>2. Stays(h, u, snt, gt, c)
    BY <1>1, <1>4, <1>6, <2>1, Retired DEF Stays
  <2>3. Stays(h, t, snt, gt, c)
    BY <1>0, <1>1, <1>4, <2>1, <2>2, GrownTrans DEF Stays
  <2>. QED BY <1>3, <1>6, <2>1, <2>3 DEF r
<1>. QED BY <1>1, <1>3, <1>4, <1>5, <1>6 DEF r

(* tcp_loop()                                                               *)
LEMMA LoopKeeps ==
  ASSUME NEW h \in Host, NEW t, NEW snt, NEW gt \in Tcb, Side(h, t, snt, gt), NEW e \in Env,
         NEW expired \in BOOLEAN
  PROVE  Stays(h, t, snt, gt, Loop(t, e, expired))
<1>. DEFINE u == IF expired THEN Timeout(t, e) ELSE t
            c == [u EXCEPT !.state = "FREE"]
<1>0. t \in Tcb
  BY DEF Side, Core
<1>1. u \in Tcb /\ Stays(h, t, snt, gt, u)
  <2>1. Stays(h, t, snt, gt, t)
    BY <1>0, GrownSame DEF Stays
  <2>. QED BY <1>0, <2>1, TimeoutKeeps
<1>2. Loop(t, e, expired) = IF u.state = "CLOSED" THEN c ELSE u
  BY DEF Loop
<1>. HIDE DEF u, c
<1>3. ASSUME u.state = "CLOSED" PROVE Stays(h, t, snt, gt, c)
  <2>1. c \in Tcb /\ c.state = "FREE" /\ Renamed(c, u)
    BY <1>1, Restated DEF c
  <2>2. Stays(h, u, snt, gt, c)
    BY <1>1, <1>3, <2>1, Retired DEF Stays
  <2>. QED BY <1>0, <1>1, <2>1, <2>2, GrownTrans DEF Stays
<1>. QED BY <1>1, <1>2, <1>3

(* tcp_send() queues text of the user, and sends it when nothing is         *)
(* outstanding.                                                             *)
LEMMA SendKeeps ==
  ASSUME NEW h \in Host, NEW t, NEW snt \in Seq(Byte), NEW gt \in Tcb, Side(h, t, snt, gt),
         NEW e \in Env, t.state = "ESTABLISHED",
         NEW chunk \in Seq(Byte), Len(snt) + Len(chunk) <= MaxBytes[h]
  PROVE  LET snt2 == IF SendAccepts(t, e) THEN snt \o chunk ELSE snt IN
         /\ Stays(h, t, snt2, gt, Send(t, e, chunk))
         /\ snt2 \in Seq(Byte) /\ Len(snt2) <= MaxBytes[h]
<1>. DEFINE q == Append(t.txData, chunk)
            u == [t EXCEPT !.txData = q]
            w == IF e.blk THEN u ELSE t
            snt2 == IF SendAccepts(t, e) THEN snt \o chunk ELSE snt
            r == Send(t, e, chunk)
<1>0. /\ t \in Tcb /\ Core(h, t, gt) /\ Trusts(h, t, gt) /\ Sender(h, t, snt)
      /\ Ends(t, gt) /\ Clean(t)
  BY DEF Side, Core
<1>1. Sending(h, t, snt)
  BY <1>0 DEF Sender, Up, Closing, FinAcked
<1>2. Len(chunk) \in Nat /\ Len(snt) \in Nat /\ MaxBytes[h] \in Nat
  BY Hosts
<1>3. /\ snt2 = IF e.blk THEN snt \o chunk ELSE snt
      /\ snt2 \in Seq(Byte) /\ Len(snt2) <= MaxBytes[h]
      /\ e.blk => Len(snt2) = Len(snt) + Len(chunk)
  BY <1>2 DEF SendAccepts
<1>4. r = ConstructData(w, e)
  BY DEF Send
<1>. HIDE DEF r, snt2
<1>5. Up(t) /\ Len(snt) <= MaxBytes[h]
  BY <1>2 DEF Up
<1>6. /\ Core(h, w, gt) /\ Grown(t, w) /\ w.state = t.state /\ SameReceiver(w, t)
      /\ Sending(h, w, snt2)
  <2>1. CASE e.blk
    <3>0. q \in Seq(Seq(Byte)) /\ t.txData \in Seq(Seq(Byte))
      BY <1>0 DEF Tcb
    <3>. HIDE DEF q
    <3>1. /\ u \in Tcb /\ u.state = t.state /\ u.iss = t.iss /\ u.tx = t.tx /\ u.txData = q
          /\ SameReceiver(u, t) /\ Outs(u) = Outs(t) /\ u.dest = t.dest /\ u.irs = t.irs
          /\ SndUna(u) = SndUna(t) /\ SndNxt(u) = SndNxt(t) /\ RcvNxt(u) = RcvNxt(t)
      BY <1>0, <3>0 DEF Tcb, SameReceiver, Outs, SndUna, SndNxt, RcvNxt
    <3>. HIDE DEF u
    <3>2. Up(u) /\ Ready(u) /\ Ready(t) /\ (FinMade(t) <=> FinMade(u)) /\ SndUna(u) <= RcvNxt(gt)
      BY <1>0, <1>5, <3>1 DEF Up, Ready, FinMade, FinAcked, Trusts
    <3>3. Core(h, u, gt) /\ Grown(t, u)
      BY <1>0, <1>5, <3>1, <3>2, CoreKept
    <3>4. Room(u, Start(h) + Len(snt2))
      <4>1. PICK off : Places(t.txData, SndNxt(t), Start(h) + Len(snt), off)
        BY <1>1 DEF Sending, Room
      <4>2. SndNxt(t) \in Nat /\ Start(h) + Len(snt) \in Nat
        <5>1. SndNxt(t) \in Nat /\ Start(h) \in Nat
          BY <1>0, Numbers, Hosts
        <5>. QED BY <1>2, <5>1
      <4>3. \E o : Places(q, SndNxt(t), Start(h) + Len(snt) + Len(chunk), o)
        BY <3>0, <4>1, <4>2, RoomAppend DEF q
      <4>4. Start(h) + Len(snt) + Len(chunk) = Start(h) + Len(snt2)
        <5>1. Start(h) \in Nat
          BY Hosts
        <5>. QED BY <1>2, <1>3, <2>1, <5>1
      <4>. QED BY <3>1, <4>3, <4>4 DEF Room
    <3>5. u.tx # None => u.tx.fl = {"ACK"} /\ SegOk(h, u.tx, u)
      <4>1. t.tx # None => t.tx \in Segment /\ t.tx.fl = {"ACK"} /\ SegOk(h, t.tx, t)
        BY <1>0, <1>1 DEF Sending, Tcb
      <4>. QED BY <1>0, <3>1, <3>3, <4>1, SegOkGrown
    <3>6. Sending(h, u, snt2)
      BY <1>1, <3>1, <3>4, <3>5 DEF Sending
    <3>. QED BY <2>1, <3>1, <3>3, <3>6
  <2>2. CASE ~e.blk
    BY <1>0, <1>1, <1>3, <2>2, GrownSame DEF SameReceiver
  <2>. QED BY <2>1, <2>2
<1>. HIDE DEF w
<1>7. /\ Core(h, r, gt) /\ Sending(h, r, snt2) /\ Grown(w, r)
      /\ r.state = w.state /\ SameReceiver(r, w)
  BY <1>3, <1>4, <1>6, ConstructKeeps
<1>8. Grown(t, r)
  BY <1>0, <1>6, <1>7, GrownTrans DEF Core
<1>9. /\ Up(r) /\ Ready(r) /\ Ready(t) /\ RcvNxt(r) = RcvNxt(t) /\ r.state = "ESTABLISHED"
      /\ r.rxData = t.rxData /\ ~PeerFin(r) /\ ~PeerFin(t)
  BY <1>6, <1>7 DEF Up, Ready, SameReceiver, RcvNxt, PeerFin
<1>10. Ends(r, gt) /\ Clean(r)
  BY <1>0, <1>9 DEF Ends, Clean
<1>. QED BY <1>3, <1>7, <1>8, <1>9, <1>10 DEF Stays, Side, Sender, r, snt2

(* tcp_recv() takes text from the queue of the user.                        *)
LEMMA RecvKeeps ==
  ASSUME NEW h \in Host, NEW t, NEW snt, NEW gt \in Tcb, Side(h, t, snt, gt), NEW n
  PROVE  Stays(h, t, snt, gt, Recv(t, n))
<1>. DEFINE r == Recv(t, n)
<1>0. /\ t \in Tcb /\ Core(h, t, gt) /\ Trusts(h, t, gt) /\ Sender(h, t, snt)
      /\ Ends(t, gt) /\ Clean(t)
  BY DEF Side, Core
<1>1. /\ r \in Tcb /\ SameSender(r, t) /\ r.una = t.una /\ r.nxt = t.nxt
      /\ r.dest = t.dest /\ r.rnxt = t.rnxt /\ r.irs = t.irs /\ Outs(r) = Outs(t)
      /\ t.rxData \in Seq(Seq(Byte)) => r.rxData \in Seq(Seq(Byte))
  BY <1>0, RecvType
<1>2. t.state # "ESTABLISHED" => r = t
  BY DEF Recv
<1>. HIDE DEF r
<1>3. CASE t.state # "ESTABLISHED"
  BY <1>0, <1>2, <1>3, GrownSame DEF Stays, r
<1>4. CASE t.state = "ESTABLISHED"
  <2>1. Sending(h, t, snt)
    BY <1>0, <1>4 DEF Sender, Up, Closing, FinAcked
  <2>2. /\ SndUna(r) = SndUna(t) /\ SndNxt(r) = SndNxt(t) /\ RcvNxt(r) = RcvNxt(t)
        /\ Up(t) /\ Up(r) /\ Ready(t) /\ Ready(r) /\ ~PeerFin(t) /\ ~PeerFin(r)
        /\ (FinMade(t) <=> FinMade(r)) /\ r.state = t.state /\ r.iss = t.iss
        /\ r.tx = t.tx /\ r.txData = t.txData
    BY <1>1, <1>4 DEF SameSender, SndUna, SndNxt, RcvNxt, Up, Ready, PeerFin, FinMade, FinAcked
  <2>3. SndUna(r) <= RcvNxt(gt)
    BY <1>0, <2>2 DEF Trusts
  <2>4. Core(h, r, gt) /\ Grown(t, r)
    BY <1>0, <1>1, <2>2, <2>3, CoreKept
  <2>5. SndUna(t) <= SndUna(r) /\ SndUna(r) <= SndNxt(r)
    BY <1>0, <2>1, <2>2, Numbers DEF Sending
  <2>6. Sending(h, r, snt)
    BY <1>0, <1>1, <1>4, <2>1, <2>2, <2>4, <2>5, SenderMoves
  <2>7. Ends(r, gt) /\ Clean(r)
    BY <1>0, <1>1, <1>4, <2>2 DEF Ends, Clean
  <2>. QED BY <2>2, <2>4, <2>6, <2>7 DEF Stays, Side, Sender, r
<1>. QED BY <1>3, <1>4

(* tcp_close() makes the FIN, or leaves it to the ACK of the text before it.*)
LEMMA CloseKeeps ==
  ASSUME NEW h \in Host, NEW t, NEW snt \in Seq(Byte), NEW gt \in Tcb, Side(h, t, snt, gt),
         NEW e \in Env, Len(snt) <= MaxBytes[h]
  PROVE  Stays(h, t, snt, gt, Close(t, e))
<1>. DEFINE r == Close(t, e)
            c == ConstructFinAck(t, e)
            x == [c EXCEPT !.state = "FIN_WAIT_1"]
            y == [c EXCEPT !.state = "LAST_ACK"]
<1>0. /\ t \in Tcb /\ Core(h, t, gt) /\ Sender(h, t, snt) /\ Ends(t, gt)
  BY DEF Side, Core
<1>1. /\ c \in Tcb /\ SameReceiver(c, t)
  BY <1>0, ConstructFinAckType
<1>2. /\ x \in Tcb /\ x.state = "FIN_WAIT_1" /\ Renamed(x, c) /\ RcvNxt(x) = RcvNxt(c)
      /\ y \in Tcb /\ y.state = "LAST_ACK" /\ Renamed(y, c) /\ RcvNxt(y) = RcvNxt(c)
  <2>. HIDE DEF c
  <2>. QED BY <1>1, Restated DEF States
<1>3. RcvNxt(c) = RcvNxt(t)
  BY <1>1 DEF SameReceiver, RcvNxt
<1>4. /\ t.state = "ESTABLISHED" => r = x
      /\ t.state = "CLOSE_WAIT" => r = y
      /\ t.state \notin {"ESTABLISHED", "CLOSE_WAIT"} => r = t
  BY DEF Close
<1>. HIDE DEF r, x, y
<1>5. ASSUME t.state \in {"ESTABLISHED", "CLOSE_WAIT"} PROVE Sending(h, t, snt)
  BY <1>0, <1>5 DEF Sender, Up, Closing, FinAcked
<1>6. CASE t.state = "ESTABLISHED"
  <2>1. Core(h, x, gt) /\ Sender(h, x, snt) /\ Grown(t, x)
    BY <1>0, <1>2, <1>5, <1>6, FinBuilt
  <2>2. Ends(x, gt) /\ Clean(x)
    BY <1>0, <1>2, <1>3, <1>6 DEF Ends, Clean, PeerFin, Ready
  <2>. QED BY <1>4, <1>6, <2>1, <2>2 DEF Stays, Side, r
<1>7. CASE t.state = "CLOSE_WAIT"
  <2>1. Core(h, y, gt) /\ Sender(h, y, snt) /\ Grown(t, y)
    BY <1>0, <1>2, <1>5, <1>7, FinBuilt
  <2>2. Ends(y, gt) /\ Clean(y)
    BY <1>0, <1>2, <1>3, <1>7 DEF Ends, Clean, PeerFin, Ready
  <2>. QED BY <1>4, <1>7, <2>1, <2>2 DEF Stays, Side, r
<1>8. CASE t.state \notin {"ESTABLISHED", "CLOSE_WAIT"}
  BY <1>0, <1>4, <1>8, GrownSame DEF Stays, r
<1>. QED BY <1>6, <1>7, <1>8

-----------------------------------------------------------------------------
\* The connection.

\* A segment in flight.
InFlight(m) ==
  /\ m.from \in Host /\ m.to = Other(m.from)
  /\ m.seg \in Segment /\ SegOk(m.from, m.seg, tcb[m.from])

IInv ==
  /\ tcb \in [Host -> Tcb] /\ sent \in [Host -> Seq(Byte)]
  /\ \A h \in Host : Len(sent[h]) <= MaxBytes[h]
  /\ \A h \in Host : Side(h, tcb[h], sent[h], tcb[Other(h)])
  /\ \A m \in net : InFlight(m)

(* There is no third host.                                                  *)
LEMMA TwoHosts == ASSUME NEW h \in Host, NEW x \in Host, x # h PROVE x = Other(h)
  BY DEF Host, Other

(* The control block that a handler leaves when its segments are with IP.   *)
LEMMA Emptied ==
  ASSUME NEW h \in Host, NEW t, NEW snt, NEW gt \in Tcb, NEW r, Stays(h, t, snt, gt, r), t \in Tcb
  PROVE  LET c == [r EXCEPT !.out = <<>>] IN
         c \in Tcb /\ Stays(h, t, snt, gt, c) /\ Grown(r, c) /\ Outs(c) = {}
<1>. DEFINE empty == <<>>
            c == [r EXCEPT !.out = empty]
<1>0. r \in Tcb /\ Side(h, r, snt, gt) /\ Grown(t, r)
  BY DEF Stays, Side, Core
<1>1. empty \in Seq([to: Peer \cup {None}, seg: Segment]) /\ ToSet(empty) = {}
  BY DEF ToSet
<1>. HIDE DEF empty
<1>2. c \in Tcb /\ c.state = r.state /\ Outs(c) = {} /\ c.out = empty
  BY <1>0, <1>1 DEF Tcb, Outs
<1>3. Renamed(c, [r EXCEPT !.out = c.out])
  BY <1>0, <1>2 DEF Renamed, SameReceiver, Outs
<1>. HIDE DEF c
<1>4. Stays(h, r, snt, gt, c)
  BY <1>0, <1>2, <1>3, SideSame
<1>5. Stays(h, t, snt, gt, c) /\ Grown(r, c)
  BY <1>0, <1>2, <1>4, GrownTrans DEF Stays
<1>. QED BY <1>2, <1>5 DEF c, empty

(* A step of host h, which goes on with r.                                  *)
LEMMA HostMoves ==
  ASSUME IInv, NEW h \in Host, NEW r, NEW snt \in Seq(Byte), Len(snt) <= MaxBytes[h],
         Stays(h, tcb[h], snt, tcb[Other(h)], r), NEW n \in SUBSET net, Step(h, r, n),
         sent' \in [Host -> Seq(Byte)], sent'[h] = snt, sent'[Other(h)] = sent[Other(h)]
  PROVE  IInv' /\ \A x \in Host : Grown(tcb[x], tcb'[x])
<1>. DEFINE g == Other(h)
            c == [r EXCEPT !.out = <<>>]
            t == tcb[h]
            gt == tcb[g]
<1>0. g \in Host /\ g # h /\ Other(g) = h
  BY Hosts
<1>1. t \in Tcb /\ gt \in Tcb /\ Side(g, gt, sent[g], t)
  BY <1>0 DEF IInv
<1>2. c \in Tcb /\ Stays(h, t, snt, gt, c) /\ Grown(r, c) /\ r \in Tcb /\ OutsOk(h, r)
  <2>1. c \in Tcb /\ Stays(h, t, snt, gt, c) /\ Grown(r, c)
    BY <1>1, Emptied
  <2>. HIDE DEF c
  <2>. QED BY <2>1 DEF Stays, Side, Core
<1>3. tcb' = [tcb EXCEPT ![h] = c] /\ net' = n \cup Packets(h, r)
  BY DEF Step
<1>. HIDE DEF c
<1>4. tcb' \in [Host -> Tcb] /\ tcb'[h] = c /\ tcb'[g] = gt
  BY <1>0, <1>2, <1>3 DEF IInv
<1>5. Grown(t, c) /\ Grown(gt, gt)
  BY <1>1, <1>2, GrownSame DEF Stays
<1>6. ASSUME NEW x \in Host PROVE Grown(tcb[x], tcb'[x])
  BY <1>4, <1>5, TwoHosts
<1>7. ASSUME NEW x \in Host PROVE Len(sent'[x]) <= MaxBytes[x]
  BY TwoHosts DEF IInv
<1>8. Side(h, c, snt, gt)
  BY <1>2 DEF Stays
<1>9. Side(g, gt, sent[g], c)
  BY <1>0, <1>1, <1>2, <1>5, PeerGrown
<1>10. ASSUME NEW x \in Host PROVE Side(x, tcb'[x], sent'[x], tcb'[Other(x)])
  <2>1. CASE x = h
    BY <1>4, <1>8, <2>1
  <2>2. CASE x = g
    BY <1>0, <1>4, <1>9, <2>2
  <2>. QED BY <2>1, <2>2, TwoHosts
<1>11. ASSUME NEW m \in net' PROVE InFlight(m)'
  <2>1. CASE m \in net
    <3>1. /\ m.from \in Host /\ m.to = Other(m.from) /\ m.seg \in Segment
          /\ SegOk(m.from, m.seg, tcb[m.from])
      BY <2>1 DEF IInv, InFlight
    <3>2. tcb[m.from] \in Tcb /\ tcb'[m.from] \in Tcb
      BY <1>4, <3>1 DEF IInv
    <3>3. SegOk(m.from, m.seg, tcb'[m.from])
      BY <1>6, <3>1, <3>2, SegOkGrown
    <3>. QED BY <3>1, <3>3 DEF InFlight
  <2>2. CASE m \in Packets(h, r)
    <3>1. PICK o \in Outs(r) : m = [from |-> h, to |-> o.to, seg |-> o.seg]
      BY <2>2 DEF Packets, Outs
    <3>2. o.to = Other(h) /\ SegOk(h, o.seg, r) /\ o.seg \in Segment
      BY <1>2, OutsAre DEF OutsOk
    <3>3. SegOk(h, o.seg, c)
      BY <1>2, <3>2, SegOkGrown
    <3>. QED BY <1>4, <3>1, <3>2, <3>3 DEF InFlight
  <2>. QED BY <1>3, <2>1, <2>2
<1>. QED BY <1>4, <1>6, <1>7, <1>10, <1>11 DEF IInv

(* Nothing but the network changes, and it only loses.                      *)
LEMMA NothingMoves ==
  ASSUME IInv, UNCHANGED <<tcb, sent>>, net' \subseteq net
  PROVE  IInv' /\ \A x \in Host : Grown(tcb[x], tcb'[x])
<1>1. \A m \in net' : InFlight(m)'
  BY DEF IInv, InFlight
<1>2. ASSUME NEW x \in Host PROVE Grown(tcb[x], tcb'[x])
  <2>1. tcb[x] \in Tcb
    BY DEF IInv
  <2>. QED BY <2>1, GrownSame
<1>. QED BY <1>1, <1>2 DEF IInv

(* A step of h that its user takes no text with.                            *)
LEMMA QuietMoves ==
  ASSUME IInv, UNCHANGED sent, NEW h \in Host, NEW r,
         Stays(h, tcb[h], sent[h], tcb[Other(h)], r), NEW n \in SUBSET net, Step(h, r, n)
  PROVE  IInv' /\ \A x \in Host : Grown(tcb[x], tcb'[x])
<1>. DEFINE snt == sent[h]
<1>1. snt \in Seq(Byte) /\ Len(snt) <= MaxBytes[h] /\ sent' \in [Host -> Seq(Byte)] /\ sent'[h] = snt
  BY DEF IInv
<1>2. sent'[Other(h)] = sent[Other(h)] /\ Stays(h, tcb[h], snt, tcb[Other(h)], r)
  OBVIOUS
<1>. HIDE DEF snt
<1>. QED BY <1>1, <1>2, HostMoves

(* The arrival of a segment keeps the invariant.                            *)
LEMMA DeliverMoves ==
  ASSUME IInv, NEW m \in net, Deliver(m)
  PROVE  IInv' /\ \A x \in Host : Grown(tcb[x], tcb'[x])
<1>. DEFINE h == m.to
            n == IF KeepCopies THEN net ELSE net \ {m}
<1>0. n \in SUBSET net /\ UNCHANGED sent /\ h \in Host
  BY DEF Deliver, users
<1>1. m.from = Other(h) /\ m.seg \in Segment /\ SegOk(Other(h), m.seg, tcb[Other(h)])
  BY Hosts DEF IInv, InFlight
<1>2. CASE tcb[h].state = "FREE"
  <2>1. net' = n /\ UNCHANGED tcb
    BY <1>2 DEF Deliver
  <2>. QED BY <1>0, <2>1, NothingMoves
<1>3. CASE tcb[h].state # "FREE"
  <2>1. PICK e \in Envs : Step(h, Received(tcb[h], e, m.from, m.seg), n)
    BY <1>3 DEF Deliver
  <2>2. e \in Env
    BY BoundAssumption
  <2>3. Meets(h, tcb[h], sent[h], tcb[Other(h)], sent[Other(h)], m.seg)
    <3>1. Other(h) \in Host /\ Other(Other(h)) = h
      BY <1>0, Hosts
    <3>. QED BY <1>0, <1>1, <3>1 DEF Meets, IInv
  <2>. HIDE DEF h, n
  <2>4. Stays(h, tcb[h], sent[h], tcb[Other(h)], Received(tcb[h], e, Other(h), m.seg))
    BY <1>0, <2>2, <2>3, ReceivedKeeps
  <2>. QED BY <1>0, <1>1, <2>1, <2>4, QuietMoves
<1>. QED BY <1>2, <1>3

(* The text of one tcp_send().                                              *)
LEMMA TextType ==
  ASSUME IInv, NEW h \in Host, NEW n \in Sizes, Len(sent[h]) + n <= MaxBytes[h]
  PROVE  Text(h, n) \in Seq(Byte) /\ Len(Text(h, n)) = n
<1>. DEFINE k == Len(sent[h])
            c == MaxBytes[Client]
            s == MaxBytes[Server]
<1>1. n \in Nat /\ k \in Nat /\ c \in Nat /\ s \in Nat /\ k + n <= MaxBytes[h]
  BY BoundAssumption DEF IInv, Host
<1>2. h = Client \/ h = Server
  BY DEF Host
<1>3. Byte = 1 .. c + s
  BY BoundAssumption
<1>4. Text(h, n) = [i \in 1 .. n |-> k + i + (IF h = Client THEN 0 ELSE c)]
  BY DEF Text
<1>. HIDE DEF k
<1>5. ASSUME NEW i \in 1 .. n PROVE k + i + (IF h = Client THEN 0 ELSE c) \in Byte
  <2>1. CASE h = Client
    <3>1. k + n <= c
      BY <1>1, <2>1
    <3>. HIDE DEF c, s
    <3>. QED BY <1>1, <1>3, <2>1, <3>1
  <2>2. CASE h # Client
    <3>1. k + n <= s
      BY <1>1, <1>2, <2>2
    <3>. HIDE DEF c, s
    <3>. QED BY <1>1, <1>3, <2>2, <3>1
  <2>. QED BY <2>1, <2>2
<1>. HIDE DEF c, s
<1>. QED BY <1>1, <1>4, <1>5

(* tcp_send() keeps the invariant.                                          *)
LEMMA AppSendMoves ==
  ASSUME IInv, NEW h \in Host, AppSend(h)
  PROVE  IInv' /\ \A x \in Host : Grown(tcb[x], tcb'[x])
<1>1. PICK n \in Sizes, e \in Envs :
        /\ Len(sent[h]) + n <= MaxBytes[h]
        /\ Step(h, Send(tcb[h], e, Text(h, n)), net)
        /\ sent' = IF SendAccepts(tcb[h], e)
                   THEN [sent EXCEPT ![h] = @ \o Text(h, n)] ELSE sent
  BY DEF AppSend
<1>. DEFINE chunk == Text(h, n)
            snt2 == IF SendAccepts(tcb[h], e) THEN sent[h] \o chunk ELSE sent[h]
            r == Send(tcb[h], e, chunk)
<1>2. e \in Env /\ tcb[h].state = "ESTABLISHED"
  BY BoundAssumption DEF AppSend
<1>3. chunk \in Seq(Byte) /\ Len(sent[h]) + Len(chunk) <= MaxBytes[h]
  BY <1>1, TextType
<1>4. /\ sent[h] \in Seq(Byte) /\ sent \in [Host -> Seq(Byte)] /\ Other(h) \in Host /\ Other(h) # h
      /\ tcb[Other(h)] \in Tcb /\ Side(h, tcb[h], sent[h], tcb[Other(h)])
  BY Hosts DEF IInv
<1>. HIDE DEF chunk
<1>5. Stays(h, tcb[h], snt2, tcb[Other(h)], r) /\ snt2 \in Seq(Byte) /\ Len(snt2) <= MaxBytes[h]
  BY <1>2, <1>3, <1>4, SendKeeps
<1>6. sent' \in [Host -> Seq(Byte)] /\ sent'[h] = snt2 /\ sent'[Other(h)] = sent[Other(h)]
  BY <1>1, <1>4, <1>5 DEF chunk
<1>7. Step(h, r, net)
  BY <1>1 DEF chunk
<1>. HIDE DEF r, snt2
<1>. QED BY <1>5, <1>6, <1>7, HostMoves

(* Every step keeps the invariant, and no host unsays what it said.         *)
LEMMA StepKeeps ==
  ASSUME IInv, [Next]_vars
  PROVE  IInv' /\ \A x \in Host : Grown(tcb[x], tcb'[x])
<1>0. ASSUME NEW h \in Host
      PROVE  /\ tcb[h] \in Tcb /\ tcb[Other(h)] \in Tcb
             /\ sent[h] \in Seq(Byte) /\ Len(sent[h]) <= MaxBytes[h]
             /\ Side(h, tcb[h], sent[h], tcb[Other(h)])
  BY Hosts DEF IInv
<1>1. CASE UNCHANGED vars
  BY <1>1, NothingMoves DEF vars
<1>2. ASSUME NEW m \in net, Deliver(m) PROVE IInv' /\ \A x \in Host : Grown(tcb[x], tcb'[x])
  BY <1>2, DeliverMoves
<1>3. ASSUME NEW m \in net, Lose(m) PROVE IInv' /\ \A x \in Host : Grown(tcb[x], tcb'[x])
  BY <1>3, NothingMoves DEF Lose, users
<1>4. ASSUME NEW h \in Host, Expire(h) PROVE IInv' /\ \A x \in Host : Grown(tcb[x], tcb'[x])
  <2>1. PICK e \in Envs : Step(h, Loop(tcb[h], e, TRUE), net)
    BY <1>4 DEF Expire
  <2>2. Stays(h, tcb[h], sent[h], tcb[Other(h)], Loop(tcb[h], e, TRUE))
    BY <1>0, BoundAssumption, LoopKeeps
  <2>. QED BY <1>4, <2>1, <2>2, QuietMoves DEF Expire, users
<1>5. ASSUME NEW h \in Host, Reap(h) PROVE IInv' /\ \A x \in Host : Grown(tcb[x], tcb'[x])
  <2>1. PICK e \in Envs : Step(h, Loop(tcb[h], e, FALSE), net)
    BY <1>5 DEF Reap
  <2>2. Stays(h, tcb[h], sent[h], tcb[Other(h)], Loop(tcb[h], e, FALSE))
    BY <1>0, BoundAssumption, LoopKeeps
  <2>. QED BY <1>5, <2>1, <2>2, QuietMoves DEF Reap, users
<1>6. ASSUME NEW h \in Host, AppSend(h) PROVE IInv' /\ \A x \in Host : Grown(tcb[x], tcb'[x])
  BY <1>6, AppSendMoves
<1>7. ASSUME NEW h \in Host, AppRecv(h) PROVE IInv' /\ \A x \in Host : Grown(tcb[x], tcb'[x])
  <2>1. PICK n \in Sizes : Step(h, Recv(tcb[h], n), net)
    BY <1>7 DEF AppRecv
  <2>2. Stays(h, tcb[h], sent[h], tcb[Other(h)], Recv(tcb[h], n))
    BY <1>0, RecvKeeps
  <2>. QED BY <1>7, <2>1, <2>2, QuietMoves DEF AppRecv
<1>8. ASSUME NEW h \in Host, AppClose(h) PROVE IInv' /\ \A x \in Host : Grown(tcb[x], tcb'[x])
  <2>1. PICK e \in Envs : Step(h, Close(tcb[h], e), net)
    BY <1>8 DEF AppClose
  <2>2. Stays(h, tcb[h], sent[h], tcb[Other(h)], Close(tcb[h], e))
    BY <1>0, BoundAssumption, CloseKeeps
  <2>. QED BY <1>8, <2>1, <2>2, QuietMoves DEF AppClose, users
<1>. QED BY <1>1, <1>2, <1>3, <1>4, <1>5, <1>6, <1>7, <1>8 DEF Next, HostStep

(* tcp_open() of both hosts.                                                *)
LEMMA Starts == ASSUME Init, Stale = {} PROVE IInv
<1>1. PICK e \in Envs : LET c == OpenActive(Server, Isn[Client], e) IN
        /\ tcb = [h \in Host |-> IF h = Client THEN [c EXCEPT !.out = <<>>]
                                               ELSE OpenPassive(Isn[Server])]
        /\ net = Packets(Client, c)
  BY DEF Init
<1>. DEFINE c == OpenActive(Server, Isn[Client], e)
            empty == <<>>
            t == [c EXCEPT !.out = empty]
            p == OpenPassive(Isn[Server])
            syn == Seg(Isn[Client], 0, {"SYN"}, <<>>)
<1>2. /\ Client \in Host /\ Server \in Host /\ Other(Client) = Server /\ Other(Server) = Client
      /\ Server \in Peer /\ e \in Env /\ Client # Server
  BY HostAssumption, BoundAssumption DEF Host, Other
<1>3. /\ Isn[Client] \in SeqNo /\ Isn[Server] \in SeqNo /\ Start(Client) = Isn[Client] + 1
      /\ Isn[Client] \in Nat /\ Start(Client) < SnMod
  <2>1. /\ Isn[Client] \in SeqNo /\ Isn[Server] \in SeqNo /\ Start(Client) = Isn[Client] + 1
        /\ Isn[Client] \in Nat /\ Limit(Client) = Start(Client) + MaxBytes[Client]
        /\ MaxBytes[Client] \in Nat /\ Limit(Client) + 1 < SnMod
    BY <1>2, Hosts
  <2>. QED BY <2>1, SnModAssumption
<1>4. /\ c \in Tcb /\ c.state = "SYN_SENT" /\ c.iss = Isn[Client] /\ c.tx = syn /\ syn \in Segment
      /\ c.txData = <<>> /\ c.una = Isn[Client] /\ c.nxt = SnAdd(Isn[Client], 1)
      /\ c.dest = Server /\ c.rxData = <<>>
      /\ Outs(c) \subseteq {[to |-> Server, seg |-> syn]}
  BY <1>2, <1>3, OpenActiveType
<1>5. /\ p \in Tcb /\ p.state = "LISTEN" /\ p.iss = Isn[Server] /\ p.tx = None
      /\ p.txData = <<>> /\ p.una = Isn[Server] /\ p.nxt = Isn[Server]
      /\ p.rxData = <<>> /\ p.out = <<>>
  <2>1. p \in Tcb
    BY <1>3, NewTcbType DEF OpenPassive, States
  <2>. QED BY <2>1 DEF OpenPassive, NewTcb
<1>6. syn.fl = {"SYN"} /\ syn.data = <<>> /\ SegSeq(syn) = Isn[Client]
  BY DEF Seg, SegSeq
<1>7. empty \in Seq([to: Peer \cup {None}, seg: Segment]) /\ ToSet(empty) = {}
  BY DEF ToSet
<1>8. tcb[Client] = t /\ tcb[Server] = p /\ tcb = [h \in Host |-> IF h = Client THEN t ELSE p]
      /\ net = Packets(Client, c)
  BY <1>1, <1>2
<1>. HIDE DEF c, p, syn, empty
<1>9. /\ t \in Tcb /\ t.state = "SYN_SENT" /\ t.iss = Isn[Client] /\ t.tx = syn
      /\ t.txData = <<>> /\ t.una = Isn[Client] /\ t.nxt = SnAdd(Isn[Client], 1)
      /\ t.dest = Server /\ t.rxData = <<>> /\ t.out = empty
  BY <1>4, <1>7 DEF Tcb
<1>. HIDE DEF t
<1>10. /\ SndUna(t) = Isn[Client] /\ SndNxt(t) = Start(Client) /\ Outs(t) = {}
       /\ SndUna(p) = Isn[Server] /\ SndNxt(p) = Isn[Server] /\ Outs(p) = {}
  <2>1. SnAdd(Isn[Client], 1) = Start(Client)
    BY <1>3, Plain
  <2>. QED BY <1>5, <1>7, <1>9, <2>1 DEF SndUna, SndNxt, Outs, empty
<1>11. /\ ~Ready(t) /\ ~Up(t) /\ ~PeerFin(t) /\ ~FinAcked(t) /\ ~FinMade(t)
       /\ ~Ready(p) /\ ~Up(p) /\ ~PeerFin(p) /\ ~FinAcked(p) /\ ~FinMade(p)
  BY <1>5, <1>6, <1>9 DEF Ready, Up, PeerFin, FinAcked, FinMade, IsFin
<1>12. /\ Side(Client, t, <<>>, p) /\ Side(Server, p, <<>>, t)
  <2>1. Role(Client, t) /\ Role(Server, p)
    BY <1>2, <1>5, <1>9, <1>11 DEF Role
  <2>2. Sender(Client, t, <<>>) /\ Sender(Server, p, <<>>)
    BY <1>5, <1>9, <1>10, <1>11 DEF Sender, Fresh, syn
  <2>3. Trusts(Client, t, p) /\ Trusts(Server, p, t) /\ Ends(t, p) /\ Ends(p, t)
    BY <1>11 DEF Trusts, Ends
  <2>4. OutsOk(Client, t) /\ OutsOk(Server, p) /\ Clean(t) /\ Clean(p)
    BY <1>5, <1>9, <1>10 DEF OutsOk, Clean
  <2>. QED BY <1>5, <1>9, <2>1, <2>2, <2>3, <2>4 DEF Side, Core
<1>13. ASSUME NEW h \in Host PROVE sent[h] = <<>> /\ Len(sent[h]) <= MaxBytes[h]
  <2>1. sent[h] = <<>>
    BY DEF Init
  <2>. QED BY <2>1, Hosts
<1>14. sent \in [Host -> Seq(Byte)] /\ tcb \in [Host -> Tcb]
  BY <1>5, <1>8, <1>9 DEF Init
<1>15. ASSUME NEW h \in Host PROVE Side(h, tcb[h], sent[h], tcb[Other(h)])
  BY <1>2, <1>8, <1>12, <1>13 DEF Host
<1>16. ASSUME NEW m \in net PROVE InFlight(m)
  <2>1. PICK o \in Outs(c) : m = [from |-> Client, to |-> o.to, seg |-> o.seg]
    BY <1>8 DEF Packets, Outs
  <2>2. o.to = Server /\ o.seg = syn
    BY <1>4
  <2>3. SegOk(Client, syn, t)
    BY <1>6 DEF SegOk
  <2>. QED BY <1>2, <1>4, <1>8, <2>1, <2>2, <2>3 DEF InFlight
<1>. QED BY <1>13, <1>14, <1>15, <1>16 DEF IInv

-----------------------------------------------------------------------------
\* Theorems.

(* The invariant holds of every connection in whose network there is no     *)
(* segment of an earlier one.                                               *)
THEOREM ConnectionInvariant == ASSUME Stale = {} PROVE Spec => []IInv
<1>1. Init => IInv
  BY Starts
<1>2. IInv /\ [Next]_vars => IInv'
  BY StepKeeps
<1>. QED BY <1>1, <1>2, PTL DEF Spec

(* Neither end ever sends a RST: not for a duplicate, a delayed or a        *)
(* reordered segment, and not in any state of tcp_received().               *)
THEOREM NeverReset == ASSUME Stale = {} PROVE Spec => []NoReset
<1>1. IInv => NoReset
  BY DEF IInv, InFlight, SegOk, NoReset
<1>. QED BY <1>1, ConnectionInvariant, PTL

(* received_when_syn_sent() and received_when_syn_received() leave both     *)
(* ends with each other's initial sequence number.                          *)
THEOREM HandshakeAgrees == ASSUME Stale = {} PROVE Spec => []HandshakeAgreed
<1>1. IInv => HandshakeAgreed
  <2>. SUFFICES ASSUME IInv, NEW h \in Host, Connected(h)
                PROVE  tcb[h].irs = Isn[Other(h)] /\ tcb[h].iss = Isn[h]
    BY DEF HandshakeAgreed
  <2>1. Ready(tcb[h])
    BY DEF Connected, Ready
  <2>2. Role(h, tcb[h]) /\ Trusts(h, tcb[h], tcb[Other(h)])
    BY DEF IInv, Side, Core
  <2>. QED BY <2>1, <2>2 DEF Role, Trusts
<1>. QED BY <1>1, ConnectionInvariant, PTL

(* snd.una is never beyond the rcv.nxt of the other end, nor that beyond    *)
(* snd.nxt: an ACK is believed only when what it acknowledges has arrived,  *)
(* and nothing arrives that was not sent.                                   *)
THEOREM AcknowledgedHasArrived == ASSUME Stale = {} PROVE Spec => []AckedIsReceived
<1>1. IInv => AckedIsReceived
  <2>. SUFFICES ASSUME IInv, NEW h \in Host, Connected(h), Connected(Other(h))
                PROVE  /\ tcb[h].una <= tcb[Other(h)].rnxt
                       /\ tcb[Other(h)].rnxt <= tcb[h].nxt
    BY DEF AckedIsReceived
  <2>1. Up(tcb[h]) /\ Ready(tcb[Other(h)])
    BY DEF Connected, Up, Ready
  <2>2. Other(h) \in Host /\ Other(Other(h)) = h
    BY Hosts
  <2>3. Trusts(h, tcb[h], tcb[Other(h)]) /\ Trusts(Other(h), tcb[Other(h)], tcb[h])
    BY <2>2 DEF IInv, Side, Core
  <2>. QED BY <2>1, <2>3 DEF Trusts, SndUna, SndNxt, RcvNxt
<1>. QED BY <1>1, ConnectionInvariant, PTL

(* No step of any handler takes rcv.nxt back.                               *)
THEOREM RcvNxtNeverBack == ASSUME Stale = {} PROVE Spec => RcvNxtAdvances
<1>. DEFINE A == \A h \in Host : Connected(h) => tcb'[h].rnxt >= tcb[h].rnxt
<1>1. IInv /\ [Next]_vars => A
  <2>. SUFFICES ASSUME IInv, [Next]_vars, NEW h \in Host, Connected(h)
                PROVE  tcb'[h].rnxt >= tcb[h].rnxt
    OBVIOUS
  <2>1. Grown(tcb[h], tcb'[h]) /\ tcb[h] \in Tcb /\ tcb'[h] \in Tcb
    BY StepKeeps DEF IInv
  <2>2. RcvNxt(tcb[h]) <= RcvNxt(tcb'[h])
    BY <2>1 DEF Grown, Connected, Ready
  <2>3. RcvNxt(tcb[h]) \in Nat /\ RcvNxt(tcb'[h]) \in Nat
    BY <2>1, Numbers
  <2>. QED BY <2>2, <2>3 DEF RcvNxt
<1>2. IInv /\ [Next]_vars => [A]_vars
  BY <1>1
<1>. HIDE DEF A
<1>3. Spec => [][A]_vars
  BY <1>2, ConnectionInvariant, PTL DEF Spec
<1>. QED BY <1>3 DEF RcvNxtAdvances, A

(* What tcp_recv() has to read of a connection in ESTABLISHED is text that  *)
(* the peer sent, and none of the memory behind it: the block that          *)
(* tcp_received_on_established() queues has the length that the sequence    *)
(* numbers give, and no FIN, which would count for a byte, is among them.   *)
THEOREM OnlyTextToUser == ASSUME Stale = {} PROVE Spec => []NoJunkToUser
<1>1. IInv => NoJunkToUser
  <2>. SUFFICES ASSUME IInv, NEW h \in Host, tcb[h].state = "ESTABLISHED"
                PROVE  Junk \notin ToSet(FlattenSeq(tcb[h].rxData))
    BY DEF NoJunkToUser
  <2>1. tcb[h].rxData \in Seq(Seq(Byte))
    BY DEF IInv, Side, Clean
  <2>2. FlattenSeq(tcb[h].rxData) \in Seq(Byte)
    BY <2>1, FlattenType
  <2>3. ToSet(FlattenSeq(tcb[h].rxData)) \subseteq Byte
    BY <2>2 DEF ToSet
  <2>. QED BY <2>3, JunkAssumption
<1>. QED BY <1>1, ConnectionInvariant, PTL

-----------------------------------------------------------------------------
(***************************************************************************)
(* TcpPair implements Stream in both directions, for any amount of text,   *)
(* any window, any sequence numbers that do not wrap, and any order of     *)
(* losses, copies, delays and timeouts.                                    *)
(*                                                                         *)
(* Every allocation of a segment has to succeed: tcp_send() counts text as *)
(* accepted that tcp_construct_data_segment() drops with the segment it    *)
(* cannot build, so without it what arrives is not what was accepted.      *)
(***************************************************************************)

(* Sequences, one behind the other.                                         *)
LEMMA Join ==
  ASSUME NEW S, NEW a \in Seq(S), NEW b \in Seq(S), NEW c \in Seq(S)
  PROVE  /\ (a \o b) \o c = a \o (b \o c) /\ a \o b \in Seq(S)
         /\ Len(a \o b) = Len(a) + Len(b) /\ Len(a) \in Nat /\ Len(b) \in Nat
         /\ a \o <<>> = a /\ <<>> \o a = a
<1>1. (a \o b) \o c = a \o (b \o c)
  BY ConcatAssociative
<1>2. a \o b \in Seq(S) /\ Len(a \o b) = Len(a) + Len(b)
  BY ConcatProperties
<1>3. Len(a) \in Nat /\ Len(b) \in Nat
  BY LenProperties
<1>4. a \o <<>> = a /\ <<>> \o a = a
  OBVIOUS
<1>. QED BY <1>1, <1>2, <1>3, <1>4

(* The same of text: what the leaves need that have many sequences at hand. *)
LEMMA TextJoin ==
  ASSUME NEW u \in Seq(Byte), NEW v \in Seq(Byte)
  PROVE  u \o v \in Seq(Byte) /\ Len(u \o v) = Len(u) + Len(v) /\ Len(u) \in Nat /\ Len(v) \in Nat
  BY Join

(* And three of them, in any order.                                         *)
LEMMA TextGroup ==
  ASSUME NEW u \in Seq(Byte), NEW v \in Seq(Byte), NEW w \in Seq(Byte)
  PROVE  (u \o v) \o w = u \o (v \o w)
  BY ConcatAssociative

(* A sequence is cut in one way at a place.                                 *)
LEMMA Cancel ==
  ASSUME NEW S, NEW a \in Seq(S), NEW b \in Seq(S), NEW x \in Seq(S), NEW y \in Seq(S),
         Len(a) = Len(b), a \o x = b \o y
  PROVE  a = b /\ x = y
<1>. DEFINE u == a \o x
            v == b \o y
<1>1. /\ Len(u) = Len(a) + Len(x)
      /\ \A i \in 1 .. Len(a) + Len(x) : u[i] = IF i <= Len(a) THEN a[i] ELSE x[i - Len(a)]
  BY ConcatProperties
<1>2. /\ Len(v) = Len(b) + Len(y)
      /\ \A i \in 1 .. Len(b) + Len(y) : v[i] = IF i <= Len(b) THEN b[i] ELSE y[i - Len(b)]
  BY ConcatProperties
<1>3. u = v /\ Len(a) \in Nat /\ Len(x) \in Nat /\ Len(y) \in Nat
  BY LenProperties
<1>. HIDE DEF u, v
<1>4. Len(x) = Len(y)
  BY <1>1, <1>2, <1>3
<1>. DEFINE n == Len(a)
            m == Len(x)
<1>5. /\ n \in Nat /\ m \in Nat /\ Len(b) = n /\ Len(y) = m
      /\ \A i \in 1 .. n + m : u[i] = IF i <= n THEN a[i] ELSE x[i - n]
      /\ \A i \in 1 .. n + m : u[i] = IF i <= n THEN b[i] ELSE y[i - n]
  BY <1>1, <1>2, <1>3, <1>4
<1>6. n = Len(a) /\ m = Len(x)
  OBVIOUS
<1>. HIDE DEF n, m
<1>7. \A i \in 1 .. n : a[i] = b[i]
  BY <1>5
<1>8. ASSUME NEW i \in 1 .. m PROVE x[i] = y[i]
  <2>1. PICK j \in 1 .. n + m : j = i + n /\ j - n = i /\ ~(j <= n)
    <3>1. n \in Nat /\ m \in Nat /\ i \in Nat /\ 1 <= i /\ i <= m
      BY <1>5
    <3>2. i + n \in 1 .. n + m /\ (i + n) - n = i /\ ~(i + n <= n)
      BY <3>1
    <3>. QED BY <3>2
  <2>. QED BY <1>5, <2>1
<1>9. a = b
  BY <1>5, <1>6, <1>7, SeqEqual
<1>10. x = y
  BY <1>5, <1>6, <1>8, SeqEqual
<1>. QED BY <1>9, <1>10

\* a is the beginning of g, d is in g behind it, and b is the beginning of d.
Begins(S, a, g) == \E y \in Seq(S) : g = a \o y
Behind(S, a, d, g) == \E p, z \in Seq(S) : Len(p) = Len(a) /\ g = p \o (d \o z)
Continues(S, a, b, d, g) ==
  /\ a \in Seq(S) /\ b \in Seq(S) /\ d \in Seq(S) /\ g \in Seq(S)
  /\ Begins(S, a, g) /\ Behind(S, a, d, g) /\ Begins(S, b, d)

(* A beginning b of the text behind a is a beginning, with a, of it all.    *)
LEMMA Regroup ==
  ASSUME NEW S, NEW a \in Seq(S), NEW b \in Seq(S), NEW d, NEW z \in Seq(S), Begins(S, b, d)
  PROVE  Begins(S, a \o b, a \o (d \o z))
<1>1. PICK c \in Seq(S) : d = b \o c
  BY DEF Begins
<1>. DEFINE y == c \o z
<1>2. y \in Seq(S)
  BY Join
<1>3. Joins(b, c, z)
  BY JoinAssociative
<1>4. d \o z = b \o y
  BY <1>1, <1>3, Zenon DEF Joins
<1>. HIDE DEF y
<1>5. Joins(a, b, y)
  BY <1>2, JoinAssociative
<1>6. (a \o b) \o y = a \o (b \o y)
  BY <1>5, Zenon DEF Joins
<1>. QED BY <1>2, <1>4, <1>6 DEF Begins

(* Then b is in g behind a.                                                 *)
LEMMA NextPart ==
  ASSUME NEW S, NEW a, NEW b, NEW d, NEW g, Continues(S, a, b, d, g)
  PROVE  Begins(S, a \o b, g)
<1>0. a \in Seq(S) /\ b \in Seq(S) /\ d \in Seq(S) /\ g \in Seq(S)
  BY DEF Continues
<1>1. \E z \in Seq(S) : g = a \o (d \o z)
  <2>1. PICK p, z \in Seq(S) : Len(p) = Len(a) /\ g = p \o (d \o z)
    BY DEF Continues, Behind
  <2>. DEFINE v == d \o z
  <2>2. v \in Seq(S)
    BY <1>0, Join
  <2>3. PICK w \in Seq(S) : g = a \o w
    BY DEF Continues, Begins
  <2>. HIDE DEF v
  <2>4. p \o v = a \o w
    BY <2>1, <2>3 DEF v
  <2>5. p = a
    BY <1>0, <2>1, <2>2, <2>4, Cancel
  <2>. QED BY <2>1, <2>5
<1>2. ASSUME NEW z \in Seq(S), g = a \o (d \o z) PROVE Begins(S, a \o b, g)
  <2>1. Begins(S, b, d)
    BY DEF Continues
  <2>2. Begins(S, a \o b, a \o (d \o z))
    BY <1>0, <2>1, Regroup
  <2>. QED BY <1>2, <2>2
<1>. QED BY <1>1, <1>2

(* What comes first in a sequence is a prefix of it.                        *)
LEMMA PrefixOfJoin ==
  ASSUME NEW S, NEW a \in Seq(S), NEW x \in Seq(S)
  PROVE  Len(a) <= Len(a \o x) /\ SubSeq(a, 1, Len(a)) = SubSeq(a \o x, 1, Len(a))
<1>1. Len(a \o x) = Len(a) + Len(x) /\ Len(a) \in Nat /\ Len(x) \in Nat /\ a \o x \in Seq(S)
  BY Join
<1>2. SubSeq(a \o x, 1, Len(a)) = a
  <2>1. \A i \in 1 .. Len(a) : (a \o x)[i] = a[i]
    OBVIOUS
  <2>. DEFINE u == a \o x
              w == SubSeq(u, 1, Len(a))
  <2>2. w \in Seq(S) /\ Len(w) = Len(a) /\ \A i \in 1 .. Len(a) : w[i] = u[i]
    <3>. HIDE DEF u
    <3>. QED BY <1>1 DEF u
  <2>. HIDE DEF w
  <2>3. w = a
    BY <2>1, <2>2, SeqEqual
  <2>. QED BY <2>3 DEF w
<1>3. SubSeq(a, 1, Len(a)) = a
  BY SubSeqFull
<1>. QED BY <1>1, <1>2, <1>3

(* A sequence is a strict prefix of one with more behind it.                *)
LEMMA LongerIs ==
  ASSUME NEW S, NEW a \in Seq(S), NEW b \in Seq(S), b # <<>> PROVE IsStrictPrefix(a, a \o b)
<1>1. /\ Len(a) <= Len(a \o b)
      /\ SubSeq(a, 1, Len(a)) = SubSeq(a \o b, 1, Len(a))
  BY PrefixOfJoin
<1>2. a # a \o b
  <2>1. Len(a \o b) = Len(a) + Len(b) /\ Len(a) \in Nat /\ Len(b) \in Nat /\ Len(b) # 0
    BY Join
  <2>. QED BY <2>1
<1>. QED BY <1>1, <1>2 DEF IsStrictPrefix, IsPrefix

(* The block that tcp_handle_data() stores is text of the segment, from its *)
(* first byte on; of a FIN it is a byte that nobody sent.                   *)
LEMMA BlockOfText ==
  ASSUME NEW s \in Segment, "SYN" \notin s.fl, "FIN" \notin s.fl, SegLen(s) > 0
  PROVE  /\ TextBlock(s) \in Seq(Byte) /\ Len(TextBlock(s)) \in Nat /\ 1 <= Len(TextBlock(s))
         /\ \E c \in Seq(Byte) : s.data = TextBlock(s) \o c
<1>. DEFINE n == IF SegLen(s) > Wnd THEN Wnd ELSE SegLen(s)
            d == s.data
            b == TextBlock(s)
            c == SubSeq(d, n + 1, Len(d))
<1>1. d \in Seq(Byte) /\ Len(d) \in Nat
  BY DEF Segment
<1>2. SegLen(s) = Len(d) /\ b \in Seq(Byte) /\ Len(b) \in Nat /\ 1 <= Len(b)
  BY BlockFacts
<1>3. b = [i \in 1 .. n |-> IF i <= Len(d) THEN d[i] ELSE Junk]
  BY DEF TextBlock
<1>. HIDE DEF d, b
<1>4. n \in Nat /\ n <= Len(d)
  BY <1>1, <1>2, WndAssumption
<1>. HIDE DEF n
<1>5. b = SubSeq(d, 1, n)
  <2>1. \A i \in 1 .. n : b[i] = d[i]
    BY <1>1, <1>3, <1>4
  <2>2. Len(b) = n
    BY <1>3, <1>4
  <2>3. SubSeq(d, 1, n) \in Seq(Byte) /\ Len(SubSeq(d, 1, n)) = n
        /\ \A i \in 1 .. n : SubSeq(d, 1, n)[i] = d[i]
    BY <1>1, <1>4
  <2>. QED BY <1>2, <2>1, <2>2, <2>3, SeqEqual
<1>6. c \in Seq(Byte)
  BY <1>1, <1>4
<1>7. d = SubSeq(d, 1, n) \o c
  <2>1. 1 \in 1 .. Len(d) + 1 /\ n \in 1 - 1 .. Len(d) /\ Len(d) \in n .. Len(d)
    BY <1>1, <1>4
  <2>2. SubSeq(d, 1, n) \o SubSeq(d, n + 1, Len(d)) = SubSeq(d, 1, Len(d))
    BY <1>1, <2>1, ConcatAdjacentSubSeq
  <2>. QED BY <1>1, <2>2, SubSeqFull
<1>. QED BY <1>2, <1>5, <1>6, <1>7 DEF b, d

(* A bare FIN leaves in the queue a block of one byte nobody sent.          *)
LEMMA BlockOfFin ==
  ASSUME NEW s \in Segment, "SYN" \notin s.fl, "FIN" \in s.fl, s.data = <<>>
  PROVE  TextBlock(s) = <<Junk>>
<1>1. SegLen(s) = 1
  BY BlockFacts
<1>2. (IF SegLen(s) > Wnd THEN Wnd ELSE SegLen(s)) = 1
  BY <1>1, WndAssumption
<1>3. Len(s.data) = 0
  OBVIOUS
<1>4. TextBlock(s) = [i \in 1 .. 1 |-> IF i <= 0 THEN s.data[i] ELSE Junk]
  BY <1>2, <1>3 DEF TextBlock
<1>5. \A i \in 1 .. 1 : (IF i <= 0 THEN s.data[i] ELSE Junk) = Junk
  OBVIOUS
<1>. QED BY <1>4, <1>5

(* What of a queue is text.                                                 *)
LEMMA RealText == ASSUME NEW q \in Seq(Seq(Byte)) PROVE Real(q) = FlattenSeq(q)
<1>. DEFINE f == FlattenSeq(q)
<1>1. f \in Seq(Byte)
  BY FlattenType
<1>. HIDE DEF f
<1>2. f # <<>> => Last(f) \in Byte
  BY <1>1 DEF Last
<1>3. ~(f # <<>> /\ Last(f) = Junk)
  BY <1>2, JunkAssumption
<1>. QED BY <1>3 DEF Real, f

(* That byte is no text.                                                    *)
LEMMA RealFin == ASSUME NEW q \in Seq(Seq(Byte)) PROVE Real(Append(q, <<Junk>>)) = FlattenSeq(q)
<1>. DEFINE B == Byte \cup {Junk}
            f == FlattenSeq(q)
            j == <<Junk>>
            u == f \o j
<1>1. f \in Seq(Byte) /\ f \in Seq(B) /\ q \in Seq(Seq(B)) /\ j \in Seq(B) /\ Len(j) = 1 /\ j[1] = Junk
  <2>1. f \in Seq(Byte)
    BY FlattenType
  <2>2. Seq(Byte) \subseteq Seq(B)
    OBVIOUS
  <2>3. Seq(Seq(Byte)) \subseteq Seq(Seq(B))
    BY <2>2, SeqMonotonic
  <2>4. j \in Seq(B) /\ Len(j) = 1 /\ j[1] = Junk
    OBVIOUS
  <2>. QED BY <2>1, <2>2, <2>3, <2>4
<1>. HIDE DEF B, f, j
<1>2. FlattenSeq(Append(q, j)) = u
  BY <1>1, FlattenAppend DEF f
<1>3. /\ u \in Seq(B) /\ Len(u) = Len(f) + 1 /\ Len(f) \in Nat
      /\ \A i \in 1 .. Len(f) + 1 : u[i] = IF i <= Len(f) THEN f[i] ELSE j[i - Len(f)]
  <2>1. f \in Seq(B) /\ j \in Seq(B)
    BY <1>1
  <2>2. /\ u \in Seq(B) /\ Len(u) = Len(f) + Len(j) /\ Len(f) \in Nat
        /\ \A i \in 1 .. Len(f) + Len(j) : u[i] = IF i <= Len(f) THEN f[i] ELSE j[i - Len(f)]
    BY <2>1, ConcatProperties
  <2>. HIDE DEF u
  <2>. QED BY <1>1, <2>2
<1>. HIDE DEF u
<1>4. u # <<>> /\ Last(u) = Junk
  <2>1. Len(f) + 1 \in 1 .. Len(f) + 1 /\ ~(Len(f) + 1 <= Len(f)) /\ Len(f) + 1 - Len(f) = 1
    BY <1>3
  <2>2. u[Len(f) + 1] = j[Len(f) + 1 - Len(f)]
    BY <1>3, <2>1
  <2>3. u # <<>>
    BY <1>3
  <2>. QED BY <1>1, <1>3, <2>1, <2>2, <2>3 DEF Last
<1>5. Front(u) = f
  <2>. DEFINE w == Front(u)
  <2>1. w = SubSeq(u, 1, Len(f))
    BY <1>3 DEF Front
  <2>2. w \in Seq(B) /\ Len(w) = Len(f) /\ \A i \in 1 .. Len(f) : w[i] = u[i]
    BY <1>3, <2>1
  <2>3. \A i \in 1 .. Len(f) : u[i] = f[i]
    BY <1>3
  <2>. HIDE DEF w
  <2>4. w = f
    BY <1>1, <2>2, <2>3, SeqEqual
  <2>. QED BY <2>4 DEF w
<1>. QED BY <1>2, <1>4, <1>5 DEF Real, f, j

-----------------------------------------------------------------------------
\* The inductive invariant of the text, beside IInv: of a host h with control
\* block t, whose user has sent snt, and whose peer's user has sent gsnt.

\* The text of a segment is where its number says in what the user has sent.
Says(h, s, snt) ==
  s.data # <<>> => \E p, r \in Seq(Byte) :
                     SegSeq(s) = Start(h) + Len(p) /\ snt = p \o (s.data \o r)

\* All that the user has sent has a number, is queued, or is followed by a FIN.
Tells(h, t, snt) ==
  /\ ~Up(t) => snt = <<>>
  /\ Up(t) /\ ~FinMade(t) => \E p \in Seq(Byte) : /\ SndNxt(t) = Start(h) + Len(p)
                                                  /\ snt = p \o FlattenSeq(t.txData)
  /\ Up(t) /\ FinMade(t) => SndNxt(t) = Start(h) + Len(snt) + 1
  /\ t.tx # None => Says(h, t.tx, snt)
  /\ \A o \in Outs(t) : Says(h, o.seg, snt)

\* What the user took, q, and what is queued for it are what the peer sent, up
\* to rcv.nxt; all of it once its FIN was seen.
Hears(h, t, q, gsnt) ==
  /\ ~Ready(t) => q = <<>> /\ t.rxData = <<>>
  /\ Ready(t) /\ ~PeerFin(t) =>
       /\ t.rxData \in Seq(Seq(Byte))
       /\ RcvNxt(t) = Start(Other(h)) + Len(q \o FlattenSeq(t.rxData))
       /\ \E r \in Seq(Byte) : gsnt = (q \o FlattenSeq(t.rxData)) \o r
  /\ PeerFin(t) => q \o Real(t.rxData) = gsnt

-----------------------------------------------------------------------------
\* What a host tells.

(* What a segment says stays true while the user goes on.                   *)
LEMMA SaysGrown ==
  ASSUME NEW h, NEW s \in Segment, NEW snt \in Seq(Byte), NEW x \in Seq(Byte), Says(h, s, snt)
  PROVE  Says(h, s, snt \o x)
<1>. SUFFICES ASSUME s.data # <<>>
              PROVE  \E p, r \in Seq(Byte) : /\ SegSeq(s) = Start(h) + Len(p)
                                             /\ snt \o x = p \o (s.data \o r)
  BY DEF Says
<1>1. PICK p, r \in Seq(Byte) : SegSeq(s) = Start(h) + Len(p) /\ snt = p \o (s.data \o r)
  BY DEF Says
<1>2. s.data \in Seq(Byte)
  BY DEF Segment
<1>. DEFINE d == s.data
<1>3. d \o r \in Seq(Byte) /\ r \o x \in Seq(Byte) /\ d \in Seq(Byte)
  BY <1>2, TextJoin, Zenon
<1>. HIDE DEF d
<1>4. Joins(d, r, x) /\ Joins(p, d \o r, x)
  BY <1>3, JoinAssociative
<1>5. (d \o r) \o x = d \o (r \o x)
  BY <1>4, Zenon DEF Joins
<1>6. snt \o x = p \o (d \o (r \o x))
  <2>1. (p \o (d \o r)) \o x = p \o ((d \o r) \o x)
    BY <1>4, Zenon DEF Joins
  <2>. QED BY <1>1, <1>5, <2>1, Zenon DEF d
<1>. QED BY <1>1, <1>3, <1>6 DEF d

(* A step that gives no number away and makes no FIN.                       *)
LEMMA TellsSame ==
  ASSUME NEW h, NEW t, NEW r, NEW snt, Tells(h, t, snt), Up(r) <=> Up(t),
         Up(t) => SndNxt(r) = SndNxt(t) /\ r.txData = t.txData /\ (FinMade(r) <=> FinMade(t)),
         r.tx = t.tx \/ r.tx = None,
         \A o \in Outs(r) : \/ o \in Outs(t)
                            \/ o.seg.data = <<>>
                            \/ t.tx # None /\ o.seg = t.tx
  PROVE  Tells(h, r, snt)
<1>1. r.tx # None => Says(h, r.tx, snt)
  BY DEF Tells
<1>2. ASSUME NEW o \in Outs(r) PROVE Says(h, o.seg, snt)
  <2>1. CASE o \in Outs(t)
    BY <2>1 DEF Tells
  <2>2. CASE o.seg.data = <<>>
    BY <2>2 DEF Says
  <2>3. CASE t.tx # None /\ o.seg = t.tx
    BY <2>3 DEF Tells
  <2>. QED BY <2>1, <2>2, <2>3
<1>3. Up(r) /\ ~FinMade(r) => \E p \in Seq(Byte) : /\ SndNxt(r) = Start(h) + Len(p)
                                                   /\ snt = p \o FlattenSeq(r.txData)
  BY DEF Tells
<1>. QED BY <1>1, <1>2, <1>3 DEF Tells

(* The connection is up, and nothing has been sent.                         *)
LEMMA TellsUp ==
  ASSUME NEW h \in Host, NEW t, NEW r, NEW snt, Tells(h, t, snt), ~Up(t), ~FinMade(r),
         SndNxt(r) = Start(h), r.txData = <<>>, r.tx = t.tx \/ r.tx = None,
         \A o \in Outs(r) : o \in Outs(t) \/ o.seg.data = <<>>
  PROVE  Tells(h, r, snt)
<1>1. snt = <<>>
  BY DEF Tells
<1>2. r.tx # None => Says(h, r.tx, snt)
  BY DEF Tells
<1>3. ASSUME NEW o \in Outs(r) PROVE Says(h, o.seg, snt)
  BY DEF Tells, Says
<1>4. \E p \in Seq(Byte) : SndNxt(r) = Start(h) + Len(p) /\ snt = p \o FlattenSeq(r.txData)
  <2>1. <<>> \in Seq(Byte) /\ Len(<<>>) = 0 /\ <<>> \o <<>> = <<>>
    OBVIOUS
  <2>2. Start(h) + 0 = Start(h)
    BY Hosts
  <2>3. FlattenSeq(r.txData) = <<>>
    BY FlattenNone
  <2>. QED BY <1>1, <2>1, <2>2, <2>3
<1>. QED BY <1>1, <1>2, <1>3, <1>4 DEF Tells

(* The first block of a queue, and what the others hold.                    *)
LEMMA HeadFlat ==
  ASSUME NEW q \in Seq(Seq(Byte)), q # <<>>
  PROVE  /\ Head(q) \in Seq(Byte) /\ Tail(q) \in Seq(Seq(Byte)) /\ FlattenSeq(Tail(q)) \in Seq(Byte)
         /\ FlattenSeq(q) = Head(q) \o FlattenSeq(Tail(q))
<1>1. Head(q) \in Seq(Byte) /\ Tail(q) \in Seq(Seq(Byte)) /\ <<Head(q)>> \in Seq(Seq(Byte))
  OBVIOUS
<1>2. q = <<Head(q)>> \o Tail(q)
  OBVIOUS
<1>3. FlattenSeq(<<Head(q)>> \o Tail(q)) = FlattenSeq(<<Head(q)>>) \o FlattenSeq(Tail(q))
  BY <1>1, FlattenConcat
<1>4. FlattenSeq(<<Head(q)>>) = Head(q)
  BY <1>1, FlattenOne
<1>5. FlattenSeq(Tail(q)) \in Seq(Byte)
  BY <1>1, FlattenType
<1>. QED BY <1>1, <1>2, <1>3, <1>4, <1>5

(* The next block is sent, with the numbers behind the last.                *)
LEMMA TellsNext ==
  ASSUME NEW h \in Host, NEW t \in Tcb, NEW r \in Tcb, NEW snt \in Seq(Byte),
         Len(snt) <= MaxBytes[h], Tells(h, t, snt), Up(t), ~FinMade(t), Up(r), ~FinMade(r),
         t.txData # <<>>, NEW ack,
         r.tx = Seg(SndNxt(t), ack, {"ACK"}, Head(t.txData)), r.tx \in Segment,
         r.txData = Tail(t.txData), r.nxt = SnAdd(t.nxt, SegLen(r.tx)),
         \A o \in Outs(r) : o \in Outs(t) \/ o.seg = r.tx
  PROVE  Tells(h, r, snt)
<1>. DEFINE d == Head(t.txData)
            f == FlattenSeq(Tail(t.txData))
<1>1. PICK p \in Seq(Byte) : SndNxt(t) = Start(h) + Len(p) /\ snt = p \o FlattenSeq(t.txData)
  BY DEF Tells
<1>2. d \in Seq(Byte) /\ f \in Seq(Byte) /\ FlattenSeq(t.txData) = d \o f
  BY HeadFlat DEF Tcb
<1>3. r.tx.data = d /\ SegSeq(r.tx) = SndNxt(t) /\ SegLen(r.tx) = Len(d)
  BY <1>2, AckLen DEF Seg, SegSeq
<1>. HIDE DEF d, f
<1>4. /\ p \o d \in Seq(Byte) /\ (p \o d) \o f = p \o (d \o f) /\ Len(p \o d) = Len(p) + Len(d)
      /\ Len(p) \in Nat /\ Len(d) \in Nat /\ Len(f) \in Nat
      /\ Len((p \o d) \o f) = Len(p \o d) + Len(f)
  <2>1. \A u, v, w \in Seq(Byte) : (u \o v) \o w = u \o (v \o w)
    BY TextGroup
  <2>2. \A u, v \in Seq(Byte) : /\ u \o v \in Seq(Byte) /\ Len(u \o v) = Len(u) + Len(v)
                                 /\ Len(u) \in Nat /\ Len(v) \in Nat
    BY TextJoin
  <2>. QED BY <1>2, <2>1, <2>2, Zenon
<1>5. snt = (p \o d) \o f
  BY <1>1, <1>2, <1>4
<1>6. SndNxt(r) = Start(h) + Len(p \o d)
  <2>1. \A n, k, l, m, b, u \in Nat : n = b + k /\ k + l + m <= u /\ b + u + 1 < SnMod => n + l < SnMod
    BY SnModAssumption
  <2>2. \A n, k, l, b \in Nat : n = b + k => n + l = b + (k + l)
    OBVIOUS
  <2>3. Start(h) + MaxBytes[h] + 1 < SnMod /\ Start(h) \in Nat /\ MaxBytes[h] \in Nat /\ SndNxt(t) \in Nat
    BY Hosts, Numbers
  <2>4. Len(p) + Len(d) + Len(f) <= MaxBytes[h]
    BY <1>4, <1>5
  <2>5. SndNxt(t) + Len(d) < SnMod
    BY <1>1, <1>4, <2>1, <2>3, <2>4, Zenon
  <2>6. SndNxt(r) = SnAdd(SndNxt(t), Len(d))
    BY <1>3 DEF SndNxt
  <2>7. SndNxt(r) = SndNxt(t) + Len(d)
    BY <1>4, <2>3, <2>5, <2>6, Plain
  <2>. QED BY <1>1, <1>4, <2>2, <2>3, <2>7
<1>7. Says(h, r.tx, snt)
  <2>1. snt = p \o (d \o f)
    BY <1>4, <1>5
  <2>. QED BY <1>1, <1>2, <1>3, <2>1 DEF Says
<1>8. ASSUME NEW o \in Outs(r) PROVE Says(h, o.seg, snt)
  BY <1>7 DEF Tells
<1>9. FlattenSeq(r.txData) = f
  BY DEF f
<1>. QED BY <1>4, <1>5, <1>6, <1>7, <1>8, <1>9 DEF Tells

(* tcp_construct_data()                                                     *)
LEMMA ConstructTells ==
  ASSUME NEW h \in Host, NEW t \in Tcb, NEW snt \in Seq(Byte), Len(snt) <= MaxBytes[h],
         Tells(h, t, snt), Up(t), ~FinMade(t), t.tx = None => SndUna(t) = SndNxt(t),
         NEW e \in Env, e.seg
  PROVE  Tells(h, ConstructData(t, e), snt)
<1>. DEFINE r == ConstructData(t, e)
<1>1. /\ r \in Tcb /\ r.state = t.state
      /\ t.tx # None \/ t.txData = <<>> => r = t
      /\ t.tx = None /\ t.txData # <<>> =>
           /\ DataOut(r, t)
           /\ Outs(r) = IF e.ip THEN Outs(t) \cup {[to |-> t.dest, seg |-> r.tx]} ELSE Outs(t)
  BY ConstructDataType
<1>. HIDE DEF r
<1>2. CASE t.tx # None \/ t.txData = <<>>
  BY <1>1, <1>2 DEF r
<1>3. CASE t.tx = None /\ t.txData # <<>>
  <2>1. /\ r.tx \in Segment /\ r.tx.fl = {"ACK"} /\ r.tx = Seg(SndNxt(t), t.rnxt, {"ACK"}, Head(t.txData))
        /\ r.nxt = SnAdd(t.nxt, SegLen(r.tx)) /\ r.txData = Tail(t.txData)
    BY <1>1, <1>3 DEF DataOut, SndUna, SndNxt
  <2>2. Up(r) /\ ~FinMade(r)
    BY <1>1, <2>1 DEF Up, FinMade, FinAcked, IsFin
  <2>3. \A o \in Outs(r) : o \in Outs(t) \/ o.seg = r.tx
    BY <1>1, <1>3
  <2>. QED BY <1>1, <1>3, <2>1, <2>2, <2>3, TellsNext DEF r
<1>. QED BY <1>2, <1>3

(* tcp_handle_ack_of_data()                                                 *)
LEMMA AckTells ==
  ASSUME NEW h \in Host, NEW t \in Tcb, NEW snt \in Seq(Byte), Len(snt) <= MaxBytes[h],
         Tells(h, t, snt), Up(t), ~FinMade(t), NEW e \in Env, e.seg, NEW s \in Segment
  PROVE  LET r == HandleAckOfData(t, e, s) IN Tells(h, r, snt) /\ ~FinMade(r)
<1>. DEFINE r == HandleAckOfData(t, e, s)
<1>1. /\ r \in Tcb /\ r.state = t.state
      /\ r = t \/ AckedAll(r, t, e)
  BY HandleAckOfDataType
<1>. HIDE DEF r
<1>2. CASE r = t
  BY <1>2 DEF r
<1>3. CASE AckedAll(r, t, e) /\ t.txData = <<>>
  <2>1. r.tx = None /\ r.txData = t.txData /\ SndNxt(r) = SndNxt(t) /\ Outs(r) = Outs(t)
    BY <1>3 DEF AckedAll, SndNxt
  <2>2. Up(r) /\ ~FinMade(r)
    BY <1>1, <2>1 DEF Up, FinMade, FinAcked, IsFin
  <2>. QED BY <2>1, <2>2, TellsSame DEF r
<1>4. CASE AckedAll(r, t, e) /\ t.txData # <<>>
  <2>1. /\ r.tx \in Segment /\ r.tx = Seg(SndNxt(t), t.rnxt, {"ACK"}, Head(t.txData))
        /\ r.nxt = SnAdd(t.nxt, SegLen(r.tx)) /\ r.txData = Tail(t.txData)
        /\ Outs(r) \subseteq Outs(t) \cup {[to |-> t.dest, seg |-> r.tx]}
    BY <1>4 DEF AckedAll, SndNxt
  <2>2. r.tx.fl = {"ACK"}
    BY <2>1 DEF Seg
  <2>3. Up(r) /\ ~FinMade(r)
    BY <1>1, <2>2 DEF Up, FinMade, FinAcked, IsFin
  <2>4. \A o \in Outs(r) : o \in Outs(t) \/ o.seg = r.tx
    BY <2>1
  <2>. QED BY <1>1, <1>4, <2>1, <2>3, <2>4, TellsNext DEF r
<1>. QED BY <1>1, <1>2, <1>3, <1>4

(* tcp_contruct_fin_ack()                                                   *)
LEMMA FinTells ==
  ASSUME NEW h \in Host, NEW t \in Tcb, NEW snt \in Seq(Byte), Len(snt) <= MaxBytes[h],
         Tells(h, t, snt), Up(t), ~FinMade(t), NEW e \in Env,
         NEW r \in Tcb, r.state \in {"FIN_WAIT_1", "LAST_ACK"}, Renamed(r, ConstructFinAck(t, e))
  PROVE  Tells(h, r, snt)
<1>. DEFINE k == ConstructFinAck(t, e)
<1>1. /\ Outs(k) = Outs(t) /\ k.txData = t.txData
      /\ ~(t.txData = <<>> /\ t.tx = None /\ e.seg) => k = t
      /\ t.txData = <<>> /\ t.tx = None /\ e.seg =>
           k.tx = Seg(t.una, t.rnxt, {"FIN", "ACK"}, <<>>) /\ k.tx # None /\ k.nxt = SnAdd(t.nxt, 1)
  BY ConstructFinAckType
<1>2. r.tx = k.tx /\ r.txData = k.txData /\ r.nxt = k.nxt /\ Outs(r) = Outs(k)
  BY DEF Renamed
<1>3. Up(r) /\ ~FinAcked(r)
  BY DEF Up, FinAcked
<1>. HIDE DEF k
<1>4. CASE k = t
  <2>1. SndNxt(r) = SndNxt(t) /\ (FinMade(r) <=> FinMade(t))
    BY <1>2, <1>3, <1>4 DEF SndNxt, FinMade
  <2>. QED BY <1>2, <1>3, <1>4, <2>1, TellsSame
<1>5. CASE t.txData = <<>> /\ t.tx = None /\ e.seg
  <2>1. r.tx.data = <<>> /\ "FIN" \in r.tx.fl /\ r.tx # None
    BY <1>1, <1>2, <1>5 DEF Seg
  <2>2. PICK p \in Seq(Byte) : SndNxt(t) = Start(h) + Len(p) /\ snt = p \o FlattenSeq(t.txData)
    BY DEF Tells
  <2>3. snt = p
    BY <1>5, <2>2, FlattenNone
  <2>4. SndNxt(r) = Start(h) + Len(snt) + 1
    <3>1. /\ Start(h) + MaxBytes[h] + 1 < SnMod /\ Start(h) \in Nat /\ MaxBytes[h] \in Nat
          /\ SndNxt(t) \in Nat /\ Len(snt) \in Nat /\ SndNxt(t) = Start(h) + Len(snt)
      BY <2>2, <2>3, Hosts, Numbers, LenProperties
    <3>2. \A n, k1, b, u \in Nat : n = b + k1 /\ k1 <= u /\ b + u + 1 < SnMod => n + 1 < SnMod
      BY SnModAssumption
    <3>3. SndNxt(t) + 1 < SnMod
      BY <3>1, <3>2, Zenon
    <3>4. SndNxt(r) = SnAdd(SndNxt(t), 1)
      BY <1>1, <1>2, <1>5 DEF SndNxt
    <3>5. SndNxt(r) = SndNxt(t) + 1
      BY <3>1, <3>3, <3>4, Plain
    <3>. QED BY <3>1, <3>5
  <2>5. Says(h, r.tx, snt)
    BY <2>1 DEF Says
  <2>6. FinMade(r)
    BY <2>1 DEF FinMade, IsFin
  <2>7. \A o \in Outs(r) : Says(h, o.seg, snt)
    BY <1>1, <1>2 DEF Tells
  <2>. QED BY <1>3, <2>4, <2>5, <2>6, <2>7 DEF Tells
<1>. QED BY <1>1, <1>4, <1>5

-----------------------------------------------------------------------------
\* What a host hears.

\* Its user has closed: UserClosed.
Shut(t) == t.state \in {"FIN_WAIT_1", "FIN_WAIT_2", "TIME_WAIT", "LAST_ACK", "CLOSED", "FREE"}

\* What a host learns of the stream of its peer when it goes on from t to r for
\* the segment s: nothing; where the stream begins; the next text of it; that
\* it has ended, with or without the byte that handle_data() stores of a FIN.
HearsNone(t, r) ==
  /\ Ready(t) <=> Ready(r)
  /\ PeerFin(t) <=> PeerFin(r)
  /\ r.rxData = t.rxData
  /\ Ready(t) /\ ~PeerFin(t) => RcvNxt(r) = RcvNxt(t)
HearsSyn(h, t, r) ==
  /\ ~Ready(t) /\ Ready(r) /\ ~PeerFin(r)
  /\ r.rxData = t.rxData /\ RcvNxt(r) = Start(Other(h))
HearsText(t, r, s) ==
  /\ Ready(t) /\ Ready(r) /\ ~PeerFin(t) /\ ~PeerFin(r)
  /\ "SYN" \notin s.fl /\ "FIN" \notin s.fl /\ SegSeq(s) = RcvNxt(t) /\ SegLen(s) > 0
  /\ r.rxData = Append(t.rxData, TextBlock(s)) /\ r.rnxt = SnAdd(t.rnxt, Len(TextBlock(s)))
HearsFin(t, r, s) ==
  /\ Ready(t) /\ ~PeerFin(t) /\ PeerFin(r)
  /\ "SYN" \notin s.fl /\ "FIN" \in s.fl
  /\ r.rxData = t.rxData \/ r.rxData = Append(t.rxData, TextBlock(s))
Heard(h, t, r, s) == HearsNone(t, r) \/ HearsSyn(h, t, r) \/ HearsText(t, r, s) \/ HearsFin(t, r, s)

\* A host that goes on so, and its user does not close.
Goes(h, t, snt, r, s) == Tells(h, r, snt) /\ Heard(h, t, r, s) /\ (Shut(r) <=> Shut(t))

(* A segment that changes nothing.                                          *)
LEMMA GoesSame ==
  ASSUME NEW h, NEW t, NEW snt, NEW s, Tells(h, t, snt) PROVE Goes(h, t, snt, t, s)
  BY DEF Goes, Heard, HearsNone

(* The number behind the SYN of a host.                                     *)
LEMMA SynNumber == ASSUME NEW g \in Host PROVE SnAdd(Isn[g], 1) = Start(g)
<1>1. /\ Isn[g] \in Nat /\ Start(g) = Isn[g] + 1 /\ Limit(g) = Start(g) + MaxBytes[g]
      /\ MaxBytes[g] \in Nat /\ Limit(g) + 1 < SnMod
  BY Hosts
<1>2. Isn[g] \in Nat /\ 1 \in Nat /\ Isn[g] + 1 < SnMod
  BY <1>1, SnModAssumption
<1>. QED BY <1>1, <1>2, Plain

(* received_when_listen()                                                   *)
LEMMA ListenGoes ==
  ASSUME NEW h \in Host, NEW t, NEW snt, NEW gt, NEW gsnt, NEW s, Meets(h, t, snt, gt, gsnt, s),
         NEW e \in Env, t.state = "LISTEN", Tells(h, t, snt)
  PROVE  Goes(h, t, snt, ReceivedWhenListen(t, e, Other(h), s), s)
<1>. DEFINE r == ReceivedWhenListen(t, e, Other(h), s)
            g == Other(h)
<1>1. /\ "ACK" \notin s.fl /\ r.tx = t.tx /\ r.txData = t.txData /\ r.rxData = t.rxData
      /\ r = t \/ SynAnswered(r, t, e, g, s)
  BY ListenMeets
<1>2. Stays(h, t, snt, gt, r) /\ g \in Host
  BY ListenKeeps, Hosts
<1>3. ~Up(t) /\ ~Ready(t) /\ ~PeerFin(t) /\ ~Shut(t)
  BY DEF Up, Ready, PeerFin, Shut
<1>. HIDE DEF r, g
<1>4. CASE r = t
  BY <1>4, GoesSame DEF r
<1>5. CASE SynAnswered(r, t, e, g, s)
  <2>1. /\ r.irs = s.seq /\ r.rnxt = SnAdd(s.seq, 1)
        /\ r.state = IF e.ip THEN "SYN_RECEIVED" ELSE "LISTEN"
        /\ Outs(r) \subseteq Outs(t) \cup {[to |-> g, seg |-> Seg(t.iss, r.rnxt, {"SYN", "ACK"}, <<>>)]}
    BY <1>1, <1>5 DEF SynAnswered
  <2>2. ~Up(r) /\ ~PeerFin(r) /\ ~Shut(r) /\ (Ready(r) <=> e.ip)
    BY <2>1 DEF Up, PeerFin, Shut, Ready
  <2>3. Seg(t.iss, r.rnxt, {"SYN", "ACK"}, <<>>).data = <<>>
    BY DEF Seg
  <2>4. \A o \in Outs(r) : o \in Outs(t) \/ o.seg.data = <<>>
    BY <2>1, <2>3
  <2>5. Tells(h, r, snt)
    BY <1>1, <1>3, <2>2, <2>4, TellsSame
  <2>6. Ready(r) => RcvNxt(r) = Start(g)
    <3>1. Ready(r) => r.irs = Isn[g]
      BY <1>2 DEF Stays, Side, Core, Trusts, g
    <3>. QED BY <1>2, <2>1, <3>1, SynNumber DEF RcvNxt
  <2>7. Heard(h, t, r, s)
    BY <1>1, <1>3, <2>2, <2>6 DEF Heard, HearsNone, HearsSyn, g
  <2>. QED BY <1>3, <2>2, <2>5, <2>7 DEF Goes, r
<1>. QED BY <1>1, <1>4, <1>5

(* received_when_syn_sent()                                                 *)
LEMMA SynSentGoes ==
  ASSUME NEW h \in Host, NEW t, NEW snt, NEW gt, NEW gsnt, NEW s, Meets(h, t, snt, gt, gsnt, s),
         NEW e \in Env, t.state = "SYN_SENT", Tells(h, t, snt)
  PROVE  Goes(h, t, snt, ReceivedWhenSynSent(t, e, s), s)
<1>. DEFINE r == ReceivedWhenSynSent(t, e, s)
            g == Other(h)
<1>1. /\ r.txData = t.txData /\ r.rxData = t.rxData /\ r.nxt = t.nxt
      /\ r = t \/ SynTaken(r, t, s)
  BY SynSentMeets
<1>2. Stays(h, t, snt, gt, r) /\ g \in Host
  BY SynSentKeeps, Hosts
<1>3. ~Up(t) /\ ~Ready(t) /\ ~PeerFin(t) /\ ~Shut(t) /\ SndNxt(t) = Start(h) /\ t.txData = <<>>
  <2>1. Sender(h, t, snt)
    BY Told
  <2>. QED BY <2>1 DEF Up, Ready, PeerFin, Shut, Sender, Fresh
<1>. HIDE DEF r, g
<1>4. CASE r = t
  BY <1>4, GoesSame DEF r
<1>5. CASE SynTaken(r, t, s)
  <2>1. r.irs = s.seq /\ r.rnxt = SnAdd(s.seq, 1)
    BY <1>5 DEF SynTaken
  <2>2. CASE r.state = "SYN_SENT" /\ r.tx = t.tx /\ Outs(r) = Outs(t)
    <3>1. ~Up(r) /\ ~PeerFin(r) /\ ~Shut(r) /\ ~Ready(r)
      BY <2>2 DEF Up, PeerFin, Shut, Ready
    <3>2. Tells(h, r, snt)
      BY <1>1, <1>3, <2>2, <3>1, TellsSame
    <3>. QED BY <1>1, <1>3, <3>1, <3>2 DEF Goes, Heard, HearsNone, r
  <2>3. CASE /\ r.state = "ESTABLISHED" /\ r.tx = None
             /\ Outs(r) \subseteq
                  Outs(t) \cup {[to |-> t.dest, seg |-> Seg(s.ack, r.rnxt, {"ACK"}, <<>>)]}
    <3>1. Up(r) /\ ~PeerFin(r) /\ ~Shut(r) /\ Ready(r) /\ ~FinMade(r)
      BY <2>3 DEF Up, PeerFin, Shut, Ready, FinMade, FinAcked, IsFin
    <3>2. Seg(s.ack, r.rnxt, {"ACK"}, <<>>).data = <<>>
      BY DEF Seg
    <3>3. \A o \in Outs(r) : o \in Outs(t) \/ o.seg.data = <<>>
      BY <2>3, <3>2
    <3>4. SndNxt(r) = Start(h) /\ r.txData = <<>>
      BY <1>1, <1>3 DEF SndNxt
    <3>5. Tells(h, r, snt)
      BY <1>3, <2>3, <3>1, <3>3, <3>4, TellsUp
    <3>6. RcvNxt(r) = Start(g)
      <4>1. r.irs = Isn[g]
        BY <1>2, <3>1 DEF Stays, Side, Core, Trusts, g
      <4>. QED BY <1>2, <2>1, <4>1, SynNumber DEF RcvNxt
    <3>. QED BY <1>1, <1>3, <3>1, <3>5, <3>6 DEF Goes, Heard, HearsSyn, r, g
  <2>. QED BY <1>5, <2>2, <2>3 DEF SynTaken
<1>. QED BY <1>1, <1>4, <1>5

(* A handler that touches nothing of what is sent, but for an ACK.          *)
LEMMA TellsKept ==
  ASSUME NEW h, NEW t, NEW r, NEW snt, Tells(h, t, snt), SameSender(r, t), r.nxt = t.nxt,
         NEW d, NEW seq, NEW ack,
         Outs(r) \subseteq Outs(t) \cup {[to |-> d, seg |-> Seg(seq, ack, {"ACK"}, <<>>)]}
  PROVE  Tells(h, r, snt) /\ r.state = t.state /\ (FinMade(r) <=> FinMade(t))
<1>1. Seg(seq, ack, {"ACK"}, <<>>).data = <<>>
  BY DEF Seg
<1>2. \A o \in Outs(r) : o \in Outs(t) \/ o.seg.data = <<>>
  BY <1>1
<1>3. /\ r.state = t.state /\ r.tx = t.tx /\ r.txData = t.txData /\ SndNxt(r) = SndNxt(t)
      /\ Up(r) <=> Up(t)
      /\ FinMade(r) <=> FinMade(t)
  BY DEF SameSender, SndNxt, Up, FinMade, FinAcked
<1>. QED BY <1>2, <1>3, TellsSame

(* received_when_syn_received()                                             *)
LEMMA SynReceivedGoes ==
  ASSUME NEW h \in Host, NEW t, NEW snt, NEW gt, NEW gsnt, NEW s, Meets(h, t, snt, gt, gsnt, s),
         NEW e \in Env, t.state = "SYN_RECEIVED", Tells(h, t, snt)
  PROVE  Goes(h, t, snt, ReceivedWhenSynReceived(t, e, s), s)
<1>. DEFINE r == ReceivedWhenSynReceived(t, e, s)
<1>1. /\ r.tx = t.tx /\ r.txData = t.txData
      /\ \/ /\ Unmoved(r, t)
            /\ Outs(r) \subseteq
                 Outs(t) \cup {[to |-> t.dest, seg |-> Seg(t.nxt, t.rnxt, {"ACK"}, <<>>)]}
         \/ SynAcked(r, t, s)
  BY SynReceivedMeets
<1>2. /\ ~Up(t) /\ Ready(t) /\ ~PeerFin(t) /\ ~Shut(t) /\ SndNxt(t) = Start(h)
      /\ t.txData = <<>> /\ t.tx = None /\ ("FIN" \in s.fl => "SYN" \notin s.fl)
  <2>1. Sender(h, t, snt) /\ SegOk(Other(h), s, gt)
    BY Told
  <2>. QED BY <2>1 DEF Up, Ready, PeerFin, Shut, Sender, Fresh, SegOk
<1>. HIDE DEF r
<1>3. CASE /\ Unmoved(r, t)
           /\ Outs(r) \subseteq
                Outs(t) \cup {[to |-> t.dest, seg |-> Seg(t.nxt, t.rnxt, {"ACK"}, <<>>)]}
  <2>1. SameSender(r, t) /\ r.nxt = t.nxt /\ r.rxData = t.rxData /\ RcvNxt(r) = RcvNxt(t)
    BY <1>3 DEF Unmoved, SameReceiver, RcvNxt
  <2>2. Tells(h, r, snt) /\ r.state = t.state
    BY <1>3, <2>1, TellsKept
  <2>. QED BY <1>2, <2>1, <2>2 DEF Goes, Heard, HearsNone, Ready, PeerFin, Shut, r
<1>4. CASE SynAcked(r, t, s)
  <2>1. /\ r.state = IF "FIN" \in s.fl THEN "CLOSE_WAIT" ELSE "ESTABLISHED"
        /\ SndNxt(r) = SndNxt(t) /\ RcvNxt(r) = RcvNxt(t) /\ r.rxData = t.rxData
        /\ Outs(r) = Outs(t)
    BY <1>4 DEF SynAcked, SameReceiver, SndNxt, RcvNxt
  <2>2. Up(r) /\ Ready(r) /\ ~Shut(r) /\ ~FinMade(r) /\ (PeerFin(r) <=> "FIN" \in s.fl)
    BY <1>1, <1>2, <2>1 DEF Up, Ready, Shut, FinMade, FinAcked, IsFin, PeerFin
  <2>3. Tells(h, r, snt)
    BY <1>1, <1>2, <2>1, <2>2, TellsUp
  <2>4. Heard(h, t, r, s)
    BY <1>2, <2>1, <2>2 DEF Heard, HearsNone, HearsFin
  <2>. QED BY <1>2, <2>2, <2>3, <2>4 DEF Goes, r
<1>. QED BY <1>1, <1>3, <1>4

(* The segment that handle_data() stores is no SYN.                         *)
LEMMA StoredIsText ==
  ASSUME NEW h \in Host, NEW t, NEW snt, NEW gt, NEW gsnt, NEW s, Meets(h, t, snt, gt, gsnt, s),
         Ready(t), SegSeq(s) = RcvNxt(t)
  PROVE  "SYN" \notin s.fl
<1>1. SegOk(Other(h), s, gt) /\ Trusts(h, t, gt) /\ Other(h) \in Host
  BY Told, Hosts
<1>2. Start(Other(h)) <= RcvNxt(t) /\ ("SYN" \in s.fl => SegSeq(s) = Isn[Other(h)])
  BY <1>1 DEF Trusts, SegOk
<1>3. Start(Other(h)) = Isn[Other(h)] + 1 /\ Isn[Other(h)] \in Nat
  BY <1>1, Hosts
<1>. QED BY <1>2, <1>3

(* received_when_established()                                              *)
LEMMA EstablishedGoes ==
  ASSUME NEW h \in Host, NEW t, NEW snt, NEW gt, NEW gsnt, NEW s, Meets(h, t, snt, gt, gsnt, s),
         NEW e \in Env, e.seg, t.state = "ESTABLISHED", Tells(h, t, snt)
  PROVE  Goes(h, t, snt, ReceivedWhenEstablished(t, e, s), s)
<1>. DEFINE r == ReceivedWhenEstablished(t, e, s)
            a == HandleAckOfData(t, e, s)
            d == HandleData(a, e, s)
            f == HandleFinAck(d, e, s)
            j == Reject(t, e, s)
            c == [f EXCEPT !.state = "CLOSE_WAIT"]
<1>0. /\ t \in Tcb /\ s \in Segment /\ Sender(h, t, snt) /\ SegOk(Other(h), s, gt)
      /\ snt \in Seq(Byte) /\ Len(snt) <= MaxBytes[h]
  BY Told DEF Meets
<1>1. /\ Up(t) /\ Ready(t) /\ ~FinMade(t) /\ ~IsFin(t.tx) /\ ~PeerFin(t) /\ ~Shut(t)
      /\ "FIN" \in s.fl => "SYN" \notin s.fl
  <2>1. Up(t) /\ Ready(t) /\ ~FinAcked(t) /\ ~PeerFin(t) /\ ~Shut(t)
    BY DEF Up, Ready, FinAcked, PeerFin, Shut
  <2>2. Sending(h, t, snt)
    BY <1>0, <2>1 DEF Sender, Closing
  <2>. QED BY <1>0, <2>1, <2>2, SendingFacts DEF FinMade, SegOk
<1>2. \/ r = t
      \/ r = j
      \/ r = c /\ "FIN" \in s.fl
      \/ r = d /\ "FIN" \notin s.fl
  BY <1>1 DEF ReceivedWhenEstablished
<1>3. CASE r = t
  BY <1>3, GoesSame
<1>. HIDE DEF r
<1>4. CASE r = j
  <2>1. /\ SameSender(j, t) /\ SameReceiver(j, t) /\ j.nxt = t.nxt
        /\ Outs(j) \subseteq Outs(t) \cup {[to |-> t.dest, seg |-> Seg(t.nxt, t.rnxt, {"ACK"}, <<>>)]}
    BY <1>0, RejectType, Zenon
  <2>. HIDE DEF j
  <2>2. Tells(h, j, snt) /\ j.state = t.state
    BY <2>1, TellsKept
  <2>3. j.rxData = t.rxData /\ RcvNxt(j) = RcvNxt(t)
    BY <2>1 DEF SameReceiver, RcvNxt
  <2>. QED BY <1>1, <1>4, <2>2, <2>3 DEF Goes, Heard, HearsNone, Ready, PeerFin, Shut, r
<1>5. /\ Tells(h, a, snt) /\ ~FinMade(a) /\ a \in Tcb /\ a.state = t.state
      /\ a.rxData = t.rxData /\ a.rnxt = t.rnxt
  <2>1. Tells(h, a, snt) /\ ~FinMade(a)
    BY <1>0, <1>1, AckTells
  <2>2. a \in Tcb /\ a.state = t.state /\ SameReceiver(a, t)
    BY <1>0, HandleAckOfDataType
  <2>. QED BY <2>1, <2>2 DEF SameReceiver
<1>. HIDE DEF a
<1>6. /\ Tells(h, d, snt) /\ ~FinMade(d) /\ d \in Tcb /\ d.state = "ESTABLISHED"
      /\ \/ d.rxData = t.rxData /\ RcvNxt(d) = RcvNxt(t)
         \/ /\ SegSeq(s) = RcvNxt(t) /\ SegLen(s) > 0
            /\ d.rxData = Append(t.rxData, TextBlock(s))
            /\ d.rnxt = SnAdd(t.rnxt, Len(TextBlock(s)))
  <2>1. d \in Tcb /\ SameSender(d, a) /\ d.nxt = a.nxt /\ (d = a \/ Stored(d, a, s))
    BY <1>0, <1>5, HandleDataType
  <2>. HIDE DEF d
  <2>2. CASE d = a
    BY <1>5, <2>1, <2>2 DEF RcvNxt
  <2>3. CASE Stored(d, a, s)
    <3>1. /\ s.seq = a.rnxt /\ SegLen(s) > 0 /\ d.rxData = Append(a.rxData, TextBlock(s))
          /\ d.rnxt = SnAdd(a.rnxt, Len(TextBlock(s)))
          /\ Outs(d) \subseteq Outs(a) \cup {[to |-> a.dest, seg |-> Seg(a.una, d.rnxt, {"ACK"}, <<>>)]}
      BY <2>3 DEF Stored
    <3>2. Tells(h, d, snt) /\ d.state = a.state /\ ~FinMade(d)
      BY <1>5, <2>1, <3>1, TellsKept
    <3>. QED BY <1>5, <2>1, <3>1, <3>2 DEF RcvNxt, SegSeq
  <2>. QED BY <2>1, <2>2, <2>3
<1>. HIDE DEF d
<1>7. CASE r = d /\ "FIN" \notin s.fl
  <2>1. Ready(d) /\ ~PeerFin(d) /\ ~Shut(d)
    BY <1>6 DEF Ready, PeerFin, Shut
  <2>2. SegSeq(s) = RcvNxt(t) => "SYN" \notin s.fl
    BY <1>1, StoredIsText
  <2>3. Heard(h, t, d, s)
    BY <1>1, <1>6, <1>7, <2>1, <2>2 DEF Heard, HearsNone, HearsText
  <2>. QED BY <1>1, <1>6, <1>7, <2>1, <2>3 DEF Goes, r
<1>8. CASE r = c /\ "FIN" \in s.fl
  <2>1. f \in Tcb /\ SameSender(f, d) /\ f.nxt = d.nxt /\ (f = d \/ FinCounted(f, d, s))
    BY <1>0, <1>6, HandleFinAckType
  <2>. HIDE DEF f
  <2>2. Tells(h, f, snt) /\ f.state = "ESTABLISHED" /\ ~FinMade(f) /\ f.rxData = d.rxData
    <3>1. CASE f = d
      BY <1>6, <3>1
    <3>2. CASE FinCounted(f, d, s)
      <4>1. /\ f.rxData = d.rxData
            /\ Outs(f) \subseteq Outs(d) \cup {[to |-> d.dest, seg |-> Seg(s.ack, f.rnxt, {"ACK"}, <<>>)]}
        BY <3>2 DEF FinCounted
      <4>. QED BY <1>6, <2>1, <4>1, TellsKept
    <3>. QED BY <2>1, <3>1, <3>2
  <2>3. /\ c.state = "CLOSE_WAIT" /\ c.tx = f.tx /\ c.txData = f.txData /\ Outs(c) = Outs(f)
        /\ SndNxt(c) = SndNxt(f) /\ c.rxData = f.rxData
    BY <2>1, Restated DEF States
  <2>. HIDE DEF c
  <2>4. /\ Up(c) /\ Up(f) /\ PeerFin(c) /\ ~Shut(c)
        /\ FinMade(c) <=> FinMade(f)
    BY <2>2, <2>3 DEF Up, PeerFin, Shut, FinMade, FinAcked
  <2>5. Tells(h, c, snt)
    BY <2>2, <2>3, <2>4, TellsSame
  <2>6. Heard(h, t, c, s)
    BY <1>1, <1>6, <1>8, <2>2, <2>3, <2>4 DEF Heard, HearsFin
  <2>. QED BY <1>1, <1>8, <2>4, <2>5, <2>6 DEF Goes, r
<1>. QED BY <1>2, <1>3, <1>4, <1>7, <1>8 DEF r

(* received_when_fin_wait_1(), received_when_last_ack()                     *)
LEMMA AwaitGoes ==
  ASSUME NEW h \in Host, NEW t, NEW snt, NEW gt, NEW gsnt, NEW s, Meets(h, t, snt, gt, gsnt, s),
         NEW e \in Env, e.seg, NEW done, Tells(h, t, snt),
         \/ t.state = "FIN_WAIT_1" /\ done = "FIN_WAIT_2"
         \/ t.state = "LAST_ACK" /\ done = "CLOSED"
  PROVE  Goes(h, t, snt, AwaitAckOfFin(t, e, s, done), s)
<1>. DEFINE r == AwaitAckOfFin(t, e, s, done)
            a == HandleAckOfData(t, e, s)
            w == IF "ACK" \notin s.fl \/ IsFin(t.tx) THEN t ELSE a
            k == ConstructFinAck(w, e)
            c == TxComplete(t)
            x == [c EXCEPT !.state = done]
<1>0. t \in Tcb /\ s \in Segment /\ snt \in Seq(Byte) /\ Len(snt) <= MaxBytes[h]
  BY Told DEF Meets
<1>1. /\ Up(t) /\ Ready(t) /\ ~FinAcked(t) /\ t.state \in {"FIN_WAIT_1", "LAST_ACK"} /\ Shut(t)
      /\ done \in {"FIN_WAIT_2", "CLOSED"} /\ done \in States \cup {"FREE"}
  BY DEF Up, Ready, FinAcked, Shut, States
<1>2. \/ r = x /\ IsFin(t.tx)
      \/ r = k
  BY DEF AwaitAckOfFin, AcksFin
<1>. HIDE DEF r, x, k
<1>3. CASE r = x /\ IsFin(t.tx)
  <2>1. /\ c \in Tcb /\ c.tx = None /\ c.txData = t.txData /\ c.nxt = t.nxt
        /\ SameReceiver(c, t) /\ Outs(c) = Outs(t)
    BY <1>0, TxCompleteType
  <2>. HIDE DEF c
  <2>2. /\ x.state = done /\ x.tx = c.tx /\ x.txData = c.txData /\ x.rxData = c.rxData
        /\ Outs(x) = Outs(c) /\ SndNxt(x) = SndNxt(c) /\ RcvNxt(x) = RcvNxt(c)
    BY <1>1, <2>1, Restated DEF x
  <2>3. /\ SndNxt(x) = SndNxt(t) /\ RcvNxt(x) = RcvNxt(t) /\ x.tx = None /\ x.txData = t.txData
        /\ x.rxData = t.rxData /\ Outs(x) = Outs(t)
    BY <2>1, <2>2 DEF SndNxt, RcvNxt, SameReceiver
  <2>4. /\ Up(x) /\ FinMade(x) /\ FinMade(t) /\ Ready(x) /\ Shut(x)
        /\ PeerFin(t) <=> PeerFin(x)
    BY <1>1, <1>3, <2>2 DEF Up, FinAcked, FinMade, Ready, Shut, PeerFin
  <2>5. Tells(h, x, snt)
    BY <1>1, <2>3, <2>4, TellsSame
  <2>. QED BY <1>1, <1>3, <2>3, <2>4, <2>5 DEF Goes, Heard, HearsNone, r
<1>4. CASE r = k /\ FinMade(t)
  <2>1. IsFin(t.tx) /\ t.tx # None
    BY <1>1, <1>4 DEF FinMade, IsFin
  <2>2. w = t
    BY <2>1
  <2>. HIDE DEF w
  <2>3. k = t
    BY <1>0, <2>1, <2>2, ConstructFinAckType DEF k
  <2>. QED BY <1>4, <2>3, GoesSame DEF r
<1>5. CASE r = k /\ ~FinMade(t)
  <2>1. Tells(h, a, snt) /\ ~FinMade(a)
    BY <1>0, <1>1, <1>5, AckTells
  <2>2. a \in Tcb /\ a.state = t.state /\ SameReceiver(a, t)
    BY <1>0, HandleAckOfDataType
  <2>. HIDE DEF a
  <2>3. Tells(h, w, snt) /\ ~FinMade(w) /\ w \in Tcb /\ w.state = t.state /\ SameReceiver(w, t)
    BY <1>0, <1>5, <2>1, <2>2 DEF SameReceiver
  <2>. HIDE DEF w
  <2>4. k \in Tcb /\ k.state = w.state /\ SameReceiver(k, w)
    BY <2>3, ConstructFinAckType DEF k
  <2>5. Renamed(k, ConstructFinAck(w, e)) /\ Up(w)
    BY <1>1, <2>3 DEF k, Renamed, SameReceiver, Up
  <2>6. Tells(h, k, snt)
    BY <1>0, <1>1, <2>3, <2>4, <2>5, FinTells
  <2>7. RcvNxt(k) = RcvNxt(t) /\ k.rxData = t.rxData /\ k.state = t.state
    BY <2>3, <2>4 DEF SameReceiver, RcvNxt
  <2>. QED BY <1>1, <1>5, <2>6, <2>7 DEF Goes, Heard, HearsNone, Ready, PeerFin, Shut, r
<1>. QED BY <1>2, <1>3, <1>4, <1>5

(* tcp_handle_fin_ack() tells nothing.                                      *)
LEMMA FinAckTells ==
  ASSUME NEW h \in Host, NEW t \in Tcb, NEW snt, NEW s \in Segment, NEW e \in Env, Tells(h, t, snt)
  PROVE  LET r == HandleFinAck(t, e, s) IN
         Tells(h, r, snt) /\ r.state = t.state /\ r.rxData = t.rxData
<1>. DEFINE r == HandleFinAck(t, e, s)
<1>1. SameSender(r, t) /\ r.nxt = t.nxt /\ (r = t \/ FinCounted(r, t, s))
  BY HandleFinAckType
<1>. HIDE DEF r
<1>2. CASE r = t
  BY <1>2 DEF r
<1>3. CASE FinCounted(r, t, s)
  <2>1. /\ r.rxData = t.rxData
        /\ Outs(r) \subseteq Outs(t) \cup {[to |-> t.dest, seg |-> Seg(s.ack, r.rnxt, {"ACK"}, <<>>)]}
    BY <1>3 DEF FinCounted
  <2>2. Tells(h, r, snt) /\ r.state = t.state
    BY <1>1, <2>1, TellsKept
  <2>. QED BY <2>1, <2>2 DEF r
<1>. QED BY <1>1, <1>2, <1>3

(* received_when_fin_wait_2()                                               *)
LEMMA FinWait2Goes ==
  ASSUME NEW h \in Host, NEW t, NEW snt, NEW gt, NEW gsnt, NEW s, Meets(h, t, snt, gt, gsnt, s),
         NEW e \in Env, t.state = "FIN_WAIT_2", Tells(h, t, snt)
  PROVE  Goes(h, t, snt, ReceivedWhenFinWait2(t, e, s), s)
<1>. DEFINE r == ReceivedWhenFinWait2(t, e, s)
            u == [t EXCEPT !.state = "TIME_WAIT", !.tmr = TRUE]
            f == HandleFinAck(u, e, s)
<1>0. /\ t \in Tcb /\ s \in Segment
      /\ "FIN" \in s.fl => "SYN" \notin s.fl
  <2>1. SegOk(Other(h), s, gt) /\ t \in Tcb /\ s \in Segment
    BY Told
  <2>. QED BY <2>1 DEF SegOk
<1>1. /\ u \in Tcb /\ u.state = "TIME_WAIT" /\ u.tx = t.tx /\ u.txData = t.txData
      /\ u.rxData = t.rxData /\ Outs(u) = Outs(t) /\ SndNxt(u) = SndNxt(t)
  BY <1>0 DEF Tcb, States, Outs, SndNxt
<1>2. r = IF FinAndAck(s) THEN f ELSE t
  BY DEF ReceivedWhenFinWait2
<1>. HIDE DEF r, u
<1>3. /\ Up(t) /\ FinMade(t) /\ Up(u) /\ FinMade(u) /\ Ready(t) /\ ~PeerFin(t) /\ Shut(t)
  BY <1>1 DEF Up, FinAcked, FinMade, Ready, PeerFin, Shut
<1>4. Tells(h, u, snt)
  BY <1>1, <1>3, TellsSame
<1>5. Tells(h, f, snt) /\ f.state = "TIME_WAIT" /\ f.rxData = t.rxData
  BY <1>0, <1>1, <1>4, FinAckTells
<1>. HIDE DEF f
<1>6. CASE FinAndAck(s)
  <2>1. PeerFin(f) /\ Shut(f) /\ "FIN" \in s.fl
    BY <1>5, <1>6 DEF PeerFin, Shut, FinAndAck
  <2>. QED BY <1>0, <1>2, <1>3, <1>5, <1>6, <2>1 DEF Goes, Heard, HearsFin, r
<1>7. CASE ~FinAndAck(s)
  BY <1>2, <1>7, GoesSame DEF r
<1>. QED BY <1>6, <1>7

(* tcp_received(), in any state.                                            *)
LEMMA ReceivedGoes ==
  ASSUME NEW h \in Host, NEW t, NEW snt, NEW gt, NEW gsnt, NEW s, Meets(h, t, snt, gt, gsnt, s),
         NEW e \in Env, e.seg, Tells(h, t, snt)
  PROVE  Goes(h, t, snt, Received(t, e, Other(h), s), s)
<1>0. t \in Tcb /\ s \in Segment
  BY Told
<1>1. Goes(h, t, snt, t, s)
  BY GoesSame
<1>2. t.state \in {"TIME_WAIT", "CLOSE_WAIT"} => Goes(h, t, snt, ReceivedWhenFinSeen(t, e, s), s)
  <2>1. ASSUME t.state \in {"TIME_WAIT", "CLOSE_WAIT"} PROVE Goes(h, t, snt, HandleFinAck(t, e, s), s)
    <3>. DEFINE f == HandleFinAck(t, e, s)
    <3>1. Tells(h, f, snt) /\ f.state = t.state /\ f.rxData = t.rxData
      BY <1>0, FinAckTells
    <3>. HIDE DEF f
    <3>2. PeerFin(t) /\ PeerFin(f) /\ Ready(t) /\ Ready(f) /\ (Shut(t) <=> Shut(f))
      BY <2>1, <3>1 DEF PeerFin, Ready, Shut
    <3>. QED BY <3>1, <3>2 DEF Goes, Heard, HearsNone, f
  <2>. QED BY <1>1, <2>1 DEF ReceivedWhenFinSeen
<1>3. t.state = "LISTEN" => Goes(h, t, snt, ReceivedWhenListen(t, e, Other(h), s), s)
  BY ListenGoes
<1>4. t.state = "SYN_SENT" => Goes(h, t, snt, ReceivedWhenSynSent(t, e, s), s)
  BY SynSentGoes
<1>5. t.state = "SYN_RECEIVED" => Goes(h, t, snt, ReceivedWhenSynReceived(t, e, s), s)
  BY SynReceivedGoes
<1>6. t.state = "ESTABLISHED" => Goes(h, t, snt, ReceivedWhenEstablished(t, e, s), s)
  BY EstablishedGoes
<1>7. t.state = "FIN_WAIT_1" => Goes(h, t, snt, ReceivedWhenFinWait1(t, e, s), s)
  BY AwaitGoes DEF ReceivedWhenFinWait1
<1>8. t.state = "LAST_ACK" => Goes(h, t, snt, ReceivedWhenLastAck(t, e, s), s)
  BY AwaitGoes DEF ReceivedWhenLastAck
<1>9. t.state = "FIN_WAIT_2" => Goes(h, t, snt, ReceivedWhenFinWait2(t, e, s), s)
  BY FinWait2Goes
<1>. QED BY <1>1, <1>2, <1>3, <1>4, <1>5, <1>6, <1>7, <1>8, <1>9, Zenon DEF Received

-----------------------------------------------------------------------------
\* The timer and the user.

\* h goes on, and learns nothing of its peer.
Quiet(h, t, snt, r) == Tells(h, r, snt) /\ HearsNone(t, r)

(* tcp_timeout() sends what was sent before.                                *)
LEMMA TimeoutQuiet ==
  ASSUME NEW h \in Host, NEW t \in Tcb, NEW snt, NEW e \in Env, Tells(h, t, snt)
  PROVE  LET r == Timeout(t, e) IN Quiet(h, t, snt, r) /\ (Shut(r) <=> Shut(t))
<1>. DEFINE u == [t EXCEPT !.tmr = FALSE]
            r == Timeout(t, e)
            q == Retransmit(u, e)
            c == [u EXCEPT !.state = "CLOSED"]
<1>1. /\ u \in Tcb /\ u.state = t.state /\ u.tx = t.tx /\ u.txData = t.txData /\ u.rxData = t.rxData
      /\ u.nxt = t.nxt /\ u.rnxt = t.rnxt /\ Outs(u) = Outs(t)
  BY DEF Tcb, Outs
<1>2. r = IF t.state \in {"SYN_SENT", "ESTABLISHED", "FIN_WAIT_1", "LAST_ACK"} THEN q
          ELSE IF t.state = "TIME_WAIT" THEN c ELSE u
  BY DEF Timeout
<1>. HIDE DEF u, r, q, c
<1>3. ASSUME NEW x, x.state = t.state, x.tx = t.tx, x.txData = t.txData, x.rxData = t.rxData,
             x.nxt = t.nxt, x.rnxt = t.rnxt,
             \A o \in Outs(x) : o \in Outs(t) \/ (t.tx # None /\ o.seg = t.tx)
      PROVE  Quiet(h, t, snt, x) /\ (Shut(x) <=> Shut(t))
  <2>1. /\ SndNxt(x) = SndNxt(t) /\ RcvNxt(x) = RcvNxt(t)
        /\ Up(x) <=> Up(t)
        /\ FinMade(x) <=> FinMade(t)
        /\ Ready(t) <=> Ready(x)
        /\ PeerFin(t) <=> PeerFin(x)
        /\ Shut(x) <=> Shut(t)
    BY <1>3 DEF SndNxt, RcvNxt, Up, FinMade, FinAcked, Ready, PeerFin, Shut
  <2>2. Tells(h, x, snt)
    BY <1>3, <2>1, TellsSame
  <2>. QED BY <1>3, <2>1, <2>2 DEF Quiet, HearsNone
<1>4. CASE t.state \in {"SYN_SENT", "ESTABLISHED", "FIN_WAIT_1", "LAST_ACK"}
  <2>1. /\ SameSender(q, [u EXCEPT !.tmr = TRUE]) /\ SameReceiver(q, u) /\ q.nxt = u.nxt
        /\ Outs(q) = IF e.ip /\ u.tx # None THEN Outs(u) \cup {[to |-> u.dest, seg |-> u.tx]}
                     ELSE Outs(u)
    BY <1>1, RetransmitType DEF q
  <2>2. LET v == [u EXCEPT !.tmr = TRUE] IN v.state = u.state /\ v.tx = u.tx /\ v.txData = u.txData
    BY <1>1 DEF Tcb
  <2>3. q.state = t.state /\ q.tx = t.tx /\ q.txData = t.txData
    BY <1>1, <2>1, <2>2 DEF SameSender
  <2>4. q.rxData = t.rxData /\ q.nxt = t.nxt /\ q.rnxt = t.rnxt
    BY <1>1, <2>1 DEF SameReceiver
  <2>5. \A o \in Outs(q) : o \in Outs(t) \/ (t.tx # None /\ o.seg = t.tx)
    BY <1>1, <2>1
  <2>6. Quiet(h, t, snt, q) /\ (Shut(q) <=> Shut(t))
    BY <1>3, <2>3, <2>4, <2>5
  <2>. QED BY <1>2, <1>4, <2>6 DEF r
<1>5. Quiet(h, t, snt, u) /\ (Shut(u) <=> Shut(t))
  BY <1>1, <1>3
<1>6. CASE t.state = "TIME_WAIT"
  <2>1. /\ c.state = "CLOSED" /\ c.tx = u.tx /\ c.txData = u.txData /\ c.rxData = u.rxData
        /\ SndNxt(c) = SndNxt(u) /\ Outs(c) = Outs(u)
    BY <1>1, Restated DEF States, c
  <2>2. /\ Up(c) /\ Up(t) /\ FinMade(c) /\ FinMade(t) /\ Ready(c) /\ Ready(t) /\ PeerFin(c)
        /\ PeerFin(t) /\ Shut(c) /\ Shut(t) /\ SndNxt(c) = SndNxt(t)
    BY <1>1, <1>6, <2>1 DEF Up, FinMade, FinAcked, Ready, PeerFin, Shut, SndNxt
  <2>3. Tells(h, c, snt)
    BY <1>1, <2>1, <2>2, TellsSame
  <2>. QED BY <1>1, <1>2, <1>6, <2>1, <2>2, <2>3 DEF Quiet, HearsNone, r
<1>. QED BY <1>2, <1>4, <1>5, <1>6 DEF r

(* tcp_loop()                                                               *)
LEMMA LoopQuiet ==
  ASSUME NEW h \in Host, NEW t \in Tcb, NEW snt, NEW e \in Env, Tells(h, t, snt),
         NEW expired \in BOOLEAN, Timeout(t, e) \in Tcb
  PROVE  LET r == Loop(t, e, expired) IN Quiet(h, t, snt, r) /\ (Shut(r) <=> Shut(t))
<1>. DEFINE u == IF expired THEN Timeout(t, e) ELSE t
            c == [u EXCEPT !.state = "FREE"]
            r == Loop(t, e, expired)
<1>1. u \in Tcb /\ Quiet(h, t, snt, u) /\ (Shut(u) <=> Shut(t))
  <2>1. Quiet(h, t, snt, t)
    BY DEF Quiet, HearsNone
  <2>. QED BY <2>1, TimeoutQuiet
<1>2. r = IF u.state = "CLOSED" THEN c ELSE u
  BY DEF Loop
<1>. HIDE DEF u, r
<1>3. CASE u.state = "CLOSED"
  <2>1. /\ c.state = "FREE" /\ c.tx = u.tx /\ c.txData = u.txData /\ c.rxData = u.rxData
        /\ SndNxt(c) = SndNxt(u) /\ Outs(c) = Outs(u)
    BY <1>1, Restated
  <2>. HIDE DEF c
  <2>2. /\ Up(c) /\ Up(u) /\ FinMade(c) /\ FinMade(u) /\ Ready(c) /\ Ready(u) /\ PeerFin(c)
        /\ PeerFin(u) /\ Shut(c) /\ Shut(u)
    BY <1>3, <2>1 DEF Up, FinMade, FinAcked, Ready, PeerFin, Shut
  <2>3. Tells(h, c, snt)
    BY <1>1, <2>1, <2>2, TellsSame DEF Quiet
  <2>. QED BY <1>1, <1>2, <1>3, <2>1, <2>2, <2>3 DEF Quiet, HearsNone, r
<1>4. CASE u.state # "CLOSED"
  BY <1>1, <1>2, <1>4 DEF r
<1>. QED BY <1>3, <1>4

(* tcp_close()                                                              *)
LEMMA CloseQuiet ==
  ASSUME NEW h \in Host, NEW t \in Tcb, NEW snt \in Seq(Byte), Len(snt) <= MaxBytes[h],
         Sender(h, t, snt), NEW e \in Env, Tells(h, t, snt),
         t.state \in {"ESTABLISHED", "CLOSE_WAIT"}
  PROVE  LET r == Close(t, e) IN Quiet(h, t, snt, r) /\ Shut(r)
<1>. DEFINE r == Close(t, e)
            c == ConstructFinAck(t, e)
            x == [c EXCEPT !.state = "FIN_WAIT_1"]
            y == [c EXCEPT !.state = "LAST_ACK"]
<1>1. c \in Tcb /\ SameReceiver(c, t)
  BY ConstructFinAckType
<1>2. /\ x \in Tcb /\ x.state = "FIN_WAIT_1" /\ Renamed(x, c) /\ RcvNxt(x) = RcvNxt(c)
      /\ x.rxData = c.rxData
      /\ y \in Tcb /\ y.state = "LAST_ACK" /\ Renamed(y, c) /\ RcvNxt(y) = RcvNxt(c)
      /\ y.rxData = c.rxData
  <2>. HIDE DEF c
  <2>. QED BY <1>1, Restated DEF States
<1>3. RcvNxt(c) = RcvNxt(t) /\ c.rxData = t.rxData
  BY <1>1 DEF SameReceiver, RcvNxt
<1>4. Up(t) /\ Ready(t) /\ ~FinMade(t)
  <2>1. Up(t) /\ Ready(t) /\ ~FinAcked(t)
    BY DEF Up, Ready, FinAcked
  <2>2. Sending(h, t, snt)
    BY <2>1 DEF Sender, Closing
  <2>. QED BY <2>1, <2>2, SendingFacts
<1>5. Tells(h, x, snt) /\ Tells(h, y, snt)
  BY <1>2, <1>4, FinTells
<1>6. /\ t.state = "ESTABLISHED" => r = x
      /\ t.state = "CLOSE_WAIT" => r = y
  BY DEF Close
<1>. HIDE DEF r, c, x, y
<1>7. CASE t.state = "ESTABLISHED"
  <2>1. Ready(x) /\ Shut(x) /\ ~PeerFin(x) /\ ~PeerFin(t)
    BY <1>2, <1>7 DEF Ready, Shut, PeerFin
  <2>. QED BY <1>2, <1>3, <1>4, <1>5, <1>6, <1>7, <2>1 DEF Quiet, HearsNone, r
<1>8. CASE t.state = "CLOSE_WAIT"
  <2>1. Ready(y) /\ Shut(y) /\ PeerFin(y) /\ PeerFin(t)
    BY <1>2, <1>8 DEF Ready, Shut, PeerFin
  <2>. QED BY <1>2, <1>3, <1>4, <1>5, <1>6, <1>8, <2>1 DEF Quiet, HearsNone, r
<1>. QED BY <1>7, <1>8

(* tcp_send()                                                               *)
LEMMA SendQuiet ==
  ASSUME NEW h \in Host, NEW t \in Tcb, NEW snt \in Seq(Byte), Sender(h, t, snt), NEW e \in Env, e.seg,
         Tells(h, t, snt), t.state = "ESTABLISHED",
         NEW chunk \in Seq(Byte), Len(snt) + Len(chunk) <= MaxBytes[h]
  PROVE  LET r == Send(t, e, chunk)
             snt2 == IF SendAccepts(t, e) THEN snt \o chunk ELSE snt
         IN  Quiet(h, t, snt2, r) /\ r.state = t.state
<1>. DEFINE q == Append(t.txData, chunk)
            u == [t EXCEPT !.txData = q]
            w == IF e.blk THEN u ELSE t
            snt2 == IF SendAccepts(t, e) THEN snt \o chunk ELSE snt
            r == Send(t, e, chunk)
<1>1. Len(chunk) \in Nat /\ Len(snt) \in Nat /\ MaxBytes[h] \in Nat
  BY Hosts
<1>2. /\ snt2 = IF e.blk THEN snt \o chunk ELSE snt
      /\ snt2 \in Seq(Byte) /\ Len(snt2) <= MaxBytes[h]
  BY <1>1 DEF SendAccepts
<1>3. r = ConstructData(w, e)
  BY DEF Send
<1>. HIDE DEF r, snt2
<1>4. Up(t) /\ ~FinMade(t) /\ (t.tx = None => SndUna(t) = SndNxt(t))
  <2>1. Up(t) /\ ~FinAcked(t)
    BY DEF Up, FinAcked
  <2>2. Sending(h, t, snt)
    BY <2>1 DEF Sender, Closing
  <2>3. Len(snt) <= MaxBytes[h]
    BY <1>1
  <2>. QED BY <2>1, <2>2, <2>3, SendingFacts DEF Sending
<1>5. /\ w \in Tcb /\ w.state = t.state /\ Up(w) /\ ~FinMade(w)
      /\ w.tx = None => SndUna(w) = SndNxt(w)
      /\ SameReceiver(w, t) /\ Tells(h, w, snt2)
  <2>1. CASE ~e.blk
    BY <1>2, <1>4, <2>1 DEF SameReceiver
  <2>2. CASE e.blk
    <3>0. q \in Seq(Seq(Byte)) /\ t.txData \in Seq(Seq(Byte))
      BY DEF Tcb
    <3>. HIDE DEF q
    <3>1. /\ u \in Tcb /\ u.state = t.state /\ u.tx = t.tx /\ SameReceiver(u, t) /\ u.txData = q
          /\ Outs(u) = Outs(t) /\ SndUna(u) = SndUna(t) /\ SndNxt(u) = SndNxt(t)
      BY <3>0 DEF Tcb, SameReceiver, Outs, SndUna, SndNxt
    <3>. HIDE DEF u
    <3>2. Up(u) /\ ~FinMade(u)
      BY <1>4, <3>1 DEF Up, FinMade, FinAcked
    <3>3. snt2 = snt \o chunk
      BY <1>2, <2>2
    <3>4. u.tx # None => Says(h, u.tx, snt2)
      <4>1. t.tx # None => t.tx \in Segment /\ Says(h, t.tx, snt)
        BY DEF Tells, Tcb
      <4>. QED BY <3>1, <3>3, <4>1, SaysGrown
    <3>5. ASSUME NEW o \in Outs(u) PROVE Says(h, o.seg, snt2)
      <4>1. o \in Outs(t) /\ o.seg \in Segment /\ Says(h, o.seg, snt)
        BY <3>1, OutsAre DEF Tells
      <4>. QED BY <3>3, <4>1, SaysGrown
    <3>6. \E p \in Seq(Byte) : SndNxt(u) = Start(h) + Len(p) /\ snt2 = p \o FlattenSeq(u.txData)
      <4>1. PICK p \in Seq(Byte) : SndNxt(t) = Start(h) + Len(p) /\ snt = p \o FlattenSeq(t.txData)
        BY <1>4 DEF Tells
      <4>. DEFINE f == FlattenSeq(t.txData)
      <4>2. f \in Seq(Byte) /\ FlattenSeq(q) = f \o chunk
        BY <3>0, FlattenType, FlattenAppend DEF q
      <4>. HIDE DEF f
      <4>3. (p \o f) \o chunk = p \o (f \o chunk)
        BY <4>2, TextGroup, Zenon
      <4>. QED BY <3>1, <3>3, <4>1, <4>2, <4>3 DEF f
    <3>7. Tells(h, u, snt2)
      BY <3>2, <3>4, <3>5, <3>6 DEF Tells
    <3>. QED BY <1>4, <2>2, <3>1, <3>2, <3>7
  <2>. QED BY <2>1, <2>2
<1>. HIDE DEF w
<1>6. Tells(h, r, snt2)
  BY <1>2, <1>3, <1>5, ConstructTells
<1>7. r.state = t.state /\ r.rxData = t.rxData /\ RcvNxt(r) = RcvNxt(t)
  <2>1. r.state = w.state /\ SameReceiver(r, w)
    BY <1>3, <1>5, ConstructDataType
  <2>. QED BY <1>5, <2>1 DEF SameReceiver, RcvNxt
<1>. QED BY <1>6, <1>7 DEF Quiet, HearsNone, Ready, PeerFin, r, snt2

\* A reader goes on from t to r: it took the text after q, up to p, of its queue.
ReadOn(h, t, snt, r, q, p, gsnt) ==
  /\ Tells(h, r, snt) /\ r.state = t.state
  /\ p \in Seq(Byte) /\ Hears(h, r, p, gsnt)
  /\ p \o Real(r.rxData) = q \o Real(t.rxData)

(* tcp_recv() takes from what has arrived.                                  *)
LEMMA RecvQuiet ==
  ASSUME NEW h \in Host, NEW t \in Tcb, NEW snt, Tells(h, t, snt), NEW n \in Nat,
         NEW q \in Seq(Byte), NEW gsnt, Hears(h, t, q, gsnt)
  PROVE  ReadOn(h, t, snt, Recv(t, n), q, q \o RecvTakes(t, n), gsnt)
<1>. DEFINE r == Recv(t, n)
            x == RecvTakes(t, n)
            p == q \o x
<1>1. /\ SameSender(r, t) /\ r.nxt = t.nxt /\ RcvNxt(r) = RcvNxt(t) /\ Outs(r) = Outs(t)
      /\ t.rxData \in Seq(Seq(Byte)) => r.rxData \in Seq(Seq(Byte))
  BY RecvType DEF RcvNxt
<1>2. t.state # "ESTABLISHED" => r = t /\ x = <<>>
  BY DEF Recv, RecvTakes
<1>3. t.rxData \in Seq(Seq(Byte)) => x \in Seq(Byte) /\ x \o FlattenSeq(r.rxData) = FlattenSeq(t.rxData)
  BY RecvConserves
<1>. HIDE DEF r, x
<1>4. CASE t.state # "ESTABLISHED"
  <2>1. p = q
    BY <1>2, <1>4
  <2>. HIDE DEF p
  <2>. QED BY <1>2, <1>4, <2>1 DEF ReadOn, r, p, x
<1>5. CASE t.state = "ESTABLISHED"
  <2>1. /\ Ready(t) /\ ~PeerFin(t) /\ Ready(r) /\ ~PeerFin(r) /\ r.state = t.state
        /\ r.tx = t.tx /\ r.txData = t.txData /\ SndNxt(r) = SndNxt(t)
        /\ Up(r) <=> Up(t)
        /\ FinMade(r) <=> FinMade(t)
    BY <1>1, <1>5 DEF SameSender, Ready, PeerFin, Up, FinMade, FinAcked, SndNxt
  <2>2. Tells(h, r, snt)
    BY <1>1, <2>1, TellsSame
  <2>. DEFINE f == FlattenSeq(t.rxData)
              g == FlattenSeq(r.rxData)
  <2>3. t.rxData \in Seq(Seq(Byte)) /\ r.rxData \in Seq(Seq(Byte))
    BY <1>1, <2>1 DEF Hears
  <2>4. f \in Seq(Byte) /\ g \in Seq(Byte) /\ x \in Seq(Byte) /\ x \o g = f
    BY <1>3, <2>3, FlattenType
  <2>. HIDE DEF f, g
  <2>5. p \in Seq(Byte) /\ p \o g = q \o f
    <3>1. (q \o x) \o g = q \o (x \o g)
      BY <2>4, TextGroup, Zenon
    <3>2. q \o x \in Seq(Byte)
      BY <2>4, TextJoin
    <3>. QED BY <2>4, <3>1, <3>2
  <2>. HIDE DEF p
  <2>6. Hears(h, r, p, gsnt)
    BY <1>1, <2>1, <2>3, <2>5 DEF Hears, f, g
  <2>7. Real(t.rxData) = f /\ Real(r.rxData) = g
    BY <2>3, RealText DEF f, g
  <2>. QED BY <2>1, <2>2, <2>5, <2>6, <2>7 DEF ReadOn, r, p, x
<1>. QED BY <1>4, <1>5

-----------------------------------------------------------------------------
\* The steps of the stream of a host g, as the host h at its other end, which
\* goes on from t to r, makes them.

(* A FIN is made only by a tcp_close().                                     *)
LEMMA FinIsShut ==
  ASSUME NEW h, NEW t, NEW snt, Sender(h, t, snt), FinMade(t), Up(t) PROVE Shut(t)
<1>1. CASE Sending(h, t, snt)
  <2>1. IsFin(t.tx)
    BY <1>1 DEF Sending, FinMade, FinAcked
  <2>2. t.tx # None /\ "FIN" \in t.tx.fl
    BY <2>1 DEF IsFin
  <2>. QED BY <1>1, <2>2 DEF Sending
<1>2. CASE Closing(h, t)
  BY <1>2 DEF Closing, FinAcked, Shut
<1>. QED BY <1>1, <1>2 DEF Sender

\* From t to r the text p that has arrived and the end of it that is known: stay
\* as they are; get more of gsnt; are all of gsnt, which is known to end there.
Follows(t, r, p, p2, gsnt, gt) ==
  \/ p2 = p /\ (PeerFin(r) <=> PeerFin(t))
  \/ ~PeerFin(t) /\ ~PeerFin(r) /\ IsStrictPrefix(p, p2) /\ IsPrefix(p2, gsnt)
  \/ PeerFin(r) /\ p2 = p /\ p = gsnt /\ Shut(gt)

-----------------------------------------------------------------------------
\* What a host hears is what its peer tells.

(* A step that receives nothing.                                            *)
LEMMA HearsNothing ==
  ASSUME NEW h, NEW t, NEW r, NEW q, NEW gsnt, Hears(h, t, q, gsnt), HearsNone(t, r)
  PROVE  Hears(h, r, q, gsnt)
  BY DEF Hears, HearsNone

(* The stream of the peer begins.                                           *)
LEMMA HearsStart ==
  ASSUME NEW h \in Host, NEW t, NEW r, NEW q, NEW gsnt \in Seq(Byte),
         Hears(h, t, q, gsnt), HearsSyn(h, t, r)
  PROVE  Hears(h, r, q, gsnt) /\ r.rxData = t.rxData
<1>. DEFINE none == <<>>
<1>1. /\ ~Ready(t) /\ Ready(r) /\ ~PeerFin(r) /\ r.rxData = t.rxData /\ RcvNxt(r) = Start(Other(h))
      /\ q = none /\ t.rxData = none
  BY DEF Hears, HearsSyn
<1>2. /\ none \in Seq(Seq(Byte)) /\ FlattenSeq(none) = none /\ none \o none = none /\ Len(none) = 0
      /\ none \o gsnt = gsnt
  BY FlattenNone
<1>3. Start(Other(h)) \in Nat
  BY Hosts
<1>. HIDE DEF none
<1>4. RcvNxt(r) = Start(Other(h)) + Len(q \o FlattenSeq(r.rxData))
  BY <1>1, <1>2, <1>3
<1>. QED BY <1>1, <1>2, <1>4 DEF Hears

(* The next text of the peer is stored behind what is there.                *)
LEMMA HearsMore ==
  ASSUME NEW h \in Host, NEW t, NEW r, NEW q \in Seq(Byte), NEW gsnt \in Seq(Byte),
         Len(gsnt) <= MaxBytes[Other(h)], NEW s \in Segment, Says(Other(h), s, gsnt),
         Hears(h, t, q, gsnt), HearsText(t, r, s)
  PROVE  /\ Hears(h, r, q, gsnt)
         /\ IsStrictPrefix(q \o Real(t.rxData), q \o Real(r.rxData))
         /\ IsPrefix(q \o Real(r.rxData), gsnt)
<1>. DEFINE g == Other(h)
            f == FlattenSeq(t.rxData)
            a == q \o f
            b == TextBlock(s)
            d == s.data
            k == Append(t.rxData, b)
<1>0. \A x, y \in Seq(Byte) : x \o y \in Seq(Byte) /\ Len(x \o y) = Len(x) + Len(y) /\ Len(x) \in Nat
  BY Join
<1>1. /\ Ready(t) /\ Ready(r) /\ ~PeerFin(t) /\ ~PeerFin(r)
      /\ "SYN" \notin s.fl /\ "FIN" \notin s.fl /\ SegSeq(s) = RcvNxt(t) /\ SegLen(s) > 0
      /\ r.rxData = k /\ r.rnxt = SnAdd(t.rnxt, Len(b))
  BY DEF HearsText
<1>2. b \in Seq(Byte) /\ Len(b) \in Nat /\ 1 <= Len(b) /\ \E c \in Seq(Byte) : d = b \o c
  BY <1>1, BlockOfText
<1>3. t.rxData \in Seq(Seq(Byte)) /\ RcvNxt(t) = Start(g) + Len(a) /\ \E w \in Seq(Byte) : gsnt = a \o w
  BY <1>1 DEF Hears
<1>4. f \in Seq(Byte) /\ k \in Seq(Seq(Byte)) /\ FlattenSeq(k) = f \o b
  BY <1>2, <1>3, FlattenType, FlattenAppend
<1>5. d \in Seq(Byte) /\ b # <<>> /\ Start(g) \in Nat /\ Limit(g) = Start(g) + MaxBytes[g]
      /\ Limit(g) + 1 < SnMod /\ MaxBytes[g] \in Nat
  <2>1. g \in Host
    BY Hosts
  <2>. HIDE DEF g, b
  <2>2. b # <<>>
    BY <1>2
  <2>. QED BY <2>1, <2>2, Hosts DEF Segment
<1>. HIDE DEF f, b, d, g, k
<1>00. Joins(q, f, b)
  BY <1>2, <1>4, JoinAssociative
<1>6. a \in Seq(Byte) /\ q \o (f \o b) = a \o b /\ a \o b \in Seq(Byte)
  BY <1>0, <1>00, <1>2, <1>4, Zenon DEF Joins
<1>. HIDE DEF a
<1>7. d # <<>>
  <2>1. ASSUME NEW c \in Seq(Byte), d = b \o c PROVE d # <<>>
    <3>1. Len(d) = Len(b) + Len(c) /\ Len(c) \in Nat /\ Len(d) \in Nat
      BY <1>0, <1>2, <1>5, <2>1
    <3>2. Len(d) # 0
      BY <1>2, <3>1
    <3>. QED BY <3>2
  <2>. QED BY <1>2, <2>1
<1>8. \E p, z \in Seq(Byte) : Len(p) = Len(a) /\ gsnt = p \o (d \o z)
  <2>1. PICK p, z \in Seq(Byte) : SegSeq(s) = Start(g) + Len(p) /\ gsnt = p \o (d \o z)
    BY <1>7 DEF Says, d, g
  <2>2. Len(p) = Len(a)
    BY <1>0, <1>1, <1>3, <1>5, <1>6, <2>1
  <2>. QED BY <2>1, <2>2
<1>9. a \in Seq(Byte) /\ b \in Seq(Byte) /\ d \in Seq(Byte)
  BY <1>2, <1>5, <1>6
<1>10. /\ \E c \in Seq(Byte) : d = b \o c
       /\ \E w \in Seq(Byte) : gsnt = a \o w
  BY <1>2, <1>3
<1>13. PICK y \in Seq(Byte) : gsnt = (a \o b) \o y
  <2>1. Continues(Byte, a, b, d, gsnt)
    BY <1>8, <1>9, <1>10 DEF Continues, Begins, Behind
  <2>2. Begins(Byte, a \o b, gsnt)
    BY <2>1, NextPart
  <2>. QED BY <2>2 DEF Begins
<1>14. q \o FlattenSeq(r.rxData) = a \o b
  BY <1>1, <1>4, <1>6
<1>15. RcvNxt(r) = Start(g) + Len(a \o b)
  <2>1. /\ Len(a \o b) = Len(a) + Len(b) /\ Len(a) \in Nat
        /\ Len(gsnt) = Len(a \o b) + Len(y) /\ Len(y) \in Nat /\ Len(gsnt) <= MaxBytes[g]
    BY <1>0, <1>2, <1>6, <1>13 DEF g
  <2>2. \A i, j, u, v, m \in Nat : i + m + 1 < SnMod /\ j + u + v <= m => i + j + u < SnMod
    BY SnModAssumption
  <2>3. /\ Start(g) + MaxBytes[g] + 1 < SnMod /\ Len(a) + Len(b) + Len(y) <= MaxBytes[g]
        /\ MaxBytes[g] \in Nat /\ Len(a) \in Nat /\ Len(b) \in Nat /\ Len(y) \in Nat
        /\ Start(g) \in Nat
    BY <1>2, <1>5, <2>1
  <2>4. Start(g) + Len(a) + Len(b) < SnMod
    BY <2>2, <2>3, Zenon
  <2>5. Start(g) + Len(a) \in Nat /\ Start(g) + Len(a) + Len(b) = Start(g) + Len(a \o b)
    BY <2>1, <2>3
  <2>6. RcvNxt(r) = SnAdd(Start(g) + Len(a), Len(b))
    BY <1>1, <1>3 DEF RcvNxt
  <2>7. SnAdd(Start(g) + Len(a), Len(b)) = Start(g) + Len(a) + Len(b)
    BY <2>3, <2>4, <2>5, Plain
  <2>. QED BY <2>5, <2>6, <2>7
<1>16. Hears(h, r, q, gsnt)
  BY <1>1, <1>4, <1>13, <1>14, <1>15 DEF Hears, g
<1>17. IsStrictPrefix(a, a \o b) /\ IsPrefix(a \o b, gsnt)
  <2>1. IsStrictPrefix(a, a \o b)
    BY <1>5, <1>9, LongerIs
  <2>2. IsPrefix(a \o b, gsnt)
    BY <1>6, <1>13, PrefixOfJoin DEF IsPrefix
  <2>. QED BY <2>1, <2>2
<1>18. Real(t.rxData) = f /\ q \o Real(r.rxData) = a \o b
  <2>1. Real(k) = FlattenSeq(k) /\ Real(t.rxData) = f
    BY <1>3, <1>4, RealText DEF f
  <2>. QED BY <1>1, <1>4, <1>6, <2>1
<1>. QED BY <1>16, <1>17, <1>18 DEF a

(* The FIN of the peer is only taken behind all of its text.                *)
LEMMA HearsEnd ==
  ASSUME NEW h \in Host, NEW t, NEW snt, NEW gt, NEW gsnt \in Seq(Byte), NEW s,
         Meets(h, t, snt, gt, gsnt, s), NEW r, NEW q \in Seq(Byte),
         Tells(Other(h), gt, gsnt), Hears(h, t, q, gsnt), HearsFin(t, r, s)
  PROVE  /\ Hears(h, r, q, gsnt)
         /\ Follows(t, r, q \o Real(t.rxData), q \o Real(r.rxData), gsnt, gt)
<1>. DEFINE g == Other(h)
            f == FlattenSeq(t.rxData)
            a == q \o f
<1>1. /\ Ready(t) /\ ~PeerFin(t) /\ PeerFin(r) /\ "SYN" \notin s.fl /\ "FIN" \in s.fl
      /\ r.rxData = t.rxData \/ r.rxData = Append(t.rxData, TextBlock(s))
  BY DEF HearsFin
<1>2. /\ s \in Segment /\ s.data = <<>> /\ FinMade(gt) /\ SndNxt(gt) <= RcvNxt(t) + 1
      /\ t \in Tcb /\ gt \in Tcb /\ g \in Host
  <2>1. /\ s \in Segment /\ t \in Tcb /\ gt \in Tcb /\ g \in Host /\ Trusts(g, gt, t) /\ SegOk(g, s, gt)
    BY Told, Hosts
  <2>. QED BY <1>1, <2>1 DEF Trusts, SegOk
<1>3. Up(gt)
  <2>1. Sender(g, gt, gsnt)
    BY DEF Meets, Side
  <2>. QED BY <1>2, <2>1, FinIsUp
<1>4. SndNxt(gt) = Start(g) + Len(gsnt) + 1
  BY <1>2, <1>3 DEF Tells
<1>5. t.rxData \in Seq(Seq(Byte)) /\ RcvNxt(t) = Start(g) + Len(a) /\ \E w \in Seq(Byte) : gsnt = a \o w
  BY <1>1 DEF Hears
<1>6. f \in Seq(Byte) /\ Start(g) \in Nat
  BY <1>2, <1>5, FlattenType, Hosts
<1>. HIDE DEF f, g
<1>7. a \in Seq(Byte) /\ Len(a) \in Nat /\ Len(gsnt) \in Nat
  BY <1>6, Join
<1>. HIDE DEF a
<1>8. PICK w \in Seq(Byte) : gsnt = a \o w
  BY <1>5
<1>9. a = gsnt
  <2>1. Len(gsnt) = Len(a) + Len(w) /\ Len(w) \in Nat /\ a \o <<>> = a
    BY <1>7, <1>8, Join
  <2>2. Len(w) = 0
    <3>1. \A i, j, k, m, n \in Nat : n = i + k + 1 /\ n <= i + j + 1 /\ k = j + m => m = 0
      OBVIOUS
    <3>2. /\ SndNxt(gt) \in Nat
          /\ SndNxt(gt) <= Start(g) + Len(a) + 1
      BY <1>2, <1>5, Numbers
    <3>. QED BY <1>4, <1>6, <1>7, <2>1, <3>1, <3>2, Zenon
  <2>3. w = <<>>
    BY <2>2
  <2>. QED BY <1>8, <2>1, <2>3
<1>10. Real(t.rxData) = f /\ (r.rxData = t.rxData \/ r.rxData = Append(t.rxData, <<Junk>>))
  BY <1>1, <1>2, <1>5, RealText, BlockOfFin DEF f
<1>11. Real(r.rxData) = f
  BY <1>5, <1>10, RealFin DEF f
<1>12. q \o Real(r.rxData) = gsnt /\ q \o Real(t.rxData) = gsnt
  BY <1>9, <1>10, <1>11 DEF a
<1>13. Ready(r)
  BY <1>1 DEF PeerFin, Ready
<1>14. Shut(gt)
  <2>1. Sender(g, gt, gsnt)
    BY DEF Meets, Side, g
  <2>. QED BY <1>2, <1>3, <2>1, FinIsShut
<1>. QED BY <1>1, <1>12, <1>13, <1>14 DEF Hears, Follows

(* Whatever a segment brings: the stream goes on by a step, or not at all.  *)
LEMMA HeardFollows ==
  ASSUME NEW h \in Host, NEW t, NEW snt, NEW gt, NEW gsnt \in Seq(Byte), NEW s,
         Meets(h, t, snt, gt, gsnt, s), Len(gsnt) <= MaxBytes[Other(h)],
         NEW r, NEW q \in Seq(Byte), Tells(Other(h), gt, gsnt), Says(Other(h), s, gsnt),
         Hears(h, t, q, gsnt), Heard(h, t, r, s)
  PROVE  /\ Hears(h, r, q, gsnt)
         /\ Follows(t, r, q \o Real(t.rxData), q \o Real(r.rxData), gsnt, gt)
<1>0. s \in Segment /\ Other(h) \in Host /\ gt \in Tcb
  BY Told, Hosts
<1>1. CASE HearsNone(t, r)
  BY <1>1, HearsNothing DEF HearsNone, Follows
<1>2. CASE HearsSyn(h, t, r)
  <2>1. ~PeerFin(t) /\ ~PeerFin(r) /\ r.rxData = t.rxData /\ Hears(h, r, q, gsnt)
    BY <1>2, HearsStart DEF HearsSyn, PeerFin, Ready
  <2>. QED BY <2>1 DEF Follows
<1>3. CASE HearsText(t, r, s)
  <2>1. ~PeerFin(t) /\ ~PeerFin(r)
    BY <1>3 DEF HearsText
  <2>. QED BY <1>0, <1>3, <2>1, HearsMore DEF Follows
<1>4. CASE HearsFin(t, r, s)
  <2>1. Hears(h, r, q, gsnt)
    BY <1>4, HearsEnd
  <2>2. Follows(t, r, q \o Real(t.rxData), q \o Real(r.rxData), gsnt, gt)
    BY <1>4, HearsEnd
  <2>. QED BY <2>1, <2>2
<1>. QED BY <1>1, <1>2, <1>3, <1>4 DEF Heard

(* What a host has heard stays so while the user of its peer goes on.       *)
LEMMA HearsGrown ==
  ASSUME NEW g, NEW gt, NEW q \in Seq(Byte), NEW snt \in Seq(Byte), NEW x \in Seq(Byte),
         Hears(g, gt, q, snt), ~PeerFin(gt)
  PROVE  Hears(g, gt, q, snt \o x)
<1>1. CASE ~Ready(gt)
  BY <1>1 DEF Hears
<1>2. CASE Ready(gt)
  <2>. DEFINE f == FlattenSeq(gt.rxData)
              a == q \o f
  <2>1. gt.rxData \in Seq(Seq(Byte)) /\ \E z \in Seq(Byte) : snt = a \o z
    BY <1>2 DEF Hears
  <2>2. f \in Seq(Byte)
    BY <2>1, FlattenType
  <2>. HIDE DEF f
  <2>3. a \in Seq(Byte)
    BY <2>2, Join
  <2>. HIDE DEF a
  <2>4. PICK z \in Seq(Byte) : snt = a \o z
    BY <2>1
  <2>5. (a \o z) \o x = a \o (z \o x)
    BY <2>3, TextGroup, Zenon
  <2>6. z \o x \in Seq(Byte)
    BY TextJoin
  <2>. QED BY <1>2, <2>4, <2>5, <2>6 DEF Hears, a, f
<1>. QED BY <1>1, <1>2

-----------------------------------------------------------------------------
\* The two hosts.

\* The inductive invariant of the text: it holds beside IInv.
CInv ==
  /\ taken \in [Host -> Seq(Byte)]
  /\ \A h \in Host : Tells(h, tcb[h], sent[h]) /\ Hears(h, tcb[h], taken[h], sent[Other(h)])
  /\ \A m \in net : Says(m.from, m.seg, sent[m.from])

\* A step of the stream of a host: its user has sent s and then s2, of which p
\* and then p2 has arrived; the host goes on from t to t2, its peer from gt to gt2.
Flow(s, s2, p, p2, t, t2, gt, gt2) ==
  \/ /\ s2 = s /\ p2 = p
     /\ Shut(t2) <=> Shut(t)
     /\ PeerFin(gt2) <=> PeerFin(gt)
  \/ /\ ~Shut(t) /\ ~Shut(t2) /\ s2 \in Seq(Byte) /\ IsStrictPrefix(s, s2) /\ p2 = p
     /\ PeerFin(gt2) <=> PeerFin(gt)
  \/ /\ ~PeerFin(gt) /\ ~PeerFin(gt2) /\ IsStrictPrefix(p, p2) /\ IsPrefix(p2, s) /\ s2 = s
     /\ Shut(t2) <=> Shut(t)
  \/ /\ Shut(t2) /\ s2 = s /\ p2 = p
     /\ PeerFin(gt2) <=> PeerFin(gt)
  \/ /\ Shut(t) /\ p = s /\ PeerFin(gt2) /\ s2 = s /\ p2 = p
     /\ Shut(t2) <=> Shut(t)

\* The step of the stream of h that a step of the connection makes.
Flows(h) == LET g == Other(h) IN
  Flow(sent[h], sent'[h], Arrived(g), Arrived(g)', tcb[h], tcb'[h], tcb[g], tcb'[g])

(* The control block that a handler leaves says what the handler left.      *)
LEMMA EmptiedSame ==
  ASSUME NEW h, NEW r \in Tcb, NEW snt, NEW p, NEW gsnt, Tells(h, r, snt), Hears(h, r, p, gsnt)
  PROVE  LET c == [r EXCEPT !.out = <<>>] IN
         /\ Tells(h, c, snt) /\ Hears(h, c, p, gsnt)
         /\ c.state = r.state /\ c.rxData = r.rxData
<1>. DEFINE empty == <<>>
            c == [r EXCEPT !.out = empty]
<1>1. ToSet(empty) = {}
  BY DEF ToSet
<1>. HIDE DEF empty
<1>2. /\ c.state = r.state /\ c.tx = r.tx /\ c.txData = r.txData /\ c.rxData = r.rxData
      /\ c.nxt = r.nxt /\ c.rnxt = r.rnxt /\ c.out = empty
  BY DEF Tcb
<1>. HIDE DEF c
<1>3. Outs(c) = {}
  BY <1>1, <1>2 DEF Outs
<1>4. /\ SndNxt(c) = SndNxt(r) /\ RcvNxt(c) = RcvNxt(r)
      /\ Up(c) <=> Up(r)
      /\ FinMade(c) <=> FinMade(r)
      /\ Ready(r) <=> Ready(c)
      /\ PeerFin(r) <=> PeerFin(c)
  BY <1>2 DEF SndNxt, RcvNxt, Up, FinMade, FinAcked, Ready, PeerFin
<1>5. Tells(h, c, snt)
  BY <1>2, <1>3, <1>4, TellsSame
<1>6. Hears(h, c, p, gsnt)
  BY <1>2, <1>4, HearsNothing DEF HearsNone
<1>. QED BY <1>2, <1>5, <1>6 DEF c, empty

(* The stream looks at no more of a host than its state.                    *)
LEMMA FlowOf ==
  ASSUME NEW s, NEW s2, NEW p, NEW p2, NEW t, NEW t2, NEW gt, NEW gt2, NEW c, NEW gc,
         Flow(s, s2, p, p2, t, t2, gt, gt2), c.state = t2.state, gc.state = gt2.state
  PROVE  Flow(s, s2, p, p2, t, c, gt, gc)
<1>1. (Shut(c) <=> Shut(t2)) /\ (PeerFin(gc) <=> PeerFin(gt2))
  BY DEF Shut, PeerFin
<1>. QED BY <1>1 DEF Flow

(* A step of host h, which goes on with r.                                  *)
LEMMA HostFlows ==
  ASSUME IInv, CInv, NEW h \in Host, NEW r \in Tcb, NEW snt \in Seq(Byte), NEW p \in Seq(Byte),
         NEW n \in SUBSET net, Step(h, r, n),
         sent' = [sent EXCEPT ![h] = snt], taken' = [taken EXCEPT ![h] = p],
         Tells(h, r, snt), Hears(h, r, p, sent[Other(h)]),
         Hears(Other(h), tcb[Other(h)], taken[Other(h)], snt),
         \A m \in net : m.from = h => Says(h, m.seg, snt),
         Flow(sent[h], snt, Arrived(Other(h)), Arrived(Other(h)), tcb[h], r, tcb[Other(h)], tcb[Other(h)]),
         Flow(sent[Other(h)], sent[Other(h)], Arrived(h), p \o Real(r.rxData),
              tcb[Other(h)], tcb[Other(h)], tcb[h], r)
  PROVE  CInv' /\ \A x \in Host : Flows(x)
<1>. DEFINE g == Other(h)
            c == [r EXCEPT !.out = <<>>]
<1>0. g \in Host /\ g # h /\ Other(g) = h
  BY Hosts
<1>1. /\ Tells(h, c, snt) /\ Hears(h, c, p, sent[g])
      /\ c.state = r.state /\ c.rxData = r.rxData
  BY EmptiedSame
<1>2. tcb' = [tcb EXCEPT ![h] = c] /\ net' = n \cup Packets(h, r)
  BY DEF Step
<1>. HIDE DEF c, g
<1>3. /\ tcb'[h] = c /\ tcb'[g] = tcb[g] /\ sent'[h] = snt /\ sent'[g] = sent[g]
      /\ taken'[h] = p /\ taken'[g] = taken[g] /\ taken' \in [Host -> Seq(Byte)]
  BY <1>0, <1>2 DEF IInv, CInv
<1>4. Tells(g, tcb[g], sent[g]) /\ Hears(g, tcb[g], taken[g], snt)
  BY <1>0 DEF CInv, g
<1>5. ASSUME NEW x \in Host
      PROVE  Tells(x, tcb'[x], sent'[x]) /\ Hears(x, tcb'[x], taken'[x], sent'[Other(x)])
  <2>1. CASE x = h
    BY <1>1, <1>3, <2>1 DEF g
  <2>2. CASE x = g
    BY <1>0, <1>3, <1>4, <2>2
  <2>. QED BY <2>1, <2>2, TwoHosts DEF g
<1>6. ASSUME NEW m \in net' PROVE Says(m.from, m.seg, sent'[m.from])
  <2>1. CASE m \in net
    <3>1. m.from \in Host /\ Says(m.from, m.seg, sent[m.from])
      BY <2>1 DEF IInv, InFlight, CInv
    <3>2. m.from = h => Says(h, m.seg, snt)
      BY <2>1
    <3>. QED BY <1>3, <3>1, <3>2, TwoHosts DEF g
  <2>2. CASE m \in Packets(h, r)
    <3>1. PICK o \in Outs(r) : m = [from |-> h, to |-> o.to, seg |-> o.seg]
      BY <2>2 DEF Packets, Outs
    <3>2. Says(h, o.seg, snt)
      BY DEF Tells
    <3>. QED BY <1>3, <3>1, <3>2
  <2>. QED BY <1>2, <2>1, <2>2
<1>7. CInv'
  BY <1>3, <1>5, <1>6 DEF CInv
<1>8. Arrived(g)' = Arrived(g) /\ Arrived(h)' = p \o Real(r.rxData)
  BY <1>1, <1>3 DEF Arrived
<1>9. Flows(h)
  <2>1. Flow(sent[h], snt, Arrived(g), Arrived(g), tcb[h], c, tcb[g], tcb[g])
    BY <1>1, FlowOf DEF g
  <2>. QED BY <1>3, <1>8, <2>1 DEF Flows, g
<1>10. Flows(g)
  <2>1. Flow(sent[g], sent[g], Arrived(h), p \o Real(r.rxData), tcb[g], tcb[g], tcb[h], c)
    BY <1>1, FlowOf DEF g
  <2>. QED BY <1>0, <1>3, <1>8, <2>1 DEF Flows
<1>. QED BY <1>7, <1>9, <1>10, TwoHosts DEF g

(* What the invariants say of the two hosts.                                *)
LEMMA BothSides ==
  ASSUME IInv, CInv, NEW h \in Host
  PROVE  LET g == Other(h) IN
         /\ g \in Host /\ g # h /\ Other(g) = h
         /\ tcb[h] \in Tcb /\ tcb[g] \in Tcb
         /\ sent[h] \in Seq(Byte) /\ Len(sent[h]) <= MaxBytes[h]
         /\ sent[g] \in Seq(Byte) /\ Len(sent[g]) <= MaxBytes[g]
         /\ taken[h] \in Seq(Byte) /\ taken[g] \in Seq(Byte)
         /\ Side(h, tcb[h], sent[h], tcb[g]) /\ Side(g, tcb[g], sent[g], tcb[h])
         /\ Tells(h, tcb[h], sent[h]) /\ Hears(h, tcb[h], taken[h], sent[g])
         /\ Tells(g, tcb[g], sent[g]) /\ Hears(g, tcb[g], taken[g], sent[h])
         /\ sent = [sent EXCEPT ![h] = sent[h]] /\ taken = [taken EXCEPT ![h] = taken[h]]
<1>. DEFINE g == Other(h)
<1>0. g \in Host /\ g # h /\ Other(g) = h
  BY Hosts
<1>. HIDE DEF g
<1>1. /\ sent \in [Host -> Seq(Byte)] /\ taken \in [Host -> Seq(Byte)]
      /\ \A x \in Host : /\ tcb[x] \in Tcb /\ Len(sent[x]) <= MaxBytes[x]
                         /\ Side(x, tcb[x], sent[x], tcb[Other(x)])
                         /\ Tells(x, tcb[x], sent[x]) /\ Hears(x, tcb[x], taken[x], sent[Other(x)])
  BY DEF IInv, CInv
<1>2. sent = [sent EXCEPT ![h] = sent[h]] /\ taken = [taken EXCEPT ![h] = taken[h]]
  BY <1>1
<1>. QED BY <1>0, <1>1, <1>2 DEF g

(* Nothing but the network changes, and it only loses.                      *)
LEMMA NothingFlows ==
  ASSUME IInv, CInv, UNCHANGED <<tcb, sent, taken>>, net' \subseteq net
  PROVE  CInv' /\ \A x \in Host : Flows(x)
<1>1. CInv'
  BY DEF CInv
<1>2. ASSUME NEW x \in Host PROVE Flows(x)
  BY DEF Flows, Flow, Arrived
<1>. QED BY <1>1, <1>2

(* A step of h that tells its peer nothing new, and learns nothing of it.   *)
LEMMA QuietFlows ==
  ASSUME IInv, CInv, NEW h \in Host, NEW r \in Tcb, NEW n \in SUBSET net, Step(h, r, n),
         UNCHANGED <<sent, taken>>, Quiet(h, tcb[h], sent[h], r),
         Shut(r) \/ (Shut(r) <=> Shut(tcb[h]))
  PROVE  CInv' /\ \A x \in Host : Flows(x)
<1>. DEFINE g == Other(h)
            p == taken[h]
            snt == sent[h]
<1>0. /\ p \in Seq(Byte) /\ snt \in Seq(Byte) /\ Hears(h, tcb[h], p, sent[g]) /\ Tells(h, r, snt)
      /\ sent' = [sent EXCEPT ![h] = snt] /\ taken' = [taken EXCEPT ![h] = p]
      /\ HearsNone(tcb[h], r) /\ Hears(g, tcb[g], taken[g], snt)
  BY BothSides DEF Quiet
<1>1. Hears(h, r, p, sent[g])
  BY <1>0, HearsNothing
<1>2. \A m \in net : m.from = h => Says(h, m.seg, snt)
  BY DEF CInv
<1>3. Flow(snt, snt, Arrived(g), Arrived(g), tcb[h], r, tcb[g], tcb[g])
  BY DEF Flow
<1>4. Flow(sent[g], sent[g], Arrived(h), p \o Real(r.rxData), tcb[g], tcb[g], tcb[h], r)
  <2>1. Arrived(h) = p \o Real(r.rxData)
    BY <1>0 DEF Arrived, HearsNone
  <2>. QED BY <1>0, <2>1 DEF Flow, HearsNone
<1>. HIDE DEF p, snt
<1>5. Flow(sent[h], snt, Arrived(g), Arrived(g), tcb[h], r, tcb[g], tcb[g])
  BY <1>3 DEF snt
<1>. QED BY <1>0, <1>1, <1>2, <1>4, <1>5, HostFlows

(* tcp_recv_in(): the arrival of a segment.                                 *)
LEMMA DeliverFlows ==
  ASSUME IInv, CInv, \A e \in Envs : e.seg, NEW m \in net, Deliver(m)
  PROVE  CInv' /\ \A x \in Host : Flows(x)
<1>. DEFINE h == m.to
            g == Other(h)
            n == IF KeepCopies THEN net ELSE net \ {m}
            t == tcb[h]
            gt == tcb[g]
            snt == sent[h]
            gsnt == sent[g]
            q == taken[h]
            s == m.seg
<1>0. n \in SUBSET net /\ UNCHANGED <<sent, taken>> /\ h \in Host
  BY DEF Deliver, users
<1>1. m.from = g /\ s \in Segment /\ SegOk(g, s, gt) /\ Says(g, s, gsnt)
  <2>1. InFlight(m) /\ Says(m.from, s, sent[m.from])
    BY DEF IInv, CInv
  <2>2. m.from = g
    BY <2>1, Hosts DEF InFlight
  <2>. QED BY <2>1, <2>2 DEF InFlight
<1>. HIDE DEF h, g
<1>00. /\ g = Other(h) /\ h \in Host
      /\ g \in Host /\ Other(g) = h /\ t \in Tcb /\ gt \in Tcb
      /\ snt \in Seq(Byte) /\ Len(snt) <= MaxBytes[h]
      /\ gsnt \in Seq(Byte) /\ Len(gsnt) <= MaxBytes[g] /\ q \in Seq(Byte)
      /\ Side(h, t, snt, gt) /\ Side(g, gt, gsnt, t)
      /\ Tells(h, t, snt) /\ Hears(h, t, q, gsnt)
      /\ Tells(g, gt, gsnt) /\ Hears(g, gt, taken[g], snt)
      /\ sent = [sent EXCEPT ![h] = snt] /\ taken = [taken EXCEPT ![h] = q]
  <2>1. g = Other(h)
    BY DEF g
  <2>. QED BY <1>0, <2>1, BothSides
<1>2. CASE tcb[h].state = "FREE"
  <2>1. net' = n /\ UNCHANGED tcb
    BY <1>2 DEF Deliver, h
  <2>. QED BY <1>0, <2>1, NothingFlows
<1>3. CASE tcb[h].state # "FREE"
  <2>1. PICK e \in Envs : Step(h, Received(t, e, g, s), n)
    BY <1>1, <1>3 DEF Deliver, h
  <2>2. e \in Env /\ e.seg
    BY BoundAssumption
  <2>. DEFINE r == Received(t, e, g, s)
  <2>3. Meets(h, t, snt, gt, gsnt, s)
    BY <1>1, <1>00 DEF Meets
  <2>. HIDE DEF n, t, gt, snt, gsnt, q, s
  <2>4. Goes(h, t, snt, r, s)
    BY <1>00, <2>2, <2>3, ReceivedGoes
  <2>5. r \in Tcb
    <3>1. Stays(h, t, snt, gt, r)
      BY <1>00, <2>2, <2>3, ReceivedKeeps
    <3>. QED BY <3>1 DEF Stays, Side, Core
  <2>. HIDE DEF r
  <2>6. Hears(h, r, q, gsnt)
    BY <1>1, <1>00, <2>3, <2>4, HeardFollows DEF Goes
  <2>7. Follows(t, r, q \o Real(t.rxData), q \o Real(r.rxData), gsnt, gt)
    BY <1>1, <1>00, <2>3, <2>4, HeardFollows DEF Goes
  <2>8. \A k \in net : k.from = h => Says(h, k.seg, snt)
    BY DEF CInv, snt
  <2>9. Flow(sent[h], snt, Arrived(g), Arrived(g), tcb[h], r, tcb[g], tcb[g])
    BY <2>4 DEF Flow, Goes, snt, t
  <2>10. Flow(sent[g], sent[g], Arrived(h), q \o Real(r.rxData), tcb[g], tcb[g], tcb[h], r)
    <3>1. Arrived(h) = q \o Real(t.rxData)
      BY DEF Arrived, q, t
    <3>. QED BY <2>7, <3>1 DEF Follows, Flow, gsnt, gt, t
  <2>11. /\ Step(h, r, n) /\ sent' = [sent EXCEPT ![h] = snt] /\ taken' = [taken EXCEPT ![h] = q]
         /\ n \in SUBSET net /\ Tells(h, r, snt) /\ Hears(h, r, q, sent[Other(h)])
         /\ Hears(Other(h), tcb[Other(h)], taken[Other(h)], snt)
    BY <1>0, <1>00, <2>1, <2>4, <2>6 DEF Goes, gsnt, gt, r
  <2>. QED BY <1>00, <2>5, <2>8, <2>9, <2>10, <2>11, HostFlows
<1>. QED BY <1>2, <1>3

(* tcp_loop(): a timeout, or a connection reaped.                           *)
LEMMA LoopFlows ==
  ASSUME IInv, CInv, NEW h \in Host, NEW e \in Env, NEW expired \in BOOLEAN,
         Step(h, Loop(tcb[h], e, expired), net), UNCHANGED <<sent, taken>>
  PROVE  CInv' /\ \A x \in Host : Flows(x)
<1>. DEFINE t == tcb[h]
            gt == tcb[Other(h)]
            snt == sent[h]
            r == Loop(t, e, expired)
<1>1. t \in Tcb /\ gt \in Tcb /\ Side(h, t, snt, gt) /\ Tells(h, t, snt)
  BY BothSides
<1>. HIDE DEF t, gt, snt
<1>2. Timeout(t, e) \in Tcb
  BY <1>1, TimeoutKeeps
<1>3. Stays(h, t, snt, gt, r)
  BY <1>1, LoopKeeps
<1>4. Quiet(h, t, snt, r) /\ (Shut(r) <=> Shut(t))
  BY <1>1, <1>2, LoopQuiet
<1>5. Step(h, r, net)
  BY DEF t
<1>. HIDE DEF r
<1>6. r \in Tcb
  BY <1>3 DEF Stays, Side, Core
<1>. QED BY <1>4, <1>5, <1>6, QuietFlows DEF t, snt

(* tcp_close().                                                             *)
LEMMA CloseFlows ==
  ASSUME IInv, CInv, NEW h \in Host, AppClose(h)
  PROVE  CInv' /\ \A x \in Host : Flows(x)
<1>1. PICK e \in Envs : Step(h, Close(tcb[h], e), net)
  BY DEF AppClose
<1>. DEFINE t == tcb[h]
            gt == tcb[Other(h)]
            snt == sent[h]
            r == Close(t, e)
<1>2. /\ t \in Tcb /\ gt \in Tcb /\ Side(h, t, snt, gt) /\ Tells(h, t, snt)
      /\ snt \in Seq(Byte) /\ Len(snt) <= MaxBytes[h] /\ Sender(h, t, snt)
  BY BothSides DEF Side
<1>3. e \in Env /\ t.state \in {"ESTABLISHED", "CLOSE_WAIT"} /\ UNCHANGED <<sent, taken>>
  BY BoundAssumption DEF AppClose, users
<1>. HIDE DEF t, gt, snt
<1>4. Stays(h, t, snt, gt, r)
  BY <1>2, <1>3, CloseKeeps
<1>5. Quiet(h, t, snt, r) /\ Shut(r)
  BY <1>2, <1>3, CloseQuiet
<1>6. Step(h, r, net)
  BY <1>1 DEF t
<1>. HIDE DEF r
<1>7. r \in Tcb
  BY <1>4 DEF Stays, Side, Core
<1>. QED BY <1>3, <1>5, <1>6, <1>7, QuietFlows DEF t, snt

(* tcp_send().                                                              *)
LEMMA SendFlows ==
  ASSUME IInv, CInv, \A e \in Envs : e.seg, NEW h \in Host, AppSend(h)
  PROVE  CInv' /\ \A x \in Host : Flows(x)
<1>1. PICK n \in Sizes, e \in Envs :
        /\ Len(sent[h]) + n <= MaxBytes[h]
        /\ Step(h, Send(tcb[h], e, Text(h, n)), net)
        /\ sent' = IF SendAccepts(tcb[h], e)
                   THEN [sent EXCEPT ![h] = @ \o Text(h, n)] ELSE sent
  BY DEF AppSend
<1>. DEFINE g == Other(h)
            t == tcb[h]
            gt == tcb[g]
            snt == sent[h]
            gsnt == sent[g]
            q == taken[h]
            chunk == Text(h, n)
            snt2 == IF SendAccepts(t, e) THEN snt \o chunk ELSE snt
            r == Send(t, e, chunk)
<1>2. e \in Env /\ e.seg /\ t.state = "ESTABLISHED"
  BY BoundAssumption DEF AppSend
<1>3. chunk \in Seq(Byte) /\ Len(snt) + Len(chunk) <= MaxBytes[h]
  BY <1>1, TextType
<1>4. /\ g \in Host /\ t \in Tcb /\ gt \in Tcb /\ snt \in Seq(Byte) /\ gsnt \in Seq(Byte)
      /\ q \in Seq(Byte) /\ taken[g] \in Seq(Byte)
      /\ Side(h, t, snt, gt) /\ Side(g, gt, gsnt, t) /\ Sender(h, t, snt) /\ Ends(gt, t)
      /\ Tells(h, t, snt) /\ Hears(h, t, q, gsnt) /\ Hears(g, gt, taken[g], snt)
      /\ sent = [sent EXCEPT ![h] = snt] /\ taken = [taken EXCEPT ![h] = q]
  BY BothSides DEF Side
<1>5. Step(h, r, net) /\ sent' = [sent EXCEPT ![h] = snt2] /\ taken' = [taken EXCEPT ![h] = q]
  <2>1. Step(h, r, net) /\ UNCHANGED taken
    BY <1>1 DEF AppSend
  <2>2. sent' = [sent EXCEPT ![h] = snt2]
    BY <1>1, <1>4
  <2>. QED BY <1>4, <2>1, <2>2
<1>6. \A m \in net : m.from = h => m.seg \in Segment /\ Says(h, m.seg, snt)
  BY DEF CInv, IInv, InFlight
<1>. HIDE DEF g, t, gt, snt, gsnt, q, chunk
<1>7. Stays(h, t, snt2, gt, r) /\ snt2 \in Seq(Byte) /\ Len(snt2) <= MaxBytes[h]
  BY <1>2, <1>3, <1>4, SendKeeps
<1>8. Quiet(h, t, snt2, r) /\ r.state = t.state
  BY <1>2, <1>3, <1>4, SendQuiet
<1>9. ~PeerFin(gt)
  <2>1. ~FinAcked(t) /\ Up(t) /\ t.state \notin {"FIN_WAIT_1", "LAST_ACK"}
    BY <1>2 DEF FinAcked, Up
  <2>2. Sending(h, t, snt)
    BY <1>4, <2>1 DEF Sender, Closing
  <2>3. ~IsFin(t.tx)
    BY <2>2 DEF Sending, IsFin
  <2>. QED BY <1>4, <2>1, <2>3 DEF Ends, FinMade
<1>10. r \in Tcb
  BY <1>7 DEF Stays, Side, Core
<1>. HIDE DEF r
<1>11. Hears(g, gt, taken[g], snt2)
  BY <1>3, <1>4, <1>9, HearsGrown
<1>12. \A m \in net : m.from = h => Says(h, m.seg, snt2)
  BY <1>3, <1>4, <1>6, SaysGrown
<1>13. snt2 = snt \/ IsStrictPrefix(snt, snt2)
  <2>1. CASE SendAccepts(t, e) /\ chunk # <<>>
    BY <1>3, <1>4, <2>1, LongerIs
  <2>2. CASE SendAccepts(t, e) /\ chunk = <<>>
    BY <1>4, <2>2
  <2>. QED BY <2>1, <2>2
<1>14. Hears(h, r, q, gsnt) /\ Tells(h, r, snt2)
  BY <1>4, <1>8, HearsNothing DEF Quiet
<1>15. ~Shut(t) /\ ~Shut(r)
  BY <1>2, <1>8 DEF Shut
<1>. HIDE DEF snt2
<1>16. Flow(sent[h], snt2, Arrived(g), Arrived(g), t, r, gt, gt)
  BY <1>7, <1>13, <1>15 DEF Flow, snt
<1>17. Flow(sent[g], sent[g], Arrived(h), q \o Real(r.rxData), gt, gt, t, r)
  <2>1. Arrived(h) = q \o Real(r.rxData)
    BY <1>8 DEF Arrived, Quiet, HearsNone, q, t
  <2>. QED BY <1>8, <2>1 DEF Flow, Quiet, HearsNone
<1>. QED BY <1>4, <1>5, <1>7, <1>10, <1>11, <1>12, <1>14, <1>16, <1>17, HostFlows DEF g, t, gt, gsnt

(* tcp_recv().                                                              *)
LEMMA RecvFlows ==
  ASSUME IInv, CInv, NEW h \in Host, AppRecv(h)
  PROVE  CInv' /\ \A x \in Host : Flows(x)
<1>1. PICK n \in Sizes : /\ Step(h, Recv(tcb[h], n), net)
                         /\ taken' = [taken EXCEPT ![h] = @ \o RecvTakes(tcb[h], n)]
  BY DEF AppRecv
<1>. DEFINE g == Other(h)
            t == tcb[h]
            gt == tcb[g]
            snt == sent[h]
            gsnt == sent[g]
            q == taken[h]
            p == q \o RecvTakes(t, n)
            r == Recv(t, n)
<1>2. /\ g \in Host /\ t \in Tcb /\ gt \in Tcb /\ snt \in Seq(Byte) /\ gsnt \in Seq(Byte)
      /\ q \in Seq(Byte) /\ Side(h, t, snt, gt)
      /\ Tells(h, t, snt) /\ Hears(h, t, q, gsnt) /\ Hears(g, gt, taken[g], snt)
      /\ sent = [sent EXCEPT ![h] = snt]
  BY BothSides
<1>3. Step(h, r, net) /\ sent' = [sent EXCEPT ![h] = snt] /\ taken' = [taken EXCEPT ![h] = p]
  BY <1>1, <1>2 DEF AppRecv
<1>4. n \in Nat
  BY BoundAssumption
<1>5. \A m \in net : m.from = h => Says(h, m.seg, snt)
  BY DEF CInv
<1>6. Arrived(h) = q \o Real(t.rxData)
  BY DEF Arrived
<1>. HIDE DEF g, t, gt, snt, gsnt, q
<1>7. Stays(h, t, snt, gt, r)
  BY <1>2, RecvKeeps
<1>8. /\ Tells(h, r, snt) /\ r.state = t.state
      /\ p \in Seq(Byte) /\ Hears(h, r, p, gsnt)
      /\ p \o Real(r.rxData) = q \o Real(t.rxData)
  <2>1. ReadOn(h, t, snt, r, q, p, gsnt)
    BY <1>2, <1>4, RecvQuiet
  <2>. QED BY <2>1 DEF ReadOn
<1>. HIDE DEF r, p
<1>9. r \in Tcb
  BY <1>7 DEF Stays, Side, Core
<1>10. (Shut(r) <=> Shut(t)) /\ (PeerFin(r) <=> PeerFin(t))
  BY <1>8 DEF Shut, PeerFin
<1>11. Flow(sent[h], snt, Arrived(g), Arrived(g), t, r, gt, gt)
  BY <1>10 DEF Flow, snt
<1>12. Flow(sent[g], sent[g], Arrived(h), p \o Real(r.rxData), gt, gt, t, r)
  BY <1>6, <1>8, <1>10 DEF Flow
<1>. QED BY <1>2, <1>3, <1>5, <1>8, <1>9, <1>11, <1>12, HostFlows DEF g, t, gt, gsnt

(* Every step of the connection is a step, or none, of each stream.         *)
LEMMA EveryStepFlows ==
  ASSUME IInv, CInv, \A e \in Envs : e.seg, [Next]_vars
  PROVE  CInv' /\ \A x \in Host : Flows(x)
<1>1. CASE UNCHANGED vars
  BY <1>1, NothingFlows DEF vars
<1>2. ASSUME NEW m \in net, Deliver(m) PROVE CInv' /\ \A x \in Host : Flows(x)
  BY <1>2, DeliverFlows
<1>3. ASSUME NEW m \in net, Lose(m) PROVE CInv' /\ \A x \in Host : Flows(x)
  BY <1>3, NothingFlows DEF Lose, users
<1>4. ASSUME NEW h \in Host, Expire(h) PROVE CInv' /\ \A x \in Host : Flows(x)
  <2>1. PICK e \in Envs : Step(h, Loop(tcb[h], e, TRUE), net)
    BY <1>4 DEF Expire
  <2>. QED BY <1>4, <2>1, BoundAssumption, LoopFlows DEF Expire, users
<1>5. ASSUME NEW h \in Host, Reap(h) PROVE CInv' /\ \A x \in Host : Flows(x)
  <2>1. PICK e \in Envs : Step(h, Loop(tcb[h], e, FALSE), net)
    BY <1>5 DEF Reap
  <2>. QED BY <1>5, <2>1, BoundAssumption, LoopFlows DEF Reap, users
<1>6. ASSUME NEW h \in Host, AppSend(h) PROVE CInv' /\ \A x \in Host : Flows(x)
  BY <1>6, SendFlows
<1>7. ASSUME NEW h \in Host, AppRecv(h) PROVE CInv' /\ \A x \in Host : Flows(x)
  BY <1>7, RecvFlows
<1>8. ASSUME NEW h \in Host, AppClose(h) PROVE CInv' /\ \A x \in Host : Flows(x)
  BY <1>8, CloseFlows
<1>. QED BY <1>1, <1>2, <1>3, <1>4, <1>5, <1>6, <1>7, <1>8 DEF Next, HostStep

(* tcp_open() of both hosts: nothing has been said.                         *)
LEMMA NothingSaid ==
  ASSUME Init, Stale = {}
  PROVE  /\ CInv
         /\ \A h \in Host : /\ sent[h] = <<>> /\ Arrived(h) = <<>>
                            /\ ~Shut(tcb[h]) /\ ~PeerFin(tcb[h])
<1>1. PICK e \in Envs : LET c == OpenActive(Server, Isn[Client], e) IN
        /\ tcb = [h \in Host |-> IF h = Client THEN [c EXCEPT !.out = <<>>]
                                               ELSE OpenPassive(Isn[Server])]
        /\ net = Packets(Client, c)
  BY DEF Init
<1>. DEFINE c == OpenActive(Server, Isn[Client], e)
            empty == <<>>
            t == [c EXCEPT !.out = empty]
            p == OpenPassive(Isn[Server])
            syn == Seg(Isn[Client], 0, {"SYN"}, <<>>)
<1>2. /\ Client \in Host /\ Server \in Host /\ Server \in Peer /\ e \in Env /\ Client # Server
  BY HostAssumption, BoundAssumption DEF Host
<1>3. /\ c \in Tcb /\ c.state = "SYN_SENT" /\ \A o \in Outs(c) : o.seg.data = <<>>
  <2>1. Isn[Client] \in SeqNo
    BY <1>2, Hosts
  <2>2. /\ c \in Tcb /\ c.state = "SYN_SENT"
        /\ Outs(c) \subseteq {[to |-> Server, seg |-> syn]}
    BY <1>2, <2>1, OpenActiveType
  <2>. QED BY <2>2 DEF Seg
<1>4. p.state = "LISTEN" /\ p.out = <<>>
  BY DEF OpenPassive, NewTcb
<1>5. tcb[Client] = t /\ tcb[Server] = p /\ net = Packets(Client, c)
  BY <1>1, <1>2
<1>. HIDE DEF c, p, syn, empty
<1>6. t.state = "SYN_SENT" /\ t.out = empty
  BY <1>3 DEF Tcb
<1>. HIDE DEF t
<1>7. ASSUME NEW h \in Host
      PROVE  /\ tcb[h].state \in {"SYN_SENT", "LISTEN"} /\ Outs(tcb[h]) = {}
             /\ sent[h] = <<>> /\ taken[h] = <<>>
  <2>1. h = Client \/ h = Server
    BY DEF Host
  <2>2. sent[h] = <<>> /\ taken[h] = <<>>
    BY DEF Init
  <2>3. tcb[h].state \in {"SYN_SENT", "LISTEN"} /\ tcb[h].out = <<>>
    BY <1>4, <1>5, <1>6, <2>1 DEF empty
  <2>. QED BY <2>2, <2>3 DEF Outs, ToSet
<1>8. ASSUME NEW h \in Host
      PROVE  /\ ~Up(tcb[h]) /\ ~Ready(tcb[h]) /\ ~PeerFin(tcb[h]) /\ ~Shut(tcb[h])
             /\ tcb[h].rxData = <<>> /\ (tcb[h].tx # None => tcb[h].tx.data = <<>>)
  <2>1. ~Up(tcb[h]) /\ ~Ready(tcb[h]) /\ ~PeerFin(tcb[h]) /\ ~Shut(tcb[h])
    BY <1>7 DEF Up, Ready, PeerFin, Shut
  <2>2. Fresh(h, tcb[h])
    <3>1. IInv
      BY Starts
    <3>. QED BY <2>1, <3>1 DEF IInv, Side, Sender
  <2>. QED BY <2>1, <2>2 DEF Fresh, Seg
<1>9. ASSUME NEW h \in Host
      PROVE  Tells(h, tcb[h], sent[h]) /\ Hears(h, tcb[h], taken[h], sent[Other(h)])
  BY <1>7, <1>8 DEF Tells, Hears, Says
<1>10. ASSUME NEW m \in net PROVE Says(m.from, m.seg, sent[m.from])
  BY <1>3, <1>5 DEF Packets, Outs, Says
<1>11. taken \in [Host -> Seq(Byte)]
  BY DEF Init
<1>12. ASSUME NEW h \in Host PROVE Arrived(h) = <<>>
  <2>1. Arrived(h) = <<>> \o Real(<<>>)
    BY <1>7, <1>8 DEF Arrived
  <2>2. Real(<<>>) = <<>>
    BY FlattenNone DEF Real
  <2>. QED BY <2>1, <2>2
<1>. QED BY <1>7, <1>8, <1>9, <1>10, <1>11, <1>12 DEF CInv

(* One step of a host's stream is one of the abstract stream.               *)
LEMMA ToServerStep ==
  ASSUME Flow(sent[Client], sent'[Client], Arrived(Server), Arrived(Server)',
              tcb[Client], tcb'[Client], tcb[Server], tcb'[Server])
  PROVE  [ToServer!Next]_(ToServer!vars)
<1>. DEFINE t == tcb[Client]
            t2 == tcb'[Client]
            gt == tcb[Server]
            gt2 == tcb'[Server]
            s == sent[Client]
            s2 == sent'[Client]
            p == Arrived(Server)
            p2 == Arrived(Server)'
<1>1. /\ (Shut(t2) <=> Shut(t)) => UserClosed(Client)' = UserClosed(Client)
      /\ (PeerFin(gt2) <=> PeerFin(gt)) => PeerClosed(Server)' = PeerClosed(Server)
      /\ Shut(t) => UserClosed(Client)
      /\ ~Shut(t) => ~UserClosed(Client)
      /\ Shut(t2) => UserClosed(Client)' = TRUE
      /\ ~PeerFin(gt) => ~PeerClosed(Server)
      /\ PeerFin(gt2) => PeerClosed(Server)' = TRUE
  BY DEF Shut, UserClosed, PeerFin, PeerClosed
<1>2. CASE /\ s2 = s /\ p2 = p
           /\ Shut(t2) <=> Shut(t)
           /\ PeerFin(gt2) <=> PeerFin(gt)
  BY <1>1, <1>2 DEF ToServer!vars
<1>3. CASE /\ ~Shut(t) /\ ~Shut(t2) /\ s2 \in Seq(Byte) /\ IsStrictPrefix(s, s2) /\ p2 = p
           /\ PeerFin(gt2) <=> PeerFin(gt)
  <2>1. ToServer!Write
    BY <1>1, <1>3 DEF IsStrictPrefix, IsPrefix, ToServer!Write, ToServer!IsPrefix, ToServer!IsStrictPrefix
  <2>. QED BY <2>1 DEF ToServer!Next
<1>4. CASE /\ ~PeerFin(gt) /\ ~PeerFin(gt2) /\ IsStrictPrefix(p, p2) /\ IsPrefix(p2, s) /\ s2 = s
           /\ Shut(t2) <=> Shut(t)
  <2>1. ToServer!Arrive
    BY <1>1, <1>4 DEF IsStrictPrefix, IsPrefix, ToServer!Arrive, ToServer!IsPrefix, ToServer!IsStrictPrefix
  <2>. QED BY <2>1 DEF ToServer!Next
<1>5. CASE /\ Shut(t2) /\ s2 = s /\ p2 = p
           /\ PeerFin(gt2) <=> PeerFin(gt)
  <2>1. ToServer!Close
    BY <1>1, <1>5 DEF ToServer!Close
  <2>. QED BY <2>1 DEF ToServer!Next
<1>6. CASE /\ Shut(t) /\ p = s /\ PeerFin(gt2) /\ s2 = s /\ p2 = p
           /\ Shut(t2) <=> Shut(t)
  <2>1. ToServer!End
    BY <1>1, <1>6 DEF ToServer!End
  <2>. QED BY <2>1 DEF ToServer!Next
<1>. QED BY <1>2, <1>3, <1>4, <1>5, <1>6 DEF Flow

(* The same towards the client.                                             *)
LEMMA ToClientStep ==
  ASSUME Flow(sent[Server], sent'[Server], Arrived(Client), Arrived(Client)',
              tcb[Server], tcb'[Server], tcb[Client], tcb'[Client])
  PROVE  [ToClient!Next]_(ToClient!vars)
<1>. DEFINE t == tcb[Server]
            t2 == tcb'[Server]
            gt == tcb[Client]
            gt2 == tcb'[Client]
            s == sent[Server]
            s2 == sent'[Server]
            p == Arrived(Client)
            p2 == Arrived(Client)'
<1>1. /\ (Shut(t2) <=> Shut(t)) => UserClosed(Server)' = UserClosed(Server)
      /\ (PeerFin(gt2) <=> PeerFin(gt)) => PeerClosed(Client)' = PeerClosed(Client)
      /\ Shut(t) => UserClosed(Server)
      /\ ~Shut(t) => ~UserClosed(Server)
      /\ Shut(t2) => UserClosed(Server)' = TRUE
      /\ ~PeerFin(gt) => ~PeerClosed(Client)
      /\ PeerFin(gt2) => PeerClosed(Client)' = TRUE
  BY DEF Shut, UserClosed, PeerFin, PeerClosed
<1>2. CASE /\ s2 = s /\ p2 = p
           /\ Shut(t2) <=> Shut(t)
           /\ PeerFin(gt2) <=> PeerFin(gt)
  BY <1>1, <1>2 DEF ToClient!vars
<1>3. CASE /\ ~Shut(t) /\ ~Shut(t2) /\ s2 \in Seq(Byte) /\ IsStrictPrefix(s, s2) /\ p2 = p
           /\ PeerFin(gt2) <=> PeerFin(gt)
  <2>1. ToClient!Write
    BY <1>1, <1>3 DEF IsStrictPrefix, IsPrefix, ToClient!Write, ToClient!IsPrefix, ToClient!IsStrictPrefix
  <2>. QED BY <2>1 DEF ToClient!Next
<1>4. CASE /\ ~PeerFin(gt) /\ ~PeerFin(gt2) /\ IsStrictPrefix(p, p2) /\ IsPrefix(p2, s) /\ s2 = s
           /\ Shut(t2) <=> Shut(t)
  <2>1. ToClient!Arrive
    BY <1>1, <1>4 DEF IsStrictPrefix, IsPrefix, ToClient!Arrive, ToClient!IsPrefix, ToClient!IsStrictPrefix
  <2>. QED BY <2>1 DEF ToClient!Next
<1>5. CASE /\ Shut(t2) /\ s2 = s /\ p2 = p
           /\ PeerFin(gt2) <=> PeerFin(gt)
  <2>1. ToClient!Close
    BY <1>1, <1>5 DEF ToClient!Close
  <2>. QED BY <2>1 DEF ToClient!Next
<1>6. CASE /\ Shut(t) /\ p = s /\ PeerFin(gt2) /\ s2 = s /\ p2 = p
           /\ Shut(t2) <=> Shut(t)
  <2>1. ToClient!End
    BY <1>1, <1>6 DEF ToClient!End
  <2>. QED BY <2>1 DEF ToClient!Next
<1>. QED BY <1>2, <1>3, <1>4, <1>5, <1>6 DEF Flow

(* The two ends.                                                            *)
LEMMA BothHosts ==
  /\ Client \in Host /\ Server \in Host
  /\ Other(Client) = Server /\ Other(Server) = Client
  BY HostAssumption DEF Host, Other

(* CInv always holds: every segment under way says what its sender's user   *)
(* sent at its number; sent, numbered and queued text are one sequence; and *)
(* what the user took and what is queued for it was sent, up to rcv.nxt.    *)
THEOREM StreamInvariant ==
  ASSUME Stale = {}, \A e \in Envs : e.seg PROVE Spec => []CInv
<1>1. Init => CInv
  BY NothingSaid
<1>2. IInv /\ CInv /\ [Next]_vars => CInv'
  BY EveryStepFlows
<1>3. Spec => []IInv
  BY ConnectionInvariant
<1>. QED BY <1>1, <1>2, <1>3, PTL DEF Spec

(* The connection implements Stream towards the server: its user can take   *)
(* only the bytes tcp_send() accepted at the client, in that order, once    *)
(* each, whatever the network loses, repeats or delays; all of them when    *)
(* the client's FIN was seen; and the FIN only after the client closed.     *)
THEOREM ServerReadsStream ==
  ASSUME Stale = {}, \A e \in Envs : e.seg PROVE Spec => ToServerIsStream
<1>1. Init => ToServer!Init
  BY NothingSaid, BothHosts DEF ToServer!Init, UserClosed, PeerClosed, Shut, PeerFin
<1>2. IInv /\ CInv /\ [Next]_vars => [ToServer!Next]_(ToServer!vars)
  <2>. SUFFICES ASSUME IInv, CInv, [Next]_vars PROVE [ToServer!Next]_(ToServer!vars)
    OBVIOUS
  <2>1. Flows(Client)
    BY EveryStepFlows, BothHosts
  <2>. QED BY <2>1, ToServerStep, BothHosts DEF Flows
<1>3. Spec => []IInv /\ []CInv
  BY ConnectionInvariant, StreamInvariant
<1>. QED BY <1>1, <1>2, <1>3, PTL DEF Spec, ToServerIsStream, ToServer!Spec

(* And towards the client: handle_ack_of_data(), handle_data() and          *)
(* tcp_loop() serve both directions of a connection at once.                *)
THEOREM ClientReadsStream ==
  ASSUME Stale = {}, \A e \in Envs : e.seg PROVE Spec => ToClientIsStream
<1>1. Init => ToClient!Init
  BY NothingSaid, BothHosts DEF ToClient!Init, UserClosed, PeerClosed, Shut, PeerFin
<1>2. IInv /\ CInv /\ [Next]_vars => [ToClient!Next]_(ToClient!vars)
  <2>. SUFFICES ASSUME IInv, CInv, [Next]_vars PROVE [ToClient!Next]_(ToClient!vars)
    OBVIOUS
  <2>1. Flows(Server)
    BY EveryStepFlows, BothHosts
  <2>. QED BY <2>1, ToClientStep, BothHosts DEF Flows
<1>3. Spec => []IInv /\ []CInv
  BY ConnectionInvariant, StreamInvariant
<1>. QED BY <1>1, <1>2, <1>3, PTL DEF Spec, ToClientIsStream, ToClient!Spec
=============================================================================
