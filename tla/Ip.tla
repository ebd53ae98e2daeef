---------------------------------- MODULE Ip ----------------------------------
(***************************************************************************)
(* Sending a datagram: tcp_ip_send(), UDP's _sendto() and the echo reply   *)
(* of icmp_ip_recv() build a payload of data blocks; ip_hl_send() puts a   *)
(* header before it, or before each of its fragments; ip_ether_send()      *)
(* hands the blocks to the driver and deletes those that it took.  Who     *)
(* owns the memory changes hands on the way, and each of the three callers *)
(* does it differently.                                                    *)
(*                                                                         *)
(* A call runs to its end before anything else happens: one step.  What    *)
(* the rest of the system answers meanwhile is chosen with the call:       *)
(*   copy    dblk_copy() finds memory for the copy of a TCP segment;       *)
(*   mf      what the flags of a header that nobody set hold;              *)
(*   ans[k]  what becomes of the k-th packet: "refused" (the MAC address   *)
(*           is unknown or there is no memory for a frame), "sent", or     *)
(*           "given_up" (the driver refused it three times in a row).      *)
(***************************************************************************)
EXTENDS Dblk

CONSTANTS
  FragSize,   \* the text of a fragment: 1400
  HdrLen,     \* an IP header without options: 20
  TcpSizes, UdpSizes, EchoSizes,   \* lengths of what is passed to IP
  MaxCalls    \* bound: calls of ip_hl_send()

ASSUME IpAssumption ==
  /\ FragSize \in Nat /\ FragSize >= 8 /\ HdrLen \in Nat /\ HdrLen >= 8 /\ MaxCalls \in Nat
  /\ TcpSizes \cup UdpSizes \cup EchoSizes \subseteq Nat \ {0}
  /\ \A n \in UdpSizes \cup EchoSizes : n >= 8

VARIABLES
  ident,  \* the counter of ip_hl_send()
  live,   \* what is allocated
  last    \* the last call and what it did

vars == <<ident, live, last>>

Payloads(proto) == CASE proto = "TCP" -> TcpSizes
                     [] proto = "UDP" -> UdpSizes
                     [] proto = "ICMP" -> EchoSizes

Packets(n) == IF n < FragSize THEN 1
              ELSE n \div FragSize + (IF n % FragSize > 0 THEN 1 ELSE 0)

Answers(n) == [1 .. Packets(n) -> {"refused", "sent", "given_up"}]

NoHeader == [id |-> 0, off |-> 0, mf |-> FALSE, len |-> 0]

-----------------------------------------------------------------------------
\* What a call has done so far: what it sent and freed, and freed again.
Start == [ok |-> TRUE, off |-> 0, frames |-> {}, freed |-> {}, again |-> {}]

\* dblk_list_delete(), or dblk_delete() of the only block of a list.
Delete(st, l) ==
  [st EXCEPT !.freed = @ \cup Freed(l),
             !.again = @ \cup FreedTwice(l) \cup (st.freed \cap Freed(l))]

\* ip_ether_send(): every block of the list behind the header is a frame of
\* its own; only the first begins with the header.  A frame is known by the
\* number of the call and by where its block is in the list.
Frames(no, hdr, l) ==
  IF l = <<>> THEN {[no |-> no, at |-> 1, hdr |-> hdr, text |-> <<>>]}
  ELSE {[no |-> no, at |-> i, hdr |-> IF i = 1 THEN hdr ELSE NoHeader,
         text |-> BlockText(BlockAt(l, i))] : i \in Starts(l)}

\* Variant: a datagram that is refused is deleted as well.
LlSendDeletes(st, no, hdr, l, ans) ==
  IF ans = "sent" THEN [Delete(st, l) EXCEPT !.frames = @ \cup Frames(no, hdr, l)]
  ELSE IF ans = "refused" THEN [Delete(st, l) EXCEPT !.ok = FALSE]
  ELSE st

LlSend(st, no, hdr, l, ans) ==
  IF ans = "sent" THEN [Delete(st, l) EXCEPT !.frames = @ \cup Frames(no, hdr, l)]
  ELSE [st EXCEPT !.ok = ans = "given_up"]

\* ip_header_pack() adds the length of the header to total_length.
Header(id, off, mf, size) == [id |-> id, off |-> off, mf |-> mf, len |-> size + HdrLen]

\* Of the fragments, those behind the k-th.
Behind(frags, k) == SubSeq(frags, k + 1, Len(frags))

FragmentHeader(st, frags, k, c) == Header(c, st.off, k < Len(frags), NodeSize(frags[k]))

\* ip_hl_send() counts total_length, the header included, in the offset.
OffsetAfter(st, frags, k) == st.off + (NodeSize(frags[k]) + HdrLen) \div 8

\* Variant: the fragment is not disconnected from those behind it.
FragmentLoopLinked(st, frags, k, c, ans, l) ==
  LET r == LlSend(st, k, FragmentHeader(st, frags, k, c), <<frags[k]>> \o Behind(frags, k), ans[k])
  IN  IF ~st.ok THEN st
      ELSE IF r.ok THEN [r EXCEPT !.off = OffsetAfter(st, frags, k)]
      ELSE Delete(Delete(Delete(r, <<frags[k]>>), Behind(frags, k)), l)

\* Variant: only the fragment that was refused is deleted.
FragmentLoopKeepsRest(st, frags, k, c, ans, l) ==
  LET r == LlSend(st, k, FragmentHeader(st, frags, k, c), <<frags[k]>>, ans[k])
  IN  IF ~st.ok THEN st
      ELSE IF r.ok THEN [r EXCEPT !.off = OffsetAfter(st, frags, k)]
      ELSE Delete(Delete(r, <<frags[k]>>), l)

\* One turn of the loop of ip_hl_send() over the fragments.  A refusal ends the
\* loop and deletes the fragments that are left, and the payload.
FragmentLoop(st, frags, k, c, ans, l) ==
  LET r == LlSend(st, k, FragmentHeader(st, frags, k, c), <<frags[k]>>, ans[k])
  IN  IF ~st.ok THEN st
      ELSE IF r.ok THEN [r EXCEPT !.off = OffsetAfter(st, frags, k)]
      ELSE Delete(Delete(Delete(r, <<frags[k]>>), Behind(frags, k)), l)

AllFragments(frags, c, ans, l) ==
  LET loop[k \in 0 .. Len(frags)] == IF k = 0 THEN Start
                                     ELSE FragmentLoop(loop[k - 1], frags, k, c, ans, l)
  IN  loop[Len(frags)]

\* The payload is deleted when all its fragments are sent.
Sent(st, l) == IF st.ok THEN Delete(st, l) ELSE st

\* ip_hl_send().  The flags are set for fragments only.
HlSend(l, c, mf, ans) ==
  IF Size(l) < FragSize THEN LlSend(Start, 1, Header(c, 0, mf, Size(l)), l, ans[1])
  ELSE Sent(AllFragments(Fragment(l, FragSize, c), c, ans, l), l)

-----------------------------------------------------------------------------
\* What the callers pass: tcp_ip_send() one block that it copied, _sendto() a
\* header and the user's buffer, icmp_ip_recv() the buffer of the request.
PayloadOf(proto, n, c, copy) ==
  CASE proto = "TCP" -> IF copy THEN <<Node(<<c, 0>>, {"node", "data"}, 0, n)>> ELSE <<>>
    [] proto = "UDP" -> Concat(Node(<<c, 0>>, {}, 0, 8), <<Node(<<c, 0>>, {}, 8, n - 8)>>)
    [] proto = "ICMP" -> <<Node(<<c, 0>>, {}, 0, n)>>

\* tcp_ip_send() alone deletes the payload of a datagram that was refused.
Caller(proto, l, r) ==
  IF proto = "TCP" /\ ~r.ok THEN Delete(r, FirstBlock(l)) ELSE r

HandDown(proto, l, c, mf, ans) == Caller(proto, l, HlSend(l, c, mf, ans))

\* What the call allocates.
Allocated(l, c) ==
  Freed(l) \cup (IF Size(l) < FragSize THEN {} ELSE Freed(Fragment(l, FragSize, c)))

Idle == [proto |-> "none", size |-> 0, copy |-> TRUE, ans |-> <<>>, ok |-> TRUE,
         frames |-> {}, again |-> {}]

Init == ident = 0 /\ live = {} /\ last = Idle

Call(proto, n, copy, mf, ans) ==
  \E l \in {PayloadOf(proto, n, ident + 1, copy)} :
  \E r \in {HandDown(proto, l, ident + 1, mf, ans)} :
    /\ ident < MaxCalls
    /\ ident' = ident + 1
    /\ live' = (live \cup Allocated(l, ident + 1)) \ r.freed
    /\ last' = [proto |-> proto, size |-> n, copy |-> copy, ans |-> ans,
                ok |-> r.ok, frames |-> r.frames, again |-> r.again]

\* tcp_ip_send(), udp_sendto(), icmp_ip_recv().  The datagram in which an echo
\* request arrives was initialised, flags included.
SendSegment == \E n \in TcpSizes, copy, mf \in BOOLEAN : \E ans \in Answers(n) :
                 Call("TCP", n, copy, mf, ans)
SendDatagram == \E n \in UdpSizes, mf \in BOOLEAN : \E ans \in Answers(n) :
                  Call("UDP", n, TRUE, mf, ans)
ReplyEcho == \E n \in EchoSizes : \E ans \in Answers(n) :
               Call("ICMP", n, TRUE, FALSE, ans)

Next == SendSegment \/ SendDatagram \/ ReplyEcho

Spec == Init /\ [][Next]_vars
-----------------------------------------------------------------------------
\* The packets that the driver took, before the first that was refused.
Taken(ans) == {k \in DOMAIN ans : ans[k] = "sent" /\ \A j \in 1 .. k : ans[j] # "refused"}

\* Pieces that follow each other from one position of the text to another.
Covers(text, from, to) ==
  /\ text # <<>>
  /\ text[1].at = from
  /\ \A i \in 1 .. Len(text) - 1 : text[i + 1].at = text[i].at + text[i].len
  /\ Last(text).at + Last(text).len = to

\* Where the k-th part of a text of n bytes ends.
EndOfPart(n, k) == IF k * FragSize < n THEN k * FragSize ELSE n

(* Whatever the three callers pass and whatever happens to single packets,  *)
(* the k-th packet carries exactly the k-th part of the payload, across the *)
(* nodes it is spread over, behind a header that gives its length and says  *)
(* whether more follow; nothing else reaches the wire, and nothing twice.   *)
(* The offsets leave a gap between two fragments, for ip_hl_send() counts   *)
(* the header with the text (171), but never make them overlap.  (A segment *)
(* that could not be copied is sent as an empty packet.)                    *)
PacketsTile ==
  last.copy /\ last.proto # "none" =>
    /\ {f.no : f \in last.frames} = Taken(last.ans)
    /\ \A f, g \in last.frames : f.no = g.no => f = g
    /\ \A f \in last.frames :
         /\ Covers(f.text, (f.no - 1) * FragSize, EndOfPart(last.size, f.no))
         /\ f.hdr.len = HdrLen + EndOfPart(last.size, f.no) - (f.no - 1) * FragSize
         /\ last.size >= FragSize => f.hdr.mf = (f.no < Packets(last.size))
         /\ f.hdr.off * 8 >= f.text[1].at

\* tcp_ip_send() deletes again what a refused fragment made ip_hl_send() delete.
DeletedAgain == last.proto = "TCP" /\ last.size >= FragSize /\ ~last.ok

(* No memory is freed twice on any path through the callers, IP and the     *)
(* driver, except for the segment of several packets that was refused.      *)
FreedOnce == DeletedAgain \/ last.again = {}

(* Of what a call allocates, only the packets that the driver refused three *)
(* times stay allocated: ip_ether_send() forgets them.  Everything else is  *)
(* freed on every path, whichever packet is refused.                        *)
OnlyGivenUpLeaks ==
  \A x \in live : x[1][1] = ident =>
    LET k == x[1][2]
    IN  IF k = 0 THEN last.size < FragSize /\ last.ans[1] = "given_up"
        ELSE last.ans[k] = "given_up"
=============================================================================
