# A TLA+ development of dts.net

dts.net is a network stack in C for small systems: Ethernet, ARP, IP, ICMP, UDP, TCP,
a DHCP client and a BSD socket layer. It has one thread. The application polls the
driver (`ether_ll_recv`), which calls up through the layers to the end of a handler,
and calls `tcp_loop()` and `dhcp_loop()` again and again. Nothing is ever interrupted
in the middle, so a handler is one step here; what makes the code hard is the order in
which segments, timeouts and calls of the user meet.

## 1. Inventory

| Component | State | Operations | Meets | What is hard | What makes it right |
|---|---|---|---|---|---|
| TCP (`dts_net_tcp.c`) | list of control blocks: state, snd, rcv, `tx_seg`, `tx_data`, `rx_data`, timer | `tcp_open/send/recv/close/loop`, `tcp_ip_recv` | IP below (may refuse a datagram), blocks and segments from pools, the user above | loss, duplication and reordering; the timer, the ACK and the user's close in every order; refusal by IP in the middle of a handler | each direction is a reliable stream; what is outstanding is repeated until acknowledged; both ends agree after the handshake; closing ends |
| Sequence numbers (`sncmp`) | none | comparison within an interval of the circle | TCP, on every segment | wrap around zero, empty intervals | exactly the numbers on the arc |
| Ethernet-IP (`dts_net_ether_arp.c`) | `arp_table` from a pool, `nif_list` | `ip_ether_send`, `ether_arp_get_mac_address`, `ether_arp_ether_recv` | IP above, Ethernet below | a lost request, repeated answers, a full table | the right MAC address; the table neither leaks nor loops |
| DHCP client (`dts_net_dhcp.c`) | `only`: state, T1, T2, last message, lease | setup, start, loop, completed | a UDP socket, `set_ip` | both timers, late polls, replies out of order or for others | an address that was acknowledged, renewed in time |
| IP (`dts_net_ip.c`) | a counter | `ip_hl_send`, `ip_ll_recv` | all of the above | fragmentation, a fragment refused half way | fragments that tile the payload; one owner for every block |
| Data blocks (`dts_net_dblk.c`) | lists of nodes | new, delete, concat, read, write, fragment, size | all layers | blocks of several nodes, virtual memory nodes, boundaries | fragments and reads tile the block |
| Sockets (`socket/socket.c`) | pool of sockets, `rx_queue`, a pointer to a control block | the BSD calls | TCP (several control blocks, `malloc`, `tcp_loop`), UDP | each of socket and control block outlives the other; a port with a listener, its connections and perhaps a `connect` | one socket, one control block; nothing is forgotten; what arrives finds its own |
| UDP (`dts_net_udp.c`) | list of binds | bind, sendto, receive | IP, sockets | a bind that outlives its socket | a datagram reaches its own socket |
| Memory pools (`dts.net.mem.impl`) | used flags or free lists | alloc, free | TCP, ARP, sockets | exhaustion | every item is free or in use once |
| Ethernet, ARP packets, ICMP, checksums, byte order, ticks | none, or a counter | pack, unpack, dispatch | | lengths | conversions |

Lists, coroutines and timers (`dts.datastruct`, `dts.coroutine`, `dts.elib`) are
libraries outside the repository, modelled from how the code uses them: a timer that was
stopped does not expire, `list_find` returns some entry that matches, `list_add` and
`list_enqueue` may put an item anywhere respectively at the end, and `malloc` returns any
memory that is free.

## 2. Plan

1. TCP: numbers (`SeqNum`), control block (`TcpTcb`), endpoint against everything that can
   arrive (`TcpEndpoint`), two hosts and a network (`TcpPair`) implementing an abstract
   stream (`Stream`). *Done.*
2. Proofs for the endpoint: types, timers, contents of `tx_seg`, the queue, closing, the send
   window. *Done.*
3. `EtherArp` and `Dhcp`, with proofs of every safety property of theirs. *Done.*
4. Data blocks and IP (`Dblk`, `Ip`): fragments of a block tile it; a send that fails at any
   packet, with ownership of every node. *Done.* Proofs of every property, for every size of a
   fragment and every length of a payload. *Done.*
5. Sockets (`Sockets`): the pool, `accept`, `close`, `connect`, several control blocks per
   host, the search of `tcp_ip_recv`, UDP binds. *Done.* A listener that keeps listening is
   not what the code promises (section 6). Proofs of every safety property. *Done.*
6. Proofs about two hosts: the handshake, the order of the numbers of both ends, no reset, only
   text to the user; that each direction implements `Stream`. *Done.*

The plan keeps to about a dozen runs; a violation run gives its place to a new component
when it has served (section 6 keeps what it showed).

## 3. Modules and code

### SeqNum, SeqWindow
`Sncmp` is `sncmp()` branch by branch on a circle of `SnMod` numbers (2^32 in the code);
`OnArc` is what it should say. In `SeqWindow` an interval and a number slide around the
circle together.

### TcpTcb
The record `Tcb` is `tcp_t`; each handler is an operator from a record to a record named
for the function it translates, and `out` collects what is handed to `ip_hl_send`.
A handler also takes `e`, the answers of IP, of the segment allocator and of the block
allocator during that event. Correspondence:

| Code | Model |
|---|---|
| `tcp_open` / `open_when_closed` | `NewTcb`, `OpenPassive`, `OpenActive` |
| `tcp_send_ctrl_seg`, `tcp_retransmit`, `tcp_tx_seg_complete` | `SendCtrl`, `Retransmit`, `TxComplete` |
| `tcp_construct_data`, `tcp_contruct_fin_ack` | `ConstructData`, `ConstructFinAck` |
| `process_received_seq` | `Acceptable`, `Reject` |
| `received_when_*`, `tcp_received` | `ReceivedWhen*`, `Received` |
| `tcp_handle_data`, `tcp_handle_ack_of_data`, `tcp_handle_fin_ack` | `HandleData`, `HandleAckOfData`, `HandleFinAck` |
| `tcp_close`, `tcp_send`, `tcp_recv`, `tcp_timeout`, `tcp_loop` | `Close`, `Send`, `Recv`, `Timeout`, `Loop` |

Abstractions: an armed timer may expire at any `tcp_loop()` (its duration is not
modelled); one answer of IP and of each allocator per event; the branch for `rcv.wnd = 0`
is left out since nothing changes the window; `raw_data` of a segment is always
allocated, and so is the segment of an active open, whose results the code does not check.
`tx->ack` is written and never used. A control block that was freed keeps meaningless
fields under the state `FREE`.

Operators whose comment begins with `Variant` are not part of the model: each is a
plausible slip in the definition that follows it, and shows which property notices it.

### TcpEndpoint
One control block; every segment of `Arrivals` can arrive from every peer at any time, the
user calls what it may, timers expire. `Next` has one action per entry point of the module.

### TcpPair, Stream
Two control blocks and `net`. With `KeepCopies` the network holds every segment ever sent
and delivers any of them any number of times or never, which covers loss, duplication,
delay and reordering at once; without it a segment is delivered once or lost within a
budget. `sent`, `taken`, `seen` are history. `Stream` is what TCP promises of one direction;
`ToServerIsStream` and `ToClientIsStream` instantiate it with the refinement mapping
"arrived = taken by the user, then what is queued, without the byte that a FIN puts there".

### EtherArp
`used` are the flags of the pool, `listed` the members of `arp_table`, `item` their contents.
`Send` is `ip_ether_send` with the request that a miss sends, `Receive` is
`ether_arp_ether_recv`, `Store` its loop around the allocation. A host stands for its IP and
its MAC address.

### Dhcp
`client` is `only`. `Loop` is `dhcp_loop()`: the handler of T1, that of T2, then the receive
queue, of which the buffer shows only the last datagram. A repeated REQUEST reads its
server identifier through `msg.option`, which by then points into a frame that returned or a
block that was freed; the model takes both outcomes (`Requests`). Time is in ticks; the
1, 3 and 5 seconds of the code are one tick, the lease eight.

### Dblk
A pointer to a node is the sequence of the nodes from there on; a block begins where `Starts`
says and ends with the first node without `more` (`EndOfBlock`). `Freed` is what `dblk_delete`
or `dblk_list_delete` frees, `FreedTwice` what it would meet in two nodes. Memory has no
contents: a `data` pointer is a position in the text that the layer above hands down, so that
`NodeText` and `BlockText` (`dblk_node_copy_to`, `dblk_copy_to`) say which parts of that text
reach the wire. `FragmentTurn` is one turn of the loop of `dblk_fragment`, `FragmentFrom` its
three cases, `GoesOn` the case of a fragment that needs the next nodes; `Stop` is the walk of the
inner loop.
`Fragment` was compared with the compiled function on 504 lists of one to four nodes.
Nodes are always allocated: the code does not check it and would write through NULL.

### Ip
A call of `ip_hl_send` runs to its end, so that it is one step, for each of its three callers.
What the rest of the system answers is chosen with it: for every packet "refused" (no MAC
address, no memory for a frame), "sent" or "given_up" (three refusals of the driver); whether
`dblk_copy` found memory; what the flags of a header hold that nobody set. `live` is what is
allocated, named by the call and the number of the fragment; `last` is the last call and what
it did. `LlSend` is `ip_ether_send`: one frame for each block of the list it is given, and
each block deleted when its frame was taken.

| Code | Model |
|---|---|
| `ip_hl_send`, its loop over the fragments | `HlSend`, `AllFragments`, `FragmentLoop` |
| `ip_header_pack` (lengths and offsets) | `Header` |
| `ip_ether_send` | `LlSend` |
| `tcp_ip_send`, `_sendto` / `udp_sendto`, `icmp_ip_recv` | `SendSegment`, `SendDatagram`, `ReplyEcho`, with `PayloadOf` and `HandDown` |

### Sockets
Composes the control blocks of `TcpTcb` on one host. `heap` is the memory that `malloc` can
give to a control block, `tcpList` is `tcp_list`, `sk` are the sockets with their pointer
`tcp`, `binds` is `udp_list`, and `app` is what the application knows of its sockets. One
action per BSD call; `SegmentArrives` is `tcp_ip_recv` with its search (`Demux`), `TcpLoop`
one call of `tcp_loop` over the whole list with any set of timers expired, `DatagramArrives`
is `udp_ip_recv` down to the queue of the socket.

The order of the pool is left out (any free socket is taken), and so is what a free socket
still holds: `close` leaves `module.tcp` in it, and an application as below never reads it
before it is written. The application follows the test programs: it closes a stream socket that
is ESTABLISHED or in CLOSE_WAIT (`test/dts_bsd_socket_tcp_client_test.c:40`,
`test/dts_bsd_socket_tcp_server_test.c:97`) and no other; section 6 says what becomes of the
others. The peers send what is in `Segs`, in any order and any number of times; their
sequence numbers lie further apart than the window, and only a server answers with a
SYN,ACK. When `tcp_loop` has freed the control block of an open socket, the next use of the
socket reads freed memory: the model ends in that state (`Dangling`), and
`FreesOnlyRefused` says which single history leads there.

## 4. Runs

| Run | Shows | Bounds |
|---|---|---|
| `seq_window` | `sncmp` is exact on intervals that do not wrap, and on all open ones | 8 numbers, all intervals, all positions |
| `endpoint` | timers, `tx_seg`, queues and send window stay consistent against every segment | circle of 4, window 2, queues of 2 blocks |
| `pair` | both directions are reliable streams; no reset; no end believes what is not so | 2 bytes one way, 1 the other, every copy kept, either side closes first |
| `pair_stale` | a delayed SYN of an earlier connection, IP and block failures: the handshake recovers and the stream is right | 1 byte, one stale SYN |
| `pair_live` | text is delivered both ways after any one loss but the SYN,ACK | 1 byte each way, 1 loss |
| `pair_close` | connecting and closing complete | 1 byte, 2 losses |
| `pair_syn_ack` (violation) | one lost SYN,ACK and the client never connects | no text, 1 loss |
| `pair_recv` (violation) | a `tcp_recv` over two blocks returns the second over the first | 2 bytes |
| `ether_arp` | addresses resolve, correctly, and the table does not leak | 3 hosts, 2 entries, 1 loss, 1 hasty repetition |
| `dhcp` | the address held was acknowledged, is renewed in time and not given up early | 2 addresses, 8 ticks, 1 loss, 1 foreign reply, 3 ticks late |
| `ip` | packets tile the payload, every block is freed once, only what the driver refused three times leaks | 2 calls, sizes of 1 to 3 fragments and one off each, every outcome of every packet |
| `sockets` | one socket per control block, none forgotten, segments and datagrams find their own | 3 sockets, 2 control blocks, 2 peers, 2 ports, 1 block queued, sequence numbers of SYN, one byte and FIN |

Why the bounds are enough. In `endpoint` the circle of 4 makes every pair of numbers
meet in every relation and wrap; two blocks are the least queue with a block behind the
outstanding one. In `pair` two bytes give two segments, hence an old copy of the first
while the second is outstanding; numbers do not wrap there (`BoundAssumption`), wrapping
belongs to `endpoint` and `seq_window`. In `ether_arp` two entries for two neighbours is the
least table with something to evict wrongly; a repetition in haste makes two entries for
one neighbour. In `dhcp` a poll three ticks late lets T1 and T2 expire in the same poll,
the only way into REBINDING.
In `ip` the sizes have the real 1400 and 20; a third fragment is the first to lie between two
others, and UDP's payload of two nodes puts the end of a node before, at and behind the end of
a fragment. A second call shows that what the first left allocated stays apart. In `sockets`
two control blocks are a listener and what it accepted, or two connections of one port, and
with a third nothing new would meet: the properties relate two sockets or two control blocks.
Three sockets are a listener, an accepted connection and a third that connects, or a datagram
socket that finds its port taken. Memory, sockets and ports are all used again. Addresses
and sockets are symmetric.

Deadlock is not checked where the system really stops: all text sent, all control blocks
freed, all datagrams sent, a socket left with freed memory.

### Fairness
`TcpPair`: the driver is polled and `tcp_loop()` is called for ever (weak fairness of each
kind of delivery, of expiry and of freeing), and a user whose peer has closed closes its side
and reads, as the test programs do. Nothing forces a user to send, or to close first. Losses
are bounded, so that what is repeated arrives in the end. The liveness runs leave out the
losses from which the code does not recover: the SYN,ACK, and a bare ACK of the client.
`EtherArp`: a datagram that was refused is tried again, as TCP does at its timeout; all but
`MaxHaste` times after the earlier request and its answer are through, since the timeout
is seconds and the exchange is not. `Dhcp`: `dhcp_loop()` is called, messages arrive,
the server answers.

## 5. Proofs

`SeqWindowProofs` proves, for words of every width, that `sncmp()` is exact on the intervals that do not wrap (`SncmpIsRight`) and on all
open ones (`SncmpOpenIsRight`).

`TcpProofs` proves the seven invariants of `TcpEndpoint` for every circle, window, set of
peers, bytes, segments and failures. The assumptions are those of the modules
(`SnModAssumption`, `WndAssumption`, `NoneAssumption`, `JunkAssumption`, `InputsAssumption`).
There is a lemma for each helper in `TcpTcbLemmas` (it yields a control block and changes only
certain fields: `SameSender` for those that leave the sending half alone), one for each
handler, one for each action. Three inductive invariants:

- `IInv`, the conjunction of `TypeOK`, `TimerCovers`, `TxFitsState`, `FinIsLast`. The timer's
  invariant alone is not inductive, because whether a handler re-arms the timer depends on
  whether `tx_seg` holds data or the FIN, which `TxFitsState` ties to the state, and on nothing
  being queued behind a FIN, which is `FinIsLast`.
- `Windowed` for `SendWindow`: only a passive open is ever in LISTEN or SYN_RECEIVED, and in
  SYN_SENT the window is the SYN, so that the ACK that ends the handshake leaves it empty.
- `Busy` for `NoIdleQueue` and `ClosingProgress`: nothing is queued before the connection is up,
  and text behind nothing appears in no state that serves the queue. These two theorems have
  the hypothesis `\A e \in Envs : e.seg`: every `mem_alloc_tcp_segment()` returns a segment.
  Without it they are false of the code (hazard at `dts_net_tcp.c:351`).

`TcpPairProofs` proves, for two hosts, any amount of text, any window, any initial numbers that
do not wrap (`BoundAssumption`), any answers of IP and of the allocators, with and without
`KeepCopies`: `NoReset`, `HandshakeAgreed`, `AckedIsReceived`, `NoJunkToUser`, `RcvNxtAdvances`.
The hypothesis is `Stale = {}`, no segment of an earlier connection is in the network; the run
`pair_stale` has one, so that with a stale SYN `HandshakeAgreed` is only model-checked.
The inductive invariant `IInv` says of each end
what its peer may rely on, and of each segment in flight what stays true while both ends go on:

- `Role`: which states a client and a server can be in, and with which numbers.
- `Sender`: how what was sent, what is outstanding and what is queued share the numbers from the
  ISN to the limit of the text; a queued block has its place (`Room`) before the FIN.
- `Trusts`: `snd.una` of one end is not beyond `rcv.nxt` of the other, nor that beyond `snd.nxt`,
  and who knows the peer's ISN. `Ends`: who is past the other's FIN.
- `InFlight`, by `SegOk`: what a segment acknowledges was received, the text it carries and its
  FIN were numbered. These bounds are monotone (`Grown`), so old copies satisfy them for ever.
- `Clean`: the queue of an ESTABLISHED connection holds text. It is what makes the FIN's byte
  impossible, and rests on FINs being numbered behind all text.

None of the theorems is inductive alone: `AckedIsReceived` needs that an ACK in flight names a
number that was received, that needs that a segment in flight was numbered by its sender, and
that a duplicate of it is not taken for a new one needs the order of `una`, `rnxt` and `nxt`
again. Each handler keeps the whole (`EstablishedKeeps`, `FinWait2Keeps`, `CountKeeps` ...),
`StepKeeps` composes them with the network.

The second half of `TcpPairProofs` proves the refinement, `ToServerIsStream` and
`ToClientIsStream`, with one more hypothesis, `\A e \in Envs : e.seg`. It is needed:
`tcp_send()` counts text as accepted that `tcp_construct_data_segment()` has taken from the queue
when it finds no segment to put it in (`dts_net_tcp.c:351`), and what comes after it is then
not what the peer's user should read next. The invariant `CInv` holds beside `IInv` and speaks of
the text where `IInv` speaks of numbers:

- `Says`, of a segment: its text lies in what its sender's user has sent where its sequence
  number says. It stays true as the user sends more, so old copies satisfy it for ever.
- `Tells`, of a sender: what has a number and what is queued, put together, are what its user
  has sent; with a FIN made, the last number is behind all of it.
- `Hears`, of a receiver: what its user took and what is queued for it are what the peer sent up
  to `rcv.nxt`, and all of it once the FIN was seen.

The step that matters is an accepted segment: `handle_data()` stores it when its number is
`rcv.nxt`, `Says` and `Hears` then place its text in the same sequence at the same place, and two
ways to cut one sequence at one place are the same cut (`Cancel`), so that what is stored is what
comes next (`NextPart`, `HearsMore`). The FIN is the end of the stream because `IInv` has it
numbered behind all text. Each handler is shown to tell and to hear (`EstablishedGoes`,
`ReceivedGoes` ...), each action to make a step of the streams of both hosts (`Flow`,
`EveryStepFlows`), and a `Flow` is a step of `Stream` under the refinement mapping
(`ToServerStep`, `ToClientStep`).

`FlattenSeq` of the community modules is recursive. What it returns for every queue
(`FlattenType`, `FlattenAppend`, `FlattenConcat`), and that `tcp_recv()` takes from the front of
the queue what it leaves out of it (`RecvConserves`), is proved in `TcpTcbLemmas` without an
induction rule, by a least counterexample: a set of numbers that is not empty has a least member
(`Least`, from the library's well-foundedness of `<`). The same argument gives `Min` in
`EtherArpProofs`.

`EtherArpProofs` proves, for every number of hosts, entries, losses and hasty repetitions, the
four safety properties of `EtherArp`, and that the loop around `mem_alloc_arpti()` ends
(`AllocationEnds`): a pool with nothing free has an entry to give back. The inductive
invariant adds to `TypeOK` and `NoItemLost` that no packet and no entry joins the addresses of
two hosts, without which a table could turn a false packet into a false frame.

`DhcpProofs` proves, for every lease, every T1 and T2, every retry time and every order of
polls, messages and expiries, that the timers stay in range (`TypeOK`), that T1 runs in
every state that has a REQUEST to repeat (`KeepsAsking`), that BOUND is left before the lease
ends (`RenewsInTime`) and that an address is given up only when it has ended (`KeepsLease`).
The assumption is `DhcpAssumption`; its part `MaxLate < Lease - T1Lease` says that
`dhcp_loop()` is called at least once in the second half of a lease, without which no client
could renew. The inductive invariant adds two bounds to `TypeOK` and `KeepsAsking`:
`Covers` (T2, and after it the rest of the lease, last at least as long as the lease) and
`EndsEarly` (T1, less the ticks its handler is late, leaves the second part of the lease).
Without them `left` and the timers are unrelated, and a client that reaches the end of T2
could not know that its lease is over. The lemmas follow `dhcp_loop()`: the handler of a
timer, each of the two timers, the received message, then one lemma for each action.
`HoldsAcknowledged` has an invariant of its own, `SoloInv`, about a client that heard no reply
to another (`foreign = 0`): a DISCOVER on its way is alone, all that the server says is about
the address it offered last, which the client bargains for and holds (`Agrees`), and a client
in INIT runs no timer (`Quiet`), so that an old T1 can not bring an earlier bargain back.

`SocketsProofs` proves, for any number of sockets, control blocks, ports, binds and peers, the
five invariants of `Sockets` and `FreesOnlyRefused`. It begins with what an event can do to one
control block (`ReceivedMoves`: along the `Diagram` of states; `SendMoves`, `CloseMoves`,
`LoopMoves`), on the lemmas of `TcpTcbLemmas`. The inductive invariant is `IInv`:

- `Listed` and `Exclusive`, which together are `OwnsItsBlock`, and `NoOrphan`.
- `InService`: the control block of an open socket is in a state in which the socket can find it;
  in CLOSED it still has its SYN. `Listens`: that of a listener is passive and has its port.
  Together: `tcp_loop` never frees under a listener or an established connection, since a passive
  one goes back to LISTEN and only `close` leads to the other states that are freed.
- `Behind`: a passive control block for its port that stands in `tcp_list` behind that of a
  listener was opened by another listener of that port. `accept` appends the new listening
  control block behind the connection it gave away, so that the search, which takes the last
  passive one, finds it. This is what makes `DemuxServes` true, and needs the order of the list,
  which `tcp_loop` keeps when it takes elements out (`WithoutLeft`).
- `Binds`: `udp_list` holds the bound datagram sockets, one for each port, and their queues hold
  datagrams of that port.

`NextStep` has the invariant kept by every action, and, for every action but `tcp_loop`, that no
open socket loses its control block (`Live`). `StreamsStayApart` has an invariant of its own,
`Own`: text is queued in ESTABLISHED only, by then the peer is known and `rcv.nxt` is one of that
peer's numbers. Its hypothesis, `PeersApart`, is what the search and the window do not check
themselves: the sequence numbers of two peers do not meet, and there is one server to connect to.
The instance of the run satisfies it (`MCPeersApart`). The parts of `IInv` were checked as invariants
of that instance before they were proved.

`IpProofs` proves, for every size of a fragment, every length of the payloads of TCP, UDP and
ICMP and every answer to every packet, the three invariants of `Ip`. The assumption is
`IpAssumption`: a fragment and a header have at least eight bytes, and so has what UDP and ICMP
send, their headers included. The invariant that is kept, `IInv`, adds to the three that the
counter names no memory twice (`AllocatedBefore`). Each call starts afresh, so the work is in
what one call does, and that is two loops over arrays that the model writes as recursive
functions. That such a function exists for every number of turns (`TurnsExist`, `LoopsExist`)
and that what a turn keeps holds at the end is shown by a least counterexample, as above:

- `dblk_fragment()`: after k turns there are k fragments, the j-th covers the j-th part of the
  text, and the next turn begins in the last node of the payload at the end of the k-th part
  (`After`). The first turn over UDP's header and the node behind it has a lemma of its own
  (`FirstTurn`), because it is the one that goes on in another node; all others are `LaterTurn`.
- The loop of `ip_hl_send()`: until a packet is refused, what is sent is freed and nothing else,
  and the offset is not behind the text; after a refusal the payload and every fragment but those
  that were given up before it are freed, each once (`LoopState`, `LoopTurn`, `RefusalFrees`).
  It rests on fragments having nodes of their own (`NodesDiffer`, `NodesApart`).

What the callers pass is a `Payload` of one node or two (`PayloadOfIs`); a segment that could not
be copied is a case by itself (`NotCopied`). `Copied` has the deletion by `tcp_ip_send` after
that of `ip_hl_send`, and with it the exception that `FreedOnce` names.

Only model-checked: all liveness, which is out of the prover's reach, and the connection with a
stale SYN in the network.

## 6. What the code does differently from what it says

Checked by a violation run: the lost SYN,ACK, `tcp_recv` over two blocks. Seen while
modelling, and part of the models though no run shows them:

- `dts_net_tcp.c:204-215`: for an interval that wraps around zero and includes an end, `sncmp`
  answers the opposite of the comments beside it, so that good ACKs and segments are refused
  while a window wraps (`SncmpRight` leaves these intervals out).
- `dts_net_tcp.c:678`: every SYN that LISTEN answers adds one to snd.nxt, so that after a second
  handshake of the same control block SND.NXT is one too high and the ACK of its first data is
  not taken for complete.
- `dts_net_tcp.c:642-651`: an ACK in LISTEN is refused but the function goes on.
- `dts_net_tcp.c:690-693`: a RST with a bad ACK in SYN_SENT is not dropped.
- `dts_net_tcp.c:456-464`: a repeated FIN is not acknowledged in TIME_WAIT.
- `dts_net_tcp.c:849-851, 1010`: text that is unread when the FIN arrives can no longer be read.
- `dts_net_tcp.c:867-873`: CLOSING is a TODO; a simultaneous close does not end.
- `dts_net_tcp.c:1064-1067`: the queues of a control block stay allocated when it is freed.
- `dts_net_tcp.c:259-274`: only the search looks at the sender. An active control block takes
  every segment for its port, so that a `connect` whose random port is that of a listener takes
  the listener's segments until it ends; a segment of an unknown peer goes to the last passive
  control block, connected or not, and there the window alone keeps it out.
- `dts_net_ip.c:171`: the offset of a fragment counts the header of those before it:
  `PacketsTile` states that the fragments never overlap, since that is all that holds.
- `dts_net_ip.c:154`: the flags are set for fragments only; below 1400 bytes TCP and UDP send
  what the stack held.
- `dts_net_ip.c:192`: nothing puts fragments together again.
- `dts_net_ip.c:166`, `dts_net_tcp.c:297`: a segment of more than one packet that is refused is
  deleted twice (the exception in `FreedOnce`). TCP of this stack sends such a segment
  only when its user passes 1380 bytes or more to one `tcp_send`.
- `dts_net_tcp.c:295`: when `dblk_copy` fails an empty packet is sent and counts as success.
- `dts_net_tcp.c:1021`: a `tcp_send` of zero bytes queues a segment that no ACK completes.
- `dts_net_ether_arp.c:63-75`: a packet that was given up leaks and counts as sent.
- `dts_net_ether_arp.c:89`: the table is searched without looking at the timers.
- `include/dts_net_dblk.h:236`: when the rest of a last fragment spreads over three nodes, or its
  last node is the short one, `dblk_fragment` leaves it the full size. No caller builds such
  blocks.
- `socket/socket.c:181`: a connection whose peer sent its FIN before `accept` is never accepted,
  and its listener never listens again; nor does one whose `tcp_open` failed in `accept`.
- `socket/socket.c:116, 201`: `close` of a stream socket that was not connected acts on the
  connection of its last user, if there is one again in that memory; in LISTEN, SYN_SENT and
  SYN_RECEIVED it leaves the control block on the list for ever.
- `socket/socket.c:146`, `dts_net_udp.c:111`: a failed `bind` empties the queue; binds are never
  undone, so that the port of a closed socket stays taken.
- `dts_net_dhcp.c:457`: T2 is stopped before its handler asks whether it expired.
- `dts_net_dhcp.c:430`: NAK and foreign messages overwrite the offer before being ignored.
- `dts_net_dhcp.c:273`: xid is never compared.

## 7. Not modelled

`ip_ll_recv`, ICMP other than the echo reply, Ethernet frames, ARP packing, checksums, byte
order: conversions and dispatch without state; a frame that is damaged counts as lost.
`dblk_seek`, `dblk_write` and the conversion of virtual nodes, which only tests call. The memory
of the queues of a control block. IP options (no caller sets any). Several interfaces of one
host: every test program has one. Applications that close sockets which are not connected
(section 6). The tick counter: timers stand for it.
