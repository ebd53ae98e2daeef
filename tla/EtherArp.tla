------------------------------ MODULE EtherArp ------------------------------
(***************************************************************************)
(* Address resolution on one Ethernet (dts_net_ether_arp.c): hosts that    *)
(* all run the module ask each other for MAC addresses, answer, and keep   *)
(* the answers in a table whose entries come from a small pool.  A host    *)
(* stands both for its IP address and for its MAC address.                 *)
(*                                                                         *)
(* The order of the list arp_table is that of dts.datastruct and not known *)
(* here: a search may find any entry that fits.                            *)
(***************************************************************************)
EXTENDS Integers, FiniteSets, FiniteSetsExt

CONSTANTS
  Host,     \* the hosts on the network
  Pairs,    \* <<h, d>>: h may have a datagram for d
  Slots,    \* DTS_NET_ARP_TABLE_MAX_SIZE
  Life,     \* the two hours of an entry, in ticks
  MaxLoss,  \* bound: how many ARP packets are lost
  MaxHaste, \* bound: how many requests are repeated before the last was answered
  None

Slot == 1 .. Slots

ASSUME ArpAssumption ==
  /\ Slots \in Nat \ {0} /\ Life \in Nat \ {0} /\ MaxLoss \in Nat /\ MaxHaste \in Nat
  /\ None \notin Host
  /\ Pairs \subseteq {p \in Host \X Host : p[1] # p[2]}

VARIABLES
  used,    \* per host: the items of the pool that mem_alloc_arpti() gave out
  listed,  \* per host: those that arp_table holds
  item,    \* per host and item: ip, mac and the time that remains
  want,    \* the pairs whose datagram still has to be sent
  net,     \* the ARP packets on the way, each with the host that will get it
  lost,    \* how many were lost
  hasty,   \* how many requests were repeated early
  wire     \* history: the IP datagrams sent, [from, ip, mac]

vars == <<used, listed, item, want, net, lost, hasty, wire>>
tables == <<used, listed, item>>

Op == {"REQ", "RPL"}
Packet == [op: Op, sha: Host, spa: Host, tha: Host \cup {None}, tpa: Host]

Init ==
  /\ used = [h \in Host |-> {}]
  /\ listed = [h \in Host |-> {}]
  /\ item \in [Host -> [Slot -> {[ip |-> None, mac |-> None, left |-> 0]}]]
  /\ want = {}
  /\ net = {}
  /\ lost = 0
  /\ hasty = 0
  /\ wire = {}

-----------------------------------------------------------------------------
\* The table.

\* The items list_find() may return for an address.  Nobody looks at their time.
Entries(h, ip) == {s \in listed[h] : item[h][s].ip = ip}

\* Variant: the longest time that remains.
VictimsLongest(h) ==
  {{s} : s \in {s \in listed[h] : \A r \in listed[h] : item[h][s].left >= item[h][r].left}}

\* The items one pass over a full table gives back: all that have expired,
\* or one with the shortest time that remains.
Victims(h) ==
  LET dead == {s \in listed[h] : item[h][s].left = 0}
      shortest == {s \in listed[h] : \A r \in listed[h] : item[h][s].left <= item[h][r].left}
  IN  IF dead # {} THEN {dead} ELSE {{s} : s \in shortest}

\* Variant: the items are taken off the list and not given back.
StoreLeaking(h, entry) ==
  \E v \in IF Slot \ used[h] # {} THEN {{}} ELSE Victims(h) :
    LET s == Min(Slot \ (used[h] \ v)) IN
    /\ used' = [used EXCEPT ![h] = @ \cup {s}]
    /\ listed' = [listed EXCEPT ![h] = (@ \ v) \cup {s}]
    /\ item' = [item EXCEPT ![h][s] = entry]

\* The loop of ether_arp_ether_recv() around mem_alloc_arpti().
Store(h, entry) ==
  \E v \in IF Slot \ used[h] # {} THEN {{}} ELSE Victims(h) :
    LET s == Min(Slot \ (used[h] \ v)) IN
    /\ used' = [used EXCEPT ![h] = (@ \ v) \cup {s}]
    /\ listed' = [listed EXCEPT ![h] = (@ \ v) \cup {s}]
    /\ item' = [item EXCEPT ![h][s] = entry]

-----------------------------------------------------------------------------
\* A broadcast reaches every other host; a unicast the host whose MAC it names.
Broadcast(h, pkt) == {[to |-> g, pkt |-> pkt] : g \in Host \ {h}}

\* ether_arp_ask_ip(), which ether_arp_get_mac_address() calls on a miss.
Ask(h, ip) == Broadcast(h, [op |-> "REQ", sha |-> h, spa |-> h, tha |-> None, tpa |-> ip])

\* Variant: the MAC address of the sender of the request stays.
AnswerStale(h, pkt) == [op |-> "RPL", sha |-> pkt.sha, spa |-> h, tha |-> pkt.sha, tpa |-> pkt.spa]

\* The reply, written over the request.
Answer(h, pkt) == [op |-> "RPL", sha |-> h, spa |-> h, tha |-> pkt.sha, tpa |-> pkt.spa]

\* Some layer above has a datagram for d (again).
Want(h, d) == /\ <<h, d>> \in Pairs \ want
              /\ want' = want \cup {<<h, d>>}
              /\ UNCHANGED <<tables, net, lost, hasty, wire>>

\* The timers of the layer above run for seconds, a request and its answer take
\* less: all but MaxHaste repetitions come when neither is on the way any more.
Paced(h, d) ==
  LET asked == \E m \in net : m.pkt.op = "REQ" /\ m.pkt.spa = h /\ m.pkt.tpa = d
      answered == \E m \in net : m.pkt.op = "RPL" /\ m.to = h /\ m.pkt.spa = d
  IN  IF asked \/ answered THEN hasty < MaxHaste /\ hasty' = hasty + 1 ELSE UNCHANGED hasty

\* Variant: only a host with an empty table asks.
SendAsksOnce(h, d) ==
  /\ <<h, d>> \in want
  /\ \/ /\ Entries(h, d) = {}
        /\ net' = IF listed[h] = {} THEN net \cup Ask(h, d) ELSE net
        /\ Paced(h, d)
        /\ UNCHANGED <<want, wire>>
     \/ \E s \in Entries(h, d) :
          /\ want' = want \ {<<h, d>>}
          /\ wire' = wire \cup {[from |-> h, ip |-> d, mac |-> item[h][s].mac]}
          /\ UNCHANGED <<net, hasty>>
  /\ UNCHANGED <<tables, lost>>

\* ip_ether_send(): 0, and a request, when the address is not in the table.
\* The layer above then tries again later, as TCP does when its timer expires.
Send(h, d) ==
  /\ <<h, d>> \in want
  /\ \/ /\ Entries(h, d) = {}
        /\ net' = net \cup Ask(h, d)
        /\ Paced(h, d)
        /\ UNCHANGED <<want, wire>>
     \/ \E s \in Entries(h, d) :
          /\ want' = want \ {<<h, d>>}
          /\ wire' = wire \cup {[from |-> h, ip |-> d, mac |-> item[h][s].mac]}
          /\ UNCHANGED <<net, hasty>>
  /\ UNCHANGED <<tables, lost>>

\* ether_arp_ether_recv(): a reply is stored, whoever asked for it; a request
\* for an address of this host is answered to the MAC address it came from.
Receive(m) ==
  LET h == m.to
      pkt == m.pkt
  IN  /\ m \in net
      /\ \/ /\ pkt.op = "RPL"
            /\ Store(h, [ip |-> pkt.spa, mac |-> pkt.sha, left |-> Life])
            /\ net' = net \ {m}
         \/ /\ pkt.op = "REQ"
            /\ net' = (net \ {m}) \cup
                 (IF pkt.tpa = h THEN {[to |-> a.tha, pkt |-> a] : a \in {Answer(h, pkt)}} ELSE {})
            /\ UNCHANGED tables
      /\ UNCHANGED <<want, lost, hasty, wire>>

Lose(m) == /\ m \in net
           /\ lost < MaxLoss
           /\ lost' = lost + 1
           /\ net' = net \ {m}
           /\ UNCHANGED <<tables, want, hasty, wire>>

\* Variant: the time that remains goes below zero.
TickPast == /\ \E h \in Host : listed[h] # {}
            /\ item' = [h \in Host |-> [s \in Slot |->
                         IF s \in listed[h] THEN [item[h][s] EXCEPT !.left = @ - 1] ELSE item[h][s]]]
            /\ UNCHANGED <<used, listed, want, net, lost, hasty, wire>>

\* Time passes; an entry that has expired stays in the table.
Tick == /\ \E h \in Host : \E s \in listed[h] : item[h][s].left > 0
        /\ item' = [h \in Host |-> [s \in Slot |->
                     IF s \in listed[h] /\ item[h][s].left > 0
                     THEN [item[h][s] EXCEPT !.left = @ - 1] ELSE item[h][s]]]
        /\ UNCHANGED <<used, listed, want, net, lost, hasty, wire>>

Next == \/ \E h, d \in Host : Want(h, d) \/ Send(h, d)
        \/ \E m \in net : Receive(m) \/ Lose(m)
        \/ Tick

Spec == Init /\ [][Next]_vars

\* Frames that are not lost arrive, and the layer above tries again.
Fairness == /\ \A h, d \in Host : WF_vars(Send(h, d))
            /\ \A h, g \in Host, op \in Op :
                 WF_vars(\E m \in net : m.to = h /\ m.pkt.sha = g /\ m.pkt.op = op /\ Receive(m))

FairSpec == Spec /\ Fairness

-----------------------------------------------------------------------------
(* The entries of arp_table are items of the pool, and what remains of      *)
(* their two hours is never negative.                                       *)
TypeOK ==
  /\ used \in [Host -> SUBSET Slot]
  /\ listed \in [Host -> SUBSET Slot]
  /\ item \in [Host -> [Slot -> [ip: Host \cup {None}, mac: Host \cup {None}, left: 0 .. Life]]]
  /\ want \subseteq Pairs
  /\ net \subseteq [to: Host, pkt: Packet]
  /\ lost \in 0 .. MaxLoss
  /\ hasty \in 0 .. MaxHaste
  /\ wire \subseteq [from: Host, ip: Host, mac: Host]

(* Every item the pool gave out is in the table, so that a full pool always *)
(* finds something to evict and the loop around the allocation ends.        *)
NoItemLost == used = listed

(* A datagram is sent to the MAC address of the host it is for.             *)
ReachesItsHost == \A d \in wire : d.mac = d.ip

(* An entry that had longer to live than one that stays is never evicted.   *)
EvictsOldest ==
  [][\A h \in Host :
       LET gone == {s \in listed[h] : s \notin listed'[h] \/ item'[h][s].left > item[h][s].left}
       IN  \A s \in gone, r \in listed[h] \ gone : item[h][s].left <= item[h][r].left]_vars

(* A datagram that is tried again and again is sent, when the pool has an   *)
(* item for every host.                                                     *)
Resolves == \A p \in Pairs : p \in want ~> p \notin want
=============================================================================
