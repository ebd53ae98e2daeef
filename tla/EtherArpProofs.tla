--------------------------- MODULE EtherArpProofs ---------------------------
(***************************************************************************)
(* Theorems of EtherArp, for every set of hosts, every size of the table   *)
(* and every order of packets, losses and ticks.                           *)
(***************************************************************************)
EXTENDS EtherArp, WellFoundedInduction, TLAPS

\* A host stands for its IP and for its MAC address: no packet and no entry
\* joins the addresses of two hosts.
HonestPackets == \A m \in net : m.pkt.sha = m.pkt.spa
HonestEntries == \A h \in Host, s \in Slot : item[h][s].mac = item[h][s].ip

IInv == TypeOK /\ NoItemLost /\ HonestPackets /\ HonestEntries /\ ReachesItsHost

-----------------------------------------------------------------------------
(* The order of the natural numbers, as a relation.                         *)
LEMMA LessWellFounded == IsWellFoundedOn({p \in Nat \X Nat : p[1] < p[2]}, Nat)
  BY NatLessThanWellFounded DEF OpToRel

(* Min() returns the least element of a set of numbers that is not empty.   *)
LEMMA MinIn ==
  ASSUME NEW S \in SUBSET Nat, S # {}
  PROVE  Min(S) \in S /\ \A y \in S : Min(S) <= y
<1>. DEFINE R == {p \in Nat \X Nat : p[1] < p[2]}
<1>1. \A x, y \in Nat : <<y, x>> \notin R => x <= y
  OBVIOUS
<1>2. IsWellFoundedOn(R, Nat)
  BY LessWellFounded
<1>. HIDE DEF R
<1>3. \E x \in S : \A y \in S : <<y, x>> \notin R
  BY <1>2, WFMin
<1>4. \E x \in S : \A y \in S : x <= y
  BY <1>1, <1>3
<1>. QED BY <1>4 DEF Min

-----------------------------------------------------------------------------
(* What one pass over the table gives back is in the table, is not nothing, *)
(* and has no more time left than anything in the table.                    *)
LEMMA VictimsAreOldest ==
  ASSUME TypeOK, NEW h \in Host, NEW v \in Victims(h)
  PROVE  /\ v # {} /\ v \subseteq listed[h]
         /\ \A s \in v, r \in listed[h] : item[h][s].left <= item[h][r].left
<1>. DEFINE dead == {s \in listed[h] : item[h][s].left = 0}
            shortest == {s \in listed[h] : \A r \in listed[h] : item[h][s].left <= item[h][r].left}
<1>1. \A r \in listed[h] : item[h][r].left \in Nat
  BY ArpAssumption DEF TypeOK, Slot
<1>2. CASE dead # {}
  <2>1. v = dead
    BY <1>2 DEF Victims
  <2>. QED BY <2>1, <1>2, <1>1
<1>3. CASE dead = {}
  <2>1. PICK s \in shortest : v = {s}
    BY <1>3 DEF Victims
  <2>. QED BY <2>1
<1>. QED BY <1>2, <1>3

(* A table that is not empty has an entry to give back.                     *)
LEMMA VictimsExist ==
  ASSUME TypeOK, NEW h \in Host, listed[h] # {}
  PROVE  Victims(h) # {}
<1>. DEFINE Left == {item[h][s].left : s \in listed[h]}
<1>1. Left \subseteq Nat /\ Left # {}
  BY ArpAssumption DEF TypeOK, Slot
<1>2. Min(Left) \in Left /\ \A y \in Left : Min(Left) <= y
  BY <1>1, MinIn
<1>3. \E s \in listed[h] : \A r \in listed[h] : item[h][s].left <= item[h][r].left
  BY <1>2
<1>. QED BY <1>3 DEF Victims

\* No entry leaves the table of a host before one that has less time left.
OldestGoes(h) ==
  LET gone == {s \in listed[h] : s \notin listed'[h] \/ item'[h][s].left > item[h][s].left}
  IN  \A s \in gone, r \in listed[h] \ gone : item[h][s].left <= item[h][r].left

(* The loop around mem_alloc_arpti(): an item is found, and all of the      *)
(* invariant that is about the tables is kept.                              *)
LEMMA StoreStep ==
  ASSUME TypeOK, NoItemLost, HonestEntries, NEW h \in Host,
         NEW e \in [ip: Host, mac: Host, left: 0 .. Life], e.mac = e.ip,
         Store(h, e)
  PROVE  /\ used' \in [Host -> SUBSET Slot] /\ used' = listed'
         /\ item' \in [Host -> [Slot -> [ip: Host \cup {None}, mac: Host \cup {None}, left: 0 .. Life]]]
         /\ HonestEntries'
         /\ \A g \in Host : OldestGoes(g)
<1>1. PICK v \in IF Slot \ used[h] # {} THEN {{}} ELSE Victims(h) :
        LET s == Min(Slot \ (used[h] \ v)) IN
        /\ used' = [used EXCEPT ![h] = (@ \ v) \cup {s}]
        /\ listed' = [listed EXCEPT ![h] = (@ \ v) \cup {s}]
        /\ item' = [item EXCEPT ![h][s] = e]
  BY DEF Store
<1>. DEFINE s == Min(Slot \ (used[h] \ v))
<1>2. used[h] = listed[h] /\ used[h] \subseteq Slot /\ Slot \subseteq Nat
  BY DEF TypeOK, NoItemLost, Slot
<1>3. v \subseteq listed[h] /\ \A x \in v, r \in listed[h] : item[h][x].left <= item[h][r].left
  BY <1>1, VictimsAreOldest
<1>4. Slot \ (used[h] \ v) # {}
  BY <1>1, <1>2, VictimsAreOldest
<1>5. s \in Slot /\ s \notin listed[h] \ v
  BY <1>2, <1>4, MinIn
<1>6. used' = [used EXCEPT ![h] = (@ \ v) \cup {s}] /\ listed' = [listed EXCEPT ![h] = (@ \ v) \cup {s}]
      /\ item' = [item EXCEPT ![h] = [@ EXCEPT ![s] = e]]
  BY <1>1
<1>. HIDE DEF s
<1>7. /\ used' \in [Host -> SUBSET Slot] /\ used' = listed'
      /\ item' \in [Host -> [Slot -> [ip: Host \cup {None}, mac: Host \cup {None}, left: 0 .. Life]]]
  BY <1>5, <1>6 DEF TypeOK, NoItemLost
<1>8. item'[h] = [item[h] EXCEPT ![s] = e] /\ \A g \in Host \ {h} : item'[g] = item[g]
  BY <1>6 DEF TypeOK
<1>9. HonestEntries'
  <2>1. \A g \in Host \ {h}, x \in Slot : item'[g][x].mac = item'[g][x].ip
    BY <1>8 DEF HonestEntries
  <2>2. item[h] \in [Slot -> [ip: Host \cup {None}, mac: Host \cup {None}, left: 0 .. Life]]
    BY DEF TypeOK
  <2>3. item'[h][s] = e /\ \A x \in Slot \ {s} : item'[h][x] = item[h][x]
    BY <1>5, <1>8, <2>2
  <2>4. \A x \in Slot : item'[h][x].mac = item'[h][x].ip
    BY <2>3 DEF HonestEntries
  <2>. QED BY <2>1, <2>4 DEF HonestEntries
<1>10. \A g \in Host \ {h} : OldestGoes(g)
  <2>. SUFFICES ASSUME NEW g \in Host \ {h} PROVE OldestGoes(g)
    OBVIOUS
  <2>1. listed'[g] = listed[g] /\ item'[g] = item[g]
    BY <1>6, <1>8 DEF TypeOK
  <2>2. \A x \in listed[g] : item[g][x].left \in Nat
    BY ArpAssumption DEF TypeOK, Slot
  <2>. QED BY <2>1, <2>2 DEF OldestGoes
<1>11. OldestGoes(h)
  <2>1. listed'[h] = (listed[h] \ v) \cup {s}
    BY <1>6 DEF TypeOK
  <2>2. \A x \in listed[h] : item[h][x].left \in Nat
    BY ArpAssumption DEF TypeOK, Slot
  <2>3. \A x \in listed[h] \ v : x \in listed'[h] /\ item'[h][x] = item[h][x]
    BY <2>1, <1>2, <1>5, <1>8 DEF TypeOK
  <2>. QED BY <1>3, <2>2, <2>3 DEF OldestGoes
<1>. QED BY <1>7, <1>9, <1>10, <1>11

-----------------------------------------------------------------------------
LEMMA InitInv == Init => IInv
<1>. SUFFICES ASSUME Init PROVE IInv
  OBVIOUS
<1>1. \A h \in Host, s \in Slot : item[h][s] = [ip |-> None, mac |-> None, left |-> 0]
  BY DEF Init
<1>2. item \in [Host -> [Slot -> [ip: Host \cup {None}, mac: Host \cup {None}, left: 0 .. Life]]]
  BY ArpAssumption DEF Init
<1>3. HonestEntries
  BY <1>1 DEF HonestEntries
<1>. QED BY <1>2, <1>3, ArpAssumption
         DEF Init, IInv, TypeOK, NoItemLost, HonestPackets, ReachesItsHost

(* What the host has learnt is the address the frame needs.                 *)
LEMMA SendInv ==
  ASSUME IInv, NEW h \in Host, NEW d \in Host, Send(h, d)
  PROVE  IInv'
<1>. USE DEF IInv
<1>1. UNCHANGED <<used, listed, item, lost>>
  BY DEF Send, tables
<1>2. NoItemLost' /\ HonestEntries'
  BY <1>1 DEF NoItemLost, HonestEntries
<1>3. CASE /\ net' = net \cup Ask(h, d)
           /\ Paced(h, d)
           /\ UNCHANGED <<want, wire>>
  <2>1. \A m \in Ask(h, d) : m \in [to: Host, pkt: Packet] /\ m.pkt.sha = m.pkt.spa
    BY DEF Ask, Broadcast, Packet, Op
  <2>2. hasty' \in 0 .. MaxHaste
    BY ArpAssumption, <1>3 DEF Paced, TypeOK
  <2>. QED BY <1>1, <1>2, <1>3, <2>1, <2>2 DEF TypeOK, HonestPackets, ReachesItsHost
<1>4. CASE \E s \in Entries(h, d) :
             /\ want' = want \ {<<h, d>>}
             /\ wire' = wire \cup {[from |-> h, ip |-> d, mac |-> item[h][s].mac]}
             /\ UNCHANGED <<net, hasty>>
  <2>1. PICK s \in Entries(h, d) :
             /\ want' = want \ {<<h, d>>}
             /\ wire' = wire \cup {[from |-> h, ip |-> d, mac |-> item[h][s].mac]}
             /\ UNCHANGED <<net, hasty>>
    BY <1>4
  <2>2. item[h][s].mac = d
    BY DEF Entries, TypeOK, HonestEntries
  <2>. QED BY <1>1, <1>2, <2>1, <2>2 DEF TypeOK, HonestPackets, ReachesItsHost
<1>. QED BY <1>3, <1>4 DEF Send

(* A reply is stored, a request for this host answered to who asked.        *)
LEMMA ReceiveInv ==
  ASSUME IInv, NEW m \in net, Receive(m)
  PROVE  IInv' /\ \A g \in Host : OldestGoes(g)
<1>. USE DEF IInv
<1>1. m.to \in Host /\ m.pkt \in Packet /\ m.pkt.sha = m.pkt.spa
  BY DEF TypeOK, HonestPackets
<1>2. UNCHANGED <<want, lost, hasty, wire>>
  BY DEF Receive
<1>3. CASE m.pkt.op = "RPL"
  <2>. DEFINE e == [ip |-> m.pkt.spa, mac |-> m.pkt.sha, left |-> Life]
  <2>1. Store(m.to, e) /\ net' = net \ {m}
    BY <1>3 DEF Receive
  <2>2. e \in [ip: Host, mac: Host, left: 0 .. Life] /\ e.mac = e.ip
    BY <1>1, ArpAssumption DEF Packet
  <2>. HIDE DEF e
  <2>3. /\ used' \in [Host -> SUBSET Slot] /\ used' = listed'
        /\ item' \in [Host -> [Slot -> [ip: Host \cup {None}, mac: Host \cup {None}, left: 0 .. Life]]]
        /\ HonestEntries'
        /\ \A g \in Host : OldestGoes(g)
    BY <1>1, <2>1, <2>2, StoreStep
  <2>. QED BY <1>2, <2>1, <2>3 DEF TypeOK, NoItemLost, HonestPackets, ReachesItsHost
<1>4. CASE m.pkt.op = "REQ"
  <2>1. /\ net' = (net \ {m}) \cup
             (IF m.pkt.tpa = m.to THEN {[to |-> a.tha, pkt |-> a] : a \in {Answer(m.to, m.pkt)}} ELSE {})
        /\ UNCHANGED <<used, listed, item>>
    BY <1>4 DEF Receive, tables
  <2>2. \A n \in net' \ net : n \in [to: Host, pkt: Packet] /\ n.pkt.sha = n.pkt.spa
    BY <1>1, <2>1 DEF Answer, Packet, Op
  <2>3. net' \subseteq [to: Host, pkt: Packet] /\ HonestPackets'
    BY <2>2 DEF TypeOK, HonestPackets
  <2>4. TypeOK' /\ NoItemLost' /\ HonestEntries' /\ ReachesItsHost'
    BY <1>2, <2>1, <2>3 DEF TypeOK, NoItemLost, HonestEntries, ReachesItsHost
  <2>5. \A g \in Host : OldestGoes(g)
    BY <2>1, ArpAssumption DEF OldestGoes, TypeOK, Slot
  <2>. QED BY <2>3, <2>4, <2>5
<1>. QED BY <1>3, <1>4 DEF Receive

(* Time only shortens what remains, and takes nothing off the table.        *)
LEMMA TickInv ==
  ASSUME IInv, Tick
  PROVE  IInv' /\ \A g \in Host : OldestGoes(g)
<1>. USE DEF IInv
<1>. DEFINE Rec == [ip: Host \cup {None}, mac: Host \cup {None}, left: 0 .. Life]
            Down(h, s) == IF s \in listed[h] /\ item[h][s].left > 0
                          THEN [item[h][s] EXCEPT !.left = @ - 1] ELSE item[h][s]
<1>1. item' = [h \in Host |-> [s \in Slot |-> Down(h, s)]]
      /\ UNCHANGED <<used, listed, want, net, lost, hasty, wire>>
  BY DEF Tick
<1>2. \A h \in Host, s \in Slot :
        /\ Down(h, s) \in Rec /\ Down(h, s).mac = item[h][s].mac /\ Down(h, s).ip = item[h][s].ip
        /\ Down(h, s).left <= item[h][s].left
  <2>. SUFFICES ASSUME NEW h \in Host, NEW s \in Slot
       PROVE  /\ Down(h, s) \in Rec /\ Down(h, s).mac = item[h][s].mac /\ Down(h, s).ip = item[h][s].ip
              /\ Down(h, s).left <= item[h][s].left
    OBVIOUS
  <2>1. item[h][s] \in Rec
    BY DEF TypeOK
  <2>2. CASE s \in listed[h] /\ item[h][s].left > 0
    <3>1. item[h][s].left - 1 \in 0 .. Life /\ item[h][s].left - 1 <= item[h][s].left
      BY <2>1, <2>2, ArpAssumption
    <3>. QED BY <2>1, <2>2, <3>1
  <2>3. CASE ~(s \in listed[h] /\ item[h][s].left > 0)
    BY <2>1, <2>3, ArpAssumption
  <2>. QED BY <2>2, <2>3
<1>3. \A h \in Host, s \in Slot : item'[h][s] = Down(h, s)
  BY <1>1
<1>4. item' \in [Host -> [Slot -> Rec]]
  BY <1>1, <1>2
<1>. HIDE DEF Down, Rec
<1>5. HonestEntries'
  BY <1>2, <1>3 DEF HonestEntries
<1>6. \A g \in Host : OldestGoes(g)
  <2>1. \A g \in Host, s \in Slot : item[g][s].left \in Nat /\ item'[g][s].left \in Nat
    BY <1>4, ArpAssumption DEF TypeOK, Rec
  <2>2. \A g \in Host : \A s \in listed[g] : s \in listed'[g] /\ ~(item'[g][s].left > item[g][s].left)
    BY <1>1, <1>2, <1>3, <2>1 DEF TypeOK
  <2>. QED BY <2>2 DEF OldestGoes
<1>. QED BY <1>1, <1>4, <1>5, <1>6 DEF TypeOK, NoItemLost, HonestPackets, ReachesItsHost, Rec

(* No step leads out of the invariant, and none evicts a younger entry.     *)
LEMMA StepInv == IInv /\ [Next]_vars => IInv' /\ \A g \in Host : OldestGoes(g)
<1>. SUFFICES ASSUME IInv, [Next]_vars PROVE IInv' /\ \A g \in Host : OldestGoes(g)
  OBVIOUS
<1>. USE DEF IInv
<1>1. UNCHANGED tables => \A g \in Host : OldestGoes(g)
  BY ArpAssumption DEF OldestGoes, TypeOK, Slot, tables
<1>2. ASSUME NEW h \in Host, NEW d \in Host, Want(h, d)
      PROVE  IInv' /\ \A g \in Host : OldestGoes(g)
  <2>1. want' \subseteq Pairs /\ UNCHANGED <<used, listed, item, net, lost, hasty, wire>>
    BY <1>2 DEF Want, TypeOK, tables
  <2>. QED BY <1>1, <2>1 DEF TypeOK, NoItemLost, HonestPackets, HonestEntries, ReachesItsHost, tables
<1>3. ASSUME NEW h \in Host, NEW d \in Host, Send(h, d)
      PROVE  IInv' /\ \A g \in Host : OldestGoes(g)
  <2>1. UNCHANGED tables
    BY <1>3 DEF Send
  <2>. QED BY <1>1, <1>3, <2>1, SendInv
<1>4. ASSUME NEW m \in net, Receive(m)
      PROVE  IInv' /\ \A g \in Host : OldestGoes(g)
  BY <1>4, ReceiveInv
<1>5. ASSUME NEW m \in net, Lose(m)
      PROVE  IInv' /\ \A g \in Host : OldestGoes(g)
  <2>1. net' \subseteq net /\ UNCHANGED <<used, listed, item, want, hasty, wire>> /\ lost' \in 0 .. MaxLoss
    BY <1>5, ArpAssumption DEF Lose, TypeOK, tables
  <2>. QED BY <1>1, <2>1 DEF TypeOK, NoItemLost, HonestPackets, HonestEntries, ReachesItsHost, tables
<1>6. ASSUME Tick PROVE IInv' /\ \A g \in Host : OldestGoes(g)
  BY <1>6, TickInv
<1>7. ASSUME UNCHANGED vars PROVE IInv' /\ \A g \in Host : OldestGoes(g)
  <2>1. UNCHANGED <<used, listed, item, want, net, lost, hasty, wire>>
    BY <1>7 DEF vars
  <2>. QED BY <1>1, <2>1 DEF TypeOK, NoItemLost, HonestPackets, HonestEntries, ReachesItsHost, tables
<1>. QED BY <1>2, <1>3, <1>4, <1>5, <1>6, <1>7 DEF Next

LEMMA InvariantHolds == Spec => []IInv
  BY InitInv, StepInv, PTL DEF Spec

-----------------------------------------------------------------------------
(* The table stays a table of the pool's items, no time below zero.         *)
THEOREM TypeCorrect == Spec => []TypeOK
<1>1. IInv => TypeOK
  BY DEF IInv
<1>. QED BY <1>1, InvariantHolds, PTL

(* mem_alloc_arpti() never runs out for good: an item is in the table from  *)
(* the moment it leaves the pool to the moment it goes back.                *)
THEOREM PoolIsTable == Spec => []NoItemLost
<1>1. IInv => NoItemLost
  BY DEF IInv
<1>. QED BY <1>1, InvariantHolds, PTL

\* A full pool finds an entry to give back, and an item is free after it.
MakesRoom ==
  \A h \in Host : Slot \subseteq used[h] =>
    Victims(h) # {} /\ \A v \in Victims(h) : Slot \ (used[h] \ v) # {}

(* ether_arp_ether_recv(): when the pool is empty, the pass over the table  *)
(* gives something back, so that the next mem_alloc_arpti() succeeds.       *)
THEOREM AllocationEnds == Spec => []MakesRoom
<1>1. ASSUME IInv, NEW h \in Host, Slot \subseteq used[h]
      PROVE  Victims(h) # {} /\ \A v \in Victims(h) : Slot \ (used[h] \ v) # {}
  <2>1. 1 \in Slot
    BY ArpAssumption DEF Slot
  <2>2. listed[h] = used[h] /\ used[h] = Slot
    BY <1>1 DEF IInv, TypeOK, NoItemLost
  <2>3. Victims(h) # {}
    BY <1>1, <2>1, <2>2, VictimsExist DEF IInv
  <2>4. \A v \in Victims(h) : v # {} /\ v \subseteq Slot
    BY <1>1, <2>2, VictimsAreOldest DEF IInv
  <2>. QED BY <2>2, <2>3, <2>4
<1>2. IInv => MakesRoom
  BY <1>1 DEF MakesRoom
<1>. QED BY <1>2, InvariantHolds, PTL

(* ip_ether_send(): a frame carries the MAC address of the host its         *)
(* datagram is for, whatever was evicted, repeated or lost before.          *)
THEOREM AddressesAgree == Spec => []ReachesItsHost
<1>1. IInv => ReachesItsHost
  BY DEF IInv
<1>. QED BY <1>1, InvariantHolds, PTL

(* ether_arp_ether_recv(): a new reply displaces only entries that nothing  *)
(* in the table would have outlived for less.                               *)
THEOREM OldestEvicted == Spec => EvictsOldest
<1>. DEFINE Step == \A h \in Host :
       LET gone == {s \in listed[h] : s \notin listed'[h] \/ item'[h][s].left > item[h][s].left}
       IN  \A s \in gone, r \in listed[h] \ gone : item[h][s].left <= item[h][r].left
<1>1. IInv /\ [Next]_vars => [Step]_vars
  BY StepInv DEF OldestGoes
<1>. QED BY <1>1, InvariantHolds, PTL DEF Spec, EvictsOldest
=============================================================================
