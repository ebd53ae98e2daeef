----------------------------- MODULE DhcpProofs -----------------------------
(***************************************************************************)
(* The timers of the DHCP client and its lease, for every lease and every  *)
(* order of polls, messages and expiries.  What the timers promise is tied *)
(* to the lease by  left , the time that remains of it.                    *)
(***************************************************************************)
EXTENDS Dhcp, TLAPS

HoldsLease(c) == c.state \in {"BOUND", "RENEWING", "REBINDING"}

\* T1 runs in every state that has something to send again.
Asks(c) == c.state \notin {"INIT", "SELECTING"} => c.t1 # Off

\* T2, and after it the rest of the lease, last at least as long as the lease.
Covers(c, l) ==
  /\ c.state \in {"BOUND", "RENEWING"} /\ c.t2 # Off => l <= c.t2 + (Lease - T2Lease)
  /\ c.state = "REBINDING" /\ c.t2 # Off => l <= c.t2

\* T1 leaves the second part of the lease for RENEWING.
EndsEarly(c, l, n) ==
  c.state = "BOUND" => l >= c.t1 + (Lease - T1Lease) - (IF c.t1 = 0 THEN n ELSE 0)

IInv == TypeOK /\ Asks(client) /\ Covers(client, left) /\ EndsEarly(client, left, late)

\* INIT waits for dhcp_client_start(): no timer of an earlier lease runs on.
Quiet(c) == c.state = "INIT" => c.t1 = Off /\ c.t2 = Off

\* What the server says is about the address it offered last.
Fits(m) == /\ m.type = "OFFER" => m.ip = offer
           /\ m.type = "ACK" => m.ip = offer /\ m.ip \in acked

Bargains(c) == c.state \notin {"INIT", "SELECTING"}

\* As long as the client hears only its own server, at most one DISCOVER is on
\* its way, alone, and both ends mean the same address.
Agrees ==
  foreign = 0 =>
    /\ \A m \in net : m.type = "DISCOVER" =>
         client.state = "SELECTING" /\ net = {m} /\ queue = <<>>
    /\ \A m \in net : Fits(m)
    /\ \A i \in 1 .. Len(queue) : Fits(queue[i])
    /\ Bargains(client) => client.held = offer
    /\ HoldsLease(client) => client.held \in acked

SoloInv == IInv /\ Quiet(client) /\ Agrees

-----------------------------------------------------------------------------
LEMMA Durations ==
  /\ {Lease, T1Lease, T2Lease, Retry, Lease - T2Lease} \subseteq Timer
  /\ Off \in Timer
  /\ \A t \in Timer : t # Off => t \in Nat /\ t <= Lease
  /\ {Lease, T1Lease, T2Lease, Retry, MaxLate} \subseteq Nat
  BY DhcpAssumption DEF Timer

LEMMA ClientType ==
  ASSUME NEW c \in Client
  PROVE  /\ c.state \in State /\ c.t1 \in Timer /\ c.t2 \in Timer
         /\ c.yi \in Address \cup {None} /\ c.held \in Address \cup {None}
  BY DEF Client

LEMMA MsgType ==
  ASSUME NEW t \in {"DISCOVER", "OFFER", "REQUEST", "ACK", "NAK"}, NEW a \in Address \cup {None}
  PROVE  Msg(t, a) \in Message
  BY DEF Msg, Message

(* A handler of dhcp_client_timeout(), run by a timer that was stopped.     *)
LEMMA TimeoutKeeps ==
  ASSUME NEW c \in Client, NEW l \in 0 .. Lease, Covers(c, l), NEW r \in Timeout(c)
  PROVE  /\ r.c \in Client /\ r.out \subseteq Message
         /\ Asks(r.c) \/ c.state = "SELECTING"
         /\ Covers(r.c, l)
         /\ r.c.state # "BOUND"
         /\ HoldsLease(c) => HoldsLease(r.c) \/ l = 0
         /\ c.state = "SELECTING" => r.c = c
<1>0. c.state \in State /\ c.t1 \in Timer /\ c.t2 \in Timer
  BY ClientType
<1>1. CASE c.state = "BOUND"
  <2>1. r.c = Renew(c) /\ r.out = {}
    BY <1>1 DEF Timeout, Result
  <2>2. r.c \in Client
    BY <2>1, Durations DEF Renew, Client, State
  <2>3. r.c.t1 = Retry /\ r.c.t2 = c.t2 /\ r.c.state = "RENEWING"
    BY <2>1 DEF Renew, Client
  <2>. QED BY <1>1, <2>1, <2>2, <2>3, Durations, DhcpAssumption DEF Asks, Covers, HoldsLease
<1>2. CASE c.state = "RENEWING" /\ Expired(c.t2)
  <2>1. r.c = Rebind(c) /\ r.out = {}
    BY <1>2 DEF Timeout, Result
  <2>2. r.c \in Client
    BY <2>1, Durations DEF Rebind, Client, State
  <2>3. r.c.t1 = Retry /\ r.c.t2 = Lease - T2Lease /\ r.c.state = "REBINDING"
    BY <2>1 DEF Rebind, Client
  <2>4. c.t2 = 0 /\ c.t2 # Off /\ l <= 0 + (Lease - T2Lease)
    BY <1>2, DhcpAssumption DEF Covers, Expired
  <2>5. Covers(r.c, l)
    BY <2>3, <2>4, DhcpAssumption DEF Covers
  <2>. QED BY <1>2, <2>1, <2>2, <2>3, <2>5, Durations, DhcpAssumption DEF Asks, HoldsLease
<1>3. CASE c.state = "REBINDING" /\ Expired(c.t2)
  <2>1. r.c = GiveUp(c) /\ r.out = {}
    BY <1>3 DEF Timeout, Result
  <2>2. r.c \in Client
    BY <2>1, Durations DEF GiveUp, Client, State
  <2>3. r.c.state = "INIT"
    BY <2>1 DEF GiveUp, Client
  <2>4. c.t2 = 0 /\ c.t2 # Off /\ l <= 0
    BY <1>3, DhcpAssumption DEF Covers, Expired
  <2>5. l = 0
    BY <2>4, DhcpAssumption
  <2>. QED BY <1>3, <2>1, <2>2, <2>3, <2>5 DEF Asks, Covers
<1>4. CASE c.state = "REQUESTING" \/ (c.state \in {"RENEWING", "REBINDING"} /\ ~Expired(c.t2))
  <2>1. Timeout(c) = AskAgain(c)
    BY <1>4 DEF Timeout
  <2>2. PICK out \in Requests(c) : r = Result([c EXCEPT !.t1 = Retry], out)
    BY <2>1 DEF AskAgain
  <2>3. out \subseteq Message
    BY MsgType, ClientType DEF Requests, Request
  <2>4. r.c = [c EXCEPT !.t1 = Retry] /\ r.out = out
    BY <2>2 DEF Result
  <2>5. r.c \in Client
    BY <2>4, Durations DEF Client
  <2>6. r.c.t1 = Retry /\ r.c.t2 = c.t2 /\ r.c.state = c.state
    BY <2>4 DEF Client
  <2>. QED BY <1>4, <2>3, <2>4, <2>5, <2>6, Durations, DhcpAssumption DEF Asks, Covers, HoldsLease
<1>5. CASE c.state = "INIT"
  <2>1. r.c = [c EXCEPT !.t1 = Retry] /\ r.out = {Msg("DISCOVER", None)}
    BY <1>5 DEF Timeout, Result
  <2>2. r.c \in Client
    BY <2>1, Durations DEF Client
  <2>3. r.c.state = "INIT"
    BY <1>5, <2>1 DEF Client
  <2>. QED BY <1>5, <2>1, <2>2, <2>3, MsgType DEF Asks, Covers, HoldsLease
<1>6. CASE c.state = "SELECTING"
  <2>1. r.c = c /\ r.out = {}
    BY <1>6 DEF Timeout, Result
  <2>. QED BY <1>6, <2>1 DEF HoldsLease
<1>. QED BY <1>0, <1>1, <1>2, <1>3, <1>4, <1>5, <1>6 DEF State

(* Either timer: what FireT1 and FireT2 do to a client that keeps to IInv.  *)
LEMMA FireT1Keeps ==
  ASSUME NEW c \in Client, NEW l \in 0 .. Lease, Asks(c), Covers(c, l), NEW r \in FireT1(c)
  PROVE  /\ r.c \in Client /\ r.out \subseteq Message /\ Asks(r.c) /\ Covers(r.c, l)
         /\ HoldsLease(c) => HoldsLease(r.c) \/ l = 0
         /\ r.c.state = "BOUND" => r.c = c /\ c.t1 # 0
<1>1. CASE Expired(c.t1)
  <2>. DEFINE d == [c EXCEPT !.t1 = Off]
  <2>1. d \in Client
    BY Durations DEF Client
  <2>2. d.state = c.state /\ d.t2 = c.t2
    BY DEF Client
  <2>3. Covers(d, l) /\ (HoldsLease(c) => HoldsLease(d))
    BY <2>2 DEF Covers, HoldsLease
  <2>4. r \in Timeout(d)
    BY <1>1 DEF FireT1
  <2>. HIDE DEF d
  <2>5. d.state = "SELECTING" => Asks(r.c)
    BY <2>1, <2>3, <2>4, TimeoutKeeps DEF Asks
  <2>. QED BY <2>1, <2>3, <2>4, <2>5, TimeoutKeeps
<1>2. CASE ~Expired(c.t1)
  <2>1. r.c = c /\ r.out = {}
    BY <1>2 DEF FireT1, Result
  <2>. QED BY <1>2, <2>1 DEF Expired
<1>. QED BY <1>1, <1>2

LEMMA FireT2Keeps ==
  ASSUME NEW c \in Client, NEW l \in 0 .. Lease, Asks(c), Covers(c, l), NEW r \in FireT2(c)
  PROVE  /\ r.c \in Client /\ r.out \subseteq Message /\ Asks(r.c) /\ Covers(r.c, l)
         /\ HoldsLease(c) => HoldsLease(r.c) \/ l = 0
         /\ r.c.state = "BOUND" => r.c = c
<1>1. CASE Expired(c.t2)
  <2>. DEFINE d == [c EXCEPT !.t2 = Off]
  <2>1. d \in Client
    BY Durations DEF Client
  <2>2. d.state = c.state /\ d.t2 = Off
    BY DEF Client
  <2>3. Covers(d, l) /\ (HoldsLease(c) => HoldsLease(d))
    BY <2>2 DEF Covers, HoldsLease
  <2>4. r \in Timeout(d)
    BY <1>1 DEF FireT2
  <2>. HIDE DEF d
  <2>5. d.state = "SELECTING" => Asks(r.c)
    BY <2>1, <2>3, <2>4, TimeoutKeeps DEF Asks
  <2>. QED BY <2>1, <2>3, <2>4, <2>5, TimeoutKeeps
<1>2. CASE ~Expired(c.t2)
  <2>1. r.c = c /\ r.out = {}
    BY <1>2 DEF FireT2, Result
  <2>. QED BY <2>1
<1>. QED BY <1>1, <1>2

(* dhcp_client_received(): a client that becomes BOUND starts both timers.  *)
LEMMA ReceivedKeeps ==
  ASSUME NEW c \in Client, NEW l \in 0 .. Lease, Asks(c), Covers(c, l), NEW m \in Message
  PROVE  LET r == Received(c, m) IN
         /\ r.c \in Client /\ r.out \subseteq Message /\ Asks(r.c)
         /\ HoldsLease(c) => HoldsLease(r.c)
         /\ r.c.state = "BOUND" => r.c = c \/ (r.c.t1 = T1Lease /\ r.c.t2 = T2Lease)
         /\ r.c.state = "BOUND" /\ c.state = "BOUND" => r.c = c
         /\ r.c.state # "BOUND" => Covers(r.c, l)
<1>. DEFINE r == Received(c, m)
            d == [c EXCEPT !.yi = m.ip]
<1>0. m.ip \in Address \cup {None}
  BY DEF Message
<1>1. d \in Client /\ d.state = c.state /\ d.t1 = c.t1 /\ d.t2 = c.t2
  BY <1>0 DEF Client
<1>2. CASE c.state \in {"INIT", "BOUND"}
  <2>1. r.c = c /\ r.out = {}
    BY <1>2 DEF Received, Result
  <2>. QED BY <2>1
<1>3. CASE c.state \notin {"INIT", "BOUND"} /\ ~IsExpected(c, m)
  <2>1. r.c = [d EXCEPT !.t1 = Retry] /\ r.out = {}
    BY <1>3 DEF Received, Result
  <2>. HIDE DEF d, r
  <2>2. r.c \in Client
    BY <1>1, <2>1, Durations DEF Client
  <2>3. r.c.state = c.state /\ r.c.t1 = Retry /\ r.c.t2 = c.t2
    BY <1>1, <2>1 DEF Client
  <2>4. Asks(r.c) /\ Covers(r.c, l) /\ (HoldsLease(c) => HoldsLease(r.c))
    BY <2>3, Durations, DhcpAssumption DEF Asks, Covers, HoldsLease
  <2>. QED BY <1>3, <2>1, <2>2, <2>3, <2>4 DEF r
<1>4. CASE c.state = "SELECTING" /\ IsExpected(c, m)
  <2>1. /\ r.c = [d EXCEPT !.held = m.ip, !.t1 = Retry, !.state = "REQUESTING"]
        /\ r.out = Request(d)
    BY <1>4 DEF Received, Result
  <2>. HIDE DEF d, r
  <2>2. r.c \in Client
    BY <1>0, <1>1, <2>1, Durations DEF Client, State
  <2>3. r.c.state = "REQUESTING" /\ r.c.t1 = Retry
    BY <1>1, <2>1 DEF Client
  <2>4. r.out \subseteq Message
    BY <1>1, <2>1, MsgType, ClientType DEF Request
  <2>5. Asks(r.c) /\ Covers(r.c, l)
    BY <2>3, Durations, DhcpAssumption DEF Asks, Covers
  <2>. QED BY <1>4, <2>2, <2>3, <2>4, <2>5 DEF r, HoldsLease
<1>5. CASE c.state \notin {"INIT", "BOUND", "SELECTING"} /\ IsExpected(c, m)
  <2>1. r.c = Bind(d) /\ r.out = {}
    BY <1>5 DEF Received, Result
  <2>. HIDE DEF d, r
  <2>2. r.c \in Client
    BY <1>1, <2>1, Durations DEF Bind, Client, State
  <2>3. r.c.state = "BOUND" /\ r.c.t1 = T1Lease /\ r.c.t2 = T2Lease
    BY <1>1, <2>1 DEF Bind, Client
  <2>. QED BY <1>5, <2>1, <2>2, <2>3, DhcpAssumption DEF r, Asks, HoldsLease
<1>. QED BY <1>2, <1>3, <1>4, <1>5

-----------------------------------------------------------------------------
\* One step per action.

(* dhcp_client_setup().                                                     *)
LEMMA InitHolds == ASSUME Init PROVE IInv
<1>1. client \in Client
  BY Durations DEF Init, Client, State
<1>2. <<>> \in Seq(Message) /\ Len(<<>>) = 0
  OBVIOUS
<1>3. MaxQueue >= 0 /\ 0 \in 0 .. Lease /\ 0 \in 0 .. MaxLate /\ 0 \in 0 .. MaxLoss /\ 0 \in 0 .. MaxForeign
  BY DhcpAssumption
<1>4. TypeOK
  BY <1>1, <1>2, <1>3 DEF Init, TypeOK
<1>. QED BY <1>4 DEF Init, IInv, Asks, Covers, EndsEarly

(* dhcp_client_start() leaves INIT, which holds no lease.                   *)
LEMMA StartKeeps == ASSUME IInv, Start PROVE IInv' /\ ~Completed
<1>0. client \in Client /\ client.state = "INIT"
  BY DEF IInv, TypeOK, Start
<1>1. client' \in Client
  BY <1>0, Durations DEF Start, Client, State
<1>2. client'.state = "SELECTING"
  BY <1>0 DEF Start, Client
<1>3. net' \subseteq Message
  BY MsgType DEF Start
<1>4. TypeOK'
  BY <1>1, <1>3 DEF IInv, TypeOK, Start
<1>. QED BY <1>0, <1>2, <1>4 DEF IInv, Asks, Covers, EndsEarly, Completed

(* dhcp_loop(): T1, then T2, then what waits in the socket.  A lease that   *)
(* is held is given up only when nothing of it is left.                     *)
LEMMA LoopKeeps ==
  ASSUME IInv, Loop
  PROVE  IInv' /\ (Completed => Completed' \/ left = 0)
<1>0. /\ client \in Client /\ left \in 0 .. Lease /\ queue \in Seq(Message)
      /\ net \subseteq Message
      /\ Asks(client) /\ Covers(client, left) /\ EndsEarly(client, left, late)
  BY DEF IInv, TypeOK
<1>1. PICK r1 \in FireT1(client) : \E r2 \in FireT2(r1.c) :
        LET r3 == IF queue = <<>> THEN Result(r2.c, {}) ELSE Received(r2.c, Last(queue))
        IN  /\ client' = r3.c
            /\ net' = net \cup r1.out \cup r2.out \cup r3.out
            /\ left' = IF r3.c.state = "BOUND" /\ r2.c.state # "BOUND" THEN Lease ELSE left
  BY DEF Loop
<1>2. PICK r2 \in FireT2(r1.c) :
        LET r3 == IF queue = <<>> THEN Result(r2.c, {}) ELSE Received(r2.c, Last(queue))
        IN  /\ client' = r3.c
            /\ net' = net \cup r1.out \cup r2.out \cup r3.out
            /\ left' = IF r3.c.state = "BOUND" /\ r2.c.state # "BOUND" THEN Lease ELSE left
  BY <1>1
<1>. DEFINE r3 == IF queue = <<>> THEN Result(r2.c, {}) ELSE Received(r2.c, Last(queue))
<1>3. /\ r1.c \in Client /\ r1.out \subseteq Message /\ Asks(r1.c) /\ Covers(r1.c, left)
      /\ HoldsLease(client) => HoldsLease(r1.c) \/ left = 0
      /\ r1.c.state = "BOUND" => r1.c = client /\ client.t1 # 0
  BY <1>0, FireT1Keeps
<1>4. /\ r2.c \in Client /\ r2.out \subseteq Message /\ Asks(r2.c) /\ Covers(r2.c, left)
      /\ HoldsLease(r1.c) => HoldsLease(r2.c) \/ left = 0
      /\ r2.c.state = "BOUND" => r2.c = r1.c
  BY <1>0, <1>3, FireT2Keeps
<1>5. /\ r3.c \in Client /\ r3.out \subseteq Message /\ Asks(r3.c)
      /\ HoldsLease(r2.c) => HoldsLease(r3.c)
      /\ r3.c.state = "BOUND" => r3.c = r2.c \/ (r3.c.t1 = T1Lease /\ r3.c.t2 = T2Lease)
      /\ r3.c.state = "BOUND" /\ r2.c.state = "BOUND" => r3.c = r2.c
      /\ r3.c.state # "BOUND" => Covers(r3.c, left)
  <2>1. CASE queue = <<>>
    <3>1. r3.c = r2.c /\ r3.out = {}
      BY <2>1 DEF Result
    <3>. QED BY <1>4, <3>1
  <2>2. CASE queue # <<>>
    <3>1. Last(queue) \in Message
      BY <1>0, <2>2 DEF Last
    <3>2. r3 = Received(r2.c, Last(queue))
      BY <2>2
    <3>. HIDE DEF r3
    <3>. QED BY <1>0, <1>4, <3>1, <3>2, ReceivedKeeps
  <2>. QED BY <2>1, <2>2
<1>6. /\ client' = r3.c /\ net' \subseteq Message
      /\ left' = IF r3.c.state = "BOUND" /\ r2.c.state # "BOUND" THEN Lease ELSE left
  BY <1>0, <1>2, <1>3, <1>4, <1>5
<1>. HIDE DEF r3
<1>7. queue' = <<>> /\ late' = 0 /\ UNCHANGED <<acked, offer, refused, lost, foreign>>
  BY DEF Loop
<1>8. left' \in 0 .. Lease
  BY <1>0, <1>6, DhcpAssumption
<1>9. TypeOK'
  BY <1>5, <1>6, <1>7, <1>8, DhcpAssumption DEF IInv, TypeOK
<1>10. CASE r3.c.state = "BOUND" /\ r2.c.state # "BOUND"
  <2>1. left' = Lease /\ client'.t1 = T1Lease /\ client'.t2 = T2Lease /\ client'.state = "BOUND"
    BY <1>5, <1>6, <1>10
  <2>2. Covers(client', left') /\ EndsEarly(client', left', late')
    BY <2>1, <1>7, DhcpAssumption DEF Covers, EndsEarly
  <2>. QED BY <1>5, <1>6, <1>9, <1>10, <2>2 DEF IInv, HoldsLease, Completed
<1>11. CASE r3.c.state = "BOUND" /\ r2.c.state = "BOUND"
  <2>1. client' = client /\ left' = left /\ client.t1 # 0
    BY <1>3, <1>4, <1>5, <1>6, <1>11
  <2>2. EndsEarly(client', left', late')
    BY <1>0, <2>1 DEF EndsEarly
  <2>. QED BY <1>0, <1>9, <2>1, <2>2 DEF IInv, Completed
<1>12. CASE r3.c.state # "BOUND"
  <2>1. client' = r3.c /\ left' = left
    BY <1>6, <1>12
  <2>2. EndsEarly(client', left', late')
    BY <1>12, <2>1 DEF EndsEarly
  <2>3. IInv'
    BY <1>5, <1>9, <1>12, <2>1, <2>2 DEF IInv
  <2>4. HoldsLease(client) => HoldsLease(r3.c) \/ left = 0
    BY <1>3, <1>4, <1>5
  <2>. QED BY <2>1, <2>3, <2>4 DEF HoldsLease, Completed
<1>. QED BY <1>10, <1>11, <1>12

(* What is around the client leaves its timers and its lease alone.         *)
LEMMA NetworkKeeps ==
  ASSUME IInv, UNCHANGED <<client, left, late>>, TypeOK'
  PROVE  IInv' /\ (Completed => Completed')
  BY DEF IInv, Completed

(* Messages and the server keep their types.                                *)
LEMMA NetworkType ==
  ASSUME TypeOK, NEW m \in Message, Deliver(m) \/ Serve(m) \/ Lose(m) \/ Overhear(m)
  PROVE  TypeOK' /\ UNCHANGED <<client, left, late>>
<1>1. CASE Deliver(m)
  <2>1. queue' = Append(queue, m) /\ Len(queue) < MaxQueue /\ queue \in Seq(Message)
    BY <1>1 DEF TypeOK, Deliver
  <2>2. queue' \in Seq(Message) /\ Len(queue') <= MaxQueue
    BY <2>1, DhcpAssumption
  <2>3. net' \subseteq net
    BY <1>1 DEF Deliver
  <2>4. UNCHANGED <<client, acked, offer, refused, left, late, lost, foreign>>
    BY <1>1 DEF Deliver
  <2>. QED BY <2>2, <2>3, <2>4 DEF TypeOK
<1>2. CASE Serve(m)
  <2>1. m.ip \in Address \cup {None}
    BY DEF Message
  <2>2. net' \subseteq Message
    BY <1>2, <2>1, MsgType DEF TypeOK, Serve
  <2>3. acked' \subseteq Address /\ offer' \in Address \cup {None} /\ refused' \in BOOLEAN
    BY <1>2, <2>1, DhcpAssumption DEF TypeOK, Serve
  <2>4. UNCHANGED <<client, queue, left, late, lost, foreign>>
    BY <1>2 DEF Serve
  <2>. QED BY <2>2, <2>3, <2>4 DEF TypeOK
<1>3. CASE Lose(m)
  BY <1>3, DhcpAssumption DEF TypeOK, Lose
<1>4. CASE Overhear(m)
  BY <1>4, DhcpAssumption DEF TypeOK, Overhear
<1>. QED BY <1>1, <1>2, <1>3, <1>4

(* While T1 of BOUND waits for its handler, what is left of the lease goes  *)
(* down with every tick that it is late.                                    *)
LEMMA TickKeeps == ASSUME IInv, Tick PROVE IInv' /\ (Completed => Completed')
<1>0. /\ client \in Client /\ left \in 0 .. Lease /\ late \in 0 .. MaxLate
      /\ Asks(client) /\ Covers(client, left) /\ EndsEarly(client, left, late)
  BY DEF IInv, TypeOK
<1>1. /\ client' = [client EXCEPT !.t1 = Down(@), !.t2 = Down(@)] /\ left' = Down(left)
      /\ late' = IF Expired(client.t1) \/ Expired(client.t2) THEN late + 1 ELSE 0
      /\ late < MaxLate
      /\ UNCHANGED <<queue, net, acked, offer, refused, lost, foreign>>
  BY DEF Tick
<1>2. \A t \in Timer : Down(t) \in Timer /\ (Down(t) = Off <=> t = Off)
  BY DhcpAssumption DEF Down, Timer
<1>3. client.t1 \in Timer /\ client.t2 \in Timer
  BY <1>0, ClientType
<1>4. client' \in Client
  BY <1>0, <1>1, <1>2, <1>3 DEF Client
<1>5. client'.state = client.state /\ client'.t1 = Down(client.t1) /\ client'.t2 = Down(client.t2)
  BY <1>0, <1>1 DEF Client
<1>6. left' = IF left > 0 THEN left - 1 ELSE left
  BY <1>0, <1>1, DhcpAssumption DEF Down
<1>7. left' \in 0 .. Lease /\ late' \in 0 .. MaxLate
  BY <1>0, <1>1, <1>6, DhcpAssumption
<1>8. TypeOK'
  BY <1>1, <1>4, <1>7 DEF IInv, TypeOK
<1>9. Asks(client')
  BY <1>0, <1>2, <1>3, <1>5 DEF Asks
<1>10. Covers(client', left')
  <2>1. CASE client.t2 = Off
    BY <1>2, <1>3, <1>5, <2>1 DEF Covers
  <2>2. CASE client.t2 # Off
    <3>1. client.t2 \in Nat /\ client'.t2 = IF client.t2 > 0 THEN client.t2 - 1 ELSE client.t2
      BY <1>3, <1>5, <2>2, Durations DEF Down
    <3>. QED BY <1>0, <1>5, <1>6, <2>2, <3>1, DhcpAssumption DEF Covers
  <2>. QED BY <2>1, <2>2
<1>11. EndsEarly(client', left', late')
  <2>. SUFFICES ASSUME client.state = "BOUND" PROVE EndsEarly(client', left', late')
    BY <1>5 DEF EndsEarly
  <2>1. client.t1 \in Nat
    BY <1>0, <1>3, Durations DEF Asks
  <2>2. client'.t1 = IF client.t1 > 0 THEN client.t1 - 1 ELSE client.t1
    BY <1>5, <2>1 DEF Down
  <2>3. CASE client.t1 = 0
    <3>1. late' = late + 1 /\ client'.t1 = 0 /\ left >= (Lease - T1Lease) - late
      BY <1>0, <1>1, <2>2, <2>3, DhcpAssumption DEF EndsEarly, Expired
    <3>. QED BY <1>0, <1>6, <3>1, DhcpAssumption DEF EndsEarly
  <2>4. CASE client.t1 > 0
    <3>1. left >= client.t1 + (Lease - T1Lease) /\ client'.t1 = client.t1 - 1
      BY <1>0, <2>1, <2>2, <2>4, DhcpAssumption DEF EndsEarly
    <3>. QED BY <1>0, <1>6, <1>7, <2>1, <2>4, <3>1, DhcpAssumption DEF EndsEarly
  <2>. QED BY <2>1, <2>3, <2>4
<1>. QED BY <1>5, <1>8, <1>9, <1>10, <1>11 DEF IInv, Completed

-----------------------------------------------------------------------------
\* The theorems.

(* Every step keeps the invariant, and takes no lease away early.           *)
LEMMA NextKeeps ==
  ASSUME IInv, [Next]_vars
  PROVE  IInv' /\ (Completed => Completed' \/ left = 0)
<1>1. CASE Start
  BY <1>1, StartKeeps
<1>2. CASE Loop
  BY <1>2, LoopKeeps
<1>3. CASE Tick
  BY <1>3, TickKeeps
<1>4. CASE \E m \in net : Deliver(m) \/ Serve(m) \/ Lose(m)
  <2>1. PICK m \in net : Deliver(m) \/ Serve(m) \/ Lose(m)
    BY <1>4
  <2>2. m \in Message
    BY DEF IInv, TypeOK
  <2>. QED BY <2>1, <2>2, NetworkType, NetworkKeeps DEF IInv
<1>5. CASE \E t \in {"OFFER", "ACK"}, a \in Address : Overhear(Msg(t, a))
  <2>1. PICK t \in {"OFFER", "ACK"}, a \in Address : Overhear(Msg(t, a))
    BY <1>5
  <2>2. Msg(t, a) \in Message
    BY MsgType
  <2>. QED BY <2>1, <2>2, NetworkType, NetworkKeeps DEF IInv
<1>6. CASE UNCHANGED vars
  BY <1>6 DEF vars, IInv, TypeOK, Completed
<1>. QED BY <1>1, <1>2, <1>3, <1>4, <1>5, <1>6 DEF Next

(* The client is well typed, T1 runs where something is sent again, and the *)
(* timers and the rest of the lease fit together.                           *)
THEOREM Inductive == Spec => []IInv
<1>1. Init => IInv
  BY InitHolds
<1>2. IInv /\ [Next]_vars => IInv'
  BY NextKeeps
<1>. QED BY <1>1, <1>2, PTL DEF Spec

(* The timers stay within 0 .. Lease and what is sent is well formed, for   *)
(* every lease.                                                             *)
THEOREM TypeCorrect == Spec => []TypeOK
<1>1. IInv => TypeOK
  BY DEF IInv
<1>. QED BY <1>1, Inductive, PTL

(* dhcp_client_timeout() leaves no state that repeats its REQUEST without   *)
(* T1, and no message stops it.                                             *)
THEOREM AlwaysAsking == Spec => []KeepsAsking
<1>1. IInv => KeepsAsking
  BY DEF IInv, KeepsAsking, Asks
<1>. QED BY <1>1, Inductive, PTL

(* A client in BOUND has something left of its lease when its poll is less  *)
(* late than the time between T1 and the end of the lease.                  *)
THEOREM RenewalInTime == Spec => []RenewsInTime
<1>1. IInv => RenewsInTime
  <2>. SUFFICES ASSUME IInv, client.state = "BOUND" PROVE left > 0
    BY DEF RenewsInTime
  <2>1. /\ client \in Client /\ left \in 0 .. Lease /\ late \in 0 .. MaxLate
        /\ client.t1 # Off
        /\ left >= client.t1 + (Lease - T1Lease) - (IF client.t1 = 0 THEN late ELSE 0)
    BY DEF IInv, TypeOK, Asks, EndsEarly
  <2>2. client.t1 \in Nat
    BY <2>1, ClientType, Durations
  <2>. QED BY <2>1, <2>2, DhcpAssumption
<1>. QED BY <1>1, Inductive, PTL

(* The client returns to INIT from a lease only through the T2 of           *)
(* REBINDING, when nothing of the lease is left.                            *)
THEOREM LeaseKept == Spec => KeepsLease
<1>1. IInv /\ [Next]_vars => [Completed /\ ~Completed' => left = 0]_vars
  BY NextKeeps
<1>. QED BY <1>1, Inductive, PTL DEF Spec, KeepsLease

-----------------------------------------------------------------------------
\* Client and server mean the same address.

\* What a handler that reads no message does to the bargain: nothing.
Follows(c, r) ==
  /\ \A m \in r.out : m.type = "REQUEST"
  /\ r.c.held = c.held /\ Quiet(r.c)
  /\ r.c.state = "SELECTING" <=> c.state = "SELECTING"
  /\ c.state = "SELECTING" => r.out = {}
  /\ Bargains(r.c) => Bargains(c)
  /\ HoldsLease(r.c) => HoldsLease(c)

LEMMA RequestsOnly ==
  ASSUME NEW c, NEW out \in Requests(c), NEW m \in out
  PROVE  m.type = "REQUEST"
  BY DEF Requests, Request, Msg

(* dhcp_client_timeout(): whatever the state, T1 and T2 never change the    *)
(* address, and never take up a bargain that was not there.                 *)
LEMMA TimeoutFollows ==
  ASSUME NEW c \in Client, c.state # "INIT", NEW r \in Timeout(c)
  PROVE  Follows(c, r)
<1>0. c.state \in State
  BY ClientType
<1>1. CASE c.state = "BOUND"
  <2>1. r.c = Renew(c) /\ r.out = {}
    BY <1>1 DEF Timeout, Result
  <2>2. r.c.state = "RENEWING" /\ r.c.held = c.held
    BY <2>1 DEF Renew, Client
  <2>. QED BY <1>1, <2>1, <2>2 DEF Follows, Quiet, Bargains, HoldsLease
<1>2. CASE c.state = "RENEWING" /\ Expired(c.t2)
  <2>1. r.c = Rebind(c) /\ r.out = {}
    BY <1>2 DEF Timeout, Result
  <2>2. r.c.state = "REBINDING" /\ r.c.held = c.held
    BY <2>1 DEF Rebind, Client
  <2>. QED BY <1>2, <2>1, <2>2 DEF Follows, Quiet, Bargains, HoldsLease
<1>3. CASE c.state = "REBINDING" /\ Expired(c.t2)
  <2>1. r.c = GiveUp(c) /\ r.out = {}
    BY <1>3 DEF Timeout, Result
  <2>2. r.c.state = "INIT" /\ r.c.t1 = Off /\ r.c.t2 = Off /\ r.c.held = c.held
    BY <2>1 DEF GiveUp, Client
  <2>. QED BY <1>3, <2>1, <2>2 DEF Follows, Quiet, Bargains, HoldsLease
<1>4. CASE c.state = "REQUESTING" \/ (c.state \in {"RENEWING", "REBINDING"} /\ ~Expired(c.t2))
  <2>1. Timeout(c) = AskAgain(c)
    BY <1>4 DEF Timeout
  <2>2. PICK out \in Requests(c) : r = Result([c EXCEPT !.t1 = Retry], out)
    BY <2>1 DEF AskAgain
  <2>3. r.c = [c EXCEPT !.t1 = Retry] /\ r.out = out
    BY <2>2 DEF Result
  <2>4. r.c.state = c.state /\ r.c.held = c.held
    BY <2>3 DEF Client
  <2>. QED BY <1>4, <2>3, <2>4, RequestsOnly DEF Follows, Quiet, Bargains, HoldsLease
<1>5. CASE c.state = "SELECTING"
  <2>1. r.c = c /\ r.out = {}
    BY <1>5 DEF Timeout, Result
  <2>. QED BY <1>5, <2>1 DEF Follows, Quiet
<1>. QED BY <1>0, <1>1, <1>2, <1>3, <1>4, <1>5 DEF State

LEMMA FireFollows ==
  ASSUME NEW c \in Client, Quiet(c), NEW r \in FireT1(c) \cup FireT2(c)
  PROVE  Follows(c, r)
<1>1. CASE r = Result(c, {})
  BY <1>1 DEF Follows, Result
<1>2. CASE Expired(c.t1) /\ r \in Timeout([c EXCEPT !.t1 = Off])
  <2>. DEFINE d == [c EXCEPT !.t1 = Off]
  <2>1. d \in Client
    BY Durations DEF Client
  <2>2. d.state = c.state /\ d.held = c.held /\ c.state # "INIT"
    BY <1>2, DhcpAssumption DEF Client, Quiet, Expired
  <2>. HIDE DEF d
  <2>3. Follows(d, r)
    BY <1>2, <2>1, <2>2, TimeoutFollows DEF d
  <2>. QED BY <2>2, <2>3 DEF Follows, Bargains, HoldsLease
<1>3. CASE Expired(c.t2) /\ r \in Timeout([c EXCEPT !.t2 = Off])
  <2>. DEFINE d == [c EXCEPT !.t2 = Off]
  <2>1. d \in Client
    BY Durations DEF Client
  <2>2. d.state = c.state /\ d.held = c.held /\ c.state # "INIT"
    BY <1>3, DhcpAssumption DEF Client, Quiet, Expired
  <2>. HIDE DEF d
  <2>3. Follows(d, r)
    BY <1>3, <2>1, <2>2, TimeoutFollows DEF d
  <2>. QED BY <2>2, <2>3 DEF Follows, Bargains, HoldsLease
<1>. QED BY <1>1, <1>2, <1>3 DEF FireT1, FireT2

(* dhcp_client_received(): an OFFER or an ACK of the server that is taken   *)
(* is about the address the server means.                                   *)
LEMMA ReceivedFollows ==
  ASSUME NEW c \in Client, Quiet(c), NEW m \in Message, Fits(m),
         Bargains(c) => c.held = offer, HoldsLease(c) => c.held \in acked
  PROVE  LET r == Received(c, m) IN
         /\ \A n \in r.out : n.type = "REQUEST"
         /\ Quiet(r.c)
         /\ Bargains(r.c) => r.c.held = offer
         /\ HoldsLease(r.c) => r.c.held \in acked
<1>. DEFINE r == Received(c, m)
            d == [c EXCEPT !.yi = m.ip]
<1>0. c.state \in State
  BY ClientType
<1>1. d.state = c.state /\ d.t1 = c.t1 /\ d.t2 = c.t2 /\ d.held = c.held /\ d \in Client
  BY DEF Client, Message
<1>2. CASE c.state \in {"INIT", "BOUND"}
  <2>1. r.c = c /\ r.out = {}
    BY <1>2 DEF Received, Result
  <2>. QED BY <2>1
<1>3. CASE c.state \notin {"INIT", "BOUND"} /\ ~IsExpected(c, m)
  <2>1. r.c = [d EXCEPT !.t1 = Retry] /\ r.out = {}
    BY <1>3 DEF Received, Result
  <2>. HIDE DEF d, r
  <2>2. r.c.state = c.state /\ r.c.held = c.held
    BY <1>1, <2>1 DEF Client
  <2>. QED BY <1>3, <2>1, <2>2 DEF r, Quiet, Bargains, HoldsLease
<1>4. CASE c.state = "SELECTING" /\ IsExpected(c, m)
  <2>1. /\ r.c = [d EXCEPT !.held = m.ip, !.t1 = Retry, !.state = "REQUESTING"]
        /\ r.out = Request(d)
    BY <1>4 DEF Received, Result
  <2>2. m.ip = offer
    BY <1>4 DEF IsExpected, Fits
  <2>. HIDE DEF d, r
  <2>3. r.c.state = "REQUESTING" /\ r.c.held = offer
    BY <1>1, <2>1, <2>2 DEF Client
  <2>4. \A n \in r.out : n.type = "REQUEST"
    BY <2>1 DEF Request, Msg
  <2>. QED BY <2>3, <2>4 DEF r, Quiet, Bargains, HoldsLease
<1>5. CASE c.state \notin {"INIT", "BOUND", "SELECTING"} /\ IsExpected(c, m)
  <2>1. r.c = Bind(d) /\ r.out = {}
    BY <1>5 DEF Received, Result
  <2>2. m.ip = offer /\ m.ip \in acked /\ c.held = offer
    BY <1>5 DEF IsExpected, Fits, Bargains
  <2>. HIDE DEF d, r
  <2>3. r.c.state = "BOUND" /\ r.c.held = c.held
    BY <1>1, <2>1 DEF Bind, Client
  <2>. QED BY <2>1, <2>2, <2>3 DEF r, Quiet, Bargains, HoldsLease
<1>. QED BY <1>2, <1>3, <1>4, <1>5

(* dhcp_loop() sends no DISCOVER: INIT has no timer that runs.              *)
LEMMA LoopAgrees ==
  ASSUME SoloInv, Loop
  PROVE  Quiet(client)' /\ Agrees'
<1>0. /\ client \in Client /\ left \in 0 .. Lease /\ queue \in Seq(Message)
      /\ Asks(client) /\ Covers(client, left) /\ Quiet(client) /\ Agrees
  BY DEF SoloInv, IInv, TypeOK
<1>. DEFINE r3(r2) == IF queue = <<>> THEN Result(r2.c, {}) ELSE Received(r2.c, Last(queue))
<1>1. PICK r1 \in FireT1(client) : \E r2 \in FireT2(r1.c) :
        client' = r3(r2).c /\ net' = net \cup r1.out \cup r2.out \cup r3(r2).out
  BY DEF Loop
<1>2. PICK r2 \in FireT2(r1.c) :
        client' = r3(r2).c /\ net' = net \cup r1.out \cup r2.out \cup r3(r2).out
  BY <1>1
<1>. DEFINE r == r3(r2)
<1>3. r1.c \in Client /\ Asks(r1.c) /\ Covers(r1.c, left) /\ Follows(client, r1)
  BY <1>0, FireT1Keeps, FireFollows
<1>4. r2.c \in Client /\ Follows(r1.c, r2)
  BY <1>0, <1>3, FireT2Keeps, FireFollows DEF Follows
<1>5. queue' = <<>> /\ UNCHANGED <<acked, offer, foreign>>
  BY DEF Loop
<1>6. CASE queue = <<>>
  <2>1. r.c = r2.c /\ r.out = {}
    BY <1>6 DEF Result
  <2>2. client' = r2.c /\ net' = net \cup r1.out \cup r2.out
    BY <1>2, <2>1
  <2>. HIDE DEF r, r3
  <2>3. Quiet(client)'
    BY <1>4, <2>2 DEF Follows, Quiet
  <2>4. \A m \in net' : m \in net \/ m.type = "REQUEST"
    BY <1>3, <1>4, <2>2 DEF Follows
  <2>5. client'.held = client.held /\ (client'.state = "SELECTING" <=> client.state = "SELECTING")
        /\ (Bargains(client') => Bargains(client)) /\ (HoldsLease(client') => HoldsLease(client))
        /\ (client.state = "SELECTING" => net' = net)
    BY <1>3, <1>4, <2>2 DEF Follows
  <2>6. Agrees'
    <3>. SUFFICES ASSUME foreign = 0 PROVE
           /\ \A m \in net' : m.type = "DISCOVER" =>
                client'.state = "SELECTING" /\ net' = {m}
           /\ \A m \in net' : m.type # "REQUEST" => Fits(m)
           /\ Bargains(client') => client'.held = offer
           /\ HoldsLease(client') => client'.held \in acked
      BY <1>5 DEF Agrees, Fits, Bargains, HoldsLease
    <3>. QED BY <1>0, <2>4, <2>5 DEF Agrees
  <2>. QED BY <2>3, <2>6
<1>7. CASE queue # <<>>
  <2>. DEFINE m0 == Last(queue)
  <2>1. m0 \in Message /\ Len(queue) \in 1 .. Len(queue) /\ m0 = queue[Len(queue)]
    BY <1>0, <1>7 DEF Last
  <2>2. r = Received(r2.c, m0) /\ client' = r.c /\ net' = net \cup r1.out \cup r2.out \cup r.out
    BY <1>2, <1>7
  <2>. HIDE DEF r, r3, m0
  <2>3. Quiet(r2.c)
    BY <1>4 DEF Follows
  <2>4. CASE foreign # 0
    <3>1. Quiet(r.c)
      <4>1. r.c.state = "INIT" => r2.c.state = "INIT" /\ r.c = r2.c
        <5>1. r2.c.state \in State
          BY <1>4, ClientType
        <5>. QED BY <1>4, <2>1, <2>2, <5>1 DEF Received, Result, Bind, Client, State, Message
      <4>. QED BY <2>3, <4>1 DEF Quiet
    <3>. QED BY <1>5, <2>2, <2>4, <3>1 DEF Agrees, Quiet
  <2>5. CASE foreign = 0
    <3>1. Fits(m0)
      BY <1>0, <2>1, <2>5 DEF Agrees
    <3>2. (Bargains(r2.c) => r2.c.held = offer) /\ (HoldsLease(r2.c) => r2.c.held \in acked)
      BY <1>0, <1>3, <1>4, <2>5 DEF Agrees, Follows
    <3>3. /\ \A n \in r.out : n.type = "REQUEST"
          /\ Quiet(r.c)
          /\ Bargains(r.c) => r.c.held = offer
          /\ HoldsLease(r.c) => r.c.held \in acked
      BY <1>4, <2>1, <2>2, <2>3, <3>1, <3>2, ReceivedFollows
    <3>4. \A m \in net' : m \in net \/ m.type = "REQUEST"
      BY <1>3, <1>4, <2>2, <3>3 DEF Follows
    <3>5. \A m \in net' : m.type # "DISCOVER" /\ Fits(m)
      BY <1>0, <1>7, <2>5, <3>4 DEF Agrees, Fits
    <3>. QED BY <1>5, <2>2, <2>5, <3>3, <3>5 DEF Agrees, Fits, Quiet, Bargains, HoldsLease
  <2>. QED BY <2>4, <2>5
<1>. QED BY <1>6, <1>7

(* Around the client: a DISCOVER is answered when nothing else is on the    *)
(* way, so that no message is about an address offered before.              *)
LEMMA NetworkAgrees ==
  ASSUME SoloInv, NEW m \in net, Deliver(m) \/ Serve(m) \/ Lose(m)
  PROVE  Agrees'
<1>0. client' = client /\ foreign' = foreign
  BY DEF Deliver, Serve, Lose
<1>. SUFFICES ASSUME foreign = 0, foreign' = 0 PROVE Agrees'
  BY <1>0 DEF Agrees
<1>1. /\ \A n \in net : n.type = "DISCOVER" => client.state = "SELECTING" /\ net = {n} /\ queue = <<>>
      /\ \A n \in net : Fits(n)
      /\ \A i \in 1 .. Len(queue) : Fits(queue[i])
      /\ Bargains(client) => client.held = offer
      /\ HoldsLease(client) => client.held \in acked
      /\ queue \in Seq(Message)
  BY DEF SoloInv, Agrees, IInv, TypeOK
<1>2. CASE Deliver(m)
  <2>1. queue' = Append(queue, m) /\ net' = net \ {m} /\ UNCHANGED <<offer, acked>> /\ m.type # "DISCOVER"
    BY <1>2 DEF Deliver, ToServer
  <2>2. \A i \in 1 .. Len(queue') : Fits(queue'[i])
    BY <1>1, <2>1
  <2>3. \A n \in net : n.type # "DISCOVER"
    BY <1>1, <2>1
  <2>. QED BY <1>0, <1>1, <2>1, <2>2, <2>3 DEF Agrees, Fits, Bargains, HoldsLease
<1>3. CASE Lose(m)
  <2>1. net' = net \ {m} /\ UNCHANGED <<queue, offer, acked>>
    BY <1>3 DEF Lose
  <2>. QED BY <1>0, <1>1, <2>1 DEF Agrees, Fits, Bargains, HoldsLease
<1>4. CASE Serve(m) /\ m.type = "DISCOVER"
  <2>1. PICK a \in Address : net' = (net \ {m}) \cup {Msg("OFFER", a)} /\ offer' = a
    BY <1>4 DEF Serve
  <2>2. net = {m} /\ queue' = <<>> /\ client.state = "SELECTING"
    BY <1>1, <1>4 DEF Serve
  <2>3. net' = {Msg("OFFER", a)}
    BY <2>1, <2>2
  <2>. QED BY <1>0, <2>1, <2>2, <2>3 DEF Agrees, Fits, Bargains, HoldsLease, Msg
<1>5. CASE Serve(m) /\ m.type = "REQUEST"
  <2>1. /\ offer' = offer /\ acked \subseteq acked' /\ queue' = queue
        /\ \A n \in net' \ net : /\ n.type \notin {"DISCOVER", "OFFER"}
                                 /\ n.type = "ACK" => n.ip = offer /\ n.ip \in acked'
    <3>1. CASE m.ip = offer /\ net' = (net \ {m}) \cup {Msg("ACK", m.ip)}
               /\ acked' = acked \cup {m.ip} /\ UNCHANGED offer
      BY <1>5, <3>1 DEF Serve, Msg
    <3>2. CASE net' = (net \ {m}) \cup {Msg("NAK", None)} /\ UNCHANGED <<offer, acked>>
      BY <1>5, <3>2 DEF Serve, Msg
    <3>. QED BY <1>5, <3>1, <3>2 DEF Serve
  <2>2. \A n \in net : n.type # "DISCOVER"
    BY <1>1, <1>5
  <2>. DEFINE Keeps(n) == /\ n.type = "OFFER" => n.ip = offer'
                          /\ n.type = "ACK" => n.ip = offer' /\ n.ip \in acked'
  <2>3. \A n \in net : n.type # "DISCOVER" /\ Keeps(n)
    BY <1>1, <2>1, <2>2 DEF Fits
  <2>4. \A n \in net' \ net : n.type # "DISCOVER" /\ Keeps(n)
    BY <2>1
  <2>5. \A i \in 1 .. Len(queue') : Keeps(queue'[i])
    BY <1>1, <2>1 DEF Fits
  <2>6. \A n \in net' : n.type # "DISCOVER" /\ Keeps(n)
    BY <2>3, <2>4
  <2>. QED BY <1>0, <1>1, <2>1, <2>5, <2>6 DEF Agrees, Fits, Bargains, HoldsLease
<1>. QED BY <1>2, <1>3, <1>4, <1>5 DEF Serve

LEMMA NextAgrees ==
  ASSUME SoloInv, [Next]_vars
  PROVE  SoloInv'
<1>0. IInv /\ IInv' /\ Quiet(client) /\ Agrees /\ client \in Client
  BY NextKeeps DEF SoloInv, IInv, TypeOK
<1>1. CASE Start
  <2>1. client'.state = "SELECTING" /\ net' = {Msg("DISCOVER", None)} /\ queue' = <<>>
    BY <1>0, <1>1 DEF Start, Client
  <2>. QED BY <1>0, <2>1 DEF SoloInv, Quiet, Agrees, Fits, Bargains, HoldsLease, Msg
<1>2. CASE Loop
  BY <1>0, <1>2, LoopAgrees DEF SoloInv
<1>3. CASE Tick
  <2>1. client'.state = client.state /\ client'.held = client.held
        /\ client'.t1 = Down(client.t1) /\ client'.t2 = Down(client.t2)
    BY <1>0, <1>3 DEF Tick, Client
  <2>2. UNCHANGED <<net, queue, offer, acked, foreign>>
    BY <1>3 DEF Tick
  <2>3. Down(Off) = Off
    BY DhcpAssumption DEF Down
  <2>. QED BY <1>0, <2>1, <2>2, <2>3 DEF SoloInv, Quiet, Agrees, Fits, Bargains, HoldsLease
<1>4. CASE \E m \in net : Deliver(m) \/ Serve(m) \/ Lose(m)
  <2>1. PICK m \in net : Deliver(m) \/ Serve(m) \/ Lose(m)
    BY <1>4
  <2>2. client' = client
    BY <2>1 DEF Deliver, Serve, Lose
  <2>. QED BY <1>0, <2>1, <2>2, NetworkAgrees DEF SoloInv, Quiet
<1>5. CASE \E t \in {"OFFER", "ACK"}, a \in Address : Overhear(Msg(t, a))
  <2>1. client' = client /\ foreign' # 0
    BY <1>0, <1>5 DEF Overhear, IInv, TypeOK
  <2>. QED BY <1>0, <2>1 DEF SoloInv, Quiet, Agrees
<1>6. CASE UNCHANGED vars
  BY <1>0, <1>6 DEF vars, SoloInv, Quiet, Agrees, Fits, Bargains, HoldsLease
<1>. QED BY <1>1, <1>2, <1>3, <1>4, <1>5, <1>6 DEF Next

(* dhcp_client_received() compares no xid: the address a complete client    *)
(* holds is still one the server acknowledged to it, as long as it heard    *)
(* its own server only.                                                     *)
THEOREM AddressAcknowledged == Spec => []HoldsAcknowledged
<1>1. Init => SoloInv
  <2>. SUFFICES ASSUME Init PROVE SoloInv
    OBVIOUS
  <2>1. client.state = "INIT" /\ Quiet(client) /\ net = {} /\ Len(queue) = 0
    BY DEF Init, Quiet
  <2>. QED BY <2>1, InitHolds DEF SoloInv, Agrees, Bargains, HoldsLease
<1>2. SoloInv /\ [Next]_vars => SoloInv'
  BY NextAgrees
<1>3. SoloInv => HoldsAcknowledged
  BY DEF SoloInv, Agrees, HoldsAcknowledged, Completed, HoldsLease
<1>. QED BY <1>1, <1>2, <1>3, PTL DEF Spec
=============================================================================
