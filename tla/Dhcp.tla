-------------------------------- MODULE Dhcp --------------------------------
(***************************************************************************)
(* The DHCP client (dts_net_dhcp.c) with one server.  The client is the    *)
(* record only; its timers count down in ticks.  A run of dhcp_loop() is   *)
(* one step, since the program has one thread.                             *)
(***************************************************************************)
EXTENDS Integers, Sequences, SequencesExt

CONSTANTS
  Address,    \* what the server may offer
  Lease,      \* the lease, in ticks
  T1Lease,    \* 0.5 * lease
  T2Lease,    \* 0.875 * lease
  Retry,      \* the 1, 3 and 5 seconds after which something is sent again
  MaxLate,    \* bound: ticks between the expiry of a timer and dhcp_loop()
  MaxQueue,   \* bound: datagrams that wait in the socket
  MaxLoss,    \* bound: messages lost
  MaxForeign, \* bound: messages to another client that this one hears
  Off,        \* a timer that does not run
  None

ASSUME DhcpAssumption ==
  /\ {Lease, T1Lease, T2Lease, Retry, MaxLate, MaxQueue, MaxLoss, MaxForeign} \subseteq Nat
  /\ 0 < T1Lease /\ T1Lease < T2Lease /\ T2Lease < Lease /\ Retry <= Lease
  /\ MaxLate < Lease - T1Lease  \* the program polls often enough for its lease
  /\ Off \notin Nat /\ None \notin Address

VARIABLES
  client,  \* only: state, T1, T2, the yiaddr of msg; the address given to set_ip()
  queue,   \* rx_queue of the socket
  net,     \* messages on the way
  acked,   \* the server: the addresses it acknowledged since the last DISCOVER
  offer,   \* the server: the address it offered
  refused, \* history: the server sent a NAK
  left,    \* history: what remains of the lease of the last ACK the client took
  late, lost, foreign

vars == <<client, queue, net, acked, offer, refused, left, late, lost, foreign>>

State == {"INIT", "SELECTING", "REQUESTING", "BOUND", "RENEWING", "REBINDING"}
Timer == (0 .. Lease) \cup {Off}
Client == [state: State, t1: Timer, t2: Timer,
           yi: Address \cup {None}, held: Address \cup {None}]
Message == [type: {"DISCOVER", "OFFER", "REQUEST", "ACK", "NAK"}, ip: Address \cup {None}]
Msg(t, a) == [type |-> t, ip |-> a]
ToServer == {"DISCOVER", "REQUEST"}

\* dhcp_client_setup()
Init ==
  /\ client = [state |-> "INIT", t1 |-> Off, t2 |-> Off, yi |-> None, held |-> None]
  /\ queue = <<>> /\ net = {}
  /\ acked = {} /\ offer = None /\ refused = FALSE
  /\ left = 0
  /\ late = 0 /\ lost = 0 /\ foreign = 0

\* dhcp_client_completed()
Completed == client.state \in {"BOUND", "RENEWING", "REBINDING"}

-----------------------------------------------------------------------------
\* Handlers: the client after them and what they send.
Result(c, out) == [c |-> c, out |-> out]

\* A stopped timer does not expire.
Expired(t) == t = 0

\* Variant: nothing is sent while T1 runs.
RequestLate(c) == IF c.t1 = Off THEN {Msg("REQUEST", c.yi)} ELSE {}

\* dhcp_client_send_request(), with the options of a message just unpacked.
Request(c) == {Msg("REQUEST", c.yi)}

\* The same from a timeout: msg.option points into a frame or a block that is
\* gone, and the server identifier may be found there or not.
Requests(c) == {{}, Request(c)}

AskAgain(c) == {Result([c EXCEPT !.t1 = Retry], out) : out \in Requests(c)}

\* Variant: T1 is not started again.
RenewIdle(c) == [c EXCEPT !.state = "RENEWING"]

\* Variant: the state stays.
RenewBound(c) == [c EXCEPT !.t1 = Retry]

Renew(c) == [c EXCEPT !.t1 = Retry, !.state = "RENEWING"]

\* Variant: the rest of the lease with the wrong sign.
RebindWide(c) == [c EXCEPT !.t1 = Retry, !.t2 = Lease + T2Lease, !.state = "REBINDING"]

Rebind(c) == [c EXCEPT !.t1 = Retry, !.t2 = Lease - T2Lease, !.state = "REBINDING"]

GiveUp(c) == [c EXCEPT !.t1 = Off, !.t2 = Off, !.state = "INIT"]

\* dhcp_client_timeout(), after either timer.  SELECTING has no case.
Timeout(c) ==
  IF c.state = "BOUND" THEN {Result(Renew(c), {})}
  ELSE IF c.state = "RENEWING" /\ Expired(c.t2) THEN {Result(Rebind(c), {})}
  ELSE IF c.state = "REBINDING" /\ Expired(c.t2) THEN {Result(GiveUp(c), {})}
  ELSE IF c.state \in {"REQUESTING", "RENEWING", "REBINDING"} THEN AskAgain(c)
  ELSE IF c.state = "INIT" THEN {Result([c EXCEPT !.t1 = Retry], {Msg("DISCOVER", None)})}
  ELSE {Result(c, {})}

\* Variant: the type of the message is not looked at.
IsExpectedAny(c, m) == TRUE

\* What dhcp_client_received() waits for.
IsExpected(c, m) == m.type = (IF c.state = "SELECTING" THEN "OFFER" ELSE "ACK")

\* Variant: T2 right after T1.
BindEarly(c) == [c EXCEPT !.t1 = T1Lease, !.t2 = T1Lease + Retry, !.state = "BOUND"]

Bind(c) == [c EXCEPT !.t1 = T1Lease, !.t2 = T2Lease, !.state = "BOUND"]

\* dhcp_client_received().  A message is unpacked over the last one before it
\* is known to be the expected one; INIT and BOUND do not look at it.
Received(c, m) ==
  LET d == [c EXCEPT !.yi = m.ip]
  IN  IF c.state \in {"INIT", "BOUND"} THEN Result(c, {})
      ELSE IF ~IsExpected(c, m) THEN Result([d EXCEPT !.t1 = Retry], {})
      ELSE IF c.state = "SELECTING"
           THEN Result([d EXCEPT !.held = m.ip, !.t1 = Retry, !.state = "REQUESTING"], Request(d))
      ELSE Result(Bind(d), {})

-----------------------------------------------------------------------------
\* The program.

\* dhcp_client_start()
Start ==
  /\ client.state = "INIT"
  /\ net = {} /\ queue = <<>>  \* nothing of an earlier lease is still on the way
  /\ client' = [client EXCEPT !.t1 = Retry, !.state = "SELECTING"]
  /\ net' = {Msg("DISCOVER", None)}
  /\ UNCHANGED <<queue, acked, offer, refused, left, late, lost, foreign>>

\* A timer that has expired is stopped, and its handler runs.
FireT1(c) == IF Expired(c.t1) THEN Timeout([c EXCEPT !.t1 = Off]) ELSE {Result(c, {})}
FireT2(c) == IF Expired(c.t2) THEN Timeout([c EXCEPT !.t2 = Off]) ELSE {Result(c, {})}

\* dhcp_loop().  recvfrom() reads every datagram that waits to the start of
\* the buffer, so that the client sees the last (of messages of equal size, so
\* few that the sum of their sizes stays below the 1024 bytes of the buffer).
Loop ==
  /\ \E r1 \in FireT1(client) : \E r2 \in FireT2(r1.c) :
       LET r3 == IF queue = <<>> THEN Result(r2.c, {}) ELSE Received(r2.c, Last(queue))
       IN  /\ client' = r3.c
           /\ net' = net \cup r1.out \cup r2.out \cup r3.out
           /\ left' = IF r3.c.state = "BOUND" /\ r2.c.state # "BOUND" THEN Lease ELSE left
  /\ queue' = <<>>
  /\ late' = 0
  /\ UNCHANGED <<acked, offer, refused, lost, foreign>>

-----------------------------------------------------------------------------
\* What is around it.

\* udp_recv() of the socket queues what arrives.
Deliver(m) ==
  /\ m \in net /\ m.type \notin ToServer
  /\ Len(queue) < MaxQueue
  /\ queue' = Append(queue, m)
  /\ net' = net \ {m}
  /\ UNCHANGED <<client, acked, offer, refused, left, late, lost, foreign>>

\* The server offers an address; it acknowledges the address it offered, or
\* refuses (another client has taken it).
Serve(m) ==
  /\ m \in net
  /\ \/ /\ m.type = "DISCOVER"
        /\ \E a \in Address : /\ offer' = a
                              /\ net' = (net \ {m}) \cup {Msg("OFFER", a)}
        /\ acked' = {}
        /\ UNCHANGED refused
     \/ /\ m.type = "REQUEST" /\ m.ip = offer /\ offer # None
        /\ net' = (net \ {m}) \cup {Msg("ACK", m.ip)}
        /\ acked' = acked \cup {m.ip}
        /\ UNCHANGED <<offer, refused>>
     \/ /\ m.type = "REQUEST"
        /\ net' = (net \ {m}) \cup {Msg("NAK", None)}
        /\ refused' = TRUE
        /\ UNCHANGED <<offer, acked>>
  /\ UNCHANGED <<client, queue, left, late, lost, foreign>>

\* Replies to other clients are broadcast too.
Overhear(m) ==
  /\ foreign < MaxForeign
  /\ foreign' = foreign + 1
  /\ net' = net \cup {m}
  /\ UNCHANGED <<client, queue, acked, offer, refused, left, late, lost>>

Lose(m) ==
  /\ m \in net
  /\ lost < MaxLoss
  /\ lost' = lost + 1
  /\ net' = net \ {m}
  /\ UNCHANGED <<client, queue, acked, offer, refused, left, late, foreign>>

Down(t) == IF t \in Nat /\ t > 0 THEN t - 1 ELSE t

Tick ==
  /\ \E t \in {client.t1, client.t2} : t \in Nat
  /\ late < MaxLate
  /\ late' = IF Expired(client.t1) \/ Expired(client.t2) THEN late + 1 ELSE 0
  /\ client' = [client EXCEPT !.t1 = Down(@), !.t2 = Down(@)]
  /\ left' = Down(left)
  /\ UNCHANGED <<queue, net, acked, offer, refused, lost, foreign>>

Next ==
  \/ Start \/ Loop \/ Tick
  \/ \E m \in net : Deliver(m) \/ Serve(m) \/ Lose(m)
  \/ \E t \in {"OFFER", "ACK"}, a \in Address : Overhear(Msg(t, a))

Spec == Init /\ [][Next]_vars

\* dhcp_loop() is called again and again, and what is not lost arrives.
Fairness == /\ WF_vars(Loop)
            /\ WF_vars(\E m \in net : Serve(m))
            /\ WF_vars(\E m \in net : Deliver(m))

FairSpec == Spec /\ Fairness

-----------------------------------------------------------------------------
(* The timers never count below zero, and set_ip() and the REQUESTs are     *)
(* given addresses.                                                         *)
TypeOK ==
  /\ client \in Client
  /\ queue \in Seq(Message) /\ Len(queue) <= MaxQueue
  /\ net \subseteq Message
  /\ acked \subseteq Address /\ offer \in Address \cup {None} /\ refused \in BOOLEAN
  /\ left \in 0 .. Lease /\ late \in 0 .. MaxLate
  /\ lost \in 0 .. MaxLoss /\ foreign \in 0 .. MaxForeign

(* In every state that sends a REQUEST again when T1 expires, T1 runs,      *)
(* whatever arrives meanwhile and however late dhcp_loop() is.              *)
KeepsAsking == client.state \notin {"INIT", "SELECTING"} => client.t1 # Off

(* A client that says it is complete holds an address that the server       *)
(* acknowledged, unless it heard replies to another client: it compares no  *)
(* xid.                                                                     *)
HoldsAcknowledged == Completed /\ foreign = 0 => client.held \in acked

(* BOUND is left for RENEWING before the lease is over.                     *)
RenewsInTime == client.state = "BOUND" => left > 0

(* A client gives its address up only when the lease is over: T1, T2 and    *)
(* the rest after T2 make up the whole of it.                               *)
KeepsLease == [][Completed /\ ~Completed' => left = 0]_vars

(* A client that was started gets an address when nothing is lost or        *)
(* refused and no other client is heard: SELECTING sends nothing again, and *)
(* a NAK overwrites the address that REQUESTING asks for.                   *)
Completes == (client.state = "SELECTING") ~> (Completed \/ lost > 0 \/ foreign > 0 \/ refused)
=============================================================================
