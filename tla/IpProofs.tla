------------------------------- MODULE IpProofs -------------------------------
(***************************************************************************)
(* Theorems about Ip: for every size of a fragment and every length of a   *)
(* payload, the packets tile the payload, no memory is freed twice, and    *)
(* only what the driver gave up stays allocated.                           *)
(***************************************************************************)
EXTENDS Ip, NaturalsInduction, SequenceTheorems, WellFoundedInduction, TLAPS

-----------------------------------------------------------------------------
(* The sum of no, one or two sizes.                                        *)
LEMMA TotalIs ==
  ASSUME NEW n \in 0 .. 2, NEW s, Len(s) = n, \A i \in 1 .. n : s[i] \in Nat
  PROVE  /\ n = 0 => Total(s) = 0
         /\ n = 1 => Total(s) = s[1]
         /\ n = 2 => Total(s) = s[1] + s[2]
<1>. DEFINE Is(f) == f = [i \in 0 .. n |-> IF i = 0 THEN 0 ELSE f[i - 1] + s[i]]
            sum == CHOOSE f : Is(f)
            g == [i \in 0 .. n |-> IF i = 0 THEN 0 ELSE IF i = 1 THEN s[1] ELSE s[1] + s[2]]
<1>1. Total(s) = sum[n]
  BY DEF Total
<1>2. Is(g)
  <2>1. \A i \in 0 .. n : g[i] = IF i = 0 THEN 0 ELSE g[i - 1] + s[i]
    OBVIOUS
  <2>. QED BY <2>1
<1>3. Is(sum)
  BY <1>2
<1>. HIDE DEF sum
<1>4. \A i \in 0 .. n : sum[i] = IF i = 0 THEN 0 ELSE sum[i - 1] + s[i]
  BY <1>3
<1>5. sum[0] = 0
  BY <1>4
<1>6. n >= 1 => sum[1] = s[1]
  BY <1>4, <1>5
<1>7. n = 2 => sum[2] = s[1] + s[2]
  BY <1>4, <1>6
<1>. QED BY <1>1, <1>5, <1>6, <1>7

(* One text is itself.                                                      *)
LEMMA FlattenOne == ASSUME NEW s, Len(s) = 1 PROVE FlattenSeq(s) = s[1]
<1>. DEFINE Is(f) == f = [i \in 1 .. 1 |-> IF i = 1 THEN s[i] ELSE f[i - 1] \o s[i]]
            flat == CHOOSE f : Is(f)
<1>1. FlattenSeq(s) = flat[1]
  BY DEF FlattenSeq
<1>2. Is([i \in 1 .. 1 |-> s[1]])
  OBVIOUS
<1>3. Is(flat)
  BY <1>2
<1>. HIDE DEF flat
<1>. QED BY <1>1, <1>3

(* Two texts follow one another.                                            *)
LEMMA FlattenTwo == ASSUME NEW s, Len(s) = 2 PROVE FlattenSeq(s) = s[1] \o s[2]
<1>. DEFINE Is(f) == f = [i \in 1 .. 2 |-> IF i = 1 THEN s[i] ELSE f[i - 1] \o s[i]]
            flat == CHOOSE f : Is(f)
            g == [i \in 1 .. 2 |-> IF i = 1 THEN s[1] ELSE s[1] \o s[2]]
<1>1. FlattenSeq(s) = flat[2]
  BY DEF FlattenSeq
<1>2. Is(g)
  <2>1. \A i \in 1 .. 2 : g[i] = IF i = 1 THEN s[i] ELSE g[i - 1] \o s[i]
    OBVIOUS
  <2>. QED BY <2>1
<1>3. Is(flat)
  BY <1>2
<1>. HIDE DEF flat
<1>4. \A i \in 1 .. 2 : flat[i] = IF i = 1 THEN s[i] ELSE flat[i - 1] \o s[i]
  BY <1>3
<1>5. flat[1] = s[1]
  BY <1>4
<1>6. flat[2] = flat[1] \o s[2]
  BY <1>4
<1>. QED BY <1>1, <1>5, <1>6

(* Two elements make a sequence of two.                                     *)
LEMMA TwoJoined ==
  ASSUME NEW a, NEW b
  PROVE  /\ <<a>> \o <<b>> # <<>> /\ Len(<<a>> \o <<b>>) = 2
         /\ (<<a>> \o <<b>>)[1] = a /\ (<<a>> \o <<b>>)[2] = b
<1>. DEFINE S == {a, b}
            u == <<a>>
            v == <<b>>
<1>1. u \in Seq(S) /\ v \in Seq(S) /\ Len(u) = 1 /\ Len(v) = 1 /\ u[1] = a /\ v[1] = b
  OBVIOUS
<1>. HIDE DEF u, v, S
<1>2. Len(u \o v) = 2 /\ (u \o v)[1] = a /\ (u \o v)[2] = b
  BY <1>1, ConcatProperties
<1>3. u \o v # <<>>
  BY <1>2
<1>. QED BY <1>2, <1>3 DEF u, v

(* A set of numbers has an element without its predecessor.                 *)
LEMMA Least ==
  ASSUME NEW S \in SUBSET Nat, S # {}
  PROVE  \E k \in S : k = 0 \/ k - 1 \notin S
<1>. DEFINE R == {p \in Nat \X Nat : p[1] < p[2]}
<1>1. \A x, y \in Nat : x < y => <<x, y>> \in R
  OBVIOUS
<1>2. IsWellFoundedOn(R, Nat)
  BY NatLessThanWellFounded DEF OpToRel
<1>. HIDE DEF R
<1>3. PICK x \in S : \A y \in S : <<y, x>> \notin R
  BY <1>2, WFMin
<1>4. x = 0 \/ (x - 1 \in Nat /\ x - 1 < x)
  OBVIOUS
<1>. QED BY <1>1, <1>3, <1>4

-----------------------------------------------------------------------------
\* A node of the payload with which the call numbered c begins.
PayloadNode(c) == [id: {<<c, 0>>}, own: SUBSET {"node", "data"}, data: Nat, size: Nat,
                   more: BOOLEAN, vsize: {0}, vmem: { <<>> }]

\* A payload of n bytes: one block of q nodes, which is one, or a header of
\* eight bytes and a node for the rest.
Payload(l, c, n, q) ==
  /\ q \in 1 .. 2
  /\ l \in Seq(PayloadNode(c)) /\ Len(l) = q
  /\ ~l[q].more
  /\ q = 1 => l[1].data = 0 /\ l[1].size = n
  /\ q = 2 => /\ l[1].data = 0 /\ l[1].size = 8 /\ l[1].more /\ l[1].own = {}
              /\ l[2].data = 8 /\ l[2].size = n - 8 /\ l[2].own = {}

\* Memory of the k-th allocation of the call numbered c.
Memory(c, k) == {<< <<c, k>>, m >> : m \in {"node", "data"}}

(* It has one node or two.                                                  *)
LEMMA PayloadShape ==
  ASSUME NEW c, NEW n, NEW l, NEW q, Payload(l, c, n, q)
  PROVE  q \in 1 .. 2 /\ DOMAIN l = 1 .. q /\ Len(l) = q /\ l # <<>>
  BY DEF Payload

(* Its nodes are numbers, texts and names of memory.                        *)
LEMMA PayloadNodes ==
  ASSUME NEW c, NEW n, NEW l, NEW q, Payload(l, c, n, q), NEW i \in 1 .. q
  PROVE  /\ l[i].data \in Nat /\ l[i].size \in Nat /\ l[i].vsize = 0 /\ l[i].vmem = <<>>
         /\ l[i].id = <<c, 0>> /\ l[i].own \subseteq {"node", "data"}
         /\ NodeSize(l[i]) = l[i].size
         /\ l[i].more <=> i # q
<1>1. l[i] \in PayloadNode(c)
  BY DEF Payload
<1>2. l[i].more <=> i # q
  BY DEF Payload
<1>. QED BY <1>1, <1>2 DEF PayloadNode, NodeSize

(* It is one block of n bytes.                                              *)
LEMMA PayloadIsBlock ==
  ASSUME NEW c, NEW n \in Nat, NEW l, NEW q, Payload(l, c, n, q)
  PROVE  /\ l # <<>> /\ Starts(l) = {1} /\ BlockAt(l, 1) = l
         /\ FirstBlock(l) = l /\ Size(l) = n
<1>0. q \in 1 .. 2 /\ l # <<>> /\ DOMAIN l = 1 .. q /\ Len(l) = q
  BY PayloadShape
<1>1. \A i \in 1 .. q : l[i].more <=> i # q
  BY PayloadNodes
<1>2. Starts(l) = {1}
  BY <1>0, <1>1 DEF Starts
<1>3. EndOfBlock(l, 1) = q
  <2>. DEFINE Ends(j) == (j = q \/ ~l[j].more) /\ \A k \in 1 .. j - 1 : l[k].more
  <2>1. EndOfBlock(l, 1) = CHOOSE j \in 1 .. q : Ends(j)
    BY <1>0, <1>1 DEF EndOfBlock
  <2>2. q \in 1 .. q /\ Ends(q) /\ \A j \in 1 .. q : Ends(j) => j = q
    BY <1>0, <1>1
  <2>. HIDE DEF Ends
  <2>. QED BY <2>1, <2>2
<1>4. BlockAt(l, 1) = l /\ FirstBlock(l) = l
  <2>1. SubSeq(l, 1, q) = l
    BY <1>0, <1>1 DEF Payload
  <2>. QED BY <1>0, <1>1, <1>3, <2>1 DEF BlockAt, FirstBlock
<1>5. Size(l) = n
  <2>. DEFINE s == [i \in 1 .. q |-> NodeSize(l[i])]
  <2>1. Len(s) = q /\ \A i \in 1 .. q : s[i] = l[i].size /\ s[i] \in Nat
    BY <1>0, PayloadNodes
  <2>2. Size(l) = Total(s)
    BY <1>0, <1>1, <1>4 DEF Size
  <2>. HIDE DEF s
  <2>3. (q = 1 => Total(s) = s[1]) /\ (q = 2 => Total(s) = s[1] + s[2])
    <3>1. q \in 0 .. 2 /\ Len(s) = q /\ \A i \in 1 .. q : s[i] \in Nat
      BY <1>0, <2>1
    <3>. QED BY <3>1, TotalIs
  <2>4. CASE q = 1
    BY <1>0, <1>1, <2>1, <2>2, <2>3, <2>4 DEF Payload
  <2>5. CASE q = 2
    BY <1>0, <1>1, <2>1, <2>2, <2>3, <2>5 DEF Payload
  <2>. QED BY <1>0, <1>1, <2>4, <2>5
<1>. QED BY <1>0, <1>1, <1>2, <1>4, <1>5

(* A header of eight bytes and a piece behind it cover what they name.      *)
LEMMA PiecesFollow ==
  ASSUME NEW n \in Nat
  PROVE  Covers(Piece(0, 8) \o Piece(8, n), 0, 8 + n)
<1>. DEFINE a == [at |-> 0, len |-> 8]
            b == [at |-> 8, len |-> n]
<1>1. CASE n = 0
  <2>1. Piece(0, 8) \o Piece(8, n) = <<a>>
    BY <1>1 DEF Piece
  <2>2. Covers(<<a>>, 0, 8)
    BY DEF Covers, Last
  <2>3. 8 + n = 8
    BY <1>1
  <2>. HIDE DEF a, b
  <2>. QED BY <2>1, <2>2, <2>3
<1>2. CASE n # 0
  <2>1. Piece(0, 8) = <<a>> /\ Piece(8, n) = <<b>>
    BY <1>2 DEF Piece
  <2>2. a.at = 0 /\ a.len = 8 /\ b.at = 8 /\ b.len = n
    OBVIOUS
  <2>. HIDE DEF a, b
  <2>. DEFINE t == <<a>> \o <<b>>
  <2>3. t # <<>> /\ Len(t) = 2 /\ t[1] = a /\ t[2] = b
    BY TwoJoined
  <2>. HIDE DEF t
  <2>4. Covers(t, 0, 8 + n)
    BY <2>2, <2>3 DEF Covers, Last
  <2>. QED BY <2>1, <2>4 DEF t
<1>. QED BY <1>1, <1>2

(* Its text follows from its beginning to its end.                          *)
LEMMA PayloadText ==
  ASSUME NEW c, NEW n \in Nat \ {0}, NEW l, NEW q, Payload(l, c, n, q)
  PROVE  Covers(BlockText(l), 0, n)
<1>0. q \in 1 .. 2 /\ DOMAIN l = 1 .. q
  BY PayloadShape
<1>1. ASSUME NEW i \in 1 .. q PROVE NodeText(l[i]) = Piece(l[i].data, l[i].size)
  BY PayloadNodes DEF NodeText
<1>2. CASE q = 1
  <2>1. BlockText(l) = Piece(0, n)
    <3>. DEFINE s == [i \in 1 .. 1 |-> NodeText(l[i])]
    <3>1. BlockText(l) = FlattenSeq(s)
      BY <1>0, <1>1, <1>2 DEF BlockText
    <3>2. Len(s) = 1 /\ s[1] = Piece(0, n)
      BY <1>0, <1>1, <1>2 DEF Payload
    <3>. HIDE DEF s
    <3>. QED BY <3>1, <3>2, FlattenOne
  <2>. QED BY <2>1 DEF Piece, Covers, Last
<1>3. CASE q = 2
  <2>1. n - 8 \in Nat
    <3>1. l[2].size \in Nat
      BY <1>0, <1>3, PayloadNodes
    <3>2. l[2].size = n - 8
      BY <1>3 DEF Payload
    <3>. QED BY <3>1, <3>2
  <2>2. BlockText(l) = Piece(0, 8) \o Piece(8, n - 8)
    <3>. DEFINE s == [i \in 1 .. 2 |-> NodeText(l[i])]
    <3>1. BlockText(l) = FlattenSeq(s)
      BY <1>0, <1>1, <1>3 DEF BlockText
    <3>2. Len(s) = 2 /\ s[1] = Piece(0, 8) /\ s[2] = Piece(8, n - 8)
      BY <1>0, <1>1, <1>3 DEF Payload
    <3>. HIDE DEF s
    <3>3. FlattenSeq(s) = s[1] \o s[2]
      BY <3>2, FlattenTwo
    <3>. QED BY <3>1, <3>2, <3>3
  <2>3. 8 + (n - 8) = n
    BY <2>1
  <2>. QED BY <2>1, <2>2, <2>3, PiecesFollow
<1>. QED BY <1>0, <1>1, <1>2, <1>3

-----------------------------------------------------------------------------
(* Parts do not end before those in front of them.                          *)
LEMMA PartsInOrder ==
  ASSUME NEW f \in Nat, NEW j \in Nat, NEW k \in Nat, j <= k
  PROVE  j * f <= k * f
<1>1. (k - j) \in Nat /\ k = j + (k - j)
  OBVIOUS
<1>2. PICK d \in Nat : k = j + d
  BY <1>1
<1>3. k * f = j * f + d * f /\ d * f >= 0 /\ j * f \in Nat
  BY <1>2
<1>. QED BY <1>3

(* The packets are as many as it takes, and no more.                        *)
LEMMA PacketsAre ==
  ASSUME NEW n \in Nat, n >= FragSize
  PROVE  /\ Packets(n) \in Nat \ {0}
         /\ (Packets(n) - 1) * FragSize < n /\ n <= Packets(n) * FragSize
<1>1. FragSize \in Nat /\ FragSize > 0
  BY IpAssumption
<1>2. PICK m \in Nat, r \in Nat : m = n \div FragSize /\ r = n % FragSize /\ n = FragSize * m + r /\ r < FragSize
  BY <1>1
<1>3. m > 0
  BY <1>1, <1>2
<1>4. Packets(n) = m + (IF r > 0 THEN 1 ELSE 0)
  BY <1>1, <1>2 DEF Packets
<1>5. CASE r = 0
  BY <1>1, <1>2, <1>3, <1>4, <1>5
<1>6. CASE r > 0
  BY <1>1, <1>2, <1>3, <1>4, <1>6
<1>. QED BY <1>2, <1>5, <1>6

-----------------------------------------------------------------------------
\* The nodes that dblk_fragment() allocates.
FragmentNode(c) == [id: {<<c, k>> : k \in Nat}, own: {{"node"}}, data: Nat, size: Nat,
                    more: {FALSE}, vsize: Nat, vmem: Seq(PayloadNode(c))]

\* The k-th fragment of a payload of n bytes.
IsFragment(e, c, n, k) ==
  /\ e \in FragmentNode(c) /\ e.id = <<c, k>>
  /\ NodeSize(e) = EndOfPart(n, k) - (k - 1) * FragSize
  /\ Covers(NodeText(e), (k - 1) * FragSize, EndOfPart(n, k))

\* What one turn makes of the k-th of them, and what it makes of it when the
\* fragment goes on in the nodes m.
Filled(c, k, a, s, v) == [Fragment0(<<c, k>>) EXCEPT !.data = a, !.size = s, !.vsize = v]
Extended(e, m, v) == [e EXCEPT !.vmem = m, !.vsize = v]

\* The k-th of them begins at a and has s bytes in its node, and v in all.
Holds(e, c, k, a, s, v) ==
  /\ e \in FragmentNode(c) /\ e.id = <<c, k>>
  /\ e.data = a /\ e.size = s /\ e.vsize = v

(* That is what a turn makes.                                               *)
LEMMA FilledIs ==
  ASSUME NEW c, NEW k \in Nat, NEW a \in Nat, NEW s \in Nat, NEW v \in Nat
  PROVE  Holds(Filled(c, k, a, s, v), c, k, a, s, v)
<1>1. <<>> \in Seq(PayloadNode(c))
  OBVIOUS
<1>. QED BY <1>1 DEF Filled, Fragment0, Node, FragmentNode, Holds

(* It has no other nodes.                                                   *)
LEMMA FilledAlone ==
  ASSUME NEW c, NEW k, NEW a, NEW s, NEW v, NEW e, e = Filled(c, k, a, s, v)
  PROVE  e.vmem = <<>>
  BY DEF Filled, Fragment0, Node

(* It remains a fragment when it goes on in the nodes of the payload.       *)
LEMMA ExtendedIs ==
  ASSUME NEW c, NEW k, NEW a, NEW s, NEW u, NEW v \in Nat, NEW m \in Seq(PayloadNode(c)),
         NEW e, Holds(e, c, k, a, s, u)
  PROVE  Holds(Extended(e, m, v), c, k, a, s, v)
  BY DEF FragmentNode, Extended, Holds

(* A piece that has bytes covers them.                                      *)
LEMMA PieceCovers ==
  ASSUME NEW a \in Nat, NEW v \in Nat \ {0} PROVE Covers(Piece(a, v), a, a + v)
  BY DEF Piece, Covers, Last

(* What the nodes before the i-th one hold is a number.                     *)
LEMMA BeforeType ==
  ASSUME NEW c, NEW n, NEW l, NEW q, Payload(l, c, n, q), NEW i \in 1 .. q + 1
  PROVE  Before(l, i) \in Nat
<1>. DEFINE s == [k \in 1 .. i - 1 |-> l[k].size]
<1>1. q \in 1 .. 2 /\ \A k \in 1 .. q : l[k].size \in Nat
  BY PayloadShape, PayloadNodes
<1>2. PICK m \in 0 .. 2 : m = i - 1
  BY <1>1
<1>3. Before(l, i) = Total(s)
  BY DEF Before
<1>4. Len(s) = m /\ \A k \in 1 .. m : s[k] \in Nat
  BY <1>1, <1>2
<1>. HIDE DEF s
<1>5. /\ m = 0 => Total(s) = 0
      /\ m = 1 => Total(s) = s[1]
      /\ m = 2 => Total(s) = s[1] + s[2]
  BY <1>4, TotalIs
<1>. QED BY <1>2, <1>3, <1>4, <1>5

(* What the last node of the payload holds is what follows its beginning.   *)
LEMMA LastNode ==
  ASSUME NEW c, NEW n \in Nat, NEW l, NEW q, Payload(l, c, n, q)
  PROVE  l[q].data + l[q].size = n
<1>1. q \in 1 .. 2
  BY PayloadShape
<1>2. l[q].data \in Nat /\ l[q].size \in Nat
  BY <1>1, PayloadNodes
<1>3. CASE q = 1
  BY <1>2, <1>3 DEF Payload
<1>4. CASE q = 2
  BY <1>2, <1>4 DEF Payload
<1>. QED BY <1>1, <1>3, <1>4

\* The turn r of the loop, begun in the state st at the position a of the
\* text, has made the fragment e of what follows, a full one if there is
\* enough of it.
Made(r, st, e, c, k, a, n, q) ==
  /\ e \in FragmentNode(c) /\ e.id = <<c, k>> /\ e.data = a /\ e.size = n - a
  /\ r.out = Append(st.out, e)
  /\ a + FragSize < n => e.vsize = FragSize /\ r.i = q /\ r.off = st.off + FragSize
  /\ ~(a + FragSize < n) => e.vsize = n - a

(* A turn that begins in the last node does that.                           *)
LEMMA TurnInLast ==
  ASSUME NEW c, NEW n \in Nat, NEW l, NEW q, Payload(l, c, n, q),
         NEW k \in Nat, NEW a \in Nat, a < n,
         NEW st, st.i = q, st.off \in Nat, l[q].data + st.off = a
  PROVE  \E e : Made(FragmentTurn(l, FragSize, st, <<c, k>>), st, e, c, k, a, n, q)
<1>10. PICK w \in Nat : w = n - a /\ w > 0
  OBVIOUS
<1>. DEFINE r == FragmentTurn(l, FragSize, st, <<c, k>>)
            e0 == Filled(c, k, a, w, FragSize)
            remain == st.off + FragSize - l[q].size
            j == Stop(l, q, remain)
            left == remain - (Before(l, j) - Before(l, q + 1))
<1>0. /\ FragSize \in Nat /\ FragSize > 0 /\ q \in 1 .. 2 /\ Len(l) = q /\ DOMAIN l = 1 .. q
      /\ l[q].data \in Nat /\ l[q].size \in Nat /\ l[q].data + l[q].size = n
  BY IpAssumption, PayloadShape, PayloadNodes, LastNode
<1>1. l[q].data + st.off = a /\ l[q].size - st.off = w /\ ~(q > Len(l))
  BY <1>0, <1>10
<1>2. r = FragmentFrom(l, FragSize, st, e0, remain, j)
  BY <1>1 DEF FragmentTurn, Filled
<1>3. Holds(e0, c, k, a, w, FragSize)
  BY <1>0, <1>10, FilledIs
<1>4. j = q + 1
  <2>. HIDE DEF remain
  <2>. QED BY <1>0, <1>10 DEF Stop
<1>5. left = remain
  <2>1. Before(l, q + 1) \in Nat /\ remain \in Int
    BY <1>0, <1>10, BeforeType
  <2>. HIDE DEF j, remain
  <2>. QED BY <2>1, <1>4
<1>6. FragSize - left = w
  <2>. HIDE DEF left
  <2>. QED BY <1>0, <1>10, <1>1, <1>5
<1>. HIDE DEF e0, r, j, left, remain
<1>7. CASE w > FragSize
  <2>1. r = [i |-> st.i, off |-> st.off + FragSize, out |-> Append(st.out, e0)]
    BY <1>2, <1>3, <1>7 DEF FragmentFrom, Holds
  <2>2. Made(r, st, e0, c, k, a, n, q)
    BY <1>0, <1>10, <1>3, <1>7, <2>1 DEF Made, Holds
  <2>. QED BY <2>2 DEF r
<1>8. CASE w = FragSize
  <2>1. ~(e0.size > FragSize) /\ e0.size = FragSize
    BY <1>0, <1>10, <1>3, <1>8 DEF Holds
  <2>2. r = [i |-> st.i + 1, off |-> 0, out |-> Append(st.out, e0)]
    BY <1>2, <2>1 DEF FragmentFrom
  <2>3. Made(r, st, e0, c, k, a, n, q)
    BY <1>0, <1>10, <1>3, <1>8, <2>2 DEF Made, Holds
  <2>. QED BY <2>3 DEF r
<1>9. CASE w < FragSize
  <2>. DEFINE e == Extended(e0, SubSeq(l, q + 1, q), w)
  <2>1. ~(e0.size > FragSize) /\ e0.size # FragSize
    BY <1>0, <1>10, <1>3, <1>9 DEF Holds
  <2>2. r = GoesOn(l, FragSize, st, e0, j, left)
    BY <1>2, <2>1 DEF FragmentFrom, left, remain
  <2>3. j > Len(l) /\ Len(l) = q
    BY <1>0, <1>10, <1>4
  <2>4. r.out = Append(st.out, e)
    <3>1. (IF j > Len(l) THEN FragSize - left ELSE FragSize) = w /\ SubSeq(l, st.i + 1, Len(l)) = SubSeq(l, q + 1, q)
      BY <1>6, <2>3
    <3>. QED BY <2>2, <3>1 DEF GoesOn, Extended
  <2>5. Holds(e, c, k, a, w, w)
    <3>1. SubSeq(l, q + 1, q) \in Seq(PayloadNode(c))
      BY <1>0, <1>10 DEF Payload
    <3>. QED BY <1>0, <1>10, <1>3, <3>1, ExtendedIs
  <2>. HIDE DEF e
  <2>6. Made(r, st, e, c, k, a, n, q)
    BY <1>0, <1>10, <1>9, <2>4, <2>5 DEF Made, Holds
  <2>. QED BY <2>6 DEF r
<1>. QED BY <1>0, <1>10, <1>7, <1>8, <1>9

(* The k-th part of the text ends a full fragment behind its beginning, or  *)
(* with the text.                                                           *)
LEMMA PartEnds ==
  ASSUME NEW n \in Nat, NEW k \in Nat \ {0}, NEW a \in Nat, a = (k - 1) * FragSize
  PROVE  /\ a + FragSize < n => EndOfPart(n, k) = a + FragSize
         /\ ~(a + FragSize < n) => EndOfPart(n, k) = n
         /\ a + FragSize = k * FragSize
<1>1. FragSize \in Nat
  BY IpAssumption
<1>2. a + FragSize = k * FragSize
  BY <1>1
<1>. QED BY <1>1, <1>2 DEF EndOfPart

(* What such a turn makes of the k-th part of the text is its fragment.     *)
LEMMA MadeIsFragment ==
  ASSUME NEW c, NEW n \in Nat, NEW k \in Nat \ {0}, NEW a \in Nat, a = (k - 1) * FragSize, a < n,
         NEW q, NEW r, NEW st, NEW e, Made(r, st, e, c, k, a, n, q)
  PROVE  IsFragment(e, c, n, k)
<1>1. FragSize \in Nat /\ FragSize > 0
  BY IpAssumption
<1>2. PICK w \in Nat : w = n - a /\ w > 0
  OBVIOUS
<1>3. PICK v \in Nat : v = IF a + FragSize < n THEN FragSize ELSE w
  BY <1>1
<1>4. e.size = w /\ e.vsize = v /\ e.data = a /\ v > 0 /\ v <= w
  BY <1>1, <1>2, <1>3 DEF Made
<1>5. EndOfPart(n, k) = a + v
  BY <1>1, <1>2, <1>3, PartEnds
<1>6. NodeSize(e) = v /\ NodeText(e) = Piece(a, v)
  BY <1>4 DEF NodeSize, NodeText
<1>7. Covers(Piece(a, v), a, a + v)
  BY <1>4, PieceCovers
<1>8. (a + v) - a = v
  OBVIOUS
<1>. QED BY <1>5, <1>6, <1>7, <1>8 DEF IsFragment, Made

(* The text of a fragment that begins with a header and goes on in the node *)
(* behind it.                                                               *)
LEMMA HeaderText ==
  ASSUME NEW e, e.data = 0, e.size = 8, e.vsize = FragSize, FragSize > 8,
         NEW b, DOMAIN e.vmem = 1 .. 1, e.vmem[1] = b, b.data = 8, NEW m \in Nat, b.size = m, m >= FragSize - 8
  PROVE  NodeText(e) = Piece(0, 8) \o Piece(8, FragSize - 8)
<1>. DEFINE rest == e.vsize - e.size
            left == IF Before(e.vmem, 1) < rest THEN rest - Before(e.vmem, 1) ELSE 0
            Take(i) == Piece(e.vmem[i].data, IF e.vmem[i].size < (IF Before(e.vmem, i) < rest THEN rest - Before(e.vmem, i) ELSE 0)
                                             THEN e.vmem[i].size
                                             ELSE IF Before(e.vmem, i) < rest THEN rest - Before(e.vmem, i) ELSE 0)
            s == [i \in DOMAIN e.vmem |-> Take(i)]
<1>1. FragSize \in Nat /\ DOMAIN e.vmem = {1} /\ e.vmem[1] = b
  BY IpAssumption
<1>2. NodeText(e) = Piece(e.data, e.size) \o FlattenSeq(s)
  <2>1. e.vsize # 0 /\ ~(e.vsize <= e.size)
    BY <1>1
  <2>. QED BY <2>1 DEF NodeText
<1>3. Before(e.vmem, 1) = 0
  <2>. DEFINE t == [k \in 1 .. 1 - 1 |-> e.vmem[k].size]
  <2>1. Before(e.vmem, 1) = Total(t)
    BY DEF Before
  <2>2. Len(t) = 0
    OBVIOUS
  <2>. HIDE DEF t
  <2>. QED BY <2>1, <2>2, TotalIs
<1>4. Len(s) = 1 /\ s[1] = Piece(8, FragSize - 8)
  <2>1. DOMAIN e.vmem = 1 .. 1
    BY <1>1
  <2>2. Len(s) = 1 /\ s[1] = Take(1)
    BY <2>1
  <2>3. Take(1) = Piece(8, FragSize - 8)
    BY <1>1, <1>3
  <2>. QED BY <2>2, <2>3
<1>. HIDE DEF s
<1>. QED BY <1>2, <1>4, FlattenOne

\* The k-th turn of the loop has made the k-th fragment, and the next one
\* begins where it ends.
Advanced(r, st, l, c, n, q, k) ==
  /\ \E e : IsFragment(e, c, n, k) /\ r.out = Append(st.out, e)
  /\ k * FragSize < n => r.i = q /\ r.off \in Nat /\ l[q].data + r.off = k * FragSize

(* A turn that begins in the last node does that.                           *)
LEMMA LaterTurn ==
  ASSUME NEW c, NEW n \in Nat, NEW l, NEW q, Payload(l, c, n, q),
         NEW k \in Nat \ {0}, (k - 1) * FragSize < n,
         NEW st, st.i = q, st.off \in Nat, l[q].data + st.off = (k - 1) * FragSize
  PROVE  Advanced(FragmentTurn(l, FragSize, st, <<c, k>>), st, l, c, n, q, k)
<1>. DEFINE r == FragmentTurn(l, FragSize, st, <<c, k>>)
<1>1. FragSize \in Nat /\ l[q].data \in Nat
  BY IpAssumption, PayloadShape, PayloadNodes
<1>2. PICK a \in Nat : a = (k - 1) * FragSize
  BY <1>1
<1>3. PICK e : Made(r, st, e, c, k, a, n, q)
  BY <1>2, TurnInLast
<1>. HIDE DEF r
<1>4. IsFragment(e, c, n, k)
  BY <1>2, <1>3, MadeIsFragment
<1>5. r.out = Append(st.out, e) /\ (a + FragSize < n => r.i = q /\ r.off = st.off + FragSize)
  BY <1>3 DEF Made
<1>6. a + FragSize = k * FragSize
  BY <1>2, PartEnds
<1>7. ASSUME k * FragSize < n
      PROVE  r.i = q /\ r.off \in Nat /\ l[q].data + r.off = k * FragSize
  <2>1. r.i = q /\ r.off = st.off + FragSize
    BY <1>5, <1>6, <1>7
  <2>2. l[q].data + (st.off + FragSize) = a + FragSize
    BY <1>1, <1>2
  <2>. QED BY <1>1, <1>6, <2>1, <2>2
<1>8. Advanced(r, st, l, c, n, q, k)
  BY <1>4, <1>5, <1>7 DEF Advanced
<1>. QED BY <1>8 DEF r

(* What is behind the first of two nodes is the second.                     *)
LEMMA SecondNode ==
  ASSUME NEW S, NEW l \in Seq(S), Len(l) = 2
  PROVE  SubSeq(l, 2, 2) \in Seq(S) /\ DOMAIN SubSeq(l, 2, 2) = 1 .. 1 /\ SubSeq(l, 2, 2)[1] = l[2]
<1>. DEFINE m == SubSeq(l, 2, 2)
<1>1. l[2] \in S
  OBVIOUS
<1>2. m \in Seq(S) /\ Len(m) = 1 /\ m[1] = l[2]
  BY <1>1, SubSeqProperties
<1>. HIDE DEF m
<1>3. DOMAIN m = 1 .. 1
  BY <1>2
<1>. QED BY <1>2, <1>3 DEF m

\* The j-th node has the bytes that a fragment lacks.
HasBytes(l, j, left) == ~(j > Len(l)) /\ ~(l[j].size < left)

\* The turn r has made the fragment e, which ends in that node.
EndsIn(r, st, e, j, left) == r.i = j /\ r.off = left /\ r.out = Append(st.out, e)

(* A fragment that ends in such a node.                                     *)
LEMMA StaysInNode ==
  ASSUME NEW l, NEW st, NEW e, NEW j, NEW left, HasBytes(l, j, left),
         NEW f, f = Extended(e, SubSeq(l, st.i + 1, Len(l)), FragSize)
  PROVE  EndsIn(GoesOn(l, FragSize, st, e, j, left), st, f, j, left)
  BY DEF GoesOn, Extended, HasBytes, EndsIn

(* The first turn over a header and the node behind it makes the first one. *)
LEMMA FirstTurn ==
  ASSUME NEW c, NEW n \in Nat, n >= FragSize, NEW l, Payload(l, c, n, 2),
         NEW st, st.i = 1, st.off = 0
  PROVE  Advanced(FragmentTurn(l, FragSize, st, <<c, 1>>), st, l, c, n, 2, 1)
<1>0. PICK z \in Nat : z = n - 8 /\ l[2].size = z /\ z >= FragSize - 8
  <2>1. l[2].size \in Nat
    BY PayloadNodes
  <2>2. l[2].size = n - 8
    BY DEF Payload
  <2>. QED BY <2>1, <2>2, IpAssumption
<1>1. /\ FragSize \in Nat /\ FragSize >= 8 /\ Len(l) = 2 /\ DOMAIN l = 1 .. 2
      /\ l[1].data = 0 /\ l[1].size = 8 /\ l[2].data = 8 /\ ~l[2].more
      /\ st.i = 1 /\ st.off = 0
  BY IpAssumption, PayloadShape DEF Payload
<1>. DEFINE r == FragmentTurn(l, FragSize, st, <<c, 1>>)
            e0 == Filled(c, 1, 0, 8, FragSize)
            remain == FragSize - 8
            j == Stop(l, 1, remain)
            left == remain - (Before(l, j) - Before(l, 2))
<1>2. r = FragmentFrom(l, FragSize, st, e0, remain, j)
  <2>1. l[1].data + 0 = 0 /\ l[1].size - 0 = 8 /\ 0 + FragSize - l[1].size = remain /\ ~(1 > Len(l))
    BY <1>1
  <2>. QED BY <1>1, <2>1 DEF FragmentTurn, Filled
<1>3. Holds(e0, c, 1, 0, 8, FragSize)
  BY <1>1, FilledIs
<1>4. EndOfPart(n, 1) = FragSize /\ (1 - 1) * FragSize = 0 /\ 1 * FragSize = FragSize
  BY <1>1 DEF EndOfPart
<1>5. Before(l, 2) \in Nat
  BY BeforeType
<1>. HIDE DEF e0
<1>6. CASE FragSize = 8
  <2>1. r = [i |-> 2, off |-> 0, out |-> Append(st.out, e0)]
    BY <1>2, <1>3, <1>6 DEF FragmentFrom, Holds
  <2>2. NodeSize(e0) = 8 /\ NodeText(e0) = Piece(0, 8)
    BY <1>3, <1>6 DEF NodeSize, NodeText, Holds
  <2>3. Covers(Piece(0, 8), 0, 0 + 8)
    BY PieceCovers
  <2>4. IsFragment(e0, c, n, 1)
    BY <1>3, <1>4, <1>6, <2>2, <2>3 DEF IsFragment, Holds
  <2>. HIDE DEF r
  <2>5. Advanced(r, st, l, c, n, 2, 1)
    BY <1>1, <1>4, <1>6, <2>1, <2>4 DEF Advanced
  <2>. QED BY <2>5 DEF r
<1>7. CASE FragSize > 8
  <2>. DEFINE m == SubSeq(l, 2, 2)
              e == Extended(e0, m, FragSize)
  <2>1. j = 2
    <3>1. Before(l, 2) - Before(l, 2) + l[2].size >= remain
      BY <1>0, <1>1, <1>5
    <3>. HIDE DEF remain
    <3>. QED BY <1>1, <3>1 DEF Stop
  <2>2. left = FragSize - 8
    <3>. HIDE DEF j
    <3>. QED BY <1>1, <1>5, <2>1
  <2>. HIDE DEF j, left
  <2>3. r = GoesOn(l, FragSize, st, e0, j, left)
    BY <1>1, <1>2, <1>3, <1>7 DEF FragmentFrom, Holds, left
  <2>4. r.i = 2 /\ r.off = FragSize - 8 /\ r.out = Append(st.out, e)
    <3>1. HasBytes(l, 2, left)
      BY <1>0, <1>1, <2>2 DEF HasBytes
    <3>2. e = Extended(e0, SubSeq(l, st.i + 1, Len(l)), FragSize)
      BY <1>1
    <3>3. r = GoesOn(l, FragSize, st, e0, 2, left)
      BY <2>1, <2>3
    <3>. HIDE DEF e, r
    <3>4. EndsIn(r, st, e, 2, left)
      BY <3>1, <3>2, <3>3, StaysInNode
    <3>. QED BY <2>2, <3>4 DEF EndsIn
  <2>5. m \in Seq(PayloadNode(c)) /\ DOMAIN m = 1 .. 1 /\ m[1] = l[2]
    <3>1. l \in Seq(PayloadNode(c)) /\ Len(l) = 2
      BY DEF Payload
    <3>. QED BY <3>1, SecondNode
  <2>. HIDE DEF m
  <2>6. Holds(e, c, 1, 0, 8, FragSize)
    BY <1>1, <1>3, <2>5, ExtendedIs
  <2>7. e.vmem = m
    BY <1>3, <2>5 DEF Extended, Holds, FragmentNode
  <2>. HIDE DEF e, r
  <2>8. NodeSize(e) = FragSize /\ NodeText(e) = Piece(0, 8) \o Piece(8, FragSize - 8)
    <3>1. e.data = 0 /\ e.size = 8 /\ e.vsize = FragSize
      BY <2>6 DEF Holds
    <3>2. NodeSize(e) = FragSize
      BY <1>1, <3>1 DEF NodeSize
    <3>. QED BY <1>0, <1>1, <1>7, <2>5, <2>7, <3>1, <3>2, HeaderText
  <2>9. Covers(Piece(0, 8) \o Piece(8, FragSize - 8), 0, FragSize)
    <3>1. PICK d \in Nat : d = FragSize - 8 /\ 8 + d = FragSize
      BY <1>1
    <3>. QED BY <3>1, PiecesFollow
  <2>10. IsFragment(e, c, n, 1)
    BY <1>1, <1>4, <2>6, <2>8, <2>9 DEF IsFragment, Holds
  <2>11. Advanced(r, st, l, c, n, 2, 1)
    BY <1>1, <1>4, <2>4, <2>10 DEF Advanced
  <2>. QED BY <2>11 DEF r
<1>. QED BY <1>1, <1>6, <1>7

-----------------------------------------------------------------------------
\* The states of the loop of dblk_fragment() after p turns.
Turns(f, l, c, p) ==
  f = [k \in 0 .. p |-> IF k = 0 THEN [i |-> 1, off |-> 0, out |-> <<>>]
                        ELSE FragmentTurn(l, FragSize, f[k - 1], <<c, k>>)]

(* Every number of turns can be taken.                                      *)
LEMMA TurnsExist ==
  ASSUME NEW l, NEW c, NEW p \in Nat
  PROVE  \E f : Turns(f, l, c, p)
<1>. DEFINE first == [i |-> 1, off |-> 0, out |-> <<>>]
            Bad == {m \in Nat : ~\E f : Turns(f, l, c, m)}
<1>1. Turns([k \in 0 .. 0 |-> first], l, c, 0)
  <2>. DEFINE g == [k \in 0 .. 0 |-> first]
  <2>. HIDE DEF first
  <2>1. g = [k \in 0 .. 0 |-> IF k = 0 THEN first ELSE FragmentTurn(l, FragSize, g[k - 1], <<c, k>>)]
    OBVIOUS
  <2>. QED BY <2>1 DEF Turns, first
<1>2. ASSUME NEW m \in Nat, m # 0, NEW f, Turns(f, l, c, m - 1)
      PROVE  \E g : Turns(g, l, c, m)
  <2>. DEFINE Step(k) == IF k = 0 THEN first ELSE FragmentTurn(l, FragSize, f[k - 1], <<c, k>>)
              g == [k \in 0 .. m |-> Step(k)]
  <2>1. \A k \in 0 .. m - 1 : f[k] = Step(k)
    BY <1>2 DEF Turns
  <2>. HIDE DEF first
  <2>2. \A k \in 0 .. m - 1 : g[k] = f[k]
    <3>. HIDE DEF Step
    <3>. QED BY <1>2, <2>1
  <2>3. \A k \in 0 .. m : g[k] = IF k = 0 THEN first ELSE FragmentTurn(l, FragSize, g[k - 1], <<c, k>>)
    <3>1. \A k \in 0 .. m : k = 0 \/ k - 1 \in 0 .. m - 1
      BY <1>2
    <3>2. \A k \in 0 .. m : g[k] = Step(k)
      OBVIOUS
    <3>. HIDE DEF g
    <3>. QED BY <2>2, <3>1, <3>2
  <2>4. Turns(g, l, c, m)
    BY <2>3 DEF Turns, first
  <2>. QED BY <2>4
<1>3. ASSUME Bad # {} PROVE FALSE
  <2>1. PICK m \in Bad : m = 0 \/ m - 1 \notin Bad
    BY <1>3, Least
  <2>2. m # 0
    BY <1>1, <2>1
  <2>3. \E f : Turns(f, l, c, m - 1)
    BY <2>1, <2>2
  <2>. QED BY <1>2, <2>1, <2>2, <2>3
<1>. QED BY <1>3

\* The fragments of a payload of n bytes.
Fragments(frags, c, n) ==
  /\ frags \in Seq(FragmentNode(c)) /\ Len(frags) = Packets(n)
  /\ \A k \in 1 .. Packets(n) : IsFragment(frags[k], c, n, k)

\* The state after k turns: the fragments so far, and where the next begins.
After(st, l, c, n, q, k) ==
  /\ st.out \in Seq(FragmentNode(c)) /\ Len(st.out) = k
  /\ \A j \in 1 .. k : IsFragment(st.out[j], c, n, j)
  /\ k * FragSize < n => IF k = 0 THEN st = [i |-> 1, off |-> 0, out |-> <<>>]
                         ELSE st.i = q /\ st.off \in Nat /\ l[q].data + st.off = k * FragSize

(* A turn adds the next fragment.                                           *)
LEMMA AfterTurn ==
  ASSUME NEW c, NEW n \in Nat, n >= FragSize, NEW l, NEW q, Payload(l, c, n, q),
         NEW k \in Nat \ {0}, (k - 1) * FragSize < n,
         NEW st, After(st, l, c, n, q, k - 1)
  PROVE  After(FragmentTurn(l, FragSize, st, <<c, k>>), l, c, n, q, k)
<1>. DEFINE r == FragmentTurn(l, FragSize, st, <<c, k>>)
<1>1. Advanced(r, st, l, c, n, q, k)
  <2>1. CASE k = 1 /\ q = 2
    BY <2>1, FirstTurn DEF After
  <2>2. CASE k = 1 /\ q = 1
    <3>1. st.i = q /\ st.off = 0 /\ l[q].data + st.off = (k - 1) * FragSize
      BY <2>2, IpAssumption DEF After, Payload
    <3>. QED BY <3>1, LaterTurn
  <2>3. CASE k # 1
    BY <2>3, LaterTurn DEF After
  <2>. QED BY <2>1, <2>2, <2>3, PayloadShape
<1>. HIDE DEF r
<1>2. PICK e : IsFragment(e, c, n, k) /\ r.out = Append(st.out, e)
  BY <1>1 DEF Advanced
<1>3. st.out \in Seq(FragmentNode(c)) /\ Len(st.out) = k - 1 /\ e \in FragmentNode(c)
  BY <1>2 DEF After, IsFragment
<1>4. r.out \in Seq(FragmentNode(c)) /\ Len(r.out) = k /\ r.out[k] = e
      /\ \A j \in 1 .. k - 1 : r.out[j] = st.out[j]
  BY <1>2, <1>3
<1>5. \A j \in 1 .. k : IsFragment(r.out[j], c, n, j)
  BY <1>2, <1>4 DEF After
<1>6. After(r, l, c, n, q, k)
  BY <1>1, <1>4, <1>5 DEF After, Advanced
<1>. QED BY <1>6 DEF r

(* dblk_fragment() makes all the fragments of its payload.                  *)
LEMMA FragmentsAre ==
  ASSUME NEW c, NEW n \in Nat, n >= FragSize, NEW l, NEW q, Payload(l, c, n, q)
  PROVE  Fragments(Fragment(l, FragSize, c), c, n)
<1>. DEFINE p == Packets(n)
            turn == CHOOSE f : Turns(f, l, c, p)
            Bad == {k \in 0 .. p : ~After(turn[k], l, c, n, q, k)}
<1>1. p \in Nat \ {0} /\ (p - 1) * FragSize < n /\ n <= p * FragSize /\ FragSize \in Nat
  BY PacketsAre, IpAssumption
<1>2. Turns(turn, l, c, p)
  BY <1>1, TurnsExist
<1>3. Fragment(l, FragSize, c) = turn[p].out
  <2>1. l # <<>> /\ Size(l) = n
    BY PayloadIsBlock
  <2>2. l[1].size # 0
    BY PayloadShape, IpAssumption DEF Payload
  <2>3. p = n \div FragSize + (IF n % FragSize > 0 THEN 1 ELSE 0)
    BY IpAssumption DEF Packets
  <2>. HIDE DEF p
  <2>. QED BY <2>1, <2>2, <2>3 DEF Fragment, Turns
<1>. HIDE DEF turn, p
<1>4. /\ turn[0] = [i |-> 1, off |-> 0, out |-> <<>>]
      /\ \A k \in 1 .. p : turn[k] = FragmentTurn(l, FragSize, turn[k - 1], <<c, k>>)
  BY <1>1, <1>2 DEF Turns
<1>5. After(turn[0], l, c, n, q, 0)
  BY <1>4 DEF After
<1>6. ASSUME Bad # {} PROVE FALSE
  <2>1. PICK k \in Bad : k = 0 \/ k - 1 \notin Bad
    <3>1. Bad \in SUBSET Nat
      BY <1>1
    <3>. HIDE DEF Bad
    <3>. QED BY <1>6, <3>1, Least
  <2>2. k \in 1 .. p /\ k - 1 \in 0 .. p
    BY <1>1, <1>5, <2>1
  <2>3. After(turn[k - 1], l, c, n, q, k - 1)
    BY <2>1, <2>2
  <2>4. (k - 1) * FragSize < n
    BY <1>1, <2>2, PartsInOrder
  <2>5. After(turn[k], l, c, n, q, k)
    <3>1. k \in Nat \ {0} /\ turn[k] = FragmentTurn(l, FragSize, turn[k - 1], <<c, k>>)
      BY <1>4, <2>2
    <3>. QED BY <2>3, <2>4, <3>1, AfterTurn
  <2>. QED BY <2>1, <2>5
<1>7. After(turn[p], l, c, n, q, p)
  BY <1>1, <1>6
<1>. QED BY <1>3, <1>7 DEF After, Fragments, p

-----------------------------------------------------------------------------
\* The node that the k-th allocation of the call c made.
NodeOf(c, k) == << <<c, k>>, "node" >>

(* Deleting a fragment frees its node.                                      *)
LEMMA FreedFragment ==
  ASSUME NEW c, NEW k, NEW e \in FragmentNode(c), e.id = <<c, k>>
  PROVE  Freed(<<e>>) = {NodeOf(c, k)} /\ FreedTwice(<<e>>) = {}
<1>. DEFINE b == <<e>>
<1>1. DOMAIN b = {1} /\ b[1] = e
  OBVIOUS
<1>2. Owned(e) = {NodeOf(c, k)}
  BY DEF Owned, NodeOf, FragmentNode
<1>. HIDE DEF b
<1>3. Freed(b) = {NodeOf(c, k)}
  BY <1>1, <1>2 DEF Freed
<1>4. FreedTwice(b) = {}
  BY <1>1 DEF FreedTwice
<1>. QED BY <1>3, <1>4 DEF b

(* Deleting those behind the k-th frees theirs.                             *)
LEMMA FreedBehind ==
  ASSUME NEW c, NEW n \in Nat, n >= FragSize, NEW frags, Fragments(frags, c, n),
         NEW k \in 1 .. Packets(n)
  PROVE  /\ Freed(Behind(frags, k)) = {NodeOf(c, j) : j \in k + 1 .. Packets(n)}
         /\ FreedTwice(Behind(frags, k)) = {}
<1>. DEFINE p == Packets(n)
            b == Behind(frags, k)
<1>1. p \in Nat /\ k \in 1 .. p /\ Len(frags) = p /\ frags \in Seq(FragmentNode(c))
  BY PacketsAre DEF Fragments
<1>2. b \in Seq(FragmentNode(c)) /\ Len(b) = p - k /\ DOMAIN b = 1 .. p - k
      /\ \A i \in 1 .. p - k : b[i] = frags[k + i]
  <2>. HIDE DEF p
  <2>1. Behind(frags, k) = SubSeq(frags, k + 1, p)
    BY <1>1 DEF Behind
  <2>2. \A i \in k + 1 .. p : frags[i] \in FragmentNode(c)
    BY <1>1
  <2>3. /\ b \in Seq(FragmentNode(c)) /\ Len(b) = IF k + 1 <= p THEN p - (k + 1) + 1 ELSE 0
        /\ \A i \in 1 .. p - (k + 1) + 1 : b[i] = frags[k + 1 + i - 1]
    BY <1>1, <2>1, <2>2, SubSeqProperties
  <2>4. Len(b) = p - k /\ \A i \in 1 .. p - k : k + 1 + i - 1 = k + i
    BY <1>1, <2>3
  <2>5. \A i \in 1 .. p - k : b[i] = frags[k + i]
    BY <1>1, <2>3, <2>4
  <2>. HIDE DEF b
  <2>6. DOMAIN b = 1 .. p - k
    BY <2>3, <2>4
  <2>. QED BY <2>3, <2>4, <2>5, <2>6
<1>3. \A i \in 1 .. p - k : Owned(b[i]) = {NodeOf(c, k + i)}
  <2>1. ASSUME NEW i \in 1 .. p - k PROVE Owned(b[i]) = {NodeOf(c, k + i)}
    <3>1. k + i \in 1 .. p /\ b[i] = frags[k + i]
      BY <1>1, <1>2
    <3>2. b[i] \in FragmentNode(c) /\ b[i].id = <<c, k + i>>
      BY <3>1 DEF Fragments, IsFragment
    <3>. QED BY <3>2 DEF Owned, NodeOf, FragmentNode
  <2>. QED BY <2>1
<1>. HIDE DEF b, p
<1>4. Freed(b) = {NodeOf(c, j) : j \in k + 1 .. p}
  <2>1. Freed(b) = {NodeOf(c, k + i) : i \in 1 .. p - k}
    BY <1>2, <1>3 DEF Freed
  <2>2. \A i \in 1 .. p - k : k + i \in k + 1 .. p
    BY <1>1
  <2>3. \A j \in k + 1 .. p : j - k \in 1 .. p - k /\ k + (j - k) = j
    BY <1>1
  <2>. QED BY <2>1, <2>2, <2>3
<1>5. FreedTwice(b) = {}
  <2>1. ASSUME NEW i \in 1 .. p - k, NEW j \in 1 .. p - k, i # j
        PROVE  Owned(b[i]) \cap Owned(b[j]) = {}
    <3>1. k + i # k + j
      BY <2>1
    <3>2. NodeOf(c, k + i) # NodeOf(c, k + j)
      BY <3>1 DEF NodeOf
    <3>. QED BY <1>3, <3>2
  <2>. QED BY <1>2, <2>1 DEF FreedTwice
<1>. QED BY <1>4, <1>5 DEF b, p

(* Deleting the payload frees no more than was allocated for it, and that   *)
(* once.                                                                    *)
LEMMA FreedPayload ==
  ASSUME NEW c, NEW n, NEW l, NEW q, Payload(l, c, n, q)
  PROVE  Freed(l) \subseteq Memory(c, 0) /\ FreedTwice(l) = {}
<1>1. q \in 1 .. 2 /\ DOMAIN l = 1 .. q
  BY PayloadShape
<1>2. ASSUME NEW i \in 1 .. q PROVE Owned(l[i]) \subseteq Memory(c, 0)
  <2>1. l[i].id = <<c, 0>> /\ l[i].own \subseteq {"node", "data"}
    BY PayloadNodes
  <2>. QED BY <2>1 DEF Owned, Memory
<1>3. Freed(l) \subseteq Memory(c, 0)
  BY <1>1, <1>2 DEF Freed
<1>4. q = 2 => Owned(l[1]) = {} /\ Owned(l[2]) = {}
  BY DEF Payload, Owned
<1>5. FreedTwice(l) = {}
  BY <1>1, <1>4 DEF FreedTwice
<1>. QED BY <1>3, <1>5

(* The memory of the payload is not that of a fragment.                     *)
LEMMA NodesApart ==
  ASSUME NEW c, NEW k \in Nat \ {0} PROVE NodeOf(c, k) \notin Memory(c, 0)
  BY DEF NodeOf, Memory

(* Two fragments have different nodes.                                      *)
LEMMA NodesDiffer ==
  ASSUME NEW c, NEW j, NEW k, NodeOf(c, j) = NodeOf(c, k) PROVE j = k
  BY DEF NodeOf

-----------------------------------------------------------------------------
\* What a call has done so far is a record of these fields.
IsState(st) == st \in [ok: BOOLEAN, off: Nat, frames: {st.frames}, freed: {st.freed}, again: {st.again}]

\* The state d differs from st by the deletion of the list l.
Deleted(d, st, l) ==
  /\ IsState(d) /\ d.ok = st.ok /\ d.off = st.off /\ d.frames = st.frames
  /\ d.freed = st.freed \cup Freed(l)
  /\ d.again = st.again \cup FreedTwice(l) \cup (st.freed \cap Freed(l))

(* Delete() does that.                                                      *)
LEMMA DeleteIs ==
  ASSUME NEW st, IsState(st), NEW l PROVE Deleted(Delete(st, l), st, l)
  BY DEF IsState, Deleted, Delete

\* The state r differs from st by a call of ip_ll_send() that was answered.
Handed(r, st, no, hdr, l, ans) ==
  /\ IsState(r) /\ r.off = st.off
  /\ ans = "sent" => /\ r.ok = st.ok
                     /\ r.frames = st.frames \cup Frames(no, hdr, l)
                     /\ r.freed = st.freed \cup Freed(l)
                     /\ r.again = st.again \cup FreedTwice(l) \cup (st.freed \cap Freed(l))
  /\ ans # "sent" => /\ r.ok = (ans = "given_up")
                     /\ r.frames = st.frames /\ r.freed = st.freed /\ r.again = st.again

(* LlSend() does that.                                                      *)
LEMMA LlSendIs ==
  ASSUME NEW st, IsState(st), NEW no, NEW hdr, NEW l, NEW ans
  PROVE  Handed(LlSend(st, no, hdr, l, ans), st, no, hdr, l, ans)
<1>. DEFINE d == Delete(st, l)
<1>1. Deleted(d, st, l)
  BY DeleteIs
<1>. HIDE DEF d
<1>2. CASE ans = "sent"
  <2>1. LlSend(st, no, hdr, l, ans) = [d EXCEPT !.frames = @ \cup Frames(no, hdr, l)]
    BY <1>2 DEF LlSend, d
  <2>. QED BY <1>1, <1>2, <2>1 DEF Deleted, Handed, IsState
<1>3. CASE ans # "sent"
  <2>1. LlSend(st, no, hdr, l, ans) = [st EXCEPT !.ok = ans = "given_up"]
    BY <1>3 DEF LlSend
  <2>. QED BY <1>3, <2>1 DEF Handed, IsState
<1>. QED BY <1>2, <1>3

(* A list of one block is sent in one frame.                                *)
LEMMA FrameOfBlock ==
  ASSUME NEW no, NEW hdr, NEW l, l # <<>>, Starts(l) = {1}, BlockAt(l, 1) = l
  PROVE  Frames(no, hdr, l) = {[no |-> no, at |-> 1, hdr |-> hdr, text |-> BlockText(l)]}
  BY DEF Frames

(* A fragment by itself is such a list.                                     *)
LEMMA FrameOfFragment ==
  ASSUME NEW no, NEW hdr, NEW c, NEW e \in FragmentNode(c)
  PROVE  Frames(no, hdr, <<e>>) = {[no |-> no, at |-> 1, hdr |-> hdr, text |-> NodeText(e)]}
<1>. DEFINE b == <<e>>
<1>1. DOMAIN b = 1 .. 1 /\ Len(b) = 1 /\ b[1] = e /\ b # <<>> /\ b \in Seq(FragmentNode(c))
  OBVIOUS
<1>. HIDE DEF b
<1>2. Starts(b) = {1}
  BY <1>1 DEF Starts
<1>3. EndOfBlock(b, 1) = 1
  BY <1>1 DEF EndOfBlock
<1>4. SubSeq(b, 1, 1) = b
  BY <1>1
<1>5. BlockAt(b, 1) = b
  BY <1>3, <1>4 DEF BlockAt
<1>6. BlockText(b) = NodeText(e)
  <2>. DEFINE s == [i \in 1 .. 1 |-> NodeText(b[i])]
  <2>1. BlockText(b) = FlattenSeq(s)
    BY <1>1 DEF BlockText
  <2>2. Len(s) = 1 /\ s[1] = NodeText(e)
    BY <1>1
  <2>. HIDE DEF s
  <2>. QED BY <2>1, <2>2, FlattenOne
<1>7. Frames(no, hdr, b) = {[no |-> no, at |-> 1, hdr |-> hdr, text |-> BlockText(b)]}
  BY <1>1, <1>2, <1>5, FrameOfBlock
<1>. QED BY <1>6, <1>7 DEF b

-----------------------------------------------------------------------------
\* The j-th packet is sent, and none was refused before.
Went(ans, j) == ans[j] = "sent" /\ \A i \in 1 .. j : ans[i] # "refused"

\* A frame with the part of a text of n bytes that its number names.
GoodFrame(f, n) ==
  /\ Covers(f.text, (f.no - 1) * FragSize, EndOfPart(n, f.no))
  /\ f.hdr.len = HdrLen + EndOfPart(n, f.no) - (f.no - 1) * FragSize
  /\ n >= FragSize => f.hdr.mf = (f.no < Packets(n))
  /\ f.hdr.off * 8 >= f.text[1].at

\* The frames of the first k packets.
FramesOf(frames, ans, n, k) ==
  /\ {f.no : f \in frames} = {j \in 1 .. k : Went(ans, j)}
  /\ \A f, g \in frames : f.no = g.no => f = g
  /\ \A f \in frames : GoodFrame(f, n)

(* A packet that is not sent changes nothing.                               *)
LEMMA FramesSame ==
  ASSUME NEW n, NEW ans, NEW k \in Nat \ {0}, NEW frames,
         FramesOf(frames, ans, n, k - 1), ~Went(ans, k)
  PROVE  FramesOf(frames, ans, n, k)
<1>1. {j \in 1 .. k : Went(ans, j)} = {j \in 1 .. k - 1 : Went(ans, j)}
  <2>1. \A j \in 1 .. k : j # k => j \in 1 .. k - 1
    OBVIOUS
  <2>2. \A j \in 1 .. k - 1 : j \in 1 .. k
    OBVIOUS
  <2>. QED BY <2>1, <2>2
<1>. QED BY <1>1 DEF FramesOf

(* One that is sent adds its frame.                                         *)
LEMMA FramesMore ==
  ASSUME NEW n, NEW ans, NEW k \in Nat \ {0}, NEW frames,
         FramesOf(frames, ans, n, k - 1), Went(ans, k),
         NEW f, f.no = k, GoodFrame(f, n)
  PROVE  FramesOf(frames \cup {f}, ans, n, k)
<1>1. {j \in 1 .. k : Went(ans, j)} = {j \in 1 .. k - 1 : Went(ans, j)} \cup {k}
  <2>1. \A j \in 1 .. k : j # k => j \in 1 .. k - 1
    OBVIOUS
  <2>2. k \in 1 .. k /\ \A j \in 1 .. k - 1 : j \in 1 .. k
    OBVIOUS
  <2>. QED BY <2>1, <2>2
<1>2. {g.no : g \in frames \cup {f}} = {g.no : g \in frames} \cup {k}
  OBVIOUS
<1>3. \A g \in frames : g.no # k
  <2>1. \A g \in frames : g.no \in 1 .. k - 1
    BY DEF FramesOf
  <2>. QED BY <2>1
<1>4. \A g, h \in frames \cup {f} : g.no = h.no => g = h
  BY <1>3 DEF FramesOf
<1>5. \A g \in frames \cup {f} : GoodFrame(g, n)
  BY DEF FramesOf
<1>. QED BY <1>1, <1>2, <1>4, <1>5 DEF FramesOf

\* The state of the loop of ip_hl_send() after k of the fragments.
LoopState(st, c, n, l, ans, k) ==
  /\ IsState(st) /\ st.again = {}
  /\ FramesOf(st.frames, ans, n, k)
  /\ st.ok <=> \A j \in 1 .. k : ans[j] # "refused"
  /\ st.ok => /\ st.freed = {NodeOf(c, j) : j \in {i \in 1 .. k : ans[i] = "sent"}}
              /\ k < Packets(n) => st.off * 8 >= k * FragSize
  /\ ~st.ok => /\ Freed(l) \subseteq st.freed
               /\ \A j \in 1 .. Packets(n) : ans[j] # "given_up" => NodeOf(c, j) \in st.freed

(* The offsets keep ahead of the text.                                      *)
LEMMA OffsetKeepsAhead ==
  ASSUME NEW n \in Nat, n >= FragSize, NEW k \in Nat \ {0}, k < Packets(n),
         NEW size, size = EndOfPart(n, k) - (k - 1) * FragSize,
         NEW off \in Nat, off * 8 >= (k - 1) * FragSize
  PROVE  (off + (size + HdrLen) \div 8) * 8 >= k * FragSize
<1>1. FragSize \in Nat /\ HdrLen \in Nat /\ HdrLen >= 8
  BY IpAssumption
<1>2. PICK p \in Nat : p = Packets(n) /\ (p - 1) * FragSize < n
  BY PacketsAre
<1>3. PICK b \in Nat : b = (k - 1) * FragSize
  BY <1>1
<1>4. b + FragSize = k * FragSize
  BY <1>3, PartEnds
<1>5. k * FragSize <= (p - 1) * FragSize
  BY <1>1, <1>2, PartsInOrder
<1>6. EndOfPart(n, k) = b + FragSize
  BY <1>1, <1>2, <1>3, <1>4, <1>5, PartEnds
<1>7. size = FragSize
  BY <1>1, <1>3, <1>6
<1>8. ((FragSize + HdrLen) \div 8) * 8 >= FragSize
  BY <1>1
<1>. QED BY <1>1, <1>3, <1>4, <1>7, <1>8

(* A part of the text is not empty.                                         *)
LEMMA PartSize ==
  ASSUME NEW n \in Nat, n >= FragSize, NEW k \in 1 .. Packets(n)
  PROVE  /\ EndOfPart(n, k) - (k - 1) * FragSize \in Nat \ {0}
         /\ (k - 1) * FragSize \in Nat /\ (k - 1) * FragSize < n
<1>1. FragSize \in Nat /\ FragSize > 0
  BY IpAssumption
<1>2. PICK p \in Nat : p = Packets(n) /\ (p - 1) * FragSize < n
  BY PacketsAre
<1>3. k \in Nat \ {0} /\ p \in Nat \ {0} /\ k <= p
  BY <1>2
<1>4. PICK b \in Nat : b = (k - 1) * FragSize
  BY <1>1, <1>3
<1>5. b < n
  BY <1>1, <1>2, <1>3, <1>4, PartsInOrder
<1>6. EndOfPart(n, k) = IF b + FragSize < n THEN b + FragSize ELSE n
  BY <1>1, <1>3, <1>4, PartEnds
<1>. QED BY <1>1, <1>4, <1>5, <1>6

(* The frame that the k-th turn hands down carries the k-th part.           *)
LEMMA FragmentGoes ==
  ASSUME NEW c, NEW n \in Nat, n >= FragSize, NEW frags, Fragments(frags, c, n),
         NEW k \in 1 .. Packets(n), NEW st, st.off \in Nat, st.off * 8 >= (k - 1) * FragSize,
         NEW f, f = [no |-> k, at |-> 1, hdr |-> FragmentHeader(st, frags, k, c),
                     text |-> NodeText(frags[k])]
  PROVE  f.no = k /\ GoodFrame(f, n)
<1>. DEFINE h == FragmentHeader(st, frags, k, c)
            size == EndOfPart(n, k) - (k - 1) * FragSize
<1>1. IsFragment(frags[k], c, n, k) /\ Len(frags) = Packets(n)
  BY DEF Fragments
<1>2. HdrLen \in Nat /\ FragSize \in Nat /\ size \in Nat /\ (k - 1) * FragSize \in Nat
  BY IpAssumption, PartSize
<1>3. h.off = st.off /\ h.mf = (k < Packets(n)) /\ h.len = size + HdrLen
  BY <1>1 DEF FragmentHeader, Header, IsFragment
<1>4. Covers(NodeText(frags[k]), (k - 1) * FragSize, EndOfPart(n, k))
  BY <1>1 DEF IsFragment
<1>5. NodeText(frags[k])[1].at = (k - 1) * FragSize
  BY <1>4 DEF Covers
<1>6. EndOfPart(n, k) \in Nat
  BY <1>2 DEF EndOfPart
<1>7. size + HdrLen = HdrLen + EndOfPart(n, k) - (k - 1) * FragSize
  BY <1>2, <1>6
<1>8. f.no = k /\ f.hdr = h /\ f.text = NodeText(frags[k])
  OBVIOUS
<1>. HIDE DEF h, size
<1>. QED BY <1>3, <1>4, <1>5, <1>7, <1>8 DEF GoodFrame

\* What a call of ip_ll_send() may answer.
IsAnswers(ans, n) == ans \in [1 .. Packets(n) -> {"refused", "sent", "given_up"}]

\* What the packets before the k-th freed: those that were sent.
FreedBy(r, c, ans, k) == r.freed = {NodeOf(c, j) : j \in {i \in 1 .. k - 1 : ans[i] = "sent"}}

\* What the deletions leave of a call whose fragment was refused.
AllFreed(d, r, c, n, l, ans) ==
  /\ IsState(d) /\ d.ok = r.ok /\ d.frames = r.frames /\ d.again = {}
  /\ Freed(l) \subseteq d.freed
  /\ \A j \in 1 .. Packets(n) : ans[j] # "given_up" => NodeOf(c, j) \in d.freed

(* A refused fragment, those behind it and the payload are all deleted, and *)
(* nothing that was deleted before.                                         *)
LEMMA RefusalFrees ==
  ASSUME NEW c, NEW n \in Nat, n >= FragSize, NEW l, NEW q, Payload(l, c, n, q),
         NEW frags, Fragments(frags, c, n), NEW k \in 1 .. Packets(n), NEW ans,
         NEW r, IsState(r), r.again = {},
         FreedBy(r, c, ans, k), \A j \in 1 .. k - 1 : ans[j] # "refused", IsAnswers(ans, n),
         NEW d, d = Delete(Delete(Delete(r, <<frags[k]>>), Behind(frags, k)), l)
  PROVE  AllFreed(d, r, c, n, l, ans)
<1>. DEFINE e == frags[k]
            d1 == Delete(r, <<e>>)
            d2 == Delete(d1, Behind(frags, k))
            p == Packets(n)
            before == {NodeOf(c, j) : j \in {i \in 1 .. k - 1 : ans[i] = "sent"}}
            behind == {NodeOf(c, j) : j \in k + 1 .. p}
<1>1. p \in Nat
  BY PacketsAre
<1>2. Freed(<<e>>) = {NodeOf(c, k)} /\ FreedTwice(<<e>>) = {}
  BY FreedFragment DEF Fragments, IsFragment
<1>3. Freed(Behind(frags, k)) = behind /\ FreedTwice(Behind(frags, k)) = {}
  BY FreedBehind
<1>4. Freed(l) \subseteq Memory(c, 0) /\ FreedTwice(l) = {}
  BY FreedPayload
<1>5. Deleted(d1, r, <<e>>)
  BY DeleteIs
<1>. HIDE DEF d1
<1>6. Deleted(d2, d1, Behind(frags, k))
  BY <1>5, DeleteIs DEF Deleted
<1>. HIDE DEF d2
<1>7. Deleted(d, d2, l)
  BY <1>6, DeleteIs DEF Deleted, d1, d2
<1>. HIDE DEF before, behind, p
<1>8. before \cap {NodeOf(c, k)} = {} /\ (before \cup {NodeOf(c, k)}) \cap behind = {}
  <2>1. ASSUME NEW x \in before PROVE x # NodeOf(c, k) /\ x \notin behind
    <3>1. PICK j \in 1 .. k - 1 : x = NodeOf(c, j)
      BY DEF before
    <3>2. j # k /\ \A i \in k + 1 .. p : i # j
      BY <1>1 DEF p
    <3>. QED BY <3>1, <3>2, NodesDiffer DEF behind
  <2>2. NodeOf(c, k) \notin behind
    <3>1. \A i \in k + 1 .. p : i # k
      BY <1>1 DEF p
    <3>. QED BY <3>1, NodesDiffer DEF behind
  <2>. QED BY <2>1, <2>2
<1>9. ((before \cup {NodeOf(c, k)}) \cup behind) \cap Memory(c, 0) = {}
  <2>1. ASSUME NEW j \in Nat \ {0} PROVE NodeOf(c, j) \notin Memory(c, 0)
    BY NodesApart
  <2>2. /\ \A j \in 1 .. k - 1 : j \in Nat \ {0}
        /\ \A j \in k + 1 .. p : j \in Nat \ {0}
        /\ k \in Nat \ {0}
    BY <1>1 DEF p
  <2>. QED BY <2>1, <2>2 DEF before, behind
<1>10. d.freed = ((before \cup {NodeOf(c, k)}) \cup behind) \cup Freed(l)
  BY <1>2, <1>3, <1>5, <1>6, <1>7 DEF Deleted, before, FreedBy
<1>11. d.again = {}
  <2>1. d1.again = {} /\ d1.freed = before \cup {NodeOf(c, k)}
    BY <1>2, <1>5, <1>8 DEF Deleted, before, FreedBy
  <2>2. d2.again = {} /\ d2.freed = (before \cup {NodeOf(c, k)}) \cup behind
    BY <1>3, <1>6, <1>8, <2>1 DEF Deleted
  <2>. QED BY <1>4, <1>7, <1>9, <2>2 DEF Deleted
<1>12. ASSUME NEW j \in 1 .. p, ans[j] # "given_up" PROVE NodeOf(c, j) \in d.freed
  <2>1. CASE j < k
    <3>1. j \in 1 .. k - 1 /\ ans[j] = "sent"
      BY <1>12, <2>1 DEF p, IsAnswers
    <3>. QED BY <1>10, <3>1 DEF before
  <2>2. CASE j = k
    BY <1>10, <2>2
  <2>3. CASE j > k
    <3>1. j \in k + 1 .. p
      BY <1>1, <2>3 DEF p
    <3>. QED BY <1>10, <3>1 DEF behind
  <2>. QED BY <2>1, <2>2, <2>3 DEF p
<1>13. IsState(d) /\ d.ok = r.ok /\ d.frames = r.frames
  BY <1>5, <1>6, <1>7 DEF Deleted
<1>. QED BY <1>10, <1>11, <1>12, <1>13 DEF p, AllFreed

(* A turn of the loop of ip_hl_send() keeps what is said about it.          *)
LEMMA LoopTurn ==
  ASSUME NEW c, NEW n \in Nat, n >= FragSize, NEW l, NEW q, Payload(l, c, n, q),
         NEW frags, Fragments(frags, c, n), NEW ans, IsAnswers(ans, n),
         NEW k \in 1 .. Packets(n), NEW st, LoopState(st, c, n, l, ans, k - 1)
  PROVE  LoopState(FragmentLoop(st, frags, k, c, ans, l), c, n, l, ans, k)
<1>. DEFINE e == frags[k]
            hdr == FragmentHeader(st, frags, k, c)
            r == LlSend(st, k, hdr, <<e>>, ans[k])
            d == FragmentLoop(st, frags, k, c, ans, l)
            off2 == OffsetAfter(st, frags, k)
            w == [r EXCEPT !.off = off2]
            f == [no |-> k, at |-> 1, hdr |-> hdr, text |-> NodeText(e)]
<1>1. PICK p \in Nat \ {0} : p = Packets(n)
  BY PacketsAre
<1>2. k \in 1 .. p /\ k \in Nat \ {0} /\ ans[k] \in {"refused", "sent", "given_up"}
  BY <1>1 DEF IsAnswers
<1>3. e \in FragmentNode(c) /\ e.id = <<c, k>> /\ NodeSize(e) = EndOfPart(n, k) - (k - 1) * FragSize
  BY DEF Fragments, IsFragment
<1>4. IsState(st) /\ st.again = {} /\ FramesOf(st.frames, ans, n, k - 1)
  BY DEF LoopState
<1>5. (\A j \in 1 .. k : ans[j] # "refused") <=> (ans[k] # "refused" /\ \A j \in 1 .. k - 1 : ans[j] # "refused")
  <2>1. \A j \in 1 .. k : j = k \/ j \in 1 .. k - 1
    BY <1>2
  <2>2. k \in 1 .. k /\ \A j \in 1 .. k - 1 : j \in 1 .. k
    BY <1>2
  <2>. QED BY <2>1, <2>2
<1>6. CASE ~st.ok
  <2>1. d = st
    BY <1>6 DEF FragmentLoop
  <2>2. ~Went(ans, k) /\ ~(\A j \in 1 .. k : ans[j] # "refused")
    BY <1>5, <1>6 DEF LoopState, Went
  <2>3. FramesOf(st.frames, ans, n, k)
    BY <1>2, <1>4, <2>2, FramesSame
  <2>. HIDE DEF d
  <2>4. LoopState(d, c, n, l, ans, k)
    BY <1>6, <2>1, <2>2, <2>3 DEF LoopState
  <2>. QED BY <2>4 DEF d
<1>7. CASE st.ok
  <2>1. /\ \A j \in 1 .. k - 1 : ans[j] # "refused"
        /\ st.freed = {NodeOf(c, j) : j \in {i \in 1 .. k - 1 : ans[i] = "sent"}}
        /\ st.off \in Nat /\ st.off * 8 >= (k - 1) * FragSize
    <3>1. k - 1 < Packets(n)
      BY <1>1, <1>2
    <3>. QED BY <1>4, <1>7, <3>1 DEF LoopState, IsState
  <2>2. Handed(r, st, k, hdr, <<e>>, ans[k])
    BY <1>4, LlSendIs
  <2>3. d = IF r.ok THEN w ELSE Delete(Delete(Delete(r, <<e>>), Behind(frags, k)), l)
    BY <1>7 DEF FragmentLoop
  <2>. HIDE DEF r
  <2>4. off2 \in Nat /\ (k < Packets(n) => off2 * 8 >= k * FragSize)
    <3>1. off2 = st.off + (NodeSize(e) + HdrLen) \div 8
      BY DEF OffsetAfter
    <3>2. NodeSize(e) \in Nat /\ HdrLen \in Nat
      BY <1>3, PartSize, IpAssumption
    <3>3. k < Packets(n) => (st.off + (NodeSize(e) + HdrLen) \div 8) * 8 >= k * FragSize
      BY <1>2, <1>3, <2>1, OffsetKeepsAhead
    <3>. HIDE DEF e
    <3>. QED BY <2>1, <3>1, <3>2, <3>3
  <2>. HIDE DEF hdr, off2
  <2>5. IsState(r)
    BY <2>2 DEF Handed
  <2>6. IsState(w) /\ w.ok = r.ok /\ w.frames = r.frames /\ w.freed = r.freed /\ w.again = r.again /\ w.off = off2
    BY <2>4, <2>5 DEF IsState
  <2>. HIDE DEF w, d
  <2>7. CASE ans[k] = "sent"
    <3>1. /\ r.ok /\ r.frames = st.frames \cup Frames(k, hdr, <<e>>)
          /\ r.freed = st.freed \cup Freed(<<e>>)
          /\ r.again = st.again \cup FreedTwice(<<e>>) \cup (st.freed \cap Freed(<<e>>))
      BY <1>7, <2>2, <2>7 DEF Handed
    <3>2. Freed(<<e>>) = {NodeOf(c, k)} /\ FreedTwice(<<e>>) = {}
      BY <1>3, FreedFragment
    <3>3. Frames(k, hdr, <<e>>) = {f}
      BY <1>3, FrameOfFragment
    <3>4. f.no = k /\ GoodFrame(f, n)
      BY <2>1, FragmentGoes DEF hdr
    <3>5. Went(ans, k)
      BY <1>5, <2>1, <2>7 DEF Went
    <3>. HIDE DEF f
    <3>6. FramesOf(r.frames, ans, n, k)
      BY <1>2, <1>4, <3>1, <3>3, <3>4, <3>5, FramesMore
    <3>7. st.freed \cap {NodeOf(c, k)} = {}
      <4>1. ASSUME NEW j \in 1 .. k - 1 PROVE NodeOf(c, j) # NodeOf(c, k)
        <5>1. j # k
          BY <1>2
        <5>. QED BY <5>1, NodesDiffer
      <4>. QED BY <2>1, <4>1
    <3>8. r.again = {}
      BY <1>4, <3>1, <3>2, <3>7
    <3>9. r.freed = {NodeOf(c, j) : j \in {i \in 1 .. k : ans[i] = "sent"}}
      <4>1. {i \in 1 .. k : ans[i] = "sent"} = {i \in 1 .. k - 1 : ans[i] = "sent"} \cup {k}
        <5>1. \A j \in 1 .. k : j = k \/ j \in 1 .. k - 1
          BY <1>2
        <5>2. k \in 1 .. k /\ \A j \in 1 .. k - 1 : j \in 1 .. k
          BY <1>2
        <5>. QED BY <2>7, <5>1, <5>2
      <4>. QED BY <2>1, <3>1, <3>2, <4>1
    <3>10. d = w /\ w.ok
      BY <2>3, <2>6, <3>1
    <3>11. \A j \in 1 .. k : ans[j] # "refused"
      BY <1>5, <2>1, <2>7
    <3>. QED BY <2>4, <2>6, <3>6, <3>8, <3>9, <3>10, <3>11 DEF LoopState, d
  <2>8. CASE ans[k] = "given_up"
    <3>1. r.ok /\ r.frames = st.frames /\ r.freed = st.freed /\ r.again = {}
      BY <1>4, <2>2, <2>8 DEF Handed
    <3>2. ~Went(ans, k)
      BY <2>8 DEF Went
    <3>3. FramesOf(r.frames, ans, n, k)
      BY <1>2, <1>4, <3>1, <3>2, FramesSame
    <3>4. r.freed = {NodeOf(c, j) : j \in {i \in 1 .. k : ans[i] = "sent"}}
      <4>1. {i \in 1 .. k : ans[i] = "sent"} = {i \in 1 .. k - 1 : ans[i] = "sent"}
        <5>1. \A j \in 1 .. k : j = k \/ j \in 1 .. k - 1
          BY <1>2
        <5>2. \A j \in 1 .. k - 1 : j \in 1 .. k
          BY <1>2
        <5>. QED BY <2>8, <5>1, <5>2
      <4>. QED BY <2>1, <3>1, <4>1
    <3>5. d = w /\ w.ok
      BY <2>3, <2>6, <3>1
    <3>6. \A j \in 1 .. k : ans[j] # "refused"
      BY <1>5, <2>1, <2>8
    <3>. QED BY <2>4, <2>6, <3>1, <3>3, <3>4, <3>5, <3>6 DEF LoopState, d
  <2>9. CASE ans[k] = "refused"
    <3>1. ~r.ok /\ r.frames = st.frames /\ r.freed = st.freed /\ r.again = {}
      BY <1>4, <2>2, <2>9 DEF Handed
    <3>2. d = Delete(Delete(Delete(r, <<e>>), Behind(frags, k)), l)
      BY <2>3, <3>1
    <3>3. AllFreed(d, r, c, n, l, ans)
      <4>1. FreedBy(r, c, ans, k)
        BY <2>1, <3>1 DEF FreedBy
      <4>. QED BY <2>1, <2>5, <3>1, <3>2, <4>1, RefusalFrees
    <3>4. ~Went(ans, k) /\ ~(\A j \in 1 .. k : ans[j] # "refused")
      BY <1>5, <2>9 DEF Went
    <3>5. FramesOf(d.frames, ans, n, k)
      BY <1>2, <1>4, <3>1, <3>3, <3>4, FramesSame DEF AllFreed
    <3>. QED BY <3>1, <3>3, <3>4, <3>5 DEF LoopState, d, AllFreed
  <2>. QED BY <1>2, <2>7, <2>8, <2>9
<1>. QED BY <1>6, <1>7

-----------------------------------------------------------------------------
\* The states of the loop of ip_hl_send() after p of the fragments.
Loops(f, frags, c, ans, l, p) ==
  f = [k \in 0 .. p |-> IF k = 0 THEN Start ELSE FragmentLoop(f[k - 1], frags, k, c, ans, l)]

(* Every number of turns can be taken.                                      *)
LEMMA LoopsExist ==
  ASSUME NEW frags, NEW c, NEW ans, NEW l, NEW p \in Nat
  PROVE  \E f : Loops(f, frags, c, ans, l, p)
<1>. DEFINE Bad == {m \in Nat : ~\E f : Loops(f, frags, c, ans, l, m)}
            Turn(f, k) == IF k = 0 THEN Start ELSE FragmentLoop(f[k - 1], frags, k, c, ans, l)
<1>1. Loops([k \in 0 .. 0 |-> Start], frags, c, ans, l, 0)
  <2>. DEFINE g == [k \in 0 .. 0 |-> Start]
  <2>1. g = [k \in 0 .. 0 |-> IF k = 0 THEN Start ELSE FragmentLoop(g[k - 1], frags, k, c, ans, l)]
    OBVIOUS
  <2>. QED BY <2>1 DEF Loops
<1>2. ASSUME NEW m \in Nat, m # 0, NEW f, Loops(f, frags, c, ans, l, m - 1)
      PROVE  \E g : Loops(g, frags, c, ans, l, m)
  <2>. DEFINE g == [k \in 0 .. m |-> Turn(f, k)]
  <2>1. \A k \in 0 .. m - 1 : f[k] = Turn(f, k)
    BY <1>2 DEF Loops
  <2>2. \A k \in 0 .. m - 1 : g[k] = f[k]
    <3>. HIDE DEF Turn
    <3>. QED BY <1>2, <2>1
  <2>3. \A k \in 0 .. m : g[k] = IF k = 0 THEN Start ELSE FragmentLoop(g[k - 1], frags, k, c, ans, l)
    <3>1. \A k \in 0 .. m : k = 0 \/ k - 1 \in 0 .. m - 1
      BY <1>2
    <3>2. \A k \in 0 .. m : g[k] = Turn(f, k)
      OBVIOUS
    <3>. HIDE DEF g
    <3>. QED BY <2>2, <3>1, <3>2
  <2>4. Loops(g, frags, c, ans, l, m)
    BY <2>3 DEF Loops
  <2>. QED BY <2>4
<1>3. ASSUME Bad # {} PROVE FALSE
  <2>1. PICK m \in Bad : m = 0 \/ m - 1 \notin Bad
    BY <1>3, Least
  <2>2. m # 0
    BY <1>1, <2>1
  <2>3. \E f : Loops(f, frags, c, ans, l, m - 1)
    BY <2>1, <2>2
  <2>. QED BY <1>2, <2>1, <2>2, <2>3
<1>. QED BY <1>3

(* The loop starts with nothing sent and nothing freed.                     *)
LEMMA LoopStarts ==
  ASSUME NEW c, NEW n \in Nat, NEW l, NEW ans
  PROVE  LoopState(Start, c, n, l, ans, 0)
<1>1. FramesOf({}, ans, n, 0)
  BY DEF FramesOf
<1>2. /\ IsState(Start) /\ Start.again = {} /\ Start.frames = {} /\ Start.freed = {}
      /\ Start.ok /\ Start.off = 0
  BY DEF Start, IsState
<1>3. FragSize \in Nat /\ 0 * 8 >= 0 * FragSize
  BY IpAssumption
<1>4. \A j \in 1 .. 0 : FALSE
  OBVIOUS
<1>5. {NodeOf(c, j) : j \in {i \in 1 .. 0 : ans[i] = "sent"}} = {}
  BY <1>4
<1>. QED BY <1>1, <1>2, <1>3, <1>4, <1>5 DEF LoopState

(* The loop over all the fragments ends in such a state.                    *)
LEMMA LoopEnds ==
  ASSUME NEW c, NEW n \in Nat, n >= FragSize, NEW l, NEW q, Payload(l, c, n, q),
         NEW frags, Fragments(frags, c, n), NEW ans, IsAnswers(ans, n)
  PROVE  LoopState(AllFragments(frags, c, ans, l), c, n, l, ans, Packets(n))
<1>. DEFINE f == CHOOSE f : Loops(f, frags, c, ans, l, Packets(n))
            Bad == {k \in 0 .. Packets(n) : ~LoopState(f[k], c, n, l, ans, k)}
<1>1. Packets(n) \in Nat \ {0} /\ Len(frags) = Packets(n)
  BY PacketsAre DEF Fragments
<1>2. Loops(f, frags, c, ans, l, Packets(n))
  BY <1>1, LoopsExist
<1>3. AllFragments(frags, c, ans, l) = f[Packets(n)]
  BY <1>1 DEF AllFragments, Loops
<1>. HIDE DEF f
<1>4. /\ f[0] = Start
      /\ \A k \in 1 .. Packets(n) : f[k] = FragmentLoop(f[k - 1], frags, k, c, ans, l)
  BY <1>1, <1>2 DEF Loops
<1>5. ASSUME Bad # {} PROVE FALSE
  <2>1. PICK k \in Bad : k = 0 \/ k - 1 \notin Bad
    <3>1. Bad \in SUBSET Nat
      BY <1>1
    <3>. HIDE DEF Bad
    <3>. QED BY <1>5, <3>1, Least
  <2>2. k \in 1 .. Packets(n) /\ k - 1 \in 0 .. Packets(n)
    BY <1>1, <1>4, <2>1, LoopStarts
  <2>3. LoopState(f[k - 1], c, n, l, ans, k - 1)
    BY <2>1, <2>2
  <2>4. LoopState(FragmentLoop(f[k - 1], frags, k, c, ans, l), c, n, l, ans, k)
    BY <2>2, <2>3, LoopTurn
  <2>. QED BY <1>4, <2>1, <2>2, <2>4
<1>. QED BY <1>1, <1>3, <1>5

-----------------------------------------------------------------------------
\* The memory x belongs to a packet that the driver gave up: the k-th fragment,
\* or the payload when it is sent in one packet.
GivenUp(x, n, ans) ==
  LET k == x[1][2] IN IF k = 0 THEN n < FragSize /\ ans[1] = "given_up" ELSE ans[k] = "given_up"

\* What a call of ip_hl_send() leaves, with a payload of n bytes.
Called(r, c, n, l, ans) ==
  /\ IsState(r) /\ r.again = {}
  /\ FramesOf(r.frames, ans, n, Packets(n))
  /\ n < FragSize => /\ ~r.ok => r.freed = {}
                     /\ r.ok => \A x \in Freed(l) : x \in r.freed \/ GivenUp(x, n, ans)
  /\ n >= FragSize =>
       /\ Freed(l) \subseteq r.freed
       /\ \A j \in 1 .. Packets(n) : ans[j] # "given_up" => NodeOf(c, j) \in r.freed

(* The only packet of a small payload carries all of it.                    *)
LEMMA PacketGoes ==
  ASSUME NEW c, NEW n \in Nat \ {0}, n < FragSize, NEW l, NEW q, Payload(l, c, n, q), NEW mf,
         NEW f, f = [no |-> 1, at |-> 1, hdr |-> Header(c, 0, mf, n), text |-> BlockText(l)]
  PROVE  f.no = 1 /\ GoodFrame(f, n)
<1>1. FragSize \in Nat /\ HdrLen \in Nat
  BY IpAssumption
<1>2. (1 - 1) * FragSize = 0 /\ EndOfPart(n, 1) = n
  BY <1>1 DEF EndOfPart
<1>3. Covers(BlockText(l), 0, n)
  BY PayloadText
<1>4. BlockText(l)[1].at = 0
  BY <1>3 DEF Covers
<1>5. /\ f.no = 1 /\ f.text = BlockText(l)
      /\ f.hdr.len = n + HdrLen /\ f.hdr.off = 0
  BY DEF Header
<1>6. n + HdrLen = HdrLen + EndOfPart(n, 1) - (1 - 1) * FragSize
  BY <1>1, <1>2
<1>7. ~(n >= FragSize) /\ 0 * 8 >= 0
  BY <1>1
<1>. QED BY <1>2, <1>3, <1>4, <1>5, <1>6, <1>7 DEF GoodFrame

(* A payload that fits into one packet.                                     *)
LEMMA OnePacket ==
  ASSUME NEW c, NEW n \in Nat \ {0}, n < FragSize, NEW l, NEW q, Payload(l, c, n, q), NEW mf,
         NEW ans, IsAnswers(ans, n),
         NEW r, r = LlSend(Start, 1, Header(c, 0, mf, n), l, ans[1])
  PROVE  Called(r, c, n, l, ans)
<1>. DEFINE hdr == Header(c, 0, mf, n)
            f == [no |-> 1, at |-> 1, hdr |-> hdr, text |-> BlockText(l)]
<1>1. Packets(n) = 1 /\ ans[1] \in {"refused", "sent", "given_up"} /\ ~(n >= FragSize)
  BY IpAssumption DEF Packets, IsAnswers
<1>2. IsState(Start) /\ Start.frames = {} /\ Start.freed = {} /\ Start.again = {} /\ Start.ok
  BY DEF Start, IsState
<1>3. Handed(r, Start, 1, hdr, l, ans[1])
  BY <1>2, LlSendIs
<1>4. Frames(1, hdr, l) = {f}
  <2>1. l # <<>> /\ Starts(l) = {1} /\ BlockAt(l, 1) = l
    BY PayloadIsBlock
  <2>. QED BY <2>1, FrameOfBlock
<1>5. f.no = 1 /\ GoodFrame(f, n)
  BY PacketGoes
<1>. HIDE DEF hdr, f
<1>6. Freed(l) \subseteq Memory(c, 0) /\ FreedTwice(l) = {}
  BY FreedPayload
<1>7. FramesOf({}, ans, n, 0)
  BY DEF FramesOf
<1>8. CASE ans[1] = "sent"
  <2>1. r.ok /\ r.frames = {} \cup {f} /\ r.freed = Freed(l) /\ r.again = {}
    BY <1>2, <1>3, <1>4, <1>6, <1>8 DEF Handed
  <2>2. Went(ans, 1)
    BY <1>8 DEF Went
  <2>3. FramesOf(r.frames, ans, n, 1)
    BY <1>5, <1>7, <2>1, <2>2, FramesMore
  <2>. QED BY <1>1, <1>3, <2>1, <2>3 DEF Called, Handed
<1>9. CASE ans[1] # "sent"
  <2>1. /\ r.ok = (ans[1] = "given_up")
        /\ r.frames = {} /\ r.freed = {} /\ r.again = {}
    BY <1>2, <1>3, <1>9 DEF Handed
  <2>2. ~Went(ans, 1)
    BY <1>9 DEF Went
  <2>3. FramesOf(r.frames, ans, n, 1)
    BY <1>7, <2>1, <2>2, FramesSame
  <2>4. ASSUME r.ok, NEW x \in Freed(l) PROVE GivenUp(x, n, ans)
    <3>1. x[1][2] = 0
      BY <1>6 DEF Memory
    <3>. QED BY <2>1, <2>4, <3>1 DEF GivenUp
  <2>. QED BY <1>1, <1>3, <2>1, <2>3, <2>4 DEF Called, Handed
<1>. QED BY <1>8, <1>9

(* A payload that is sent in fragments: it is deleted behind them, or was   *)
(* when one of them was refused.                                            *)
LEMMA ManyPackets ==
  ASSUME NEW c, NEW n \in Nat, n >= FragSize, NEW l, NEW q, Payload(l, c, n, q),
         NEW ans, IsAnswers(ans, n),
         NEW r, r = Sent(AllFragments(Fragment(l, FragSize, c), c, ans, l), l)
  PROVE  Called(r, c, n, l, ans)
<1>. DEFINE frags == Fragment(l, FragSize, c)
            st == AllFragments(frags, c, ans, l)
            p == Packets(n)
<1>1. p \in Nat \ {0} /\ FragSize \in Nat
  BY PacketsAre, IpAssumption
<1>2. Fragments(frags, c, n)
  BY FragmentsAre
<1>. HIDE DEF frags
<1>3. LoopState(st, c, n, l, ans, p)
  BY <1>2, LoopEnds
<1>4. r = IF st.ok THEN Delete(st, l) ELSE st
  BY DEF Sent, frags
<1>. HIDE DEF st, p
<1>5. CASE ~st.ok
  BY <1>1, <1>3, <1>4, <1>5 DEF LoopState, Called, p
<1>6. CASE st.ok
  <2>1. /\ IsState(st) /\ st.again = {} /\ FramesOf(st.frames, ans, n, p)
        /\ \A j \in 1 .. p : ans[j] # "refused"
        /\ st.freed = {NodeOf(c, j) : j \in {i \in 1 .. p : ans[i] = "sent"}}
    BY <1>3, <1>6 DEF LoopState
  <2>2. Deleted(r, st, l)
    BY <1>4, <1>6, <2>1, DeleteIs
  <2>3. Freed(l) \subseteq Memory(c, 0) /\ FreedTwice(l) = {}
    BY FreedPayload
  <2>4. st.freed \cap Freed(l) = {}
    <3>1. ASSUME NEW j \in 1 .. p PROVE NodeOf(c, j) \notin Memory(c, 0)
      BY <1>1, NodesApart
    <3>. QED BY <2>1, <2>3, <3>1
  <2>5. ASSUME NEW j \in 1 .. p, ans[j] # "given_up" PROVE NodeOf(c, j) \in r.freed
    <3>1. ans[j] = "sent"
      BY <2>1, <2>5 DEF IsAnswers, p
    <3>. QED BY <2>1, <2>2, <3>1 DEF Deleted
  <2>6. IsState(r) /\ r.again = {} /\ r.frames = st.frames /\ Freed(l) \subseteq r.freed
    BY <2>1, <2>2, <2>3, <2>4 DEF Deleted
  <2>. QED BY <1>1, <2>1, <2>5, <2>6 DEF Called, p
<1>. QED BY <1>5, <1>6

(* ip_hl_send(), with a payload of any length.                              *)
LEMMA HlSendIs ==
  ASSUME NEW c, NEW n \in Nat \ {0}, NEW l, NEW q, Payload(l, c, n, q), NEW mf,
         NEW ans, IsAnswers(ans, n)
  PROVE  Called(HlSend(l, c, mf, ans), c, n, l, ans)
<1>1. Size(l) = n /\ FragSize \in Nat
  BY PayloadIsBlock, IpAssumption
<1>2. CASE n < FragSize
  <2>1. HlSend(l, c, mf, ans) = LlSend(Start, 1, Header(c, 0, mf, n), l, ans[1])
    BY <1>1, <1>2 DEF HlSend
  <2>. QED BY <1>2, <2>1, OnePacket
<1>3. CASE n >= FragSize
  <2>1. HlSend(l, c, mf, ans) = Sent(AllFragments(Fragment(l, FragSize, c), c, ans, l), l)
    BY <1>1, <1>3 DEF HlSend
  <2>. QED BY <1>3, <2>1, ManyPackets
<1>. QED BY <1>1, <1>2, <1>3

-----------------------------------------------------------------------------
\* What a caller passes: tcp_ip_send() what it copied, if there was memory.
Passed(proto, n, copy) ==
  /\ proto \in {"TCP", "UDP", "ICMP"} /\ n \in Nat \ {0}
  /\ proto = "UDP" => n >= 8
  /\ proto # "TCP" => copy

(* A block that is alone in a list is such a payload.                       *)
LEMMA NodeIsPayload ==
  ASSUME NEW c, NEW n \in Nat, NEW own \in SUBSET {"node", "data"}, NEW l,
         l = <<Node(<<c, 0>>, own, 0, n)>>
  PROVE  Payload(l, c, n, 1)
<1>. DEFINE b == Node(<<c, 0>>, own, 0, n)
<1>1. b \in PayloadNode(c) /\ ~b.more /\ b.data = 0 /\ b.size = n
  BY DEF PayloadNode, Node
<1>2. Len(l) = 1 /\ l[1] = b
  OBVIOUS
<1>. HIDE DEF b
<1>3. l \in Seq(PayloadNode(c))
  BY <1>1 DEF b
<1>. QED BY <1>1, <1>2, <1>3 DEF Payload

(* So are a header and the user's buffer, none of which was allocated.      *)
LEMMA HeaderIsPayload ==
  ASSUME NEW c, NEW n \in Nat, n >= 8, NEW l,
         l = Concat(Node(<<c, 0>>, {}, 0, 8), <<Node(<<c, 0>>, {}, 8, n - 8)>>)
  PROVE  Payload(l, c, n, 2) /\ Freed(l) = {}
<1>. DEFINE h == Node(<<c, 0>>, {}, 0, 8)
            a == [h EXCEPT !.more = TRUE]
            b == Node(<<c, 0>>, {}, 8, n - 8)
<1>1. h \in PayloadNode(c) /\ h.data = 0 /\ h.size = 8 /\ h.own = {}
  BY DEF PayloadNode, Node
<1>2. b \in PayloadNode(c) /\ ~b.more /\ b.data = 8 /\ b.size = n - 8 /\ b.own = {}
  <2>1. n - 8 \in Nat
    OBVIOUS
  <2>. QED BY <2>1 DEF PayloadNode, Node
<1>3. l = <<[h EXCEPT !.more = <<b>> # <<>>]>> \o <<b>>
  BY DEF Concat
<1>. HIDE DEF h, b
<1>4. a \in PayloadNode(c) /\ a.more /\ a.data = 0 /\ a.size = 8 /\ a.own = {}
  BY <1>1 DEF PayloadNode
<1>5. l = <<a>> \o <<b>>
  <2>1. (<<b>> # <<>>) = TRUE
    OBVIOUS
  <2>. QED BY <1>3, <2>1
<1>. HIDE DEF a
<1>6. Len(l) = 2 /\ l[1] = a /\ l[2] = b
  <2>1. /\ Len(<<a>> \o <<b>>) = 2
        /\ (<<a>> \o <<b>>)[1] = a /\ (<<a>> \o <<b>>)[2] = b
    BY TwoJoined
  <2>. QED BY <1>5, <2>1
<1>7. l \in Seq(PayloadNode(c))
  <2>1. <<a>> \in Seq(PayloadNode(c)) /\ <<b>> \in Seq(PayloadNode(c))
    BY <1>2, <1>4
  <2>. QED BY <1>5, <2>1, ConcatProperties
<1>8. DOMAIN l = 1 .. 2
  BY <1>6, <1>7
<1>9. Freed(l) = {}
  BY <1>2, <1>4, <1>6, <1>8 DEF Freed, Owned
<1>10. Payload(l, c, n, 2)
  <2>1. 2 \in 1 .. 2 /\ ~(2 = 1)
    OBVIOUS
  <2>2. ~l[2].more
    BY <1>2, <1>6
  <2>3. /\ l[1].data = 0 /\ l[1].size = 8 /\ l[1].more /\ l[1].own = {}
        /\ l[2].data = 8 /\ l[2].size = n - 8 /\ l[2].own = {}
    BY <1>2, <1>4, <1>6
  <2>. QED BY <1>6, <1>7, <2>1, <2>2, <2>3 DEF Payload
<1>. QED BY <1>9, <1>10

(* What the callers pass is a payload; UDP and ICMP allocate nothing for it. *)
LEMMA PayloadOfIs ==
  ASSUME NEW c, NEW proto, NEW n, NEW copy, Passed(proto, n, copy), copy
  PROVE  \E q : Payload(PayloadOf(proto, n, c, copy), c, n, q)
<1>1. CASE proto = "TCP"
  <2>1. PayloadOf(proto, n, c, copy) = <<Node(<<c, 0>>, {"node", "data"}, 0, n)>>
    BY <1>1 DEF PayloadOf
  <2>. QED BY <2>1, NodeIsPayload DEF Passed
<1>2. CASE proto = "UDP"
  <2>1. PayloadOf(proto, n, c, copy)
          = Concat(Node(<<c, 0>>, {}, 0, 8), <<Node(<<c, 0>>, {}, 8, n - 8)>>)
    BY <1>2 DEF PayloadOf
  <2>. QED BY <1>2, <2>1, HeaderIsPayload DEF Passed
<1>3. CASE proto = "ICMP"
  <2>1. PayloadOf(proto, n, c, copy) = <<Node(<<c, 0>>, {}, 0, n)>>
    BY <1>3 DEF PayloadOf
  <2>. QED BY <2>1, NodeIsPayload DEF Passed
<1>. QED BY <1>1, <1>2, <1>3 DEF Passed

(* UDP and ICMP allocate nothing for it.                                    *)
LEMMA NothingAllocated ==
  ASSUME NEW c, NEW proto, NEW n, NEW copy, Passed(proto, n, copy), proto # "TCP"
  PROVE  Freed(PayloadOf(proto, n, c, copy)) = {}
<1>1. CASE proto = "UDP"
  <2>1. PayloadOf(proto, n, c, copy)
          = Concat(Node(<<c, 0>>, {}, 0, 8), <<Node(<<c, 0>>, {}, 8, n - 8)>>)
    BY <1>1 DEF PayloadOf
  <2>. QED BY <1>1, <2>1, HeaderIsPayload DEF Passed
<1>2. CASE proto = "ICMP"
  <2>. DEFINE l == <<Node(<<c, 0>>, {}, 0, n)>>
  <2>1. PayloadOf(proto, n, c, copy) = l
    BY <1>2 DEF PayloadOf
  <2>2. DOMAIN l = 1 .. 1 /\ l[1].own = {}
    BY DEF Node
  <2>. HIDE DEF l
  <2>. QED BY <2>1, <2>2 DEF Freed, Owned
<1>. QED BY <1>1, <1>2 DEF Passed

\* Memory that the call numbered c allocates: for the payload, or a fragment.
OfCall(x, c, n, l) ==
  /\ x[1][1] = c
  /\ \/ x \in Freed(l)
     \/ n >= FragSize /\ \E j \in 1 .. Packets(n) : x = NodeOf(c, j)

(* A call allocates no other.                                               *)
LEMMA AllocatedIs ==
  ASSUME NEW c, NEW n \in Nat \ {0}, NEW l, NEW q, Payload(l, c, n, q), NEW x \in Allocated(l, c)
  PROVE  OfCall(x, c, n, l)
<1>1. Size(l) = n /\ FragSize \in Nat
  BY PayloadIsBlock, IpAssumption
<1>2. CASE x \in Freed(l)
  <2>1. x \in Memory(c, 0)
    BY <1>2, FreedPayload
  <2>. QED BY <1>2, <2>1 DEF Memory, OfCall
<1>3. CASE x \notin Freed(l)
  <2>. DEFINE frags == Fragment(l, FragSize, c)
  <2>1. n >= FragSize /\ x \in Freed(frags)
    BY <1>1, <1>3 DEF Allocated
  <2>2. Fragments(frags, c, n)
    BY <2>1, FragmentsAre
  <2>. HIDE DEF frags
  <2>3. DOMAIN frags = 1 .. Packets(n)
    BY <2>1, <2>2, PacketsAre DEF Fragments
  <2>4. PICK j \in 1 .. Packets(n) : x \in Owned(frags[j])
    BY <2>1, <2>3 DEF Freed
  <2>5. frags[j] \in FragmentNode(c) /\ frags[j].id = <<c, j>>
    BY <2>2 DEF Fragments, IsFragment
  <2>6. x = NodeOf(c, j)
    BY <2>4, <2>5 DEF Owned, NodeOf, FragmentNode
  <2>. QED BY <2>1, <2>6 DEF NodeOf, OfCall
<1>. QED BY <1>2, <1>3

-----------------------------------------------------------------------------
\* What the call numbered c leaves.
Outcome(d, proto, c, n, copy, ans, l) ==
  /\ copy => FramesOf(d.frames, ans, n, Packets(n))
  /\ d.again = {} \/ (proto = "TCP" /\ n >= FragSize /\ ~d.ok)
  /\ \A x \in Allocated(l, c) : x[1][1] = c /\ (x \in d.freed \/ GivenUp(x, n, ans))

(* A segment that could not be copied: nothing was allocated for it.        *)
LEMMA NotCopied ==
  ASSUME NEW c, NEW n \in Nat \ {0}, NEW mf, NEW ans,
         NEW d, d = HandDown("TCP", <<>>, c, mf, ans)
  PROVE  Outcome(d, "TCP", c, n, FALSE, ans, <<>>)
<1>1. FragSize \in Nat /\ FragSize > 0
  BY IpAssumption
<1>2. Freed(<<>>) = {} /\ FreedTwice(<<>>) = {} /\ FirstBlock(<<>>) = <<>>
  BY DEF Freed, FreedTwice, FirstBlock
<1>3. Size(<<>>) = 0
  <2>. DEFINE s == [i \in DOMAIN FirstBlock(<<>>) |-> NodeSize(FirstBlock(<<>>)[i])]
  <2>1. s = <<>>
    BY <1>2
  <2>2. Len(s) = 0
    BY <2>1
  <2>3. Size(<<>>) = Total(s)
    BY DEF Size
  <2>. HIDE DEF s
  <2>. QED BY <2>2, <2>3, TotalIs
<1>4. Allocated(<<>>, c) = {}
  BY <1>1, <1>2, <1>3 DEF Allocated
<1>. DEFINE hdr == Header(c, 0, mf, 0)
            r == LlSend(Start, 1, hdr, <<>>, ans[1])
<1>5. HlSend(<<>>, c, mf, ans) = r
  BY <1>1, <1>3 DEF HlSend
<1>6. IsState(Start) /\ Start.again = {} /\ Start.freed = {}
  BY DEF Start, IsState
<1>7. Handed(r, Start, 1, hdr, <<>>, ans[1])
  BY <1>6, LlSendIs
<1>8. IsState(r) /\ r.again = {}
  BY <1>2, <1>6, <1>7 DEF Handed
<1>9. d = IF ~r.ok THEN Delete(r, <<>>) ELSE r
  BY <1>2, <1>5 DEF HandDown, Caller
<1>. HIDE DEF r
<1>10. d.again = {}
  <2>1. Deleted(Delete(r, <<>>), r, <<>>)
    BY <1>8, DeleteIs
  <2>. QED BY <1>2, <1>8, <1>9, <2>1 DEF Deleted
<1>. QED BY <1>4, <1>10 DEF Outcome

(* Every other call.                                                        *)
LEMMA Copied ==
  ASSUME NEW c, NEW proto, NEW n, NEW copy, Passed(proto, n, copy), copy,
         NEW mf, NEW ans, IsAnswers(ans, n), NEW l, l = PayloadOf(proto, n, c, copy),
         NEW d, d = HandDown(proto, l, c, mf, ans)
  PROVE  Outcome(d, proto, c, n, copy, ans, l)
<1>. DEFINE r == HlSend(l, c, mf, ans)
<1>1. PICK q : Payload(l, c, n, q)
  BY PayloadOfIs
<1>2. n \in Nat \ {0} /\ FragSize \in Nat
  BY IpAssumption DEF Passed
<1>3. Called(r, c, n, l, ans)
  BY <1>1, <1>2, HlSendIs
<1>4. d = IF proto = "TCP" /\ ~r.ok THEN Delete(r, l) ELSE r
  <2>1. FirstBlock(l) = l
    BY <1>1, <1>2, PayloadIsBlock
  <2>. QED BY <2>1 DEF HandDown, Caller
<1>. HIDE DEF r
<1>5. Deleted(Delete(r, l), r, l)
  BY <1>3, DeleteIs DEF Called
<1>6. d.frames = r.frames /\ d.ok = r.ok /\ r.freed \subseteq d.freed
  BY <1>4, <1>5 DEF Deleted
<1>7. FramesOf(d.frames, ans, n, Packets(n))
  BY <1>3, <1>6 DEF Called
<1>8. d.again = {} \/ (proto = "TCP" /\ n >= FragSize /\ ~d.ok)
  <2>1. CASE proto = "TCP" /\ ~r.ok /\ n < FragSize
    <3>1. r.freed = {} /\ r.again = {} /\ FreedTwice(l) = {}
      BY <1>1, <1>3, <2>1, FreedPayload DEF Called
    <3>. QED BY <1>4, <1>5, <2>1, <3>1 DEF Deleted
  <2>2. CASE proto = "TCP" /\ ~r.ok /\ n >= FragSize
    BY <1>6, <2>2
  <2>3. CASE ~(proto = "TCP" /\ ~r.ok)
    BY <1>3, <1>4, <2>3 DEF Called
  <2>4. n < FragSize \/ n >= FragSize
    BY <1>2
  <2>. QED BY <2>1, <2>2, <2>3, <2>4
<1>9. ASSUME NEW x \in Freed(l) PROVE x \in d.freed \/ GivenUp(x, n, ans)
  <2>1. CASE n >= FragSize
    BY <1>3, <1>6, <1>9, <2>1 DEF Called
  <2>2. CASE n < FragSize /\ r.ok
    BY <1>3, <1>6, <1>9, <2>2 DEF Called
  <2>3. CASE n < FragSize /\ ~r.ok
    <3>1. proto = "TCP"
      BY <1>9, NothingAllocated
    <3>. QED BY <1>4, <1>5, <1>9, <2>3, <3>1 DEF Deleted
  <2>4. n < FragSize \/ n >= FragSize
    BY <1>2
  <2>. QED BY <2>1, <2>2, <2>3, <2>4
<1>10. ASSUME NEW x \in Allocated(l, c) PROVE x[1][1] = c /\ (x \in d.freed \/ GivenUp(x, n, ans))
  <2>0. OfCall(x, c, n, l)
    BY <1>1, <1>2, AllocatedIs
  <2>1. /\ x[1][1] = c
        /\ \/ x \in Freed(l)
           \/ n >= FragSize /\ \E j \in 1 .. Packets(n) : x = NodeOf(c, j)
    BY <2>0 DEF OfCall
  <2>2. CASE x \in Freed(l)
    BY <1>9, <2>1, <2>2
  <2>3. CASE x \notin Freed(l)
    <3>1. PICK j \in 1 .. Packets(n) : x = NodeOf(c, j) /\ n >= FragSize
      BY <2>1, <2>3
    <3>2. ans[j] # "given_up" => x \in d.freed
      BY <1>3, <1>6, <3>1 DEF Called
    <3>3. x[1][2] = j /\ j # 0
      BY <3>1 DEF NodeOf
    <3>. QED BY <2>1, <3>2, <3>3 DEF GivenUp
  <2>. QED BY <2>2, <2>3
<1>. QED BY <1>7, <1>8, <1>10 DEF Outcome

(* Whatever a caller passes.                                                *)
LEMMA HandDownIs ==
  ASSUME NEW c, NEW proto, NEW n, NEW copy \in BOOLEAN, Passed(proto, n, copy),
         NEW mf, NEW ans, IsAnswers(ans, n), NEW l, l = PayloadOf(proto, n, c, copy),
         NEW d, d = HandDown(proto, l, c, mf, ans)
  PROVE  Outcome(d, proto, c, n, copy, ans, l)
<1>1. CASE copy
  BY <1>1, Copied
<1>2. CASE ~copy
  <2>1. proto = "TCP" /\ n \in Nat \ {0} /\ copy = FALSE
    BY <1>2 DEF Passed
  <2>2. l = <<>>
    BY <2>1 DEF PayloadOf
  <2>. QED BY <2>1, <2>2, NotCopied
<1>. QED BY <1>1, <1>2

-----------------------------------------------------------------------------
\* What is allocated was allocated by a call so far: the counter names no
\* memory twice.
AllocatedBefore == ident \in Nat /\ \A x \in live : x[1][1] \in 1 .. ident

\* With that, what the calls promise is inductive.
IInv == AllocatedBefore /\ PacketsTile /\ FreedOnce /\ OnlyGivenUpLeaks

(* The frames of a call are those that PacketsTile asks for.                *)
LEMMA FramesTile ==
  ASSUME NEW n, NEW ans, IsAnswers(ans, n), NEW frames, FramesOf(frames, ans, n, Packets(n))
  PROVE  /\ {f.no : f \in frames} = Taken(ans)
         /\ \A f, g \in frames : f.no = g.no => f = g
         /\ \A f \in frames : GoodFrame(f, n)
<1>1. Taken(ans) = {j \in 1 .. Packets(n) : Went(ans, j)}
  BY DEF Taken, Went, IsAnswers
<1>. QED BY <1>1 DEF FramesOf

(* A call by any of the three keeps the invariant.                          *)
LEMMA CallKeeps ==
  ASSUME NEW proto, NEW n, NEW copy \in BOOLEAN, Passed(proto, n, copy),
         NEW mf, NEW ans, IsAnswers(ans, n), IInv, Call(proto, n, copy, mf, ans)
  PROVE  IInv'
<1>1. PICK c \in Nat \ {0} : c = ident + 1
  BY DEF IInv, AllocatedBefore
<1>. DEFINE l == PayloadOf(proto, n, c, copy)
            d == HandDown(proto, l, c, mf, ans)
<1>2. /\ ident' = c
      /\ live' = (live \cup Allocated(l, c)) \ d.freed
      /\ last' = [proto |-> proto, size |-> n, copy |-> copy, ans |-> ans,
                  ok |-> d.ok, frames |-> d.frames, again |-> d.again]
  BY <1>1 DEF Call
<1>3. Outcome(d, proto, c, n, copy, ans, l)
  BY HandDownIs
<1>. HIDE DEF l, d
<1>4. /\ last'.proto = proto /\ last'.size = n /\ last'.copy = copy /\ last'.ans = ans
      /\ last'.ok = d.ok /\ last'.frames = d.frames /\ last'.again = d.again
  BY <1>2
<1>5. AllocatedBefore'
  <2>1. ASSUME NEW x \in live' PROVE x[1][1] \in 1 .. c
    <3>1. CASE x \in live
      BY <1>1, <3>1 DEF IInv, AllocatedBefore
    <3>2. CASE x \in Allocated(l, c)
      BY <1>1, <1>3, <3>2 DEF Outcome
    <3>. QED BY <1>2, <2>1, <3>1, <3>2
  <2>. QED BY <1>1, <1>2, <2>1 DEF AllocatedBefore
<1>6. PacketsTile'
  <2>1. SUFFICES ASSUME copy PROVE PacketsTile'
    BY <1>4 DEF PacketsTile
  <2>2. FramesOf(d.frames, ans, n, Packets(n))
    BY <1>3, <2>1 DEF Outcome
  <2>3. /\ {f.no : f \in d.frames} = Taken(ans)
        /\ \A f, g \in d.frames : f.no = g.no => f = g
        /\ \A f \in d.frames : GoodFrame(f, n)
    BY <2>2, FramesTile
  <2>. QED BY <1>4, <2>3 DEF PacketsTile, GoodFrame
<1>7. FreedOnce'
  BY <1>3, <1>4 DEF FreedOnce, DeletedAgain, Outcome
<1>8. OnlyGivenUpLeaks'
  <2>1. ASSUME NEW x \in live', x[1][1] = c PROVE GivenUp(x, n, ans)
    <3>1. x \notin live
      BY <1>1, <2>1 DEF IInv, AllocatedBefore
    <3>2. x \in Allocated(l, c) /\ x \notin d.freed
      BY <1>2, <2>1, <3>1
    <3>. QED BY <1>3, <3>2 DEF Outcome
  <2>. QED BY <1>2, <1>4, <2>1 DEF OnlyGivenUpLeaks, GivenUp
<1>. QED BY <1>5, <1>6, <1>7, <1>8 DEF IInv

(* The invariant is inductive: tcp_ip_send(), _sendto() and icmp_ip_recv()  *)
(* keep it, whatever the driver answers.                                    *)
THEOREM Inductive == Spec => []IInv
<1>1. Init => IInv
  BY DEF Init, Idle, IInv, AllocatedBefore, PacketsTile, FreedOnce, OnlyGivenUpLeaks
<1>2. IInv /\ [Next]_vars => IInv'
  <2>1. SUFFICES ASSUME IInv, [Next]_vars PROVE IInv'
    OBVIOUS
  <2>2. CASE SendSegment
    <3>1. PICK n \in TcpSizes, copy \in BOOLEAN, mf \in BOOLEAN : \E ans \in Answers(n) :
            Call("TCP", n, copy, mf, ans)
      BY <2>2 DEF SendSegment
    <3>2. PICK ans \in Answers(n) : Call("TCP", n, copy, mf, ans)
      BY <3>1
    <3>3. Passed("TCP", n, copy) /\ IsAnswers(ans, n)
      BY IpAssumption DEF Passed, IsAnswers, Answers
    <3>. QED BY <2>1, <3>2, <3>3, CallKeeps
  <2>3. CASE SendDatagram
    <3>1. PICK n \in UdpSizes, mf \in BOOLEAN : \E ans \in Answers(n) : Call("UDP", n, TRUE, mf, ans)
      BY <2>3 DEF SendDatagram
    <3>2. PICK ans \in Answers(n) : Call("UDP", n, TRUE, mf, ans)
      BY <3>1
    <3>3. Passed("UDP", n, TRUE) /\ IsAnswers(ans, n)
      BY IpAssumption DEF Passed, IsAnswers, Answers
    <3>. QED BY <2>1, <3>2, <3>3, CallKeeps
  <2>4. CASE ReplyEcho
    <3>1. PICK n \in EchoSizes : \E ans \in Answers(n) : Call("ICMP", n, TRUE, FALSE, ans)
      BY <2>4 DEF ReplyEcho
    <3>2. PICK ans \in Answers(n) : Call("ICMP", n, TRUE, FALSE, ans)
      BY <3>1
    <3>3. Passed("ICMP", n, TRUE) /\ IsAnswers(ans, n)
      BY IpAssumption DEF Passed, IsAnswers, Answers
    <3>. QED BY <2>1, <3>2, <3>3, CallKeeps
  <2>5. CASE UNCHANGED vars
    BY <2>1, <2>5 DEF vars, IInv, AllocatedBefore, PacketsTile, FreedOnce, DeletedAgain,
                      OnlyGivenUpLeaks
  <2>. QED BY <2>1, <2>2, <2>3, <2>4, <2>5 DEF Next
<1>. QED BY <1>1, <1>2, PTL DEF Spec

(* Whatever ip_hl_send() is passed and whatever happens to single packets,  *)
(* the k-th packet carries exactly the k-th part of the payload behind a    *)
(* header that says so, and nothing else is sent: dblk_fragment() and the   *)
(* loop over its fragments (157-172) lose and repeat nothing.               *)
THEOREM PacketsAlwaysTile == Spec => []PacketsTile
<1>1. IInv => PacketsTile
  BY DEF IInv
<1>. QED BY <1>1, Inductive, PTL

(* No path through the callers, ip_hl_send() and ip_ether_send() frees      *)
(* memory twice, except that of tcp_ip_send() with a segment of several     *)
(* packets that was refused.                                                *)
THEOREM MemoryFreedOnce == Spec => []FreedOnce
<1>1. IInv => FreedOnce
  BY DEF IInv
<1>. QED BY <1>1, Inductive, PTL

(* A call that is over has freed all that it allocated but the packets that *)
(* ip_ether_send() gave up after the driver refused them three times.       *)
THEOREM OnlyGivenUpStay == Spec => []OnlyGivenUpLeaks
<1>1. IInv => OnlyGivenUpLeaks
  BY DEF IInv
<1>. QED BY <1>1, Inductive, PTL
=============================================================================
