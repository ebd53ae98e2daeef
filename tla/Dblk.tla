-------------------------------- MODULE Dblk --------------------------------
(***************************************************************************)
(* Data blocks (dblk_t of dts_net_dblk.c).  A pointer to a node is the     *)
(* sequence of the nodes from there on, so that  next  is the tail.  The   *)
(* contents of memory are not modelled: a data pointer is the position, in *)
(* the text the layer above hands down, of the first byte it points to,    *)
(* and what a node holds is a sequence of pieces of that text.             *)
(***************************************************************************)
EXTENDS Naturals, SequencesExt

\* A text of one piece, or of none.
Piece(at, len) == IF len = 0 THEN <<>> ELSE << [at |-> at, len |-> len] >>

\* dblk_node_init(); id names what data_malloc and node_malloc say was
\* allocated, the set  own .
Node(id, own, data, size) ==
  [id |-> id, own |-> own, data |-> data, size |-> size, more |-> FALSE,
   vsize |-> 0, vmem |-> <<>>]

\* dblk_node_concat()
Concat(n, l) == <<[n EXCEPT !.more = l # <<>>]>> \o l

\* Where the logical blocks of a list begin.
Starts(l) == {i \in DOMAIN l : i = 1 \/ ~l[i - 1].more}

\* A block ends at the first node without  more.
EndOfBlock(l, i) ==
  CHOOSE j \in i .. Len(l) : (j = Len(l) \/ ~l[j].more) /\ \A k \in i .. j - 1 : l[k].more

BlockAt(l, i) == SubSeq(l, i, EndOfBlock(l, i))

FirstBlock(l) == IF l = <<>> THEN <<>> ELSE BlockAt(l, 1)

Owned(n) == {<<n.id, m>> : m \in n.own}

\* What dblk_delete() frees of a block, and dblk_list_delete() of a list; and
\* what it would free twice, having met it in two nodes.
Freed(l) == UNION {Owned(l[i]) : i \in DOMAIN l}
FreedTwice(l) ==
  {x \in Freed(l) : \E i, j \in DOMAIN l : i # j /\ x \in Owned(l[i]) \cap Owned(l[j])}

NodeSize(n) == IF n.vsize # 0 THEN n.vsize ELSE n.size

Total(sizes) ==
  LET sum[i \in 0 .. Len(sizes)] == IF i = 0 THEN 0 ELSE sum[i - 1] + sizes[i]
  IN  sum[Len(sizes)]

\* dblk_size()
Size(l) == Total([i \in DOMAIN FirstBlock(l) |-> NodeSize(FirstBlock(l)[i])])

\* What the nodes before the i-th one hold.
Before(l, i) == Total([k \in 1 .. i - 1 |-> l[k].size])

-----------------------------------------------------------------------------
\* dblk_node_copy_to(), into memory that is large enough: a virtual node goes
\* on in the nodes of  vmem  until it has vsize bytes or they end.
NodeText(n) ==
  LET rest == n.vsize - n.size
      Take(i) == LET v == n.vmem[i].size
                     left == IF Before(n.vmem, i) < rest THEN rest - Before(n.vmem, i) ELSE 0
                 IN  Piece(n.vmem[i].data, IF v < left THEN v ELSE left)
  IN  IF n.vsize = 0 THEN Piece(n.data, n.size)
      ELSE IF n.vsize <= n.size THEN Piece(n.data, n.vsize)
      ELSE Piece(n.data, n.size) \o FlattenSeq([i \in DOMAIN n.vmem |-> Take(i)])

\* dblk_copy_to(), of a block.
BlockText(b) == FlattenSeq([i \in DOMAIN b |-> NodeText(b[i])])

-----------------------------------------------------------------------------
\* dblk_fragment().  One turn of its loop fills the node  e  from the node
\* at  i , of which  off  bytes belong to earlier fragments.
Fragment0(id) == Node(id, {"node"}, 0, 0)

\* The walk of  f  over the nodes behind  i : where it stops, looking for the
\* end of the  remain  bytes that the node at  i  lacks.
Stop(l, i, remain) ==
  CHOOSE j \in i + 1 .. Len(l) + 1 :
    LET Ends(k) == \/ k = Len(l) + 1
                   \/ Before(l, k) - Before(l, i + 1) + l[k].size >= remain
                   \/ ~l[k].more
    IN  Ends(j) /\ \A k \in i + 1 .. j - 1 : ~Ends(k)

\* The fragment  e  that goes on in the nodes behind  i ; it ends in node  j ,
\* of whose bytes it takes  left .
GoesOn(l, fsize, st, e, j, left) ==
  [i |-> j, off |-> IF j <= Len(l) /\ l[j].size < left THEN left - l[j].size ELSE left,
   out |-> Append(st.out,
             [e EXCEPT !.vmem = SubSeq(l, st.i + 1, Len(l)),
                       !.vsize = IF j > Len(l) THEN fsize - left ELSE fsize])]

FragmentFrom(l, fsize, st, e, remain, j) ==
  IF e.size > fsize THEN [i |-> st.i, off |-> st.off + fsize, out |-> Append(st.out, e)]
  ELSE IF e.size = fsize THEN [i |-> st.i + 1, off |-> 0, out |-> Append(st.out, e)]
  ELSE GoesOn(l, fsize, st, e, j, remain - (Before(l, j) - Before(l, st.i + 1)))

FragmentTurn(l, fsize, st, id) ==
  LET n == l[st.i]
      remain == st.off + fsize - n.size
  IN  IF st.i > Len(l) THEN [st EXCEPT !.out = Append(@, Fragment0(id))]
      ELSE FragmentFrom(l, fsize, st,
             [Fragment0(id) EXCEPT !.data = n.data + st.off, !.size = n.size - st.off,
                                   !.vsize = fsize],
             remain, Stop(l, st.i, remain))

\* The fragments, a list of blocks of one node each; c names the allocations.
Fragment(l, fsize, c) ==
  LET count == Size(l) \div fsize + (IF Size(l) % fsize > 0 THEN 1 ELSE 0)
      turn[k \in 0 .. count] == IF k = 0 THEN [i |-> 1, off |-> 0, out |-> <<>>]
                                ELSE FragmentTurn(l, fsize, turn[k - 1], <<c, k>>)
  IN  IF l = <<>> \/ l[1].size = 0 THEN <<>> ELSE turn[count].out
=============================================================================
