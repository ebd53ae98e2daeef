-------------------------- MODULE SeqWindowProofs --------------------------
(***************************************************************************)
(* sncmp() and sliding windows, for words of every width.                  *)
(***************************************************************************)
EXTENDS SeqWindow, TLAPS

(* Addition of unsigned words yields an unsigned word.                      *)
LEMMA SnAddType == ASSUME NEW a \in SeqNo, NEW n \in Nat PROVE SnAdd(a, n) \in SeqNo
  BY SnModAssumption DEF SeqNo, SnAdd

(* sncmp() is exact on an interval that does not wrap around zero.          *)
LEMMA SncmpNoWrap ==
  ASSUME NEW lo \in SeqNo, NEW hi \in SeqNo, NEW n \in SeqNo,
         NEW r1 \in Ops, NEW r2 \in Ops, lo <= hi
  PROVE  Sncmp(lo, r1, n, r2, hi) <=> OnArc(lo, r1, n, r2, hi)
<1>. USE SnModAssumption DEF SeqNo, Ops, OnArc, Ahead
<1>1. CASE lo = hi
  BY <1>1 DEF Sncmp, Rel, LS, LE
<1>2. CASE lo < hi
  BY <1>2 DEF Sncmp, Rel, LS, LE
<1>. QED BY <1>1, <1>2

(* sncmp() is exact on every interval whose ends are both excluded.         *)
LEMMA SncmpOpen ==
  ASSUME NEW lo \in SeqNo, NEW hi \in SeqNo, NEW n \in SeqNo
  PROVE  Sncmp(lo, LS, n, LS, hi) <=> OnArc(lo, LS, n, LS, hi)
<1>. USE SnModAssumption DEF SeqNo, OnArc, Ahead, Rel, LS, LE, Sncmp
<1>1. CASE lo <= hi
  BY <1>1
<1>2. CASE lo > hi
  BY <1>2
<1>. QED BY <1>1, <1>2

(* The numbers stay numbers of the circle.                                  *)
THEOREM TypeCorrect == Spec => []TypeOK
<1>1. Init => TypeOK
  BY SnModAssumption DEF Init, TypeOK, SeqNo
<1>2. TypeOK /\ [Slide]_vars => TypeOK'
  <2>. SUFFICES ASSUME TypeOK, [Slide]_vars PROVE TypeOK'
    OBVIOUS
  <2>1. CASE Slide
    BY <2>1, SnAddType DEF Slide, TypeOK
  <2>2. CASE UNCHANGED vars
    BY <2>2 DEF vars, TypeOK
  <2>. QED BY <2>1, <2>2
<1>. QED BY <1>1, <1>2, PTL DEF Spec

(* Wherever the window has slid to, sncmp() is right about it as long as it *)
(* does not wrap around zero.                                               *)
THEOREM SncmpIsRight == Spec => []SncmpRight
<1>1. TypeOK => SncmpRight
  BY SncmpNoWrap DEF TypeOK, SncmpRight
<1>. QED BY <1>1, TypeCorrect, PTL

(* And always, when both ends are excluded.                                 *)
THEOREM SncmpOpenIsRight == Spec => []SncmpOpenRight
<1>1. TypeOK => SncmpOpenRight
  BY SncmpOpen DEF TypeOK, SncmpOpenRight
<1>. QED BY <1>1, TypeCorrect, PTL
=============================================================================
