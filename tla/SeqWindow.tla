----------------------------- MODULE SeqWindow -----------------------------
(***************************************************************************)
(* An interval of sequence numbers that slides around the circle, as the   *)
(* send and receive windows of a connection do, and a number x carried     *)
(* with it: what sncmp() answers about x must not depend on where on the   *)
(* circle the interval lies.                                               *)
(***************************************************************************)
EXTENDS SeqNum

VARIABLES min, max,  \* the ends of the interval
          x,         \* the number it is asked about
          op1, op2   \* the relations at the two ends

vars == <<min, max, x, op1, op2>>

Init == /\ min = 0
        /\ max \in SeqNo
        /\ x \in SeqNo
        /\ op1 \in Ops
        /\ op2 \in Ops

\* Both ends and x advance by one: text was received, or acknowledged.
Slide == /\ min' = SnAdd(min, 1)
         /\ max' = SnAdd(max, 1)
         /\ x' = SnAdd(x, 1)
         /\ UNCHANGED <<op1, op2>>

Spec == Init /\ [][Slide]_vars

-----------------------------------------------------------------------------
(* The numbers that advance by the length of a segment stay on the circle   *)
(* of the machine word.                                                     *)
TypeOK == /\ {min, max, x} \subseteq SeqNo
          /\ {op1, op2} \subseteq Ops

(* While the interval does not wrap around zero, sncmp() tells exactly the  *)
(* numbers on the arc from min to max, wherever x lies.                     *)
SncmpRight ==
  min <= max => (Sncmp(min, op1, x, op2, max) <=> OnArc(min, op1, x, op2, max))

(* With both ends excluded it does so for every interval.                   *)
SncmpOpenRight ==
  op1 = LS /\ op2 = LS
    => (Sncmp(min, op1, x, op2, max) <=> OnArc(min, op1, x, op2, max))
=============================================================================
