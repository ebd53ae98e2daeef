------------------------------- MODULE SeqNum -------------------------------
(***************************************************************************)
(* TCP sequence numbers as dts_net_tcp.c computes with them: unsigned      *)
(* words of a fixed width, added modulo SnMod and compared by sncmp().    *)
(***************************************************************************)
EXTENDS Integers

CONSTANT SnMod   \* 2^32 in the code: the number of sequence numbers

ASSUME SnModAssumption == SnMod \in Nat /\ SnMod > 1

SeqNo == 0 .. SnMod - 1

\* Variant of SnAdd on numbers that never wrap.
SnAddWide(a, n) == a + n

\* Addition of unsigned words.
SnAdd(a, n) == (a + n) % SnMod

\* How far b is ahead of a on the circle of sequence numbers.
Ahead(a, b) == IF a <= b THEN b - a ELSE b - a + SnMod

-----------------------------------------------------------------------------
\* The two relations sncmp() takes: SN_LS and SN_LE.
LS == "<"
LE == "<="
Ops == {LS, LE}

Rel(a, op, b) == IF op = LE THEN a <= b ELSE a < b

\* Variants of sncmp: the lower end always excluded; no care for wrapping.
SncmpStrict(min, op1, x, op2, max) ==
  IF min = max THEN x = max /\ op1 = LE /\ op2 = LE
               ELSE Rel(min, LS, x) /\ Rel(x, op2, max)
SncmpPlain(min, op1, x, op2, max) == Rel(min, op1, x) /\ Rel(x, op2, max)

\* sncmp(): is  min op1 x op2 max ?  The branch for min > max, where the
\* interval wraps around zero, is right only when both relations are strict.
Sncmp(min, op1, x, op2, max) ==
  \/ min = max /\ x = max /\ op1 = LE /\ op2 = LE
  \/ min < max /\ Rel(min, op1, x) /\ Rel(x, op2, max)
  \/ min > max /\ \/ op1 = LS /\ op2 = LS /\ ~(max <= x /\ x <= min)
                  \/ op1 = LE /\ op2 = LS /\ max <= x /\ x < min
                  \/ op1 = LS /\ op2 = LE /\ max < x /\ x <= min
                  \/ op1 = LE /\ op2 = LE /\ max < x /\ x < min

\* What the comments in sncmp() announce: the place of x on the arc that
\* starts at min and ends at max.  (An empty arc contains no x but its end.)
OnArc(min, op1, x, op2, max) ==
  /\ min = max => x = max /\ op1 = LE /\ op2 = LE
  /\ op1 = LS => x # min
  /\ Rel(Ahead(min, x), op2, Ahead(min, max))
=============================================================================
