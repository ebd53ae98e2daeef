------------------------------- MODULE Stream -------------------------------
(***************************************************************************)
(* What one direction of a TCP connection promises: the bytes written at   *)
(* one end arrive at the other in order, without gap or repetition, and    *)
(* the end of the stream is seen only after all of them.                   *)
(***************************************************************************)
EXTENDS SequencesExt

CONSTANT Byte

VARIABLES
  sent,    \* what the writer has written
  got,     \* what has arrived
  closed,  \* the writer has closed its side
  eof      \* the reader's side knows that nothing more will come

vars == <<sent, got, closed, eof>>

Init == /\ sent = <<>>
        /\ got = <<>>
        /\ ~closed
        /\ ~eof

Write == /\ ~closed
         /\ sent' \in Seq(Byte)
         /\ IsStrictPrefix(sent, sent')
         /\ UNCHANGED <<got, closed, eof>>

Arrive == /\ ~eof
          /\ IsPrefix(got', sent)
          /\ IsStrictPrefix(got, got')
          /\ UNCHANGED <<sent, closed, eof>>

Close == /\ closed' = TRUE
         /\ UNCHANGED <<sent, got, eof>>

End == /\ closed
       /\ got = sent
       /\ eof' = TRUE
       /\ UNCHANGED <<sent, got, closed>>

Next == Write \/ Arrive \/ Close \/ End

Spec == Init /\ [][Next]_vars
=============================================================================
