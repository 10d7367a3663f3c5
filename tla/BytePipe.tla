------------------------------ MODULE BytePipe ------------------------------
(***************************************************************************)
(* What InterruptibleInputStream promises: a bounded FIFO between the      *)
(* underlying stream and the callers of read.  Byte number i of the        *)
(* underlying stream is the number i.                                      *)
(***************************************************************************)
EXTENDS Integers, Sequences

CONSTANTS
  Capacity,   \* the number of bytes the pipe holds
  InputLen    \* the number of bytes that go through it

VARIABLES
  pipe,       \* bytes written and not yet read
  delivered,  \* bytes read, in order
  closed      \* the end of the input has been seen

Init ==
  /\ pipe = <<>>
  /\ delivered = <<>>
  /\ closed = FALSE

(* The next n bytes of the underlying stream enter the pipe.               *)
Write(n) ==
  /\ ~closed
  /\ Len(pipe) + n <= Capacity
  /\ Len(delivered) + Len(pipe) + n <= InputLen
  /\ pipe' = pipe \o [i \in 1 .. n |-> Len(delivered) + Len(pipe) + i]
  /\ UNCHANGED <<delivered, closed>>

(* A caller gets the n oldest bytes.                                       *)
Read(n) ==
  /\ n <= Len(pipe)
  /\ delivered' = delivered \o SubSeq(pipe, 1, n)
  /\ pipe' = SubSeq(pipe, n + 1, Len(pipe))
  /\ UNCHANGED closed

Close ==
  /\ Len(delivered) + Len(pipe) = InputLen
  /\ closed' = TRUE
  /\ UNCHANGED <<pipe, delivered>>

Next ==
  \/ \E n \in 1 .. Capacity : Write(n) \/ Read(n)
  \/ Close

Spec == Init /\ [][Next]_<<pipe, delivered, closed>>
=============================================================================
