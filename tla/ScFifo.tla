--------------------------------- MODULE ScFifo ---------------------------------
(***************************************************************************)
(* sc_fifox: a ring buffer whose reads and writes count at the end of the  *)
(* delta cycle.  num_readable is what there was to read when the cycle     *)
(* began; num_read and num_written what has been read and written in it.   *)
(***************************************************************************)
EXTENDS ScScheduler

CONSTANT BUF_SIZE  \* 16 in the code

ASSUME BufferAssumption == BUF_SIZE \in Nat \ {0}

VARIABLES buf, free, ri, wi, num_readable, num_read, num_written

fifoVars == <<buf, free, ri, wi, num_readable, num_read, num_written>>

\* The constructor leaves buf as it is: 0 is any value.
FifoInit ==
  /\ buf = [k \in 0 .. BUF_SIZE - 1 |-> 0]
  /\ free = BUF_SIZE /\ ri = 0 /\ wi = 0
  /\ num_readable = 0 /\ num_read = 0 /\ num_written = 0

num_available == num_readable - num_read
num_free_IgnoresWrites == BUF_SIZE - num_readable
num_free == BUF_SIZE - num_readable - num_written

Taken == buf[ri]
TakeSample ==
  /\ num_read' = num_read + 1
  /\ ri' = (ri + 1) % BUF_SIZE
  /\ free' = free + 1
  /\ GoOn({}, {"fifo"})
  /\ UNCHANGED <<buf, wi, num_readable, num_written>>

FifoRead == num_available # 0 /\ TakeSample
FifoReadWaits == num_available = 0 /\ Wait("data_written") /\ UNCHANGED fifoVars

\* nb_read returns false where nothing is there.
FifoNbRead == num_available # 0 /\ TakeSample
FifoNbReadFails == num_available = 0 /\ UNCHANGED fifoVars

FifoWrite(val) ==
  /\ num_free # 0
  /\ num_written' = num_written + 1
  /\ buf' = [buf EXCEPT ![wi] = val]
  /\ wi' = (wi + 1) % BUF_SIZE
  /\ free' = free - 1
  /\ GoOn({}, {"fifo"})
  /\ UNCHANGED <<ri, num_readable, num_read>>
FifoWriteWaits == num_free = 0 /\ Wait("data_read") /\ UNCHANGED fifoVars

\* update, and the events it notifies.
FifoNotifies_NotTheWriters == {e \in {"data_written"} : num_written > 0}
FifoNotifies ==
  {e \in {"data_read", "data_written"} :
     IF e = "data_read" THEN num_read > 0 ELSE num_written > 0}

FifoUpdate_KeepsRead ==
  /\ num_readable' = BUF_SIZE - free
  /\ num_written' = 0
  /\ UNCHANGED <<buf, free, ri, wi, num_read>>
FifoUpdate ==
  /\ num_readable' = BUF_SIZE - free
  /\ num_read' = 0 /\ num_written' = 0
  /\ UNCHANGED <<buf, free, ri, wi>>

--------------------------------------------------------------------------------
\* The cursors stay in the buffer and the three counters agree with it: no more is
\* read in a cycle than was there at its beginning, no more written than fitted.
FifoTypeOK ==
  /\ ri \in 0 .. BUF_SIZE - 1 /\ wi \in 0 .. BUF_SIZE - 1 /\ free \in 0 .. BUF_SIZE
  /\ num_read \in 0 .. num_readable
  /\ num_written \in 0 .. BUF_SIZE - num_readable
  /\ free = BUF_SIZE - num_readable + num_read - num_written
  /\ (ri + BUF_SIZE - free) % BUF_SIZE = wi

================================================================================
