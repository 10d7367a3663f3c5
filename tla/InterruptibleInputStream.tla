---------------------- MODULE InterruptibleInputStream ----------------------
(***************************************************************************)
(* hre.io.InterruptibleInputStream: standard input behind a ring buffer,   *)
(* filled by a daemon "transfer" thread and emptied by readers that can be *)
(* interrupted while they wait.                                            *)
(*                                                                         *)
(* The transfer thread takes the stream's monitor to look at the cursors   *)
(* and to notify, but reads the underlying stream, advances writeCursor    *)
(* and sets eof without it.  A reader holds the monitor for all of read    *)
(* except while it waits, yet looks at writeCursor and eof several times:  *)
(* each look is a step of its own.  Shared variables are sequentially      *)
(* consistent: the store to writeCursor is never visible before the bytes. *)
(*                                                                         *)
(* Byte number i of the underlying stream is the number i, so that loss,   *)
(* duplication and reordering are visible in delivered.                    *)
(***************************************************************************)
EXTENDS Integers, Sequences

CONSTANTS
  BLOCK_SIZE,      \* the transfer thread reads only when a whole block is free
  BUFFER_BLOCKS,   \* the buffer's size in blocks
  Readers,         \* threads that call read
  NoOne,           \* the monitor is free
  InputLen,        \* the number of bytes before the underlying stream ends
  MaxRequest       \* bound: the largest len passed to read(bufferOut, off, len)

ASSUME BlockSizeAssumption == BLOCK_SIZE \in Nat \ {0}
ASSUME BufferBlocksAssumption == BUFFER_BLOCKS \in Nat \ {0}
ASSUME InputLenAssumption == InputLen \in Nat
ASSUME MaxRequestAssumption == MaxRequest \in Nat \ {0}
ASSUME NoOneAssumption == NoOne \notin Readers

BUFFER_SIZE == BLOCK_SIZE * BUFFER_BLOCKS

VARIABLES
  buffer,       \* the ring buffer
  readCursor,   \* position of the next byte to deliver
  writeCursor,  \* position of the next byte to fill
  eof,          \* the underlying stream returned -1
  monitor,      \* the reader that holds the monitor, or NoOne
  transfer,     \* what the transfer thread is about to do
  toRead,       \* the size of its next underlying read
  produced,     \* bytes taken from the underlying stream so far
  reader,       \* what each reader is about to do
  request,      \* what each reader still has to copy; 0 marks a single-byte read
  written,      \* bytes its call has copied so far
  sawGe,        \* the outcome of available's test writeCursor >= readCursor
  delivered     \* bytes handed to callers, in order

transferVars == <<transfer, toRead, produced>>
readerVars == <<reader, request, written, sawGe, delivered>>
vars == <<buffer, readCursor, writeCursor, eof, monitor, transferVars, readerVars>>

Positions == 0 .. BUFFER_SIZE - 1
TransferStates == {"check", "read", "notify", "gap", "waiting", "done"}
ReaderStates ==
  {"idle", "enter", "available", "take", "greater", "copy", "less", "wrap",
   "empty", "waiting", "failed"}

Minimum(a, b) == IF a <= b THEN a ELSE b

Advance(cursor, n) == (cursor + n) % BUFFER_SIZE

(* One byte is always free: cursors that overlap mean an empty buffer.     *)
spaceAvailable_NoDeadByte ==
  IF readCursor > writeCursor
    THEN readCursor - writeCursor
    ELSE (readCursor - writeCursor) + BUFFER_SIZE
spaceAvailable ==
  IF readCursor > writeCursor
    THEN readCursor - writeCursor - 1
    ELSE (readCursor - writeCursor - 1) + BUFFER_SIZE

(* Bytes in the buffer when nobody moves a cursor.                         *)
available ==
  IF writeCursor >= readCursor
    THEN writeCursor - readCursor
    ELSE (writeCursor - readCursor) + BUFFER_SIZE

-----------------------------------------------------------------------------
TypeOK ==
  /\ buffer \in [Positions -> 0 .. InputLen]
  /\ readCursor \in Positions
  /\ writeCursor \in Positions
  /\ eof \in BOOLEAN
  /\ monitor \in Readers \cup {NoOne}
  /\ transfer \in TransferStates
  /\ toRead \in 0 .. BLOCK_SIZE
  /\ produced \in 0 .. InputLen
  /\ reader \in [Readers -> ReaderStates]
  /\ request \in [Readers -> 0 .. MaxRequest]
  /\ written \in [Readers -> Nat]
  /\ sawGe \in [Readers -> BOOLEAN]
  /\ delivered \in Seq(1 .. InputLen)

Init ==
  /\ buffer = [p \in Positions |-> 0]
  /\ readCursor = 0
  /\ writeCursor = 0
  /\ eof = FALSE
  /\ monitor = NoOne
  /\ transfer = "check"
  /\ toRead = 0
  /\ produced = 0
  /\ reader = [r \in Readers |-> "idle"]
  /\ request = [r \in Readers |-> 0]
  /\ written = [r \in Readers |-> 0]
  /\ sawGe = [r \in Readers |-> FALSE]
  /\ delivered = <<>>

-----------------------------------------------------------------------------
(* The transfer thread.                                                    *)

(* Math.min(BLOCK_SIZE, BUFFER_SIZE - writeCursor)                         *)
nextRead_PastTheEnd == BLOCK_SIZE
nextRead == Minimum(BLOCK_SIZE, BUFFER_SIZE - writeCursor)

(* Both synchronized blocks at the head of the loop: only this thread      *)
(* moves writeCursor, so nothing can come between them that matters.       *)
CheckSpace ==
  /\ transfer = "check"
  /\ monitor = NoOne
  /\ \/ /\ spaceAvailable >= BLOCK_SIZE
        /\ transfer' = "read"
        /\ toRead' = nextRead
     \/ /\ spaceAvailable < BLOCK_SIZE
        /\ transfer' = "gap"
        /\ UNCHANGED toRead
  /\ UNCHANGED <<buffer, readCursor, writeCursor, eof, monitor, produced, readerVars>>

(* underlying.read returned n bytes, written in place.                     *)
Fill(n) ==
  /\ transfer = "read"
  /\ buffer' = [p \in Positions |->
                  IF p \in writeCursor .. writeCursor + n - 1
                    THEN produced + 1 + p - writeCursor
                    ELSE buffer[p]]
  /\ writeCursor' = Advance(writeCursor, n)
  /\ produced' = produced + n
  /\ transfer' = "notify"
  /\ UNCHANGED <<readCursor, eof, monitor, toRead, readerVars>>

FillSome == \E n \in 1 .. Minimum(toRead, InputLen - produced) : Fill(n)

(* underlying.read returned -1.                                            *)
HitEof ==
  /\ transfer = "read"
  /\ produced = InputLen
  /\ eof' = TRUE
  /\ transfer' = "notify"
  /\ UNCHANGED <<buffer, readCursor, writeCursor, monitor, toRead, produced, readerVars>>

(* notifyAll, for the readers.                                             *)
AfterNotify_Forgotten == reader
AfterNotify == [r \in Readers |-> IF reader[r] = "waiting" THEN "enter" ELSE reader[r]]

NotifyReaders ==
  /\ transfer = "notify"
  /\ monitor = NoOne
  /\ transfer' = IF eof THEN "done" ELSE "check"
  /\ reader' = AfterNotify
  /\ UNCHANGED <<buffer, readCursor, writeCursor, eof, monitor, toRead, produced,
                 request, written, sawGe, delivered>>

(* outer.synchronized(outer.wait()): the space was tested in an earlier    *)
(* synchronized block, and is not tested again.                            *)
TransferWait ==
  /\ transfer = "gap"
  /\ monitor = NoOne
  /\ transfer' = "waiting"
  /\ UNCHANGED <<buffer, readCursor, writeCursor, eof, monitor, toRead, produced, readerVars>>

TransferThread == CheckSpace \/ FillSome \/ HitEof \/ NotifyReaders \/ TransferWait

-----------------------------------------------------------------------------
(* The readers.                                                            *)

NoByteMoves == UNCHANGED <<buffer, readCursor, writeCursor, eof, transferVars, delivered>>
At(r, s) == monitor = r /\ reader[r] = s
Goto(r, s) == reader' = [reader EXCEPT ![r] = s]

(* A call of read (len = 0) or read(bufferOut, off, len).                  *)
Call(r, len) ==
  /\ reader[r] = "idle"
  /\ Goto(r, "enter")
  /\ request' = [request EXCEPT ![r] = len]
  /\ written' = [written EXCEPT ![r] = 0]
  /\ NoByteMoves /\ UNCHANGED <<monitor, sawGe>>

(* The monitor is acquired, at the start of the call or to leave wait().   *)
Enter(r) ==
  /\ reader[r] = "enter"
  /\ monitor = NoOne
  /\ monitor' = r
  /\ Goto(r, IF request[r] = 0 THEN "available" ELSE "greater")
  /\ NoByteMoves /\ UNCHANGED <<request, written, sawGe>>

(* n bytes from readCursor on go to the caller; whoever waits is notified. *)
Take(n) ==
  /\ delivered' = delivered \o [i \in 1 .. n |-> buffer[readCursor + i - 1]]
  /\ transfer' = IF transfer = "waiting" THEN "check" ELSE transfer
  /\ UNCHANGED <<buffer, writeCursor, eof, toRead, produced>>

(* The readers once r, done with notifyAll, goes to state s.               *)
WakeAndGoto(r, s) == reader' = [AfterNotify EXCEPT ![r] = s]

TestAvailable(r) ==
  /\ At(r, "available")
  /\ sawGe' = [sawGe EXCEPT ![r] = writeCursor >= readCursor]
  /\ Goto(r, "take")
  /\ NoByteMoves /\ UNCHANGED <<monitor, request, written>>

(* available, completed after TestAvailable with the writeCursor of now.   *)
availableNow(r) ==
  (writeCursor - readCursor) + (IF sawGe[r] THEN 0 ELSE BUFFER_SIZE)

TakeByte(r) ==
  /\ At(r, "take")
  /\ availableNow(r) > 0
  /\ Take(1)
  /\ readCursor' = Advance(readCursor, 1)
  /\ monitor' = NoOne
  /\ WakeAndGoto(r, "idle")
  /\ UNCHANGED <<request, written, sawGe>>

NothingToTake(r) ==
  /\ At(r, "take")
  /\ availableNow(r) <= 0
  /\ Goto(r, "empty")
  /\ NoByteMoves /\ UNCHANGED <<monitor, request, written, sawGe>>

TestGreater(r) ==
  /\ At(r, "greater")
  /\ Goto(r, IF writeCursor > readCursor THEN "copy" ELSE "less")
  /\ NoByteMoves /\ UNCHANGED <<monitor, request, written, sawGe>>

TestLess(r) ==
  /\ At(r, "less")
  /\ Goto(r, IF writeCursor < readCursor THEN "wrap" ELSE "empty")
  /\ NoByteMoves /\ UNCHANGED <<monitor, request, written, sawGe>>

(* System.arraycopy of n bytes.  written < len is tested next: the call    *)
(* returns, or goes round the loop.                                        *)
CopyBytes(r, n) ==
  /\ n >= 0
  /\ Take(n)
  /\ readCursor' = Advance(readCursor, n)
  /\ written' = [written EXCEPT ![r] = @ + n]
  /\ request' = [request EXCEPT ![r] = @ - n]
  /\ IF n = request[r]
       THEN monitor' = NoOne /\ WakeAndGoto(r, "idle")
       ELSE monitor' = monitor /\ WakeAndGoto(r, "greater")
  /\ UNCHANGED sawGe

(* arraycopy refuses a negative length: the caller gets an exception.      *)
CopyFails(r, n) ==
  /\ n < 0
  /\ monitor' = NoOne
  /\ Goto(r, "failed")
  /\ NoByteMoves /\ UNCHANGED <<request, written, sawGe>>

CopyUpToWriter(r) ==
  LET toCopy == Minimum(writeCursor - readCursor, request[r]) IN
  At(r, "copy") /\ (CopyBytes(r, toCopy) \/ CopyFails(r, toCopy))

CopyUpToEnd(r) ==
  At(r, "wrap") /\ CopyBytes(r, Minimum(BUFFER_SIZE - readCursor, request[r]))

(* Nothing to copy: return at the end of the stream or with a short count, *)
(* and wait otherwise.                                                     *)
ReturnEmpty(r) ==
  /\ At(r, "empty")
  /\ monitor' = NoOne
  /\ Goto(r, IF eof \/ written[r] > 0 THEN "idle" ELSE "waiting")
  /\ NoByteMoves /\ UNCHANGED <<request, written, sawGe>>

(* Thread.interrupt: wait() reacquires the monitor and throws.             *)
InterruptReader(r) ==
  /\ reader[r] = "waiting"
  /\ monitor = NoOne
  /\ Goto(r, "idle")
  /\ NoByteMoves /\ UNCHANGED <<monitor, request, written, sawGe>>

ReaderStep(r) ==
  \/ Enter(r)
  \/ TestAvailable(r) \/ TakeByte(r) \/ NothingToTake(r)
  \/ TestGreater(r) \/ TestLess(r) \/ CopyUpToWriter(r) \/ CopyUpToEnd(r)
  \/ ReturnEmpty(r)

ReaderThread(r) ==
  (\E len \in 0 .. MaxRequest : Call(r, len)) \/ ReaderStep(r) \/ InterruptReader(r)

Next == TransferThread \/ \E r \in Readers : ReaderThread(r)

Spec == Init /\ [][Next]_vars

(* The transfer thread and a reader inside read keep running, and a thread *)
(* that asks for the monitor again and again gets it (strong fairness: it  *)
(* is free only now and then).  The reader comes back for more, as the     *)
(* loop of Watch's stdin thread and a parser reading to the end do.        *)
FairSpec ==
  /\ Spec
  /\ SF_vars(TransferThread)
  /\ \A r \in Readers :
       /\ SF_vars(Enter(r)) /\ WF_vars(ReaderStep(r))
       /\ WF_vars(\E len \in 0 .. MaxRequest : Call(r, len))

-----------------------------------------------------------------------------
(* The k-th byte of the buffer.                                            *)
Slot(k) ==
  IF readCursor + k - 1 < BUFFER_SIZE
    THEN readCursor + k - 1
    ELSE readCursor + k - 1 - BUFFER_SIZE

(* Callers receive the bytes of the underlying stream in order, each once, *)
(* although writeCursor moves under the readers' eyes.                     *)
InOrder == \A i \in 1 .. Len(delivered) : delivered[i] = i

(* No byte is dropped between the threads: what was produced is delivered  *)
(* or still in the buffer, where the next reader finds it.                 *)
NoByteLost ==
  /\ Len(delivered) + available = produced
  /\ \A k \in 1 .. available : buffer[Slot(k)] = Len(delivered) + k

(* The underlying stream is read straight into the buffer, without the     *)
(* monitor: the region handed to it must hold no undelivered byte.         *)
TransferRegionFree ==
  transfer = "read" => /\ toRead \in 1 .. spaceAvailable
                       /\ writeCursor + toRead <= BUFFER_SIZE

(* A reader that waits will be told: either there is nothing to read yet,  *)
(* or the transfer thread has its notifyAll still to do.                   *)
ReaderNotForgotten ==
  (\E r \in Readers : reader[r] = "waiting")
    => transfer = "notify" \/ (writeCursor = readCursor /\ ~eof)

(* A call reports the end of the stream (-1) only when every byte has been *)
(* delivered.                                                              *)
ReturnsEndOfStream(r) ==
  /\ reader[r] = "empty" /\ reader'[r] = "idle"
  /\ written[r] = 0
EndOfStreamIsLast ==
  [][\A r \in Readers : ReturnsEndOfStream(r) => Len(delivered) = InputLen]_vars

(* The stream is a bounded FIFO: every step of either thread is a step of  *)
(* the pipe that holds the bytes between the cursors, or invisible to it.  *)
Pipe == INSTANCE BytePipe WITH
          Capacity <- BUFFER_SIZE - 1,
          pipe <- [k \in 1 .. available |-> buffer[Slot(k)]],
          closed <- eof
ImplementsPipe == Pipe!Spec

(* Every byte of the underlying stream reaches a caller that keeps         *)
(* reading.                                                                *)
EveryByteDelivered == <>(Len(delivered) = InputLen)

(* There are two ways to lose bytes for good: the lost wake-up, in which   *)
(* the transfer thread waits for ever although a block is free, and a      *)
(* failure of every reader, whose second look at writeCursor found it      *)
(* behind readCursor.  Short of those every byte reaches a caller, end of  *)
(* stream, wrap and full buffer included.                                  *)
WakeupLost == transfer = "waiting" /\ spaceAvailable >= BLOCK_SIZE
ReadersFailed == \A r \in Readers : reader[r] = "failed"
DeliveredUnlessWakeupLost ==
  EveryByteDelivered \/ <>[]WakeupLost \/ <>ReadersFailed
=============================================================================
