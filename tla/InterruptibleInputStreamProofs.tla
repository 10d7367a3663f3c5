------------------- MODULE InterruptibleInputStreamProofs -------------------
(***************************************************************************)
(* The safety of InterruptibleInputStream for every buffer size, number of *)
(* readers and length of input.                                            *)
(***************************************************************************)
EXTENDS InterruptibleInputStream, TLAPS

(* A reader in one of these states holds the monitor.                      *)
Holding == {"available", "take", "greater", "copy", "less", "wrap", "empty"}
MonitorHeld == \A r \in Readers : reader[r] \in Holding => monitor = r

(* A store to writeCursor that the reader's earlier test did not see: its  *)
(* notifyAll waits for the reader to leave the monitor.                    *)
UnseenStore == transfer = "notify" /\ ~eof

(* What a reader's earlier looks at writeCursor are still worth.           *)
ReaderKnows ==
  \A r \in Readers :
    /\ reader[r] = "take" /\ ~sawGe[r] => writeCursor < readCursor
    /\ reader[r] = "take" /\ sawGe[r] => writeCursor >= readCursor \/ UnseenStore
    /\ reader[r] = "wrap" => writeCursor < readCursor
    /\ reader[r] = "less" => writeCursor <= readCursor \/ UnseenStore
    /\ reader[r] = "empty" => writeCursor = readCursor \/ UnseenStore

TransferKnows ==
  /\ transfer = "read" => /\ toRead = nextRead
                          /\ toRead <= spaceAvailable
                          /\ ~eof
  /\ eof => transfer \in {"notify", "done"} /\ produced = InputLen

IInv ==
  /\ TypeOK
  /\ MonitorHeld
  /\ TransferKnows
  /\ ReaderKnows
  /\ NoByteLost
  /\ InOrder
  /\ ReaderNotForgotten

-----------------------------------------------------------------------------
(* The buffer has at least one block.                                      *)
LEMMA BufferSize ==
  /\ BUFFER_SIZE \in Nat /\ BLOCK_SIZE \in Nat
  /\ BUFFER_SIZE >= BLOCK_SIZE /\ BLOCK_SIZE >= 1 /\ BUFFER_SIZE >= 1
<1>1. BUFFER_BLOCKS >= 1 /\ BLOCK_SIZE >= 1 /\ BUFFER_BLOCKS \in Nat /\ BLOCK_SIZE \in Nat
  BY BlockSizeAssumption, BufferBlocksAssumption
<1>2. BLOCK_SIZE * BUFFER_BLOCKS \in Nat /\ BLOCK_SIZE * BUFFER_BLOCKS >= BLOCK_SIZE
  BY <1>1
<1> QED
  BY <1>1, <1>2 DEF BUFFER_SIZE

(* A cursor that moves by at most what is left of the buffer wraps only    *)
(* when it reaches the end.                                                *)
LEMMA CursorStep ==
  ASSUME NEW b \in Nat, NEW x \in 0 .. b, b >= 1
  PROVE  x % b = IF x = b THEN 0 ELSE x
  OBVIOUS

(* Bytes and free space share the buffer, but for the dead byte.           *)
LEMMA AvailableAndFree ==
  ASSUME TypeOK
  PROVE  /\ available \in 0 .. BUFFER_SIZE - 1
         /\ spaceAvailable = BUFFER_SIZE - 1 - available
  BY BufferSize DEF available, spaceAvailable, TypeOK, Positions

(* The k-th byte of the buffer lies inside it.                             *)
LEMMA SlotInBuffer ==
  ASSUME TypeOK, NEW k \in 1 .. available
  PROVE  Slot(k) \in Positions
<1>1. available \in 0 .. BUFFER_SIZE - 1
  BY AvailableAndFree
<1> QED
  BY <1>1, BufferSize DEF Slot, TypeOK, Positions

-----------------------------------------------------------------------------
(* Handing the n oldest bytes to a caller keeps the account of every byte. *)
LEMMA TakeKeepsBytes ==
  ASSUME TypeOK, NoByteLost, InOrder, NEW n \in Nat, n <= available,
         readCursor + n <= BUFFER_SIZE,
         Take(n), readCursor' = Advance(readCursor, n)
  PROVE  /\ readCursor' \in Positions
         /\ delivered' \in Seq(1 .. InputLen)
         /\ available' = available - n
         /\ spaceAvailable' = spaceAvailable + n
         /\ NoByteLost'
         /\ InOrder'
<1> DEFINE taken == [i \in 1 .. n |-> buffer[readCursor + i - 1]]
<1>1. readCursor' = IF readCursor + n = BUFFER_SIZE THEN 0 ELSE readCursor + n
  <2>1. readCursor + n \in 0 .. BUFFER_SIZE
    BY BufferSize DEF TypeOK, Positions
  <2> QED
    BY <2>1, CursorStep, BufferSize DEF Advance
<1>2. readCursor' \in Positions
  BY <1>1, BufferSize DEF TypeOK, Positions
<1>3. /\ available \in 0 .. BUFFER_SIZE - 1
      /\ available = IF writeCursor >= readCursor
                  THEN writeCursor - readCursor
                  ELSE (writeCursor - readCursor) + BUFFER_SIZE
      /\ spaceAvailable = BUFFER_SIZE - 1 - available
  BY AvailableAndFree DEF available
<1>4. /\ writeCursor' = writeCursor /\ produced' = produced /\ buffer' = buffer
      /\ delivered' = delivered \o taken
  BY DEF Take
<1>5. /\ readCursor \in Positions /\ writeCursor \in Positions
      /\ BUFFER_SIZE \in Nat /\ BUFFER_SIZE >= 1
  BY BufferSize DEF TypeOK
<1>6. /\ available' = IF writeCursor >= readCursor'
                        THEN writeCursor - readCursor'
                        ELSE (writeCursor - readCursor') + BUFFER_SIZE
      /\ spaceAvailable' = IF readCursor' > writeCursor
                             THEN readCursor' - writeCursor - 1
                             ELSE (readCursor' - writeCursor - 1) + BUFFER_SIZE
  BY <1>4 DEF spaceAvailable, available
<1>7. available' = available - n /\ spaceAvailable' = spaceAvailable + n
  <2>1. CASE readCursor + n = BUFFER_SIZE
    BY <2>1, <1>1, <1>3, <1>5, <1>6 DEF Positions
  <2>2. CASE readCursor + n # BUFFER_SIZE
    BY <2>2, <1>1, <1>3, <1>5, <1>6 DEF Positions
  <2> QED
    BY <2>1, <2>2
<1>8. \A i \in 1 .. n : taken[i] = Len(delivered) + i
  <2> TAKE i \in 1 .. n
  <2>1. i \in 1 .. available
    BY <1>3
  <2>2. Slot(i) = readCursor + i - 1
    BY <1>5 DEF Slot, Positions
  <2>3. buffer[Slot(i)] = Len(delivered) + i
    BY <2>1 DEF NoByteLost
  <2> QED
    BY <2>2, <2>3
<1>9. /\ Len(delivered) \in Nat
      /\ Len(delivered) + available = produced
      /\ produced \in Nat /\ produced <= InputLen /\ InputLen \in Nat
  BY InputLenAssumption DEF TypeOK, NoByteLost
<1>10. /\ taken \in Seq(1 .. InputLen) /\ Len(taken) = n
  <2>1. \A i \in 1 .. n : taken[i] \in 1 .. InputLen
    BY <1>3, <1>8, <1>9
  <2> QED
    BY <2>1
<1>11. delivered \in Seq(1 .. InputLen)
  BY DEF TypeOK
<1>12. /\ delivered' \in Seq(1 .. InputLen)
       /\ Len(delivered') = Len(delivered) + n
       /\ \A i \in 1 .. Len(delivered) + n :
            delivered'[i] = IF i <= Len(delivered) THEN delivered[i]
                                                   ELSE taken[i - Len(delivered)]
  BY <1>4, <1>10, <1>11
<1>13. NoByteLost'
  <2>1. ASSUME NEW k \in 1 .. available - n
        PROVE  buffer[Slot(k)'] = Len(delivered) + n + k
    <3>1. k + n \in 1 .. available
      BY <1>3
    <3>2. Slot(k)' = Slot(k + n)
      BY <1>1, <1>3, <1>5 DEF Slot, Positions
    <3> QED
      BY <3>1, <3>2, <1>9 DEF NoByteLost
  <2>2. Len(delivered') + available' = produced'
    BY <1>3, <1>4, <1>7, <1>9, <1>12
  <2> QED
    BY <2>1, <2>2, <1>4, <1>7, <1>12 DEF NoByteLost
<1>14. InOrder'
  <2> HIDE DEF taken
  <2>1. ASSUME NEW i \in 1 .. Len(delivered) + n
        PROVE  delivered'[i] = i
    <3>1. delivered'[i] = IF i <= Len(delivered) THEN delivered[i]
                                                 ELSE taken[i - Len(delivered)]
      BY <1>12
    <3>2. i <= Len(delivered) => delivered[i] = i
      BY <1>9 DEF InOrder
    <3>3. i > Len(delivered) => taken[i - Len(delivered)] = i
      BY <1>8, <1>9
    <3> QED
      BY <3>1, <3>2, <3>3, <1>9
  <2> QED
    BY <2>1, <1>12 DEF InOrder
<1> QED
  BY <1>2, <1>7, <1>12, <1>13, <1>14

(* Reading n bytes into the free region keeps the account of every byte.   *)
LEMMA FillKeepsBytes ==
  ASSUME TypeOK, NoByteLost, InOrder, TransferKnows,
         NEW n \in 1 .. Minimum(toRead, InputLen - produced), Fill(n)
  PROVE  /\ buffer' \in [Positions -> 0 .. InputLen]
         /\ writeCursor' \in Positions
         /\ produced' \in 0 .. InputLen
         /\ writeCursor < readCursor => writeCursor' < readCursor
         /\ NoByteLost'
         /\ InOrder'
<1>1. /\ toRead <= BLOCK_SIZE /\ toRead <= BUFFER_SIZE - writeCursor
      /\ toRead <= spaceAvailable
      /\ readCursor \in Positions /\ writeCursor \in Positions
      /\ BUFFER_SIZE \in Nat /\ BUFFER_SIZE >= 1
      /\ toRead \in Nat /\ produced \in Nat /\ InputLen \in Nat
  BY BufferSize, InputLenAssumption DEF TypeOK, TransferKnows, Fill, nextRead, Minimum, Positions
<1>2. /\ n \in Nat /\ n >= 1 /\ n <= toRead /\ produced + n <= InputLen
  BY <1>1 DEF Minimum
<1>3. /\ available \in 0 .. BUFFER_SIZE - 1
      /\ available = IF writeCursor >= readCursor
                  THEN writeCursor - readCursor
                  ELSE (writeCursor - readCursor) + BUFFER_SIZE
      /\ spaceAvailable = BUFFER_SIZE - 1 - available
  BY AvailableAndFree DEF available
<1>4. /\ readCursor' = readCursor /\ delivered' = delivered
      /\ produced' = produced + n
      /\ buffer' = [p \in Positions |->
                      IF p \in writeCursor .. writeCursor + n - 1
                        THEN produced + 1 + p - writeCursor
                        ELSE buffer[p]]
  BY DEF Fill, readerVars
<1>5. writeCursor' = IF writeCursor + n = BUFFER_SIZE THEN 0 ELSE writeCursor + n
  <2>1. writeCursor + n \in 0 .. BUFFER_SIZE
    BY <1>1, <1>2 DEF Positions
  <2> QED
    BY <2>1, CursorStep, BufferSize DEF Fill, Advance
<1>6. writeCursor' \in Positions
  BY <1>1, <1>2, <1>5 DEF Positions
<1>7. writeCursor < readCursor => writeCursor' < readCursor
  BY <1>1, <1>2, <1>3, <1>5 DEF Positions
<1>8. available' = available + n
  <2>1. available' = IF writeCursor' >= readCursor
                       THEN writeCursor' - readCursor
                       ELSE (writeCursor' - readCursor) + BUFFER_SIZE
    BY <1>4 DEF available
  <2>2. CASE writeCursor + n = BUFFER_SIZE
    BY <2>1, <2>2, <1>1, <1>2, <1>3, <1>5 DEF Positions
  <2>3. CASE writeCursor + n # BUFFER_SIZE
    BY <2>1, <2>3, <1>1, <1>2, <1>3, <1>5 DEF Positions
  <2> QED
    BY <2>2, <2>3
<1>9. /\ Len(delivered) \in Nat /\ Len(delivered) + available = produced
  BY DEF TypeOK, NoByteLost
<1>10. buffer' \in [Positions -> 0 .. InputLen]
  <2>1. ASSUME NEW p \in Positions
        PROVE  /\ buffer[p] \in 0 .. InputLen
               /\ p \in writeCursor .. writeCursor + n - 1
                    => produced + 1 + p - writeCursor \in 0 .. InputLen
    BY <1>1, <1>2 DEF TypeOK, Positions
  <2> QED
    BY <2>1, <1>4
<1>11. NoByteLost'
  <2>1. ASSUME NEW k \in 1 .. available + n
        PROVE  buffer'[Slot(k)] = Len(delivered) + k
    <3>1. CASE k <= available
      <4>1. k \in 1 .. available
        BY <3>1, <1>2, <1>3
      <4>2. Slot(k) \in Positions
        BY <4>1, SlotInBuffer
      <4>3. Slot(k) \notin writeCursor .. writeCursor + n - 1
        BY <4>1, <1>1, <1>2, <1>3 DEF Slot, Positions
      <4>4. buffer[Slot(k)] = Len(delivered) + k
        BY <4>1 DEF NoByteLost
      <4> QED
        BY <4>2, <4>3, <4>4, <1>4
    <3>2. CASE k > available
      <4>1. Slot(k) = writeCursor + (k - available - 1)
        BY <3>2, <1>1, <1>2, <1>3 DEF Slot, Positions
      <4>2. Slot(k) \in writeCursor .. writeCursor + n - 1
        BY <4>1, <3>2, <1>1, <1>2, <1>3 DEF Positions
      <4>3. Slot(k) \in Positions
        BY <4>2, <1>1, <1>2 DEF Positions
      <4>4. buffer'[Slot(k)] = produced + 1 + Slot(k) - writeCursor
        BY <4>2, <4>3, <1>4
      <4> QED
        BY <4>1, <4>4, <3>2, <1>1, <1>2, <1>3, <1>9 DEF Positions
    <3> QED
      BY <3>1, <3>2, <1>2, <1>3
  <2>2. \A k \in 1 .. available + n : Slot(k)' = Slot(k)
    BY <1>4 DEF Slot
  <2>3. Len(delivered') + available' = produced'
    <3>1. delivered' = delivered /\ produced' = produced + n
      BY <1>4
    <3>2. Len(delivered') = Len(delivered)
      BY <3>1
    <3>3. available \in Nat /\ n \in Nat /\ produced \in Nat
      BY <1>1, <1>2, <1>3
    <3> QED
      BY <3>1, <3>2, <3>3, <1>8, <1>9
  <2> QED
    BY <2>1, <2>2, <2>3, <1>4, <1>8 DEF NoByteLost
<1>12. InOrder'
  BY <1>4 DEF InOrder
<1> QED
  BY <1>1, <1>2, <1>4, <1>6, <1>7, <1>10, <1>11, <1>12

(* A step that moves no byte keeps the account.                            *)
LEMMA ControlKeepsBytes ==
  ASSUME NoByteLost, InOrder,
         UNCHANGED <<buffer, readCursor, writeCursor, produced, delivered>>
  PROVE  NoByteLost' /\ InOrder' /\ spaceAvailable' = spaceAvailable
  BY DEF NoByteLost, InOrder, available, Slot, spaceAvailable

-----------------------------------------------------------------------------
(* The initial state.                                                      *)
LEMMA InitInductive == Init => IInv
<1> SUFFICES ASSUME Init PROVE IInv
  OBVIOUS
<1>1. TypeOK
  <2>1. 0 \in Positions /\ 0 \in 0 .. InputLen /\ 0 \in 0 .. MaxRequest /\ 0 \in 0 .. BLOCK_SIZE
    BY BufferSize, InputLenAssumption, MaxRequestAssumption DEF Positions
  <2>2. delivered \in Seq(1 .. InputLen)
    BY DEF Init
  <2> QED
    BY <2>1, <2>2 DEF Init, TypeOK, TransferStates, ReaderStates
<1>2. available = 0
  BY <1>1 DEF Init, available
<1>3. NoByteLost /\ InOrder
  BY <1>2 DEF Init, NoByteLost, InOrder
<1> QED
  BY <1>1, <1>3
     DEF Init, IInv, MonitorHeld, Holding, TransferKnows, ReaderKnows, ReaderNotForgotten

-----------------------------------------------------------------------------
(* The transfer thread's steps.                                            *)
LEMMA CheckSpaceInductive == IInv /\ CheckSpace => IInv'
<1> SUFFICES ASSUME IInv, CheckSpace PROVE IInv'
  OBVIOUS
<1> USE DEF CheckSpace, readerVars
<1>1. NoByteLost' /\ InOrder' /\ spaceAvailable' = spaceAvailable
  BY ControlKeepsBytes DEF IInv
<1>2. TypeOK'
  BY BufferSize DEF IInv, TypeOK, TransferStates, nextRead, Minimum, Positions
<1>3. TransferKnows'
  <2>1. ~eof
    BY DEF IInv, TransferKnows
  <2>2. nextRead <= BLOCK_SIZE
    BY BufferSize DEF nextRead, Minimum, IInv, TypeOK, Positions
  <2>3. spaceAvailable \in Int
    BY BufferSize DEF spaceAvailable, IInv, TypeOK, Positions
  <2>4. nextRead \in Int
    BY BufferSize DEF nextRead, Minimum, IInv, TypeOK, Positions
  <2> QED
    BY <1>1, <2>1, <2>2, <2>3, <2>4, BufferSize DEF TransferKnows, nextRead
<1>4. MonitorHeld' /\ ReaderKnows' /\ ReaderNotForgotten'
  BY DEF IInv, MonitorHeld, ReaderKnows, ReaderNotForgotten, UnseenStore
<1> QED
  BY <1>1, <1>2, <1>3, <1>4 DEF IInv

LEMMA FillSomeInductive == IInv /\ FillSome => IInv'
<1> SUFFICES ASSUME IInv, NEW n \in 1 .. Minimum(toRead, InputLen - produced), Fill(n)
             PROVE  IInv'
  BY DEF FillSome
<1>1. /\ buffer' \in [Positions -> 0 .. InputLen]
      /\ writeCursor' \in Positions
      /\ produced' \in 0 .. InputLen
      /\ writeCursor < readCursor => writeCursor' < readCursor
      /\ NoByteLost'
      /\ InOrder'
  BY FillKeepsBytes DEF IInv
<1>2. /\ transfer = "read" /\ transfer' = "notify" /\ eof' = eof /\ ~eof
      /\ UNCHANGED <<readCursor, monitor, toRead, readerVars>>
  BY DEF Fill, IInv, TransferKnows
<1>3. TypeOK'
  BY <1>1, <1>2 DEF IInv, TypeOK, readerVars, TransferStates
<1>4. ReaderKnows'
  BY <1>1, <1>2 DEF IInv, ReaderKnows, UnseenStore, readerVars
<1>5. MonitorHeld' /\ TransferKnows' /\ ReaderNotForgotten'
  BY <1>2 DEF IInv, MonitorHeld, TransferKnows, ReaderNotForgotten, readerVars
<1> QED
  BY <1>1, <1>3, <1>4, <1>5 DEF IInv

LEMMA HitEofInductive == IInv /\ HitEof => IInv'
<1> SUFFICES ASSUME IInv, HitEof PROVE IInv'
  OBVIOUS
<1> USE DEF HitEof, readerVars
<1>1. NoByteLost' /\ InOrder' /\ spaceAvailable' = spaceAvailable
  BY ControlKeepsBytes DEF IInv
<1>2. TypeOK'
  BY DEF IInv, TypeOK, TransferStates
<1>3. ReaderKnows'
  BY DEF IInv, ReaderKnows, UnseenStore
<1>4. MonitorHeld' /\ TransferKnows' /\ ReaderNotForgotten'
  BY DEF IInv, MonitorHeld, TransferKnows, ReaderNotForgotten
<1> QED
  BY <1>1, <1>2, <1>3, <1>4 DEF IInv

LEMMA NotifyReadersInductive == IInv /\ NotifyReaders => IInv'
<1> SUFFICES ASSUME IInv, NotifyReaders PROVE IInv'
  OBVIOUS
<1> USE DEF NotifyReaders
<1>1. NoByteLost' /\ InOrder' /\ spaceAvailable' = spaceAvailable
  BY ControlKeepsBytes DEF IInv
<1>2. TypeOK'
  BY DEF IInv, TypeOK, TransferStates, ReaderStates, AfterNotify
<1>3. \A r \in Readers : reader'[r] \notin Holding /\ reader'[r] # "waiting"
  BY NoOneAssumption DEF IInv, MonitorHeld, Holding, AfterNotify, TypeOK
<1>4. MonitorHeld' /\ ReaderKnows' /\ ReaderNotForgotten'
  BY <1>3 DEF MonitorHeld, ReaderKnows, ReaderNotForgotten, Holding
<1>5. TransferKnows'
  BY DEF IInv, TransferKnows
<1> QED
  BY <1>1, <1>2, <1>4, <1>5 DEF IInv

LEMMA TransferWaitInductive == IInv /\ TransferWait => IInv'
<1> SUFFICES ASSUME IInv, TransferWait PROVE IInv'
  OBVIOUS
<1> USE DEF TransferWait, readerVars
<1>1. NoByteLost' /\ InOrder' /\ spaceAvailable' = spaceAvailable
  BY ControlKeepsBytes DEF IInv
<1>2. TypeOK'
  BY DEF IInv, TypeOK, TransferStates
<1>3. MonitorHeld' /\ TransferKnows' /\ ReaderKnows' /\ ReaderNotForgotten'
  BY DEF IInv, MonitorHeld, TransferKnows, ReaderKnows, ReaderNotForgotten, UnseenStore
<1> QED
  BY <1>1, <1>2, <1>3 DEF IInv

-----------------------------------------------------------------------------
(* The readers' steps that move no byte.                                   *)
LEMMA ReaderControl ==
  ASSUME IInv, NoByteMoves
  PROVE  /\ NoByteLost' /\ InOrder' /\ TransferKnows'
         /\ UnseenStore' = UnseenStore
<1>1. NoByteLost' /\ InOrder' /\ spaceAvailable' = spaceAvailable
  BY ControlKeepsBytes DEF IInv, NoByteMoves, transferVars
<1> QED
  BY <1>1 DEF IInv, TransferKnows, UnseenStore, NoByteMoves, transferVars, nextRead

LEMMA CallInductive ==
  ASSUME IInv, NEW r \in Readers, NEW len \in 0 .. MaxRequest, Call(r, len)
  PROVE  IInv'
<1> USE DEF Call, NoByteMoves, Goto
<1>1. NoByteLost' /\ InOrder' /\ TransferKnows' /\ UnseenStore' = UnseenStore
  BY ReaderControl
<1>2. TypeOK'
  BY MaxRequestAssumption DEF IInv, TypeOK, ReaderStates, transferVars
<1>3. MonitorHeld'
  BY DEF IInv, MonitorHeld, TypeOK, Holding
<1>4. ReaderKnows'
  BY <1>1 DEF IInv, ReaderKnows, TypeOK
<1>5. ReaderNotForgotten'
  BY DEF IInv, ReaderNotForgotten, TypeOK, transferVars
<1> QED
  BY <1>1, <1>2, <1>3, <1>4, <1>5 DEF IInv

LEMMA EnterInductive ==
  ASSUME IInv, NEW r \in Readers, Enter(r)
  PROVE  IInv'
<1> USE DEF Enter, NoByteMoves, Goto
<1>1. NoByteLost' /\ InOrder' /\ TransferKnows' /\ UnseenStore' = UnseenStore
  BY ReaderControl
<1>2. TypeOK'
  BY DEF IInv, TypeOK, ReaderStates, transferVars
<1>3. MonitorHeld'
  BY NoOneAssumption DEF IInv, MonitorHeld, TypeOK, Holding
<1>4. ReaderKnows'
  BY <1>1 DEF IInv, ReaderKnows, TypeOK
<1>5. ReaderNotForgotten'
  BY DEF IInv, ReaderNotForgotten, TypeOK, transferVars
<1> QED
  BY <1>1, <1>2, <1>3, <1>4, <1>5 DEF IInv

LEMMA TestAvailableInductive ==
  ASSUME IInv, NEW r \in Readers, TestAvailable(r)
  PROVE  IInv'
<1> USE DEF TestAvailable, NoByteMoves, At, Goto
<1>1. NoByteLost' /\ InOrder' /\ TransferKnows' /\ UnseenStore' = UnseenStore
  BY ReaderControl
<1>2. TypeOK'
  BY DEF IInv, TypeOK, ReaderStates, transferVars
<1>3. MonitorHeld'
  BY DEF IInv, MonitorHeld, TypeOK, Holding
<1>4. ReaderKnows'
  <2>1. /\ reader'[r] = "take" /\ sawGe'[r] = (writeCursor >= readCursor)
        /\ \A q \in Readers \ {r} : reader'[q] = reader[q] /\ sawGe'[q] = sawGe[q]
        /\ UNCHANGED <<readCursor, writeCursor>>
    BY DEF IInv, TypeOK
  <2>2. ~(writeCursor >= readCursor) => writeCursor < readCursor
    BY DEF IInv, TypeOK, Positions
  <2> QED
    BY <1>1, <2>1, <2>2 DEF IInv, ReaderKnows
<1>5. ReaderNotForgotten'
  BY DEF IInv, ReaderNotForgotten, TypeOK, transferVars
<1> QED
  BY <1>1, <1>2, <1>3, <1>4, <1>5 DEF IInv

LEMMA NothingToTakeInductive ==
  ASSUME IInv, NEW r \in Readers, NothingToTake(r)
  PROVE  IInv'
<1> USE DEF NothingToTake, NoByteMoves, At, Goto
<1>1. NoByteLost' /\ InOrder' /\ TransferKnows' /\ UnseenStore' = UnseenStore
  BY ReaderControl
<1>2. TypeOK'
  BY DEF IInv, TypeOK, ReaderStates, transferVars
<1>3. MonitorHeld'
  BY DEF IInv, MonitorHeld, TypeOK, Holding
<1>4. writeCursor = readCursor \/ UnseenStore
  <2>1. sawGe[r] => writeCursor >= readCursor \/ UnseenStore
    BY DEF IInv, ReaderKnows
  <2>2. sawGe[r]
    BY BufferSize DEF availableNow, IInv, TypeOK, Positions
  <2> QED
    BY <2>1, <2>2 DEF availableNow, IInv, TypeOK, Positions
<1>5. ReaderKnows'
  BY <1>1, <1>4 DEF IInv, ReaderKnows, TypeOK
<1>6. ReaderNotForgotten'
  BY DEF IInv, ReaderNotForgotten, TypeOK, transferVars
<1> QED
  BY <1>1, <1>2, <1>3, <1>5, <1>6 DEF IInv

LEMMA TestGreaterInductive ==
  ASSUME IInv, NEW r \in Readers, TestGreater(r)
  PROVE  IInv'
<1> USE DEF TestGreater, NoByteMoves, At, Goto
<1>1. NoByteLost' /\ InOrder' /\ TransferKnows' /\ UnseenStore' = UnseenStore
  BY ReaderControl
<1>2. TypeOK'
  BY DEF IInv, TypeOK, ReaderStates, transferVars
<1>3. MonitorHeld'
  BY DEF IInv, MonitorHeld, TypeOK, Holding
<1>4. ReaderKnows'
  BY <1>1 DEF IInv, ReaderKnows, TypeOK, Positions
<1>5. ReaderNotForgotten'
  BY DEF IInv, ReaderNotForgotten, TypeOK, transferVars
<1> QED
  BY <1>1, <1>2, <1>3, <1>4, <1>5 DEF IInv

LEMMA TestLessInductive ==
  ASSUME IInv, NEW r \in Readers, TestLess(r)
  PROVE  IInv'
<1> USE DEF TestLess, NoByteMoves, At, Goto
<1>1. NoByteLost' /\ InOrder' /\ TransferKnows' /\ UnseenStore' = UnseenStore
  BY ReaderControl
<1>2. TypeOK'
  BY DEF IInv, TypeOK, ReaderStates, transferVars
<1>3. MonitorHeld'
  BY DEF IInv, MonitorHeld, TypeOK, Holding
<1>4. ReaderKnows'
  <2>1. writeCursor <= readCursor \/ UnseenStore
    BY DEF IInv, ReaderKnows
  <2>2. writeCursor \in Int /\ readCursor \in Int
    BY DEF IInv, TypeOK, Positions
  <2>3. ~(writeCursor < readCursor) => writeCursor = readCursor \/ UnseenStore
    BY <2>1, <2>2
  <2> QED
    BY <1>1, <2>3 DEF IInv, ReaderKnows, TypeOK
<1>5. ReaderNotForgotten'
  BY DEF IInv, ReaderNotForgotten, TypeOK, transferVars
<1> QED
  BY <1>1, <1>2, <1>3, <1>4, <1>5 DEF IInv

LEMMA CopyFailsInductive ==
  ASSUME IInv, NEW r \in Readers, NEW n \in Int, At(r, "copy"), CopyFails(r, n)
  PROVE  IInv'
<1> USE DEF CopyFails, NoByteMoves, At, Goto
<1>1. NoByteLost' /\ InOrder' /\ TransferKnows' /\ UnseenStore' = UnseenStore
  BY ReaderControl
<1>2. TypeOK'
  BY DEF IInv, TypeOK, ReaderStates, transferVars
<1>3. MonitorHeld'
  BY NoOneAssumption DEF IInv, MonitorHeld, TypeOK, Holding
<1>4. ReaderKnows'
  BY <1>1 DEF IInv, ReaderKnows, TypeOK
<1>5. ReaderNotForgotten'
  BY DEF IInv, ReaderNotForgotten, TypeOK, transferVars
<1> QED
  BY <1>1, <1>2, <1>3, <1>4, <1>5 DEF IInv

LEMMA ReturnEmptyInductive ==
  ASSUME IInv, NEW r \in Readers, ReturnEmpty(r)
  PROVE  IInv'
<1> USE DEF ReturnEmpty, NoByteMoves, At, Goto
<1>1. NoByteLost' /\ InOrder' /\ TransferKnows' /\ UnseenStore' = UnseenStore
  BY ReaderControl
<1>2. TypeOK'
  BY DEF IInv, TypeOK, ReaderStates, transferVars
<1>3. MonitorHeld'
  BY NoOneAssumption DEF IInv, MonitorHeld, TypeOK, Holding
<1>4. ReaderKnows'
  BY <1>1 DEF IInv, ReaderKnows, TypeOK
<1>5. ReaderNotForgotten'
  <2>1. writeCursor = readCursor \/ UnseenStore
    BY DEF IInv, ReaderKnows
  <2> QED
    BY <2>1 DEF IInv, ReaderNotForgotten, UnseenStore, TypeOK, transferVars
<1> QED
  BY <1>1, <1>2, <1>3, <1>4, <1>5 DEF IInv

LEMMA InterruptReaderInductive ==
  ASSUME IInv, NEW r \in Readers, InterruptReader(r)
  PROVE  IInv'
<1> USE DEF InterruptReader, NoByteMoves, Goto
<1>1. NoByteLost' /\ InOrder' /\ TransferKnows' /\ UnseenStore' = UnseenStore
  BY ReaderControl
<1>2. TypeOK'
  BY DEF IInv, TypeOK, ReaderStates, transferVars
<1>3. MonitorHeld'
  BY DEF IInv, MonitorHeld, TypeOK, Holding
<1>4. ReaderKnows'
  BY <1>1 DEF IInv, ReaderKnows, TypeOK
<1>5. ReaderNotForgotten'
  BY DEF IInv, ReaderNotForgotten, TypeOK, transferVars
<1> QED
  BY <1>1, <1>2, <1>3, <1>4, <1>5 DEF IInv

-----------------------------------------------------------------------------
(* The readers' steps that take bytes.  Everybody who waits is woken, and  *)
(* no other reader is inside the monitor.                                  *)
LEMMA TakeInductive ==
  ASSUME IInv, NEW r \in Readers, monitor = r, NEW n \in Nat, n <= available,
         readCursor + n <= BUFFER_SIZE,
         Take(n), readCursor' = Advance(readCursor, n),
         request' \in [Readers -> 0 .. MaxRequest],
         written' \in [Readers -> Nat],
         sawGe' = sawGe,
         \/ monitor' = NoOne /\ WakeAndGoto(r, "idle")
         \/ monitor' = monitor /\ WakeAndGoto(r, "greater")
  PROVE  IInv'
<1>1. /\ readCursor' \in Positions
      /\ delivered' \in Seq(1 .. InputLen)
      /\ spaceAvailable' = spaceAvailable + n
      /\ NoByteLost'
      /\ InOrder'
  BY TakeKeepsBytes DEF IInv
<1>2. /\ reader' \in [Readers -> ReaderStates]
      /\ reader'[r] \in {"idle", "greater"}
      /\ reader'[r] = "greater" => monitor' = r
      /\ \A q \in Readers \ {r} : reader'[q] = IF reader[q] = "waiting" THEN "enter"
                                                                      ELSE reader[q]
  BY DEF WakeAndGoto, AfterNotify, IInv, TypeOK, ReaderStates
<1>3. \A q \in Readers : reader'[q] # "waiting"
  BY <1>2
<1>4. \A q \in Readers \ {r} : reader'[q] \notin Holding
  BY <1>2 DEF IInv, MonitorHeld, Holding
<1>5. TypeOK'
  BY <1>1, <1>2 DEF IInv, TypeOK, Take, TransferStates
<1>6. MonitorHeld'
  BY <1>2, <1>4 DEF MonitorHeld, Holding
<1>7. ReaderKnows'
  <2>1. \A q \in Readers : reader'[q] \notin {"take", "wrap", "less", "empty"}
    BY <1>2, <1>4 DEF Holding
  <2> QED
    BY <2>1 DEF ReaderKnows
<1>8. ReaderNotForgotten'
  BY <1>3 DEF ReaderNotForgotten
<1>9. TransferKnows'
  <2>1. /\ writeCursor' = writeCursor /\ eof' = eof /\ toRead' = toRead
        /\ produced' = produced
        /\ transfer' = IF transfer = "waiting" THEN "check" ELSE transfer
    BY DEF Take
  <2>2. spaceAvailable \in Int /\ toRead \in Int
    BY BufferSize DEF IInv, TypeOK, Positions, spaceAvailable
  <2> QED
    BY <1>1, <2>1, <2>2 DEF IInv, TransferKnows, nextRead
<1> QED
  BY <1>1, <1>5, <1>6, <1>7, <1>8, <1>9 DEF IInv

LEMMA TakeByteInductive ==
  ASSUME IInv, NEW r \in Readers, TakeByte(r)
  PROVE  IInv'
<1> USE DEF TakeByte, At
<1>1. /\ readCursor \in Int /\ writeCursor \in Int /\ BUFFER_SIZE \in Nat
      /\ readCursor >= 0 /\ readCursor <= BUFFER_SIZE - 1
  BY BufferSize DEF IInv, TypeOK, Positions
<1>2. readCursor + 1 <= BUFFER_SIZE
  BY <1>1
<1>3. 1 <= available
  <2>1. available = IF writeCursor >= readCursor
                 THEN writeCursor - readCursor
                 ELSE (writeCursor - readCursor) + BUFFER_SIZE
    BY DEF available
  <2>2. CASE sawGe[r]
    <3>1. writeCursor - readCursor > 0
      BY <2>2, <1>1 DEF availableNow
    <3> QED
      BY <3>1, <2>1, <1>1
  <2>3. CASE ~sawGe[r]
    <3>1. writeCursor < readCursor
      BY <2>3 DEF IInv, ReaderKnows
    <3>2. (writeCursor - readCursor) + BUFFER_SIZE > 0
      BY <2>3 DEF availableNow
    <3> QED
      BY <3>1, <3>2, <2>1, <1>1
  <2> QED
    BY <2>2, <2>3
<1> QED
  BY <1>2, <1>3, TakeInductive DEF IInv, TypeOK

LEMMA CopyBytesInductive ==
  ASSUME IInv, NEW r \in Readers, monitor = r, NEW n \in Nat, n <= available,
         n <= request[r], readCursor + n <= BUFFER_SIZE, CopyBytes(r, n)
  PROVE  IInv'
<1>1. request' \in [Readers -> 0 .. MaxRequest]
  BY MaxRequestAssumption DEF CopyBytes, IInv, TypeOK
<1>2. written' \in [Readers -> Nat]
  BY DEF CopyBytes, IInv, TypeOK
<1> QED
  BY <1>1, <1>2, TakeInductive DEF CopyBytes

LEMMA CopyUpToWriterInductive ==
  ASSUME IInv, NEW r \in Readers, CopyUpToWriter(r)
  PROVE  IInv'
<1> DEFINE n == Minimum(writeCursor - readCursor, request[r])
<1>1. /\ readCursor \in Int /\ writeCursor \in Int /\ BUFFER_SIZE \in Nat
      /\ writeCursor <= BUFFER_SIZE - 1 /\ request[r] \in Nat
  BY BufferSize, MaxRequestAssumption DEF IInv, TypeOK, Positions
<1>2. n \in Int /\ n <= writeCursor - readCursor /\ n <= request[r]
  BY <1>1 DEF Minimum
<1>3. At(r, "copy") /\ (CopyBytes(r, n) \/ CopyFails(r, n))
  BY DEF CopyUpToWriter
<1> HIDE DEF n
<1>4. CASE CopyBytes(r, n)
  <2>1. n \in Nat
    BY <1>2, <1>4 DEF CopyBytes
  <2>2. n <= available /\ readCursor + n <= BUFFER_SIZE
    <3>1. writeCursor >= readCursor
      BY <1>1, <1>2, <2>1
    <3>2. available = writeCursor - readCursor
      BY <3>1 DEF available
    <3> QED
      BY <3>2, <1>1, <1>2
  <2> QED
    BY <1>2, <1>3, <1>4, <2>1, <2>2, CopyBytesInductive DEF At
<1>5. CASE CopyFails(r, n)
  BY <1>2, <1>3, <1>5, CopyFailsInductive
<1> QED
  BY <1>3, <1>4, <1>5

LEMMA CopyUpToEndInductive ==
  ASSUME IInv, NEW r \in Readers, CopyUpToEnd(r)
  PROVE  IInv'
<1> DEFINE n == Minimum(BUFFER_SIZE - readCursor, request[r])
<1>1. /\ readCursor \in Nat /\ writeCursor \in Nat /\ BUFFER_SIZE \in Nat
      /\ readCursor <= BUFFER_SIZE - 1 /\ request[r] \in Nat
  BY BufferSize, MaxRequestAssumption DEF IInv, TypeOK, Positions
<1>2. n \in Nat /\ n <= BUFFER_SIZE - readCursor /\ n <= request[r]
  BY <1>1 DEF Minimum
<1>3. At(r, "wrap") /\ CopyBytes(r, n)
  BY DEF CopyUpToEnd
<1> HIDE DEF n
<1>4. n <= available
  <2>1. writeCursor < readCursor
    BY <1>3 DEF At, IInv, ReaderKnows
  <2>2. available = (writeCursor - readCursor) + BUFFER_SIZE
    BY <2>1, <1>1 DEF available
  <2> QED
    BY <2>2, <1>1, <1>2
<1>5. readCursor + n <= BUFFER_SIZE
  BY <1>1, <1>2
<1> QED
  BY <1>2, <1>3, <1>4, <1>5, CopyBytesInductive DEF At

-----------------------------------------------------------------------------
LEMMA NextInductive == IInv /\ [Next]_vars => IInv'
<1> SUFFICES ASSUME IInv, [Next]_vars PROVE IInv'
  OBVIOUS
<1>1. CASE TransferThread
  BY <1>1, CheckSpaceInductive, FillSomeInductive, HitEofInductive,
     NotifyReadersInductive, TransferWaitInductive DEF TransferThread
<1>2. ASSUME NEW r \in Readers, ReaderThread(r)
      PROVE  IInv'
  <2>1. CASE \E len \in 0 .. MaxRequest : Call(r, len)
    BY <2>1, CallInductive
  <2>2. CASE ReaderStep(r)
    BY <2>2, EnterInductive, TestAvailableInductive, TakeByteInductive,
       NothingToTakeInductive, TestGreaterInductive, TestLessInductive,
       CopyUpToWriterInductive, CopyUpToEndInductive, ReturnEmptyInductive
       DEF ReaderStep
  <2>3. CASE InterruptReader(r)
    BY <2>3, InterruptReaderInductive
  <2> QED
    BY <1>2, <2>1, <2>2, <2>3 DEF ReaderThread
<1>3. CASE UNCHANGED vars
  <2>1. NoByteLost' /\ InOrder' /\ TransferKnows' /\ UnseenStore' = UnseenStore
    BY <1>3, ReaderControl DEF vars, readerVars, NoByteMoves
  <2> QED
    BY <1>3, <2>1 DEF vars, readerVars, transferVars, IInv, TypeOK, MonitorHeld,
       ReaderKnows, ReaderNotForgotten
<1> QED
  BY <1>1, <1>2, <1>3 DEF Next

(* The strengthened invariant holds in every reachable state.              *)
THEOREM Inductive == Spec => []IInv
  BY InitInductive, NextInductive, PTL DEF Spec

(* The cursors stay in the buffer, and every variable in its type.         *)
THEOREM TypeCorrect == Spec => []TypeOK
<1>1. IInv => TypeOK
  BY DEF IInv
<1> QED
  BY <1>1, Inductive, PTL

(* No byte is lost between the transfer thread, which stores writeCursor   *)
(* without the monitor, and any number of readers.                         *)
THEOREM BytesAccountedFor == Spec => []NoByteLost
<1>1. IInv => NoByteLost
  BY DEF IInv
<1> QED
  BY <1>1, Inductive, PTL

(* Bytes reach the callers in order, each once.                            *)
THEOREM DeliveredInOrder == Spec => []InOrder
<1>1. IInv => InOrder
  BY DEF IInv
<1> QED
  BY <1>1, Inductive, PTL

(* The underlying read, done without the monitor, gets a region that holds *)
(* no undelivered byte and does not cross the end of the buffer.           *)
THEOREM UnderlyingReadIsSafe == Spec => []TransferRegionFree
<1>1. IInv => TransferRegionFree
  BY BufferSize DEF IInv, TransferRegionFree, TransferKnows, TypeOK, Positions, nextRead, Minimum
<1> QED
  BY <1>1, Inductive, PTL

(* A reader waits only for a notifyAll that is still to come, or for bytes *)
(* that are still to come.                                                 *)
THEOREM WaitersAreNotified == Spec => []ReaderNotForgotten
<1>1. IInv => ReaderNotForgotten
  BY DEF IInv
<1> QED
  BY <1>1, Inductive, PTL

(* A call answers -1 only when every byte has been delivered.              *)
LEMMA EndOfStreamStep ==
  IInv /\ [Next]_vars
    => \A r \in Readers : ReturnsEndOfStream(r) => Len(delivered) = InputLen
<1> SUFFICES ASSUME IInv, [Next]_vars, NEW r \in Readers, ReturnsEndOfStream(r)
             PROVE  Len(delivered) = InputLen
  OBVIOUS
<1>1. reader[r] = "empty" /\ reader'[r] = "idle" /\ written[r] = 0 /\ monitor = r
  BY DEF ReturnsEndOfStream, IInv, MonitorHeld, Holding
<1>2. ReturnEmpty(r)
  <2>1. ~TransferThread
    BY <1>1, NoOneAssumption
       DEF TransferThread, CheckSpace, FillSome, Fill, HitEof, NotifyReaders, TransferWait,
           readerVars
  <2>2. ~UNCHANGED vars
    BY <1>1 DEF vars, readerVars
  <2>3. ASSUME NEW q \in Readers, ReaderThread(q), q # r
        PROVE  FALSE
    <3>1. monitor # q /\ monitor # NoOne
      BY <1>1, <2>3, NoOneAssumption
    <3>2. \E len \in 0 .. MaxRequest : Call(q, len)
      BY <3>1, <2>3
         DEF ReaderThread, ReaderStep, Enter, InterruptReader, At, TestAvailable, TakeByte,
             NothingToTake, TestGreater, TestLess, CopyUpToWriter, CopyUpToEnd, ReturnEmpty
    <3> QED
      BY <3>2, <1>1, <2>3 DEF Call, Goto, IInv, TypeOK
  <2>4. ReaderThread(r)
    BY <2>1, <2>2, <2>3 DEF Next
  <2> QED
    BY <2>4, <1>1
       DEF ReaderThread, ReaderStep, Call, Enter, InterruptReader, At, TestAvailable,
           TakeByte, NothingToTake, TestGreater, TestLess, CopyUpToWriter, CopyUpToEnd
<1>3. eof
  BY <1>1, <1>2 DEF ReturnEmpty, Goto, IInv, TypeOK
<1>4. writeCursor = readCursor /\ produced = InputLen
  BY <1>1, <1>3 DEF IInv, ReaderKnows, TransferKnows, UnseenStore
<1>5. available = 0
  BY <1>4 DEF available, IInv, TypeOK, Positions
<1> QED
  BY <1>4, <1>5 DEF IInv, NoByteLost, TypeOK

THEOREM EndOfStreamComesLast == Spec => EndOfStreamIsLast
<1>1. IInv /\ [Next]_vars
        => [\A r \in Readers : ReturnsEndOfStream(r) => Len(delivered) = InputLen]_vars
  BY EndOfStreamStep
<1> QED
  BY <1>1, Inductive, PTL DEF Spec, EndOfStreamIsLast
-----------------------------------------------------------------------------
(* The stream implements the pipe.  The bytes between the cursors are      *)
(* those that follow the ones delivered, so that how many there are and    *)
(* how many were delivered says all about the state of the pipe; and that  *)
(* account holds before and after each step.                               *)

Between == [k \in 1 .. available |-> buffer[Slot(k)]]

PipeIs ==
  /\ Between = [k \in 1 .. available |-> Len(delivered) + k]
  /\ Len(Between) = available
  /\ Len(delivered) \in Nat /\ available \in 0 .. BUFFER_SIZE - 1

LEMMA PipeHolds == IInv => PipeIs
<1> SUFFICES ASSUME IInv PROVE PipeIs
  OBVIOUS
<1>1. available \in 0 .. BUFFER_SIZE - 1 /\ Len(delivered) \in Nat
  BY AvailableAndFree DEF TypeOK, IInv
<1>2. \A k \in 1 .. available : buffer[Slot(k)] = Len(delivered) + k
  BY DEF NoByteLost, IInv
<1>3. Between = [k \in 1 .. available |-> Len(delivered) + k]
  BY <1>2 DEF Between
<1>4. Len([k \in 1 .. available |-> Len(delivered) + k]) = available
  BY <1>1
<1> QED
  BY <1>1, <1>3, <1>4 DEF PipeIs

LEMMA PipeHoldsNext == IInv' => PipeIs'
  BY PipeHolds, PTL

(* Bytes that go to a caller leave the pipe in the order they entered it.  *)
LEMMA TakeReads ==
  ASSUME IInv, IInv', NEW n \in Nat, Take(n)
  PROVE  (n \in 1 .. BUFFER_SIZE - 1 /\ Pipe!Read(n)) \/ UNCHANGED <<Between, delivered, eof>>
<1> DEFINE taken == [i \in 1 .. n |-> buffer[readCursor + i - 1]]
<1>1. /\ delivered' = delivered \o taken /\ UNCHANGED <<eof, produced>>
      /\ delivered \in Seq(1 .. InputLen) /\ delivered' \in Seq(1 .. InputLen)
  BY DEF Take, IInv, TypeOK
<1>2. PipeIs /\ PipeIs'
  BY PipeHolds, PipeHoldsNext
<1>3. Len(delivered') = Len(delivered) + n
  BY <1>1
<1>4. available' = available - n
  BY <1>1, <1>2, <1>3 DEF IInv, NoByteLost, PipeIs, TypeOK
<1>5. SubSeq(Between, 1, n) = taken
  <2>1. \A i \in 1 .. n : taken[i] = Len(delivered) + i
    <3> SUFFICES ASSUME NEW i \in 1 .. n PROVE taken[i] = Len(delivered) + i
      OBVIOUS
    <3>1. delivered'[Len(delivered) + i] = taken[i]
      BY <1>1
    <3>2. Len(delivered) + i \in 1 .. Len(delivered')
      BY <1>2, <1>3 DEF PipeIs
    <3>3. delivered'[Len(delivered) + i] = Len(delivered) + i
      BY <3>2 DEF IInv, InOrder
    <3> QED
      BY <3>1, <3>3
  <2>2. SubSeq(Between, 1, n) = [i \in 1 .. n |-> Between[i]]
    BY DEF Between
  <2>3. n <= available
    BY <1>2, <1>4 DEF PipeIs
  <2>4. \A i \in 1 .. n : Between[i] = Len(delivered) + i
    BY <1>2, <2>3 DEF PipeIs
  <2> QED
    BY <2>1, <2>2, <2>4
<1>6. Between' = SubSeq(Between, n + 1, Len(Between))
  <2>1. SubSeq(Between, n + 1, Len(Between)) =
          [i \in 1 .. available - n |-> Len(delivered) + n + i]
    <3>1. SubSeq(Between, n + 1, Len(Between)) =
            [i \in 1 .. (1 + available - (n + 1)) |-> Between[i + (n + 1) - 1]]
      BY <1>2 DEF PipeIs
    <3>2. 1 + available - (n + 1) = available - n
      BY <1>2 DEF PipeIs
    <3>3. \A i \in 1 .. available - n : Between[i + (n + 1) - 1] = Len(delivered) + n + i
      BY <1>2 DEF PipeIs
    <3> QED
      BY <3>1, <3>2, <3>3
  <2>2. Between' = [i \in 1 .. available - n |-> Len(delivered) + n + i]
    BY <1>2, <1>3, <1>4 DEF PipeIs
  <2> QED
    BY <2>1, <2>2
<1>7. CASE n = 0
  BY <1>1, <1>2, <1>3, <1>4, <1>7 DEF PipeIs
<1>8. CASE n # 0
  <2>1. n \in 1 .. BUFFER_SIZE - 1 /\ n <= Len(Between)
    BY <1>2, <1>4, <1>8, BufferSize DEF PipeIs
  <2> QED
    BY <1>1, <1>5, <1>6, <2>1 DEF Pipe!Read, Between
<1> QED
  BY <1>7, <1>8
(* A run of consecutive numbers, continued.                                *)
LEMMA RunContinued ==
  ASSUME NEW d \in Nat, NEW n \in Nat, NEW m \in Nat
  PROVE  [k \in 1 .. n |-> d + k] \o [i \in 1 .. m |-> d + n + i] =
           [k \in 1 .. n + m |-> d + k]
OBVIOUS

(* Bytes of the underlying stream enter the pipe behind those in it.       *)
LEMMA FillWrites ==
  ASSUME IInv, IInv', NEW n \in 1 .. Minimum(toRead, InputLen - produced), Fill(n)
  PROVE  n \in 1 .. BUFFER_SIZE - 1 /\ Pipe!Write(n)
<1>1. PipeIs /\ PipeIs' /\ ~eof
  BY PipeHolds, PipeHoldsNext DEF IInv, TransferKnows, Fill
<1>2. /\ delivered' = delivered /\ eof' = eof /\ produced' = produced + n
      /\ produced \in Nat /\ toRead \in Nat /\ toRead <= spaceAvailable
  BY InputLenAssumption, BufferSize DEF Fill, readerVars, IInv, TypeOK, TransferKnows
<1>3. n <= toRead /\ n <= InputLen - produced /\ n \in Nat \ {0}
  BY <1>2, InputLenAssumption DEF Minimum
<1>4. available + n <= BUFFER_SIZE - 1
  <2>1. spaceAvailable = BUFFER_SIZE - 1 - available
    BY AvailableAndFree DEF IInv
  <2> QED
    BY <1>1, <1>2, <1>3, <2>1, BufferSize DEF PipeIs
<1>5. available' = available + n /\ Len(delivered) + available = produced
  BY <1>1, <1>2, <1>3 DEF PipeIs, IInv, NoByteLost
<1>6. Between' = Between \o [i \in 1 .. n |-> Len(delivered) + Len(Between) + i]
  <2>1. available \in Nat /\ Len(delivered) \in Nat
        /\ Between = [k \in 1 .. available |-> Len(delivered) + k]
        /\ Len(Between) = available
    BY <1>1 DEF PipeIs
  <2>2. Between' = [k \in 1 .. available + n |-> Len(delivered) + k]
    BY <1>1, <1>2, <1>5 DEF PipeIs
  <2> QED
    BY <1>3, <2>1, <2>2, RunContinued
<1>7. Len(Between) + n <= BUFFER_SIZE - 1 /\ Len(delivered) + Len(Between) + n <= InputLen
  BY <1>1, <1>2, <1>3, <1>4, <1>5, InputLenAssumption DEF PipeIs
<1>8. n \in 1 .. BUFFER_SIZE - 1
  BY <1>1, <1>3, <1>4, BufferSize DEF PipeIs
<1> QED
  BY <1>1, <1>2, <1>6, <1>7, <1>8 DEF Pipe!Write, Between

LEMMA EofCloses ==
  ASSUME IInv, HitEof
  PROVE  Pipe!Close
<1>1. PipeIs /\ produced = InputLen /\ eof' = TRUE /\ delivered' = delivered
  BY PipeHolds DEF HitEof, readerVars
<1>2. Len(delivered) + Len(Between) = InputLen
  BY <1>1 DEF PipeIs, IInv, NoByteLost
<1>3. Between' = Between
  BY DEF HitEof, Between, available, Slot
<1> QED
  BY <1>1, <1>2, <1>3 DEF Pipe!Close, Between

(* The other steps touch neither bytes nor cursors.                        *)
NoByteMoved == UNCHANGED <<buffer, readCursor, writeCursor, eof, delivered>>

LEMMA Unmoved ==
  ASSUME NoByteMoved
  PROVE  UNCHANGED <<Between, delivered, eof>>
BY DEF NoByteMoved, Between, available, Slot

LEMMA StepsOfThePipe ==
  IInv /\ IInv' /\ [Next]_vars => [Pipe!Next]_<<Between, delivered, eof>>
<1> SUFFICES ASSUME IInv, IInv', [Next]_vars
             PROVE  [Pipe!Next]_<<Between, delivered, eof>>
  OBVIOUS
<1>1. CASE NoByteMoved
  BY <1>1, Unmoved
<1>2. ASSUME NEW n \in Nat, Take(n)
      PROVE  [Pipe!Next]_<<Between, delivered, eof>>
  BY <1>2, TakeReads DEF Pipe!Next
<1>3. CASE TransferThread
  <2>1. CASE FillSome
    BY <2>1, FillWrites DEF FillSome, Pipe!Next
  <2>2. CASE HitEof
    BY <2>2, EofCloses DEF Pipe!Next
  <2>3. CASE CheckSpace \/ NotifyReaders \/ TransferWait
    BY <2>3, <1>1 DEF CheckSpace, NotifyReaders, TransferWait, readerVars, NoByteMoved
  <2> QED
    BY <1>3, <2>1, <2>2, <2>3 DEF TransferThread
<1>4. ASSUME NEW r \in Readers, ReaderThread(r)
      PROVE  [Pipe!Next]_<<Between, delivered, eof>>
  <2>1. CASE TakeByte(r)
    BY <2>1, <1>2 DEF TakeByte
  <2>2. ASSUME NEW n \in Int, CopyBytes(r, n)
        PROVE  [Pipe!Next]_<<Between, delivered, eof>>
    BY <2>2, <1>2 DEF CopyBytes
  <2>3. ASSUME NEW n \in Int, CopyFails(r, n)
        PROVE  [Pipe!Next]_<<Between, delivered, eof>>
    BY <2>3, <1>1 DEF CopyFails, NoByteMoves, NoByteMoved
  <2>4. Minimum(writeCursor - readCursor, request[r]) \in Int
        /\ Minimum(BUFFER_SIZE - readCursor, request[r]) \in Int
    BY BufferSize, MaxRequestAssumption DEF Minimum, IInv, TypeOK, Positions
  <2>5. CASE CopyUpToWriter(r) \/ CopyUpToEnd(r)
    BY <2>2, <2>3, <2>4, <2>5 DEF CopyUpToWriter, CopyUpToEnd
  <2>6. CASE \/ \E len \in 0 .. MaxRequest : Call(r, len)
             \/ Enter(r) \/ TestAvailable(r) \/ NothingToTake(r) \/ TestGreater(r)
             \/ TestLess(r) \/ ReturnEmpty(r) \/ InterruptReader(r)
    BY <2>6, <1>1
    DEF Call, Enter, TestAvailable, NothingToTake, TestGreater, TestLess, ReturnEmpty,
        InterruptReader, NoByteMoves, NoByteMoved
  <2> QED
    BY <1>4, <2>1, <2>5, <2>6 DEF ReaderThread, ReaderStep
<1>5. CASE UNCHANGED vars
  BY <1>5, <1>1 DEF vars, readerVars, NoByteMoved
<1> QED
  BY <1>3, <1>4, <1>5 DEF Next

(* The stream is a bounded FIFO of BUFFER_SIZE - 1 bytes: every step of a  *)
(* thread is a step of the pipe, or invisible to it.                       *)
THEOREM StreamImplementsPipe == Spec => ImplementsPipe
<1>1. Init => Pipe!Init
  <2> SUFFICES ASSUME Init PROVE Pipe!Init
    OBVIOUS
  <2>1. available = 0 /\ delivered = <<>> /\ eof = FALSE
    BY DEF Init, available
  <2>2. Between = <<>>
    BY <2>1 DEF Between
  <2> QED
    BY <2>1, <2>2 DEF Pipe!Init, Between
<1>2. Spec => [][Pipe!Next]_<<Between, delivered, eof>>
  BY StepsOfThePipe, Inductive, PTL DEF Spec
<1>3. ImplementsPipe <=> Pipe!Init /\ [][Pipe!Next]_<<Between, delivered, eof>>
  BY DEF ImplementsPipe, Pipe!Spec, Between
<1> QED
  BY <1>1, <1>2, <1>3, PTL DEF Spec
=============================================================================
