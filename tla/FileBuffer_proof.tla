-------------------------- MODULE FileBuffer_proof --------------------------
(***************************************************************************)
(* Proofs about FileBuffer for every size of the buffer, every length of   *)
(* the writes and every number of failures.                                *)
(***************************************************************************)
EXTENDS FileBuffer, SequenceTheorems, TLAPS

-----------------------------------------------------------------------------
(* The inductive invariant.                                                *)

(* The file holds 1, 2, 3 and so on, open or not.                          *)
FileIsInOrder ==
  /\ file \in Seq(Nat) /\ Len(file) <= MaxBytes
  /\ \A i \in 1 .. Len(file) : file[i] = i

(* The buffer goes on where the file ends.                                 *)
BufferFollows ==
  open =>
    /\ taken = Len(file) + index
    /\ \A i \in 0 .. (index - 1) : buffer[i] = Len(file) + i + 1

InCall ==
  /\ pc # "user" => open
  /\ pc = "write" => taken + remaining <= MaxBytes

IInv == TypeOK /\ FileIsInOrder /\ BufferFollows /\ InCall

-----------------------------------------------------------------------------
LEMMA Numbers ==
  BufferSize \in Nat \ {0} /\ MaxBytes \in Nat /\ MaxFaults \in Nat /\ Lengths \subseteq Nat
BY FileBufferAssumption

(* The first n slots of a buffer, as a sequence.                           *)
LEMMA FirstSlots ==
  ASSUME NEW n \in 0 .. BufferSize, NEW b \in [Slot -> 0 .. MaxBytes], NEW k \in Nat,
         \A i \in 0 .. (n - 1) : b[i] = k + i + 1
  PROVE  /\ [i \in 1 .. n |-> b[i - 1]] \in Seq(Nat)
         /\ Len([i \in 1 .. n |-> b[i - 1]]) = n
         /\ \A j \in 1 .. n : [i \in 1 .. n |-> b[i - 1]][j] = k + j
<1>1. n \in Nat
  BY Numbers
<1>2. \A i \in 1 .. n : i - 1 \in 0 .. (n - 1) /\ b[i - 1] = k + i
  BY <1>1
<1>3. [i \in 1 .. n |-> b[i - 1]] = [i \in 1 .. n |-> k + i]
  BY <1>2
<1>4. /\ [i \in 1 .. n |-> k + i] \in Seq(Nat)
      /\ Len([i \in 1 .. n |-> k + i]) = n
      /\ \A j \in 1 .. n : [i \in 1 .. n |-> k + i][j] = k + j
  BY <1>1
<1> QED
  BY <1>3, <1>4, Zenon

(* What goes on where the file ends is appended in order.                  *)
LEMMA AppendedInOrder ==
  ASSUME FileIsInOrder, NEW t \in Seq(Nat), \A i \in 1 .. Len(t) : t[i] = Len(file) + i
  PROVE  /\ file \o t \in Seq(Nat) /\ Len(file \o t) = Len(file) + Len(t)
         /\ \A i \in 1 .. Len(file \o t) : (file \o t)[i] = i
<1>1. file \in Seq(Nat) /\ Len(file) \in Nat /\ Len(t) \in Nat
      /\ \A i \in 1 .. Len(file) : file[i] = i
  BY LenProperties DEF FileIsInOrder
<1>2. /\ file \o t \in Seq(Nat) /\ Len(file \o t) = Len(file) + Len(t)
      /\ \A i \in 1 .. (Len(file) + Len(t)) :
           (file \o t)[i] = IF i <= Len(file) THEN file[i] ELSE t[i - Len(file)]
  BY <1>1, ConcatProperties
<1>3. ASSUME NEW i \in 1 .. (Len(file) + Len(t))
      PROVE  (file \o t)[i] = i
  <2>1. CASE i <= Len(file)
    BY <1>1, <1>2, <2>1
  <2>2. CASE ~(i <= Len(file))
    <3>1. i - Len(file) \in 1 .. Len(t) /\ Len(file) + (i - Len(file)) = i
      BY <1>1, <2>2
    <3> QED
      BY <1>2, <2>2, <3>1
  <2> QED
    BY <2>1, <2>2
<1> QED
  BY <1>2, <1>3

LEMMA InitIInv == Init => IInv
<1> SUFFICES ASSUME Init PROVE IInv
  OBVIOUS
<1>1. buffer \in [Slot -> 0 .. MaxBytes] /\ 0 \in 0 .. BufferSize /\ MaxFaults \in 0 .. MaxFaults
  BY Numbers DEF Init
<1>2. file \in Seq(Nat) /\ Len(file) = 0
  BY DEF Init
<1>3. TypeOK
  <2>1. remaining \in Nat /\ taken \in 0 .. MaxBytes /\ index \in 0 .. BufferSize /\ faults \in 0 .. MaxFaults
    BY <1>1, Numbers DEF Init
  <2> QED
    BY <1>1, <1>2, <2>1 DEF Init, TypeOK
<1> QED
  BY <1>2, <1>3, Numbers DEF Init, IInv, FileIsInOrder, BufferFollows, InCall

LEMMA FaultType ==
  ASSUME TypeOK, Fault
  PROVE  faults' \in 0 .. MaxFaults
BY Numbers DEF TypeOK, Fault

LEMMA OpenIInv ==
  ASSUME IInv, NEW append \in BOOLEAN, Open(append)
  PROVE  IInv'
<1> USE DEF IInv, TypeOK, FileIsInOrder, BufferFollows, InCall
<1>1. CASE open' = TRUE
  <2>1. /\ pc = "user" /\ ~open /\ index' = 0 /\ UNCHANGED <<buffer, remaining, pc>>
        /\ file' \in {file, <<>>} /\ taken' = Len(file') /\ status' = Ok /\ faults' = faults
    BY <1>1 DEF Open
  <2>2. file' \in Seq(Nat) /\ Len(file') \in 0 .. MaxBytes /\ \A i \in 1 .. Len(file') : file'[i] = i
    <3>1. CASE file' = file
      BY <3>1, Numbers
    <3>2. CASE file' = <<>>
      <4>1. file' \in Seq(Nat) /\ Len(file') = 0
        BY <3>2
      <4> QED
        BY <4>1, Numbers
    <3> QED
      BY <2>1, <3>1, <3>2
  <2>3. index' \in 0 .. BufferSize /\ \A i \in 0 .. (index' - 1) : FALSE
    BY <2>1, Numbers
  <2> QED
    BY <1>1, <2>1, <2>2, <2>3, Numbers
<1>2. CASE open' # TRUE
  <2>1. Fault /\ index' = 0 /\ ~open /\ status' = Error /\ UNCHANGED <<open, file, taken, buffer, remaining, pc>>
    BY <1>2 DEF Open
  <2>2. faults' \in 0 .. MaxFaults
    BY <2>1, FaultType
  <2> QED
    BY <2>1, <2>2, Numbers
<1> QED
  BY <1>1, <1>2

LEMMA BeginWriteIInv ==
  ASSUME IInv, NEW len \in Lengths, BeginWrite(len)
  PROVE  IInv'
<1>1. /\ pc = "user" /\ open /\ taken + len <= MaxBytes /\ remaining' = len
      /\ UNCHANGED <<open, index, buffer, file, taken, faults>>
      /\ \/ pc' = "user" /\ status' = Ok
         \/ pc' = "write" /\ status' = status
  BY DEF BeginWrite, Return
<1>2. len \in Nat
  BY Numbers
<1> QED
  BY <1>1, <1>2 DEF IInv, TypeOK, FileIsInOrder, BufferFollows, InCall

(* The loop of sd_fat32_write copies what fits.                            *)
LEMMA WriteChunkIInv ==
  ASSUME IInv, WriteChunk
  PROVE  IInv'
<1>1. /\ open /\ pc = "write" /\ open' = open
      /\ index \in 0 .. BufferSize /\ remaining \in Nat /\ taken \in 0 .. MaxBytes
      /\ buffer \in [Slot -> 0 .. MaxBytes]
      /\ taken + remaining <= MaxBytes
      /\ file \in Seq(Nat) /\ Len(file) \in Nat /\ Len(file) <= MaxBytes
      /\ taken = Len(file) + index
      /\ \A i \in 0 .. (index - 1) : buffer[i] = Len(file) + i + 1
      /\ taken' = taken + ToCopy /\ remaining' = remaining - ToCopy /\ buffer' = Copied
  BY DEF WriteChunk, IInv, TypeOK, FileIsInOrder, BufferFollows, InCall
<1>2. /\ ToCopy \in Nat /\ ToCopy <= remaining /\ index + ToCopy <= BufferSize
  BY <1>1, Numbers DEF ToCopy, Space
<1>3. /\ taken' \in 0 .. MaxBytes /\ remaining' \in Nat /\ taken' + remaining' <= MaxBytes
      /\ index + ToCopy \in 0 .. BufferSize
      /\ taken' = Len(file) + (index + ToCopy)
  BY <1>1, <1>2, Numbers
<1>4. Copied \in [Slot -> 0 .. MaxBytes]
  <2>1. ASSUME NEW i \in Slot
        PROVE  (IF i \in index .. (index + ToCopy - 1) THEN taken + i - index + 1 ELSE buffer[i])
                 \in 0 .. MaxBytes
    <3>1. CASE i \in index .. (index + ToCopy - 1)
      <4>1. taken + i - index + 1 \in 0 .. MaxBytes
        BY <1>1, <1>2, <3>1, Numbers DEF Slot
      <4> QED
        BY <3>1, <4>1
    <3>2. CASE i \notin index .. (index + ToCopy - 1)
      BY <1>1, <3>2
    <3> QED
      BY <3>1, <3>2
  <2> QED
    BY <2>1 DEF Copied
<1>5. ASSUME NEW i \in 0 .. (index + ToCopy - 1)
      PROVE  Copied[i] = Len(file) + i + 1
  <2>1. i \in Slot
    BY <1>1, <1>2, Numbers DEF Slot
  <2>2. Copied[i] = IF i \in index .. (index + ToCopy - 1) THEN taken + i - index + 1 ELSE buffer[i]
    BY <2>1 DEF Copied
  <2>3. CASE i \in index .. (index + ToCopy - 1)
    BY <1>1, <1>2, <2>2, <2>3
  <2>4. CASE i \notin index .. (index + ToCopy - 1)
    <3>1. i \in 0 .. (index - 1)
      BY <1>1, <1>2, <2>4
    <3> QED
      BY <1>1, <2>2, <2>4, <3>1
  <2> QED
    BY <2>3, <2>4
<1> HIDE DEF Copied, ToCopy
<1>6. CASE ~Full /\ index' = index + ToCopy /\ EndOfChunk /\ UNCHANGED <<file, faults>>
  <2>1. (pc' = "user" /\ status' = Ok) \/ UNCHANGED <<pc, status>>
    BY <1>6 DEF EndOfChunk, Return
  <2>2. TypeOK'
    BY <1>1, <1>3, <1>4, <1>6, <2>1 DEF IInv, TypeOK
  <2> QED
    <3>1. FileIsInOrder'
      BY <1>6 DEF IInv, FileIsInOrder
    <3>2. BufferFollows'
      BY <1>1, <1>2, <1>3, <1>5, <1>6 DEF BufferFollows
    <3>3. InCall'
      BY <1>1, <1>3 DEF InCall
    <3> QED
      BY <2>2, <3>1, <3>2, <3>3 DEF IInv
<1>7. CASE /\ Full /\ file' = file \o [i \in 1 .. BufferSize |-> Copied[i - 1]]
           /\ index' = 0 /\ EndOfChunk /\ UNCHANGED faults
  <2>1. (pc' = "user" /\ status' = Ok) \/ UNCHANGED <<pc, status>>
    BY <1>7 DEF EndOfChunk, Return
  <2>2. index + ToCopy = BufferSize /\ BufferSize \in 0 .. BufferSize
    BY <1>7, Numbers DEF Full
  <2>3. /\ file' \in Seq(Nat) /\ Len(file') = Len(file) + BufferSize
        /\ \A i \in 1 .. Len(file') : file'[i] = i
    <3> DEFINE t == [i \in 1 .. BufferSize |-> Copied[i - 1]]
    <3>1. \A i \in 0 .. (BufferSize - 1) : Copied[i] = Len(file) + i + 1
      BY <1>1, <1>2, <1>5, <2>2
    <3>2. t \in Seq(Nat) /\ Len(t) = BufferSize /\ \A j \in 1 .. BufferSize : t[j] = Len(file) + j
      <4>1. Copied \in [Slot -> 0 .. MaxBytes] /\ Len(file) \in Nat /\ BufferSize \in 0 .. BufferSize
        BY <1>1, <1>4, <2>2
      <4> QED
        BY <3>1, <4>1, FirstSlots, Zenon
    <3>3. FileIsInOrder /\ file' = file \o t
      BY <1>7 DEF IInv
    <3> HIDE DEF t
    <3> QED
      BY <3>2, <3>3, AppendedInOrder
  <2>4. index' \in 0 .. BufferSize /\ (\A i \in 0 .. (index' - 1) : FALSE)
        /\ taken' = Len(file') + index' /\ Len(file') <= MaxBytes
    BY <1>1, <1>3, <1>7, <2>2, <2>3, Numbers
  <2>5. TypeOK'
    BY <1>1, <1>3, <1>4, <1>7, <2>1, <2>3, <2>4 DEF IInv, TypeOK
  <2> QED
    BY <1>1, <1>3, <1>7, <2>1, <2>3, <2>4, <2>5 DEF IInv, FileIsInOrder, BufferFollows, InCall
<1>8. CASE Full /\ Fault /\ index' = IndexAfterFailedWrite /\ Return(Error) /\ UNCHANGED file
  <2>1. pc' = "user" /\ status' = Error /\ index' = BufferSize /\ index + ToCopy = BufferSize
        /\ BufferSize \in 0 .. BufferSize
    BY <1>8, Numbers DEF Return, IndexAfterFailedWrite, Full
  <2>2. faults' \in 0 .. MaxFaults
    BY <1>8, FaultType DEF IInv
  <2>3. TypeOK'
    BY <1>1, <1>3, <1>4, <1>8, <2>1, <2>2 DEF IInv, TypeOK
  <2> QED
    <3>1. FileIsInOrder'
      BY <1>8 DEF IInv, FileIsInOrder
    <3>2. BufferFollows'
      BY <1>1, <1>2, <1>3, <1>5, <1>8, <2>1 DEF BufferFollows
    <3>3. InCall'
      BY <1>1, <1>3 DEF InCall
    <3> QED
      BY <2>3, <3>1, <3>2, <3>3 DEF IInv
<1> QED
  BY <1>6, <1>7, <1>8 DEF WriteChunk

LEMMA BufferedInOrder ==
  ASSUME IInv, open
  PROVE  /\ file \o Buffered \in Seq(Nat) /\ Len(file \o Buffered) = Len(file) + index
         /\ \A i \in 1 .. Len(file \o Buffered) : (file \o Buffered)[i] = i
<1>1. /\ index \in 0 .. BufferSize /\ buffer \in [Slot -> 0 .. MaxBytes] /\ FileIsInOrder
      /\ Len(file) \in Nat
      /\ \A i \in 0 .. (index - 1) : buffer[i] = Len(file) + i + 1
  BY LenProperties DEF IInv, TypeOK, BufferFollows, FileIsInOrder
<1>2. /\ Buffered \in Seq(Nat) /\ Len(Buffered) = index
      /\ \A j \in 1 .. index : Buffered[j] = Len(file) + j
  BY <1>1, FirstSlots DEF Buffered
<1> QED
  BY <1>1, <1>2, AppendedInOrder

LEMMA FlushIInv ==
  ASSUME IInv, NEW s \in {Ok, Error}, open, pc = "user", FlushBuffer(s),
         UNCHANGED <<open, buffer, remaining, taken>>
  PROVE  /\ FileIsInOrder' /\ BufferFollows'
         /\ index' \in 0 .. BufferSize /\ faults' \in 0 .. MaxFaults
<1>1. CASE UNCHANGED <<file, index>>
  <2>1. faults' \in 0 .. MaxFaults
    BY FaultType DEF FlushBuffer, IInv, TypeOK
  <2> QED
    BY <1>1, <2>1 DEF IInv, TypeOK, FileIsInOrder, BufferFollows
<1>2. CASE file' = file \o Buffered /\ index' = 0 /\ UNCHANGED faults
  <2>1. /\ index \in 0 .. BufferSize /\ buffer \in [Slot -> 0 .. MaxBytes] /\ taken \in 0 .. MaxBytes
        /\ taken = Len(file) + index
        /\ \A i \in 0 .. (index - 1) : buffer[i] = Len(file) + i + 1
    BY DEF IInv, TypeOK, BufferFollows
  <2>2. /\ file' \in Seq(Nat) /\ Len(file') = Len(file) + index
        /\ \A i \in 1 .. Len(file') : file'[i] = i
    BY <1>2, <2>1, BufferedInOrder
  <2>3. taken' = Len(file') + index' /\ Len(file') <= MaxBytes /\ \A i \in 0 .. (index' - 1) : FALSE
    BY <1>2, <2>1, <2>2, Numbers
  <2> QED
    BY <1>2, <2>2, <2>3, Numbers DEF IInv, TypeOK, FileIsInOrder, BufferFollows
<1> QED
  BY <1>1, <1>2 DEF FlushBuffer

LEMMA NextIInv == IInv /\ [Next]_vars => IInv'
<1> SUFFICES ASSUME IInv, [Next]_vars PROVE IInv'
  OBVIOUS
<1>1. ASSUME NEW s \in {Ok, Error}, Flush(s)
      PROVE  IInv'
  <2>1. /\ FileIsInOrder' /\ BufferFollows'
        /\ index' \in 0 .. BufferSize /\ faults' \in 0 .. MaxFaults
    BY <1>1, FlushIInv DEF Flush
  <2> QED
    BY <1>1, <2>1 DEF Flush, IInv, TypeOK, FileIsInOrder, InCall
<1>2. ASSUME NEW s \in {Ok, Error}, CloseFlush(s)
      PROVE  IInv'
  <2>1. /\ FileIsInOrder' /\ BufferFollows'
        /\ index' \in 0 .. BufferSize /\ faults' \in 0 .. MaxFaults
    BY <1>2, FlushIInv DEF CloseFlush
  <2> QED
    BY <1>2, <2>1 DEF CloseFlush, IInv, TypeOK, FileIsInOrder, InCall
<1>3. CASE CloseFile
  <2>1. faults' \in 0 .. MaxFaults
    BY <1>3, FaultType DEF CloseFile, IInv, TypeOK
  <2>2. /\ pc' = "user" /\ status' \in {Ok, Error}
        /\ UNCHANGED <<index, buffer, remaining, file, taken>>
    BY <1>3 DEF CloseFile, Return
  <2>3. CASE open' = FALSE
    BY <2>1, <2>2, <2>3 DEF IInv, TypeOK, FileIsInOrder, BufferFollows, InCall
  <2>4. CASE open' = open
    BY <2>1, <2>2, <2>4 DEF IInv, TypeOK, FileIsInOrder, BufferFollows, InCall
  <2> QED
    BY <1>3, <2>3, <2>4 DEF CloseFile
<1>4. CASE Reset
  <2>1. faults' \in 0 .. MaxFaults
    BY <1>4, FaultType DEF Reset, IInv
  <2>2. /\ pc' = "user" /\ status' = Ok /\ open' = FALSE /\ index' = 0 /\ remaining' = 0
        /\ buffer' = [i \in Slot |-> 0] /\ UNCHANGED <<file, taken>>
    BY <1>4 DEF Reset, Return
  <2>3. buffer' \in [Slot -> 0 .. MaxBytes] /\ 0 \in 0 .. BufferSize
    BY <2>2, Numbers
  <2> QED
    BY <2>1, <2>2, <2>3 DEF IInv, TypeOK, FileIsInOrder, BufferFollows, InCall
<1>5. CASE UNCHANGED vars
  BY <1>5 DEF vars, IInv, TypeOK, FileIsInOrder, BufferFollows, InCall
<1> QED
  BY <1>1, <1>2, <1>3, <1>4, <1>5, OpenIInv, BeginWriteIInv, WriteChunkIInv DEF Next

-----------------------------------------------------------------------------
LEMMA Invariance == Spec => []IInv
<1> QED
  BY InitIInv, NextIInv, PTL DEF Spec

(* The index never leaves the buffer, whatever fails in between.           *)
THEOREM TypeCorrect == Spec => []TypeOK
<1>1. IInv => TypeOK
  BY DEF IInv
<1> QED
  BY <1>1, Invariance, PTL

(* For every size of the buffer and every sequence of writes, flushes,     *)
(* failures, resets and openings: file and buffer hold every byte taken,   *)
(* once and in order.                                                      *)
THEOREM NoByteIsLostOrRepeated == Spec => []EachByteOnce
<1>1. IInv => EachByteOnce
  <2> SUFFICES ASSUME IInv, open
               PROVE  file \o Buffered = [i \in 1 .. taken |-> i]
    BY DEF EachByteOnce
  <2> DEFINE g == file \o Buffered
  <2>1. /\ index \in 0 .. BufferSize /\ buffer \in [Slot -> 0 .. MaxBytes]
        /\ taken = Len(file) + index
        /\ \A i \in 0 .. (index - 1) : buffer[i] = Len(file) + i + 1
    BY DEF IInv, TypeOK, BufferFollows
  <2>2. g \in Seq(Nat) /\ Len(g) = taken /\ \A i \in 1 .. Len(g) : g[i] = i
    BY <2>1, BufferedInOrder
  <2> HIDE DEF g
  <2>3. g = [i \in 1 .. taken |-> i]
    BY <2>2
  <2> QED
    BY <2>3 DEF g
<1> QED
  BY <1>1, Invariance, PTL
=============================================================================
