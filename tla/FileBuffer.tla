----------------------------- MODULE FileBuffer -----------------------------
(***************************************************************************)
(* sd_fat32_open, sd_fat32_write, sd_fat32_flush and sd_fat32_close        *)
(* (sd_fat32.c): the buffer of a SD_FAT32_File between its user and the    *)
(* files of the FAT32 library.  The library appends, to the file it has    *)
(* open, all it is given or nothing.                                       *)
(*                                                                         *)
(* The bytes that the buffer takes are numbered as they are taken, so that *)
(* a file is as it should be when it holds 1, 2, 3 and so on.              *)
(***************************************************************************)
EXTENDS Integers, Sequences

CONSTANTS
  BufferSize,  \* SD_FAT32_BUFFER_SIZE (2560)
  Lengths,     \* lengths of the writes
  MaxBytes,    \* bound: bytes taken
  MaxFaults    \* bound: failures of the library

ASSUME FileBufferAssumption ==
  /\ BufferSize \in Nat \ {0}
  /\ Lengths \subseteq Nat
  /\ {MaxBytes, MaxFaults} \subseteq Nat

VARIABLES
  open,       \* sf_file->file: the library has a file open
  index,      \* sf_file->index
  buffer,     \* sf_file->buffer
  remaining,  \* bytes the write in progress has still to take
  pc,         \* "user", or the call in progress
  file,       \* what the library holds
  taken,      \* number of the last byte taken
  faults,     \* failures left
  status      \* of the last call: 0 or an error

vars == <<open, index, buffer, remaining, pc, file, taken, faults, status>>

Ok == 0
Error == -1

Slot == 0 .. (BufferSize - 1)

Init ==
  /\ open = FALSE
  /\ index = 0
  /\ buffer = [i \in Slot |-> 0]
  /\ remaining = 0
  /\ pc = "user"
  /\ file = <<>>
  /\ taken = 0
  /\ faults = MaxFaults
  /\ status = Ok

(* The library fails.                                                      *)
Fault == faults > 0 /\ faults' = faults - 1

Return(s) == pc' = "user" /\ status' = s

Buffered == [i \in 1 .. index |-> buffer[i - 1]]

-----------------------------------------------------------------------------
(* Opened for writing a file is emptied, for appending it is not.  Bytes   *)
(* left in a buffer that was not flushed are forgotten.                    *)
Open(append) ==
  /\ pc = "user" /\ ~open
  /\ index' = 0
  /\ \/ /\ open' = TRUE
        /\ file' = IF append THEN file ELSE <<>>
        /\ taken' = Len(file')
        /\ status' = Ok
        /\ UNCHANGED faults
     \/ /\ Fault
        /\ status' = Error
        /\ UNCHANGED <<open, file, taken>>
  /\ UNCHANGED <<buffer, remaining, pc>>

BeginWrite(len) ==
  /\ pc = "user" /\ open
  /\ taken + len <= MaxBytes
  /\ remaining' = len
  /\ IF len = 0 THEN Return(Ok) ELSE pc' = "write" /\ UNCHANGED status
  /\ UNCHANGED <<open, index, buffer, file, taken, faults>>

(* One turn of the loop of sd_fat32_write: fill the buffer, and write it   *)
(* out when it is full.  After a failure the full buffer is kept, and the  *)
(* next write begins with another attempt to write it out.                 *)
SpaceOffByOne == BufferSize - index + 1
Space == BufferSize - index

ToCopy == IF remaining < Space THEN remaining ELSE Space

Copied ==
  [i \in Slot |-> IF i \in index .. (index + ToCopy - 1) THEN taken + i - index + 1
                                                          ELSE buffer[i]]

FullOffByOne == index + ToCopy > BufferSize
Full == index + ToCopy = BufferSize

IndexAfterFailedWriteReset == 0
IndexAfterFailedWrite == BufferSize

EndOfChunk == IF remaining' = 0 THEN Return(Ok) ELSE UNCHANGED <<pc, status>>

WriteChunk ==
  /\ pc = "write"
  /\ buffer' = Copied
  /\ taken' = taken + ToCopy
  /\ remaining' = remaining - ToCopy
  /\ \/ /\ ~Full
        /\ index' = index + ToCopy
        /\ EndOfChunk
        /\ UNCHANGED <<file, faults>>
     \/ /\ Full
        /\ file' = file \o [i \in 1 .. BufferSize |-> Copied[i - 1]]
        /\ index' = 0
        /\ EndOfChunk
        /\ UNCHANGED faults
     \/ /\ Full
        /\ Fault
        /\ index' = IndexAfterFailedWrite
        /\ Return(Error)
        /\ UNCHANGED file
  /\ UNCHANGED open

-----------------------------------------------------------------------------
(* sd_fat32_flush, as one step of the library.                             *)

FlushBuffer(s) ==
  IF index = 0
    THEN s = Ok /\ UNCHANGED <<file, index, faults>>
    ELSE \/ /\ s = Ok
            /\ file' = file \o Buffered
            /\ index' = 0
            /\ UNCHANGED faults
         \/ /\ s = Error
            /\ Fault
            /\ UNCHANGED <<file, index>>

Flush(s) ==
  /\ pc = "user" /\ open
  /\ FlushBuffer(s)
  /\ status' = s
  /\ UNCHANGED <<open, buffer, remaining, pc, taken>>

(* Whatever the flush answers, the file is closed and the answer is that   *)
(* of close_file_fat32, which leaves the file open when it fails.          *)
CloseFlush(s) ==
  /\ pc = "user" /\ open
  /\ FlushBuffer(s)
  /\ pc' = "close"
  /\ UNCHANGED <<open, buffer, remaining, taken, status>>

CloseFile ==
  /\ pc = "close"
  /\ \/ open' = FALSE /\ Return(Ok) /\ UNCHANGED faults
     \/ Fault /\ Return(Error) /\ UNCHANGED open
  /\ UNCHANGED <<index, buffer, remaining, file, taken>>

(* The processor starts again, with what the file holds.                   *)
Reset ==
  /\ open' = FALSE
  /\ index' = 0
  /\ buffer' = [i \in Slot |-> 0]
  /\ remaining' = 0
  /\ Return(Ok)
  /\ Fault
  /\ UNCHANGED <<file, taken>>

Next ==
  \/ \E append \in BOOLEAN : Open(append)
  \/ \E len \in Lengths : BeginWrite(len)
  \/ WriteChunk
  \/ \E s \in {Ok, Error} : Flush(s) \/ CloseFlush(s)
  \/ CloseFile
  \/ Reset

Spec == Init /\ [][Next]_vars

(* A call in progress goes on.                                             *)
FairSpec == Spec /\ WF_vars(WriteChunk) /\ WF_vars(CloseFile)

-----------------------------------------------------------------------------
(* Types; the buffer is full only between a failed write and the next.     *)
TypeOK ==
  /\ open \in BOOLEAN
  /\ index \in 0 .. BufferSize
  /\ buffer \in [Slot -> 0 .. MaxBytes]
  /\ remaining \in Nat
  /\ pc \in {"user", "write", "close"}
  /\ file \in Seq(Nat)
  /\ taken \in 0 .. MaxBytes
  /\ faults \in 0 .. MaxFaults
  /\ status \in {Ok, Error}

(* File and buffer together hold every byte taken, once and in the order   *)
(* in which they were taken, as long as the file is open: no failed write, *)
(* retry of a full buffer, flush, reset or reopening makes a hole, a       *)
(* repetition or puts a stale byte of the buffer in the file.              *)
EachByteOnce ==
  open => file \o Buffered = [i \in 1 .. taken |-> i]

(* A write ends, and so does a close.                                      *)
CallsReturn == pc # "user" ~> pc = "user"
=============================================================================
