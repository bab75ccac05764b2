------------------------------ MODULE UartLog ------------------------------
(***************************************************************************)
(* A line of the log on its way to the wire: vstm_log (log.c),             *)
(* usart_adapter (usart_board.c), send_data_usart (usart.c) and, when the  *)
(* transmitter is so configured, dma_send (dma.c).                         *)
(*                                                                         *)
(* The program, the DMA stream and the transmitter run side by side.  The  *)
(* line is in a buffer on the stack of vstm_log: once that has returned    *)
(* the bytes are whatever the program puts there next.                     *)
(***************************************************************************)
EXTENDS Integers, Sequences, SequencesExt

CONSTANTS
  BufSize,   \* the size of the buffer, 4096 in the code
  MaxLength, \* bound: bytes of a line, "[file:line] " included
  MaxLines   \* bound: lines that are logged

ASSUME UartLogAssumption ==
  /\ BufSize \in Nat \ {0} /\ MaxLength \in Nat /\ MaxLines \in Nat

VARIABLES
  mode,    \* huart.tx_mode: how setup_uart was asked to transmit
  pc,      \* the step of the call
  i,       \* send_data_usart: the byte to send
  lines,   \* the number of lines logged so far
  logged,  \* ghost: their characters, each line cut to the buffer
  size,    \* the length of the one in the buffer
  buff,    \* the buffer: byte n is <<line, n>>, or Junk
  dr,      \* the data register: a byte, or Empty
  shift,   \* the shift register
  wire,    \* what has been transmitted
  stream   \* the DMA stream: enabled, bytes moved, bytes to move

uart == <<dr, shift, wire>>
log == <<lines, logged, size>>
vars == <<mode, pc, i, log, buff, uart, stream>>

Junk == <<0, 0>>
Empty == <<0, 1>>

(* What vstm_log keeps of a line.  ("[file:line] " alone always fits.)     *)
KeptWithTerminator(n) == n
Kept(n) == IF n >= BufSize THEN BufSize - 1 ELSE n

LineBytes(k, n) == [j \in 1..n |-> <<k, j>>]

Off == [on |-> FALSE, next |-> 1, left |-> 0]

Init ==
  /\ mode \in {"polling", "dma"}
  /\ pc = "idle" /\ i = 1
  /\ lines = 0 /\ logged = <<>> /\ size = 0 /\ buff = [n \in 1..BufSize |-> Junk]
  /\ dr = Empty /\ shift = Empty /\ wire = <<>>
  /\ stream = Off

(* stm_log: the line is formatted into the buffer.                         *)
Log(n) ==
  /\ pc = "idle" /\ lines < MaxLines
  /\ lines' = lines + 1
  /\ logged' = logged \o LineBytes(lines', Kept(n))
  /\ size' = Kept(n)
  /\ buff' = [j \in 1..BufSize |-> IF j <= n /\ j < BufSize THEN <<lines', j>> ELSE Junk]
  /\ i' = 1
  /\ pc' = IF mode = "dma" THEN "stop" ELSE "byte"
  /\ UNCHANGED <<mode, uart, stream>>

(* send_byte_usart: TXE is awaited, the byte written, TC awaited.          *)
LastByte == buff[size + 1 - i]
NextByte == buff[i]

TxeInverted == dr # Empty
Txe == dr = Empty

SendByte ==
  /\ pc = "byte" /\ i <= size /\ Txe
  /\ dr' = NextByte
  /\ pc' = "sent"
  /\ UNCHANGED <<mode, i, log, buff, shift, wire, stream>>

TcNotAwaited == TRUE
Tc == dr = Empty /\ shift = Empty

ByteSent ==
  /\ pc = "sent" /\ Tc
  /\ i' = i + 1
  /\ pc' = "byte"
  /\ UNCHANGED <<mode, log, buff, uart, stream>>

Done ==
  /\ pc = "byte" /\ i > size
  /\ pc' = "idle"
  /\ UNCHANGED <<mode, i, log, buff, uart, stream>>

(* dma_send.  Nothing ever sets dma_channels_busy, so nothing is awaited:  *)
(* the stream is stopped, pointed to the buffer and started.               *)
StopStream ==
  /\ pc = "stop"
  /\ stream' = [stream EXCEPT !.on = FALSE]
  /\ pc' = "start"
  /\ UNCHANGED <<mode, i, log, buff, uart>>

CountWithTerminator == size + 1
Count == size

StartStream ==
  /\ pc = "start"
  /\ stream' = [on |-> Count > 0, next |-> 1, left |-> Count]
  /\ pc' = "idle"
  /\ UNCHANGED <<mode, i, log, buff, uart>>

(* The program uses its stack.                                             *)
Clobber ==
  /\ pc = "idle" /\ lines > 0
  /\ buff' = [n \in 1..BufSize |-> Junk]
  /\ UNCHANGED <<mode, pc, i, log, uart, stream>>

(* The stream moves a byte whenever the data register is empty, and ends.  *)
Move ==
  /\ stream.on /\ dr = Empty
  /\ dr' = buff[stream.next]
  /\ stream' = [on |-> stream.left > 1, next |-> stream.next + 1, left |-> stream.left - 1]
  /\ UNCHANGED <<mode, pc, i, log, buff, shift, wire>>

Load ==
  /\ dr # Empty /\ shift = Empty
  /\ shift' = dr /\ dr' = Empty
  /\ UNCHANGED <<mode, pc, i, log, buff, wire, stream>>

Transmit ==
  /\ shift # Empty
  /\ wire' = Append(wire, shift) /\ shift' = Empty
  /\ UNCHANGED <<mode, pc, i, log, buff, dr, stream>>

Driver == SendByte \/ ByteSent \/ Done \/ StopStream \/ StartStream
Transmitter == Load \/ Transmit

Next == (\E n \in 0..MaxLength : Log(n)) \/ Driver \/ Clobber \/ Move \/ Transmitter

Spec == Init /\ [][Next]_vars

FairSpec == Spec /\ WF_vars(Driver) /\ WF_vars(Move) /\ WF_vars(Transmitter)

-----------------------------------------------------------------------------
Char == (1..MaxLines) \X (1..MaxLength)
Byte == Char \cup {Junk, Empty}

(* Every variable has a value of its type; the buffer is not read beyond   *)
(* its last character.                                                     *)
TypeOK ==
  /\ mode \in {"polling", "dma"}
  /\ pc \in {"idle", "byte", "sent", "stop", "start"}
  /\ i \in 1..BufSize
  /\ lines \in 0..MaxLines /\ logged \in Seq(Char) /\ size \in 0..(BufSize - 1)
  /\ buff \in [1..BufSize -> Byte]
  /\ dr \in Byte /\ shift \in Byte
  /\ wire \in Seq(Byte)
  /\ stream \in [on : BOOLEAN, next : 1..BufSize, left : 0..BufSize]

(* A line that is polled out (usart_board.c:47) is on the wire as it was   *)
(* logged: what is there is the beginning of what was logged, nothing left *)
(* out, repeated or made up, whatever the program does with its stack      *)
(* between two lines.  A stream, stopped and started in the middle of a    *)
(* line as it may be, whatever has become of the buffer, never sends more  *)
(* than the lines had.                                                     *)
LinesWhole ==
  /\ mode = "polling" => IsPrefix(wire, logged)
  /\ Len(wire) <= Len(logged)

(* When a polled call returns the line has left the transmitter: it is not *)
(* lost if the program then ends in its empty loop or is reset (log.c:48). *)
ReturnsWhenSent == mode = "polling" /\ pc = "idle" => wire = logged

(* Every call returns: the waits for TXE and TC end (usart.c:16, 19).      *)
LogReturns == pc # "idle" ~> pc = "idle"
=============================================================================
