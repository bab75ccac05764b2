--------------------------- MODULE UartLog_proof ---------------------------
(***************************************************************************)
(* Proofs about UartLog for every size of the buffer and any number of     *)
(* lines of any length.                                                    *)
(***************************************************************************)
EXTENDS UartLog, TLAPS

InFlight == (IF dr = Empty THEN 0 ELSE 1) + (IF shift = Empty THEN 0 ELSE 1)

(* The first character of the line in the buffer follows this many others. *)
Before == Len(logged) - size

(* The stream stays in the line it was started for.                        *)
InBuffer ==
  /\ size <= Len(logged)
  /\ stream.on => stream.left > 0 /\ stream.next + stream.left <= BufSize

(* While a line is polled out the buffer holds it, what is on the wire is  *)
(* what comes before character i, and the one that is sent is i.           *)
Polled ==
  /\ pc \in {"idle", "byte", "sent"} /\ ~stream.on
  /\ \A k \in 1..Len(wire) : wire[k] = logged[k]
  /\ pc # "idle" => /\ i <= size + 1
                    /\ \A j \in 1..size : buff[j] = logged[Before + j]
  /\ pc = "idle" => Len(wire) = Len(logged)
  /\ pc = "byte" => Len(wire) = Before + i - 1
  /\ pc = "sent" => i <= size /\ Len(wire) + InFlight = Before + i
  /\ pc # "sent" => dr = Empty /\ shift = Empty
  /\ dr = Empty \/ shift = Empty
  /\ \A c \in {dr, shift} : c # Empty => c = logged[Len(wire) + 1]

(* What the stream has to move and the line that waits for it are bytes    *)
(* that have been logged and not been sent.                                *)
Streamed ==
  /\ pc \in {"idle", "stop", "start"}
  /\ Len(wire) + InFlight + (IF stream.on THEN stream.left ELSE 0)
       + (IF pc = "idle" THEN 0 ELSE size) <= Len(logged)

IInv ==
  /\ TypeOK
  /\ InBuffer
  /\ mode = "polling" => Polled
  /\ mode = "dma" => Streamed

-----------------------------------------------------------------------------
LEMMA Numbers ==
  BufSize \in Nat \ {0} /\ MaxLength \in Nat /\ MaxLines \in Nat
BY UartLogAssumption

LEMMA Characters ==
  /\ Junk # Empty /\ Junk \in Byte /\ Empty \in Byte
  /\ \A c \in Char : c # Empty /\ c \in Byte
<1>1. \A k \in 1..MaxLines, j \in 1..MaxLength : <<k, j>> # <<0, 1>>
  BY Numbers
<1> QED
  BY <1>1 DEF Char, Byte, Junk, Empty

LEMMA KeptFits ==
  ASSUME NEW n \in 0..MaxLength
  PROVE  /\ Kept(n) \in 0..(BufSize - 1) /\ Kept(n) <= n
         /\ \A j \in 1..Kept(n) : j \in 1..MaxLength /\ j <= n /\ j < BufSize
BY Numbers DEF Kept

LEMMA InitIInv == Init => IInv
<1> SUFFICES ASSUME Init PROVE IInv
  OBVIOUS
<1>1. /\ pc = "idle" /\ i = 1 /\ lines = 0 /\ logged = <<>> /\ size = 0
      /\ buff = [n \in 1..BufSize |-> Junk]
      /\ dr = Empty /\ shift = Empty /\ wire = <<>> /\ stream = Off /\ mode \in {"polling", "dma"}
  BY DEF Init
<1>2. Len(logged) = 0 /\ Len(wire) = 0 /\ logged \in Seq(Char) /\ wire \in Seq(Byte)
  BY <1>1
<1>3. stream \in [on : BOOLEAN, next : 1..BufSize, left : 0..BufSize] /\ ~stream.on
  BY <1>1, Numbers DEF Off
<1>4. TypeOK
  BY <1>1, <1>2, <1>3, Numbers, Characters DEF TypeOK
<1>5. InBuffer /\ InFlight = 0
  BY <1>1, <1>2, <1>3 DEF InBuffer, InFlight
<1> QED
  BY <1>1, <1>2, <1>3, <1>4, <1>5 DEF IInv, Polled, Streamed

LEMMA Concatenated ==
  ASSUME NEW S, NEW a \in Seq(S), NEW b \in Seq(S)
  PROVE  /\ a \o b \in Seq(S) /\ Len(a \o b) = Len(a) + Len(b)
         /\ \A k \in 1..(Len(a) + Len(b)) :
              (a \o b)[k] = IF k <= Len(a) THEN a[k] ELSE b[k - Len(a)]
OBVIOUS

(* The line behind the characters logged before.                           *)
LEMMA LogAppends ==
  ASSUME TypeOK, NEW n \in 0..MaxLength, Log(n)
  PROVE  /\ logged' \in Seq(Char) /\ Len(logged') = Len(logged) + size'
         /\ \A k \in 1..Len(logged) : logged'[k] = logged[k]
         /\ \A j \in 1..size' : logged'[Len(logged) + j] = buff'[j]
         /\ lines' \in 0..MaxLines /\ size' \in 0..(BufSize - 1)
         /\ buff' \in [1..BufSize -> Byte]
<1> DEFINE line == LineBytes(lines', Kept(n))
<1>1. /\ lines' = lines + 1 /\ lines < MaxLines /\ size' = Kept(n)
      /\ logged' = logged \o line
      /\ buff' = [j \in 1..BufSize |-> IF j <= n /\ j < BufSize THEN <<lines', j>> ELSE Junk]
  BY DEF Log
<1>2. lines \in Nat /\ lines' \in 1..MaxLines /\ logged \in Seq(Char)
  BY <1>1, Numbers DEF TypeOK
<1>3. \A j \in 1..Kept(n) : <<lines', j>> \in Char
  BY <1>2, KeptFits DEF Char
<1>4. /\ line \in Seq(Char) /\ Len(line) = Kept(n)
      /\ \A j \in 1..Kept(n) : line[j] = <<lines', j>>
  BY <1>3, KeptFits DEF LineBytes
<1> HIDE DEF line
<1>5. /\ logged' \in Seq(Char) /\ Len(logged') = Len(logged) + Kept(n)
      /\ \A k \in 1..Len(logged) : logged'[k] = logged[k]
      /\ \A j \in 1..Kept(n) : logged'[Len(logged) + j] = line[j]
  <2> DEFINE m == Kept(n)
  <2>1. m \in Nat /\ Len(logged) \in Nat /\ Len(line) = m /\ line \in Seq(Char)
    BY <1>2, <1>4, KeptFits, Numbers
  <2> HIDE DEF m
  <2>2. /\ logged' \in Seq(Char) /\ Len(logged') = Len(logged) + m
        /\ \A k \in 1..(Len(logged) + m) :
             logged'[k] = IF k <= Len(logged) THEN logged[k] ELSE line[k - Len(logged)]
    BY <1>1, <1>2, <2>1, Concatenated
  <2>3. ASSUME NEW j \in 1..m PROVE logged'[Len(logged) + j] = line[j]
    <3>1. Len(logged) + j \in 1..(Len(logged) + m) /\ ~(Len(logged) + j <= Len(logged))
          /\ (Len(logged) + j) - Len(logged) = j
      BY <2>1
    <3> QED
      BY <2>2, <3>1
  <2>4. \A k \in 1..Len(logged) : logged'[k] = logged[k]
    BY <2>1, <2>2
  <2> QED
    BY <2>2, <2>3, <2>4 DEF m
<1>6. \A j \in 1..Kept(n) : buff'[j] = <<lines', j>>
  BY <1>1, KeptFits, Numbers
<1>7. buff' \in [1..BufSize -> Byte]
  <2>1. ASSUME NEW j \in 1..BufSize, j <= n, j < BufSize PROVE <<lines', j>> \in Char
    BY <1>2, <2>1, Numbers DEF Char
  <2> QED
    BY <1>1, <2>1, Characters
<1>8. size' = Kept(n) /\ size' \in 0..(BufSize - 1) /\ lines' \in 0..MaxLines
  BY <1>1, <1>2, KeptFits, Numbers
<1>9. \A j \in 1..size' : logged'[Len(logged) + j] = buff'[j]
  BY <1>4, <1>5, <1>6, <1>8
<1> QED
  BY <1>5, <1>7, <1>8, <1>9

LEMMA LogIInv ==
  ASSUME IInv, NEW n \in 0..MaxLength, Log(n)
  PROVE  IInv'
<1>1. TypeOK /\ InBuffer /\ (mode = "polling" => Polled) /\ (mode = "dma" => Streamed)
  BY DEF IInv
<1>2. /\ pc = "idle" /\ i' = 1 /\ pc' = IF mode = "dma" THEN "stop" ELSE "byte"
      /\ mode' = mode /\ dr' = dr /\ shift' = shift /\ wire' = wire /\ stream' = stream
  BY DEF Log, uart
<1>3. /\ logged' \in Seq(Char) /\ Len(logged') = Len(logged) + size'
      /\ \A k \in 1..Len(logged) : logged'[k] = logged[k]
      /\ \A j \in 1..size' : logged'[Len(logged) + j] = buff'[j]
      /\ lines' \in 0..MaxLines /\ size' \in 0..(BufSize - 1)
      /\ buff' \in [1..BufSize -> Byte]
  BY <1>1, LogAppends
<1>4. Len(logged) \in Nat /\ size' \in Nat /\ Len(wire) \in Nat
  BY <1>1, <1>3, Numbers DEF TypeOK
<1>5. TypeOK'
  BY <1>1, <1>2, <1>3, Numbers DEF TypeOK
<1>6. InBuffer'
  BY <1>1, <1>2, <1>3, <1>4 DEF InBuffer
<1>7. mode = "polling" => Polled'
  <2> SUFFICES ASSUME mode = "polling" PROVE Polled'
    OBVIOUS
  <2>1. /\ Len(wire) = Len(logged) /\ dr = Empty /\ shift = Empty /\ ~stream.on
        /\ \A k \in 1..Len(wire) : wire[k] = logged[k]
    BY <1>1, <1>2 DEF Polled
  <2>2. Before' = Len(logged)
    BY <1>3, <1>4 DEF Before
  <2>3. \A k \in 1..Len(wire) : wire'[k] = logged'[k]
    BY <1>2, <1>3, <2>1
  <2>4. \A j \in 1..size' : buff'[j] = logged'[Before' + j]
    BY <1>3, <2>2
  <2>5. pc' = "byte"
    BY <1>2
  <2>6. i' <= size' + 1 /\ Len(wire') = Before' + i' - 1
    <3> DEFINE s == size'
    <3>1. i' = 1 /\ s \in Nat
      BY <1>2, <1>4
    <3> HIDE DEF s
    <3>2. 1 <= s + 1
      BY <3>1
    <3>3. i' <= size' + 1
      BY <3>1, <3>2, Zenon DEF s
    <3>4. Len(wire') = Len(logged) /\ Len(logged) \in Nat
      BY <1>2, <1>4, <2>1
    <3>5. Len(wire') = Len(logged) + 1 - 1
      BY <3>4
    <3> QED
      BY <2>2, <3>1, <3>3, <3>5
  <2>7. dr' = Empty /\ shift' = Empty /\ ~stream'.on /\ \A k \in 1..Len(wire') : wire'[k] = logged'[k]
    BY <1>2, <2>1, <2>3
  <2>8. pc' \in {"idle", "byte", "sent"} /\ pc' # "idle" /\ pc' # "sent"
    BY <2>5
  <2>9. \A c \in {dr', shift'} : c # Empty => c = logged'[Len(wire') + 1]
    BY <2>7
  <2> QED
    BY <2>4, <2>6, <2>7, <2>8, <2>9, Zenon DEF Polled
<1>8. mode = "dma" => Streamed'
  <2> SUFFICES ASSUME mode = "dma" PROVE Streamed'
    OBVIOUS
  <2>1. Streamed /\ pc' = "stop" /\ InFlight' = InFlight /\ InFlight \in Nat
    BY <1>1, <1>2 DEF InFlight
  <2>2. Len(wire) + InFlight + (IF stream.on THEN stream.left ELSE 0) <= Len(logged)
    <3>1. Len(wire) + InFlight + (IF stream.on THEN stream.left ELSE 0) + 0 <= Len(logged)
      BY <1>2, <2>1, Zenon DEF Streamed
    <3>2. (IF stream.on THEN stream.left ELSE 0) \in Nat
      BY <1>1, Numbers DEF TypeOK
    <3> QED
      BY <1>4, <2>1, <3>1, <3>2
  <2>3. (IF stream.on THEN stream.left ELSE 0) \in Nat
    BY <1>1, Numbers DEF TypeOK
  <2> DEFINE moving == IF stream.on THEN stream.left ELSE 0
  <2>4. moving \in Nat /\ Len(wire) + InFlight + moving <= Len(logged) /\ moving' = moving
    BY <1>2, <2>2, <2>3
  <2> HIDE DEF moving
  <2>5. Len(wire') + InFlight' + moving' + size' <= Len(logged')
    BY <1>2, <1>3, <1>4, <2>1, <2>4
  <2> QED
    BY <2>1, <2>5 DEF Streamed, moving
<1> QED
  BY <1>2, <1>5, <1>6, <1>7, <1>8 DEF IInv

-----------------------------------------------------------------------------
(* The program sends.                                                      *)
LEMMA SendByteIInv ==
  ASSUME IInv, SendByte
  PROVE  IInv'
<1>1. /\ TypeOK /\ InBuffer /\ pc = "byte" /\ i <= size /\ dr = Empty
      /\ dr' = buff[i] /\ pc' = "sent"
      /\ UNCHANGED <<mode, i, lines, logged, size, buff, shift, wire, stream>>
  BY DEF IInv, SendByte, Txe, NextByte, log
<1>2. mode = "polling" /\ Polled
  BY <1>1 DEF IInv, Streamed, TypeOK
<1>3. /\ i \in Nat \ {0} /\ size \in Nat /\ i \in 1..size /\ Len(logged) \in Nat /\ Len(wire) \in Nat
      /\ Before \in Nat /\ logged \in Seq(Char) /\ i \in 1..BufSize /\ Before + size = Len(logged)
  BY <1>1, Numbers DEF TypeOK, InBuffer, Before
<1>4. dr' = logged[Before + i] /\ dr' \in Char /\ dr' # Empty
  <2>1. dr' = logged[Before + i]
    BY <1>1, <1>2, <1>3 DEF Polled
  <2>2. Before + i \in 1..Len(logged)
    BY <1>3
  <2> QED
    BY <1>3, <2>1, <2>2, Characters
<1>5. Len(wire) + 1 = Before + i /\ shift = Empty
  BY <1>1, <1>2, <1>3 DEF Polled
<1>6. InFlight' = 1
  BY <1>1, <1>4, <1>5 DEF InFlight
<1>7. TypeOK'
  BY <1>1, <1>4, Characters DEF TypeOK
<1>8. Polled'
  <2>1. Before' = Before
    BY <1>1 DEF Before
  <2> QED
    BY <1>1, <1>2, <1>4, <1>5, <1>6, <2>1 DEF Polled
<1> QED
  BY <1>1, <1>2, <1>7, <1>8 DEF IInv, InBuffer

LEMMA ByteSentIInv ==
  ASSUME IInv, ByteSent
  PROVE  IInv'
<1>1. /\ TypeOK /\ InBuffer /\ pc = "sent" /\ dr = Empty /\ shift = Empty
      /\ i' = i + 1 /\ pc' = "byte"
      /\ UNCHANGED <<mode, lines, logged, size, buff, dr, shift, wire, stream>>
  BY DEF IInv, ByteSent, Tc, log, uart
<1>2. mode = "polling" /\ Polled
  BY <1>1 DEF IInv, Streamed, TypeOK
<1>3. i \in Nat /\ size \in 0..(BufSize - 1) /\ Len(wire) \in Nat /\ Before \in Int /\ i <= size
      /\ Len(wire) + InFlight = Before + i
  BY <1>1, <1>2, Numbers DEF TypeOK, Polled, Before
<1>4. Len(wire) = Before + i' - 1 /\ i' \in 1..BufSize /\ i' <= size + 1
  BY <1>1, <1>3, Numbers DEF InFlight
<1>5. TypeOK'
  BY <1>1, <1>4 DEF TypeOK
<1>6. Polled'
  <2>1. Before' = Before
    BY <1>1 DEF Before
  <2> QED
    BY <1>1, <1>2, <1>4, <2>1 DEF Polled
<1> QED
  BY <1>1, <1>2, <1>5, <1>6 DEF IInv, InBuffer

LEMMA DoneIInv ==
  ASSUME IInv, Done
  PROVE  IInv'
<1>1. /\ TypeOK /\ InBuffer /\ pc = "byte" /\ i > size /\ pc' = "idle"
      /\ UNCHANGED <<mode, i, lines, logged, size, buff, dr, shift, wire, stream>>
  BY DEF IInv, Done, log, uart
<1>2. mode = "polling" /\ Polled
  BY <1>1 DEF IInv, Streamed, TypeOK
<1>3. i \in Nat /\ size \in Nat /\ Len(logged) \in Nat
  BY <1>1, Numbers DEF TypeOK
<1>4. Len(wire) = Len(logged)
  BY <1>1, <1>2, <1>3 DEF Polled, Before
<1>5. TypeOK'
  BY <1>1 DEF TypeOK
<1>6. Polled'
  BY <1>1, <1>2, <1>4 DEF Polled
<1> QED
  BY <1>1, <1>2, <1>5, <1>6 DEF IInv, InBuffer

(* The stack is used again only between two lines.                         *)
LEMMA ClobberIInv ==
  ASSUME IInv, Clobber
  PROVE  IInv'
<1>1. /\ TypeOK /\ InBuffer /\ pc = "idle" /\ buff' = [n \in 1..BufSize |-> Junk]
      /\ UNCHANGED <<mode, pc, i, lines, logged, size, dr, shift, wire, stream>>
  BY DEF IInv, Clobber, log, uart
<1>2. TypeOK'
  BY <1>1, Characters DEF TypeOK
<1>3. (Polled => Polled') /\ (Streamed => Streamed')
  BY <1>1 DEF Polled, Streamed, InFlight
<1> QED
  BY <1>1, <1>2, <1>3 DEF IInv, InBuffer

-----------------------------------------------------------------------------
(* The stream.                                                             *)
LEMMA StreamIInv ==
  ASSUME IInv, StopStream \/ StartStream
  PROVE  IInv'
<1>1. /\ TypeOK /\ InBuffer /\ pc \in {"stop", "start"}
      /\ UNCHANGED <<mode, i, lines, logged, size, buff, dr, shift, wire>>
  BY DEF IInv, StopStream, StartStream, log, uart
<1>2. mode = "dma" /\ Streamed
  BY <1>1 DEF IInv, Polled, TypeOK
<1>3. /\ size \in 0..(BufSize - 1) /\ Len(logged) \in Nat /\ Len(wire) \in Nat
      /\ stream \in [on : BOOLEAN, next : 1..BufSize, left : 0..BufSize]
      /\ stream.left \in Nat /\ InFlight \in Nat /\ InFlight' = InFlight
  BY <1>1, Numbers DEF TypeOK, InFlight
<1>4. CASE StopStream
  <2>1. stream' = [stream EXCEPT !.on = FALSE] /\ pc = "stop" /\ pc' = "start"
    BY <1>4 DEF StopStream
  <2>2. stream' \in [on : BOOLEAN, next : 1..BufSize, left : 0..BufSize] /\ ~stream'.on
    BY <1>3, <2>1
  <2>3. TypeOK' /\ InBuffer'
    BY <1>1, <2>1, <2>2 DEF TypeOK, InBuffer
  <2>4. Streamed'
    BY <1>1, <1>2, <1>3, <2>1, <2>2 DEF Streamed
  <2> QED
    BY <1>1, <1>2, <2>3, <2>4 DEF IInv
<1>5. CASE StartStream
  <2>1. stream' = [on |-> size > 0, next |-> 1, left |-> size] /\ pc = "start" /\ pc' = "idle"
    BY <1>5 DEF StartStream, Count
  <2>2. /\ stream' \in [on : BOOLEAN, next : 1..BufSize, left : 0..BufSize]
        /\ stream'.on = (size > 0) /\ stream'.next = 1 /\ stream'.left = size
    BY <1>3, <2>1, Numbers
  <2>3. InBuffer'
    BY <1>1, <1>3, <2>2, Numbers DEF InBuffer
  <2>4. Streamed'
    BY <1>1, <1>2, <1>3, <2>1, <2>2 DEF Streamed
  <2> QED
    BY <1>1, <1>2, <2>1, <2>2, <2>3, <2>4 DEF IInv, TypeOK
<1> QED
  BY <1>4, <1>5

LEMMA MoveIInv ==
  ASSUME IInv, Move
  PROVE  IInv'
<1>1. /\ TypeOK /\ InBuffer /\ stream.on /\ dr = Empty /\ dr' = buff[stream.next]
      /\ stream' = [on |-> stream.left > 1, next |-> stream.next + 1, left |-> stream.left - 1]
      /\ UNCHANGED <<mode, pc, i, lines, logged, size, buff, shift, wire>>
  BY DEF IInv, Move, log
<1>2. mode = "dma" /\ Streamed
  BY <1>1 DEF IInv, Polled, TypeOK
<1>3. /\ stream.next \in 1..BufSize /\ stream.left \in 0..BufSize
      /\ stream.left > 0 /\ stream.next + stream.left <= BufSize
      /\ Len(wire) \in Nat /\ Len(logged) \in Nat /\ size \in Nat
  BY <1>1, Numbers DEF TypeOK, InBuffer
<1>4. /\ stream' \in [on : BOOLEAN, next : 1..BufSize, left : 0..BufSize]
      /\ stream'.on = (stream.left > 1) /\ stream'.next = stream.next + 1
      /\ stream'.left = stream.left - 1
  BY <1>1, <1>3, Numbers
<1>5. dr' \in Byte
  BY <1>1, <1>3 DEF TypeOK
<1>6. InBuffer'
  <2>1. stream'.on => stream'.left > 0 /\ stream'.next + stream'.left <= BufSize
    BY <1>3, <1>4, Numbers
  <2>2. (size <= Len(logged))'
    BY <1>1 DEF InBuffer
  <2> QED
    BY <2>1, <2>2 DEF InBuffer
<1>7. Streamed'
  <2>1. InFlight \in Nat /\ InFlight' \in Nat /\ InFlight' <= InFlight + 1
    BY <1>1 DEF InFlight
  <2>2. (IF stream'.on THEN stream'.left ELSE 0) = stream.left - 1
    BY <1>3, <1>4
  <2> DEFINE waiting == IF pc = "idle" THEN 0 ELSE size
  <2>3. waiting \in Nat /\ waiting' = waiting
    BY <1>1, <1>3
  <2> HIDE DEF waiting
  <2>4. Len(wire) + InFlight + stream.left + waiting <= Len(logged)
    BY <1>1, <1>2 DEF Streamed, waiting
  <2>5. Len(wire) + InFlight' + (stream.left - 1) + waiting <= Len(logged)
    <3> DEFINE left == stream.left
               was == InFlight
               is == InFlight'
    <3>1. left \in Nat /\ is \in Nat /\ was \in Nat /\ is <= was + 1
      BY <1>3, <2>1, Numbers
    <3>2. Len(wire) + was + left + waiting <= Len(logged)
      BY <2>4
    <3> HIDE DEF left, was, is
    <3>3. Len(wire) + is + (left - 1) + waiting <= Len(logged)
      BY <1>3, <2>3, <3>1, <3>2
    <3> QED
      BY <3>3 DEF left, is
  <2> QED
    BY <1>1, <1>2, <2>2, <2>3, <2>5 DEF Streamed, waiting
<1>8. TypeOK'
  BY <1>1, <1>4, <1>5 DEF TypeOK
<1> QED
  BY <1>1, <1>2, <1>6, <1>7, <1>8 DEF IInv

-----------------------------------------------------------------------------
(* The transmitter.                                                        *)
LEMMA LoadIInv ==
  ASSUME IInv, Load
  PROVE  IInv'
<1>1. /\ TypeOK /\ InBuffer /\ dr # Empty /\ shift = Empty /\ shift' = dr /\ dr' = Empty
      /\ UNCHANGED <<mode, pc, i, lines, logged, size, buff, wire, stream>>
  BY DEF IInv, Load, log
<1>2. TypeOK'
  BY <1>1, Characters DEF TypeOK
<1>3. InFlight' = InFlight
  BY <1>1 DEF InFlight
<1>4. Polled => Polled'
  <2>1. Before' = Before
    BY <1>1 DEF Before
  <2> QED
    BY <1>1, <1>3, <2>1 DEF Polled
<1>5. Streamed => Streamed'
  BY <1>1, <1>3 DEF Streamed
<1> QED
  BY <1>1, <1>2, <1>4, <1>5 DEF IInv, InBuffer

LEMMA TransmitIInv ==
  ASSUME IInv, Transmit
  PROVE  IInv'
<1>1. /\ TypeOK /\ InBuffer /\ shift # Empty /\ wire' = Append(wire, shift) /\ shift' = Empty
      /\ UNCHANGED <<mode, pc, i, lines, logged, size, buff, dr, stream>>
  BY DEF IInv, Transmit, log
<1>2. /\ wire \in Seq(Byte) /\ wire' \in Seq(Byte) /\ Len(wire) \in Nat
      /\ Len(wire') = Len(wire) + 1 /\ wire'[Len(wire) + 1] = shift
      /\ \A k \in 1..Len(wire) : wire'[k] = wire[k]
  BY <1>1 DEF TypeOK
<1>3. TypeOK'
  BY <1>1, <1>2, Characters DEF TypeOK
<1>4. InFlight \in Nat /\ InFlight' = InFlight - 1
  BY <1>1 DEF InFlight
<1>5. Polled => Polled'
  <2> SUFFICES ASSUME Polled PROVE Polled'
    OBVIOUS
  <2>1. Before' = Before
    BY <1>1 DEF Before
  <2>2. dr = Empty /\ shift = logged[Len(wire) + 1] /\ pc = "sent"
    BY <1>1 DEF Polled
  <2>3. \A k \in 1..Len(wire') : wire'[k] = logged'[k]
    BY <1>1, <1>2, <2>2 DEF Polled
  <2>4. Len(wire') + InFlight' = Len(wire) + InFlight
    BY <1>2, <1>4
  <2> QED
    BY <1>1, <2>1, <2>2, <2>3, <2>4 DEF Polled
<1>6. Streamed => Streamed'
  <2>1. Len(wire') + InFlight' = Len(wire) + InFlight
    BY <1>2, <1>4
  <2> QED
    BY <1>1, <2>1 DEF Streamed
<1> QED
  BY <1>1, <1>3, <1>5, <1>6 DEF IInv, InBuffer

LEMMA NextIInv ==
  ASSUME IInv, [Next]_vars
  PROVE  IInv'
<1>1. CASE UNCHANGED vars
  BY <1>1 DEF vars, log, uart, IInv, TypeOK, InBuffer, Polled, Streamed, InFlight, Before
<1> QED
  BY <1>1, LogIInv, SendByteIInv, ByteSentIInv, DoneIInv, ClobberIInv, StreamIInv, MoveIInv,
     LoadIInv, TransmitIInv
  DEF Next, Driver, Transmitter

LEMMA Invariance == Spec => []IInv
BY InitIInv, NextIInv, PTL DEF Spec

(* For every size of the buffer, and every line: neither the program nor   *)
(* the stream reads beyond the characters in the buffer.                   *)
THEOREM TypeCorrect == Spec => []TypeOK
<1>1. IInv => TypeOK
  BY DEF IInv
<1> QED
  BY Invariance, <1>1, PTL

(* The characters of any number of lines, however long, reach the wire as  *)
(* they were logged when they are polled out; a stream, wherever it is     *)
(* stopped and started, never sends more than was logged.                  *)
THEOREM NothingAddedOrLost == Spec => []LinesWhole
<1>1. IInv => LinesWhole
  <2> SUFFICES ASSUME IInv PROVE LinesWhole
    OBVIOUS
  <2>1. wire \in Seq(Byte) /\ logged \in Seq(Char) /\ Len(wire) \in Nat /\ Len(logged) \in Nat
        /\ size \in Nat /\ i \in Nat /\ mode \in {"polling", "dma"} /\ InFlight \in Nat
        /\ stream.left \in Nat
    BY Numbers DEF IInv, TypeOK, InFlight
  <2>2. Len(wire) <= Len(logged)
    <3>1. CASE mode = "polling"
      <4>1. Polled
        BY <3>1 DEF IInv
      <4> QED
        BY <2>1, <4>1 DEF Polled, Before
    <3>2. CASE mode = "dma"
      <4>1. Streamed
        BY <3>2 DEF IInv
      <4> QED
        BY <2>1, <4>1 DEF Streamed
    <3> QED
      BY <2>1, <3>1, <3>2
  <2>3. ASSUME mode = "polling" PROVE IsPrefix(wire, logged)
    <3>1. \A k \in 1..Len(wire) : wire[k] = logged[k]
      BY <2>3 DEF IInv, Polled
    <3>2. SubSeq(wire, 1, Len(wire)) = SubSeq(logged, 1, Len(wire))
      BY <2>1, <2>2, <3>1
    <3> QED
      BY <2>2, <3>2 DEF IsPrefix
  <2> QED
    BY <2>2, <2>3 DEF LinesWhole
<1> QED
  BY Invariance, <1>1, PTL

(* When a polled call has returned, the transmitter is empty and all that  *)
(* was logged is on the wire.                                              *)
THEOREM SentOnReturn == Spec => []ReturnsWhenSent
<1>1. IInv => ReturnsWhenSent
  <2> SUFFICES ASSUME IInv, mode = "polling", pc = "idle" PROVE wire = logged
    BY DEF ReturnsWhenSent
  <2>1. /\ wire \in Seq(Byte) /\ logged \in Seq(Char) /\ Len(wire) = Len(logged)
        /\ \A k \in 1..Len(wire) : wire[k] = logged[k]
    BY DEF IInv, TypeOK, Polled
  <2> QED
    BY <2>1
<1> QED
  BY Invariance, <1>1, PTL
=============================================================================
