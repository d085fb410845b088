--------------------------- MODULE Bq27441Proofs ---------------------------
(***************************************************************************)
(* Proofs about the driver of the battery gauge, for any set of byte       *)
(* values, any length of a second and any time.                            *)
(*                                                                         *)
(* The argument for a word read: as long as the transfer lasts, "held"     *)
(* has the word that is in the register now, and whatever byte was read    *)
(* is the low or high one of a word in it (Reading).  The clock is bounded *)
(* because the driver only sleeps for as long as two of its stamps are     *)
(* apart, and stamps taken after the last tick are equal (Stamps).         *)
(***************************************************************************)
EXTENDS Bq27441, SequenceTheorems, TLAPS

Regs == {CONTROL, MEASURE}
Transfers == {Read(reg) : reg \in Regs} \cup {Write(reg, word) : reg \in Regs, word \in Words}
Bufs == {s \in Seq(Byte) : Len(s) <= 2}

Shape ==
    /\ todo \in Seq(Transfers)
    /\ transfer \in [at : {"none", "bytes", "read"}, buf : Bufs]
    /\ transfer.at = "bytes" => todo # <<>>

Stamps == now > MaxTime => last_cmd \in {Null, now} \X {Null, now}

\* The bytes in a buffer are of words in a set of words.
BytesOf(buf, words) ==
    /\ Len(buf) >= 1 => \E w \in words : buf[1] = w[1]
    /\ Len(buf) >= 2 => \E w \in words : buf[2] = w[2]

Reading ==
    /\ (transfer.at = "bytes" /\ todo[1].op = "read") =>
          /\ WordAt(todo[1].reg) \in held
          /\ BytesOf(transfer.buf, held)
    /\ transfer.at = "read" =>
          /\ ret = "ok" /\ Len(transfer.buf) = 2 /\ BytesOf(transfer.buf, held)

IInv == TypeOK /\ Shape /\ Stamps /\ Reading

-----------------------------------------------------------------------------
\* Numbers below three, and the registers next to a register.
LEMMA Small ==
    /\ \A n \in Nat : n <= 2 => n = 0 \/ n = 1 \/ n = 2
    /\ \A r \in {0, 2}, n \in {0, 1} : r + n \in 0 .. 3
  OBVIOUS

LEMMA BelowTwo == ASSUME NEW n \in Nat, n < 2 PROVE (n = 0 /\ n + 1 = 1) \/ (n = 1 /\ n + 1 = 2)
  OBVIOUS

\* The fields of a transfer.
LEMMA TransferFields ==
    ASSUME NEW t \in Transfers
    PROVE  /\ t.reg \in {0, 2} /\ t.op \in {"read", "write"}
           /\ t.op = "write" => t.data \in Words
  BY DEF Transfers, Read, Write, Regs, CONTROL, MEASURE

\* The functions of the driver are sequences of one or two transfers.
LEMMA FunctionShape ==
    ASSUME NEW function \in Functions
    PROVE  function \in Seq(Transfers) /\ Len(function) <= 2
  <1>1. \A reg \in Regs : Read(reg) \in Transfers /\ \A w \in Words : Write(reg, w) \in Transfers
    BY DEF Transfers
  <1>2. CONTROL \in Regs /\ MEASURE \in Regs
    BY DEF Regs
  <1>3. ASSUME NEW t \in Transfers
        PROVE  <<t>> \in Seq(Transfers) /\ Len(<<t>>) = 1
    OBVIOUS
  <1>4. ASSUME NEW t \in Transfers, NEW u \in Transfers
        PROVE  /\ <<t, u>> \in Seq(Transfers) /\ Len(<<t, u>>) = 2
               /\ <<t>> \o <<u>> \in Seq(Transfers) /\ Len(<<t>> \o <<u>>) = 2
    <2>1. <<t>> \in Seq(Transfers) /\ <<u>> \in Seq(Transfers) /\ Len(<<t>>) = 1 /\ Len(<<u>>) = 1
      OBVIOUS
    <2>2. <<t>> \o <<u>> \in Seq(Transfers) /\ Len(<<t>> \o <<u>>) = 1 + 1
      BY <2>1, ConcatProperties
    <2>3. QED
      BY <2>2
  <1>5. Getter \in Seq(Transfers) /\ Len(Getter) <= 2
    BY <1>1, <1>2, <1>3 DEF Getter
  <1>6. \A w \in Words : <<Write(MEASURE, w)>> \in Seq(Transfers) /\ Len(<<Write(MEASURE, w)>>) <= 2
    BY <1>1, <1>2, <1>3
  <1>7. \A w \in Words, res \in BOOLEAN : Control(w, res) \in Seq(Transfers) /\ Len(Control(w, res)) <= 2
    BY <1>1, <1>2, <1>3, <1>4 DEF Control
  <1>8. \A w \in Words : /\ Control(w, FALSE) \o Control(w, FALSE) \in Seq(Transfers)
                         /\ Len(Control(w, FALSE) \o Control(w, FALSE)) <= 2
    BY <1>1, <1>2, <1>3, <1>4 DEF Control
  <1> DEFINE Good == {g \in Seq(Transfers) : Len(g) <= 2}
             Setters == {<<Write(MEASURE, w)>> : w \in Words}
             Controls == {Control(f, res) : f \in Words, res \in BOOLEAN}
             Unseals == {Control(f, FALSE) \o Control(f, FALSE) : f \in Words}
  <1>9. Getter \in Good
    BY <1>5
  <1>10. Setters \subseteq Good
    BY <1>6
  <1>11. Controls \subseteq Good
    BY <1>7
  <1>12. Unseals \subseteq Good
    BY <1>8
  <1>13. Functions = {Getter} \cup Setters \cup Controls \cup Unseals
    BY DEF Functions
  <1>14. function \in Good
    <2> HIDE DEF Good, Setters, Controls, Unseals
    <2>1. QED
      BY <1>9, <1>10, <1>11, <1>12, <1>13
  <1>15. QED
    BY <1>14

\* A buffer as TypeOK puts it.
LEMMA BufShape ==
    ASSUME NEW buf
    PROVE  buf \in Bufs <=> buf \in {<<>>} \cup {<<b>> : b \in Byte} \cup Words
  <1>1. ASSUME NEW a \in Byte PROVE <<a>> \in Seq(Byte) /\ Len(<<a>>) = 1 /\ <<a>>[1] = a
    OBVIOUS
  <1>2. ASSUME NEW a \in Byte, NEW b \in Byte
        PROVE  /\ <<a, b>> \in Seq(Byte) /\ Len(<<a, b>>) = 2
               /\ <<a, b>>[1] = a /\ <<a, b>>[2] = b /\ <<a, b>> \in Words
    BY DEF Words
  <1>3. ASSUME buf \in Bufs PROVE buf \in {<<>>} \cup {<<b>> : b \in Byte} \cup Words
    <2>1. buf \in Seq(Byte) /\ Len(buf) \in {0, 1, 2}
      <3>1. buf \in Seq(Byte) /\ Len(buf) \in Nat /\ Len(buf) <= 2
        BY <1>3, LenProperties DEF Bufs
      <3>2. QED
        BY <3>1, Small
    <2>2. CASE Len(buf) = 0
      <3>1. buf = <<>>
        BY <2>1, <2>2, EmptySeq
      <3>2. QED
        BY <3>1
    <2>3. CASE Len(buf) = 1
      <3>1. buf[1] \in Byte
        BY <2>1, <2>3, ElementOfSeq
      <3>2. buf = <<buf[1]>>
        BY <1>1, <2>1, <2>3, <3>1, SeqEqual
      <3>3. QED
        BY <3>1, <3>2
    <2>4. CASE Len(buf) = 2
      <3>1. buf[1] \in Byte /\ buf[2] \in Byte
        BY <2>1, <2>4, ElementOfSeq
      <3>2. buf = <<buf[1], buf[2]>>
        BY <1>2, <2>1, <2>4, <3>1, SeqEqual
      <3>3. QED
        BY <1>2, <3>1, <3>2
    <2>5. QED
      BY <2>1, <2>2, <2>3, <2>4
  <1>4. ASSUME buf \in {<<>>} \cup {<<b>> : b \in Byte} \cup Words PROVE buf \in Bufs
    <2>1. <<>> \in Bufs
      BY EmptySeq DEF Bufs
    <2>2. ASSUME NEW a \in Byte PROVE <<a>> \in Bufs
      <3>1. <<a>> \in Seq(Byte) /\ Len(<<a>>) = 1 /\ 1 <= 2
        BY <1>1
      <3>2. QED
        BY <3>1 DEF Bufs
    <2>3. \A w \in Words : w \in Bufs
      <3>1. ASSUME NEW w \in Words PROVE \E a \in Byte, b \in Byte : w = <<a, b>>
        BY DEF Words
      <3>2. QED
        BY <1>2, <3>1 DEF Bufs
    <2>4. QED
      BY <1>4, <2>1, <2>2, <2>3
  <1>5. QED
    BY <1>3, <1>4

\* One byte more in the buffer.
LEMMA OneMore ==
    ASSUME NEW buf \in Bufs, Len(buf) < 2, NEW b \in Byte
    PROVE  /\ Append(buf, b) \in Bufs
           /\ Len(buf) \in {0, 1}
           /\ Len(buf) = 0 => Len(Append(buf, b)) = 1 /\ Append(buf, b)[1] = b
           /\ Len(buf) = 1 => /\ Len(Append(buf, b)) = 2
                              /\ Append(buf, b)[1] = buf[1] /\ Append(buf, b)[2] = b
  <1>1. buf \in Seq(Byte) /\ Len(buf) \in Nat
    BY LenProperties DEF Bufs
  <1>2. /\ Append(buf, b) \in Seq(Byte) /\ Len(Append(buf, b)) = Len(buf) + 1
        /\ \A i \in 1 .. Len(buf) + 1 :
              Append(buf, b)[i] = IF i <= Len(buf) THEN buf[i] ELSE b
    BY <1>1, AppendProperties
  <1>3. Len(buf) = 0 \/ Len(buf) = 1
    BY <1>1, BelowTwo
  <1>4. Len(Append(buf, b)) <= 2
    BY <1>1, <1>2, <1>3
  <1>5. QED
    <2>1. Append(buf, b) \in Bufs
      BY ONLY <1>2, <1>4 DEF Bufs
    <2>2. Len(buf) = 0 => Len(Append(buf, b)) = 1 /\ Append(buf, b)[1] = b
      BY ONLY <1>2
    <2>3. Len(buf) = 1 => /\ Len(Append(buf, b)) = 2
                          /\ Append(buf, b)[1] = buf[1] /\ Append(buf, b)[2] = b
      BY ONLY <1>2
    <2>4. QED
      BY ONLY <1>3, <2>1, <2>2, <2>3

-----------------------------------------------------------------------------
\* Every step preserves the invariant.
LEMMA IInvStep == IInv /\ [Next]_vars => IInv'
  <1> SUFFICES ASSUME IInv, [Next]_vars PROVE IInv'
    OBVIOUS
  <1>0. /\ TypeOK /\ Shape /\ Stamps /\ Reading
        /\ now \in Nat /\ last_cmd \in Nat \X Nat /\ MaxTime \in Nat /\ Second \in Nat /\ Second > 0
        /\ gauge \in [Registers -> Byte]
    BY Bq27441Assumption DEF IInv, TypeOK
  <1>01. todo # <<>> => todo[1] \in Transfers /\ Len(todo) \in {1, 2}
    <2>1. todo # <<>> => Len(todo) \in Nat \ {0} /\ Len(todo) <= 2
      BY <1>0, EmptySeq DEF Shape, TypeOK
    <2>2. todo # <<>> => todo[1] \in Transfers
      BY <1>0, <2>1, ElementOfSeq DEF Shape
    <2>3. todo # <<>> => Len(todo) = 1 \/ Len(todo) = 2
      <3>1. ASSUME NEW n \in Nat \ {0}, n <= 2 PROVE n = 1 \/ n = 2
        BY <3>1
      <3>2. QED
        BY <2>1, <3>1
    <2>4. QED
      BY <2>2, <2>3
  <1>02. <<>> \in Bufs
    BY EmptySeq DEF Bufs
  <1>1. ASSUME NEW f \in Functions, Call(f) PROVE IInv'
    <2>1. f \in Seq(Transfers) /\ Len(f) <= 2
      BY FunctionShape
    <2>2. /\ todo' = f /\ ret' = "none" /\ transfer.at = "none"
          /\ UNCHANGED <<now, last_cmd, transfer, bus, gauge, held>>
      BY <1>1 DEF Call, NoTransfer
    <2>3. QED
      BY <1>0, <2>1, <2>2 DEF IInv, TypeOK, Shape, Stamps, Reading
  <1>2. CASE Acquire
    <2> DEFINE pause == Pause(last_cmd)
    <2>1. /\ todo # <<>> /\ transfer.at = "none" /\ bus' = "driver"
          /\ transfer' = [at |-> "bytes", buf |-> <<>>] /\ held' = {WordAt(todo[1].reg)}
          /\ IF pause >= 0 THEN now' = now + pause /\ last_cmd' = <<Null, Null>>
             ELSE UNCHANGED <<now, last_cmd>>
          /\ UNCHANGED <<todo, ret, gauge>>
      BY <1>2 DEF Acquire
    <2>2. pause \in Int /\ pause < Second /\ (now > MaxTime /\ pause >= 0 => pause = 0)
      <3>1. CASE pause = -1
        BY <1>0, <3>1
      <3>2. CASE pause # -1
        <4>1. /\ pause = last_cmd[2] - last_cmd[1] /\ pause >= 0 /\ pause < Second
              /\ last_cmd[1] # Null /\ last_cmd[2] # Null
          BY <3>2 DEF Pause, LessThanSecond
        <4>2. now > MaxTime => last_cmd[1] = now /\ last_cmd[2] = now
          BY <1>0, <4>1 DEF Stamps
        <4>3. QED
          BY <1>0, <4>1, <4>2
      <3>3. QED
        BY <3>1, <3>2
    <2> HIDE DEF pause
    <2>3. now' \in 1 .. MaxTime + Second /\ last_cmd' \in (0 .. now') \X (0 .. now') /\ Stamps'
      <3>1. now \in 1 .. MaxTime + Second /\ last_cmd \in (0 .. now) \X (0 .. now)
        BY <1>0 DEF TypeOK
      <3>2. CASE pause >= 0
        <4>1. now' = now + pause /\ last_cmd' = <<0, 0>>
          BY <2>1, <3>2 DEF Null
        <4>2. now' \in 1 .. MaxTime + Second
          BY <1>0, <2>2, <3>1, <3>2, <4>1
        <4>3. last_cmd' \in (0 .. now') \X (0 .. now') /\ Stamps'
          BY <4>1, <4>2 DEF Stamps, Null
        <4>4. QED
          BY <4>2, <4>3
      <3>3. CASE ~(pause >= 0)
        BY <1>0, <2>1, <3>1, <3>3 DEF Stamps
      <3>4. QED
        BY <3>2, <3>3
    <2>4. WordAt(todo[1].reg) \in Words
      <3>1. todo[1].reg \in {0, 2}
        BY <1>01, <2>1, TransferFields
      <3>2. gauge[todo[1].reg] \in Byte /\ gauge[todo[1].reg + 1] \in Byte
        BY <1>0, <3>1 DEF Registers
      <3>3. QED
        BY <3>2 DEF WordAt, Words
    <2>5. <<>> \in Bufs /\ Len(<<>>) = 0
      BY EmptySeq DEF Bufs
    <2>6. TypeOK'
      BY <1>0, <2>1, <2>3, <2>4 DEF TypeOK
    <2>7. Shape'
      BY <1>0, <2>1, <2>5 DEF Shape
    <2>8. Reading'
      <3>1. WordAt(todo[1].reg)' = WordAt(todo[1].reg)
        BY <2>1 DEF WordAt
      <3>2. BytesOf(transfer'.buf, held')
        BY <2>1, <2>5 DEF BytesOf
      <3>3. QED
        BY <2>1, <3>1, <3>2 DEF Reading
    <2>9. QED
      BY <2>3, <2>6, <2>7, <2>8 DEF IInv
  <1>3. CASE ReadByte
    <2> PICK n, reg, b : n = Len(transfer.buf) /\ reg = todo[1].reg /\ b = gauge[reg + n]
      OBVIOUS
    <2>1. /\ transfer.at = "bytes" /\ todo[1].op = "read" /\ n < 2
          /\ transfer' = [transfer EXCEPT !.buf = Append(@, b)]
          /\ UNCHANGED <<now, last_cmd, todo, bus, ret, gauge, held>>
      BY <1>3 DEF ReadByte, InLoop, Position
    <2>2. todo # <<>> /\ transfer.buf \in Bufs /\ reg \in {0, 2}
      BY <1>0, <1>01, <2>1, TransferFields DEF Shape
    <2>3. n \in {0, 1} /\ b \in Byte
      <3>1. n \in {0, 1}
        <4>1. transfer.buf \in Seq(Byte)
          BY <2>2 DEF Bufs
        <4>2. n \in Nat /\ n < 2
          BY <2>1, <4>1, LenProperties
        <4>3. QED
          BY <4>2, BelowTwo
      <3>2. reg + n \in Registers
        BY <2>2, <3>1, Small DEF Registers
      <3>3. QED
        BY <1>0, <3>1, <3>2
    <2>4. /\ Append(transfer.buf, b) \in Bufs
          /\ n = 0 => Len(Append(transfer.buf, b)) = 1 /\ Append(transfer.buf, b)[1] = b
          /\ n = 1 => /\ Len(Append(transfer.buf, b)) = 2
                      /\ Append(transfer.buf, b)[1] = transfer.buf[1] /\ Append(transfer.buf, b)[2] = b
      BY <2>1, <2>2, <2>3, OneMore
    <2>5. transfer'.at = "bytes" /\ transfer'.buf = Append(transfer.buf, b)
          /\ transfer' \in [at : {"none", "bytes", "read"}, buf : Bufs]
      BY <1>0, <2>1, <2>4 DEF Shape
    <2>6. WordAt(reg) \in held /\ BytesOf(transfer.buf, held)
      BY <1>0, <2>1 DEF Reading
    <2>7. BytesOf(transfer'.buf, held)
      <3>1. CASE n = 0
        <4>1. b = WordAt(reg)[1]
          BY <2>2, <3>1 DEF WordAt
        <4>2. QED
          BY <2>4, <2>5, <2>6, <3>1, <4>1 DEF BytesOf
      <3>2. CASE n = 1
        <4>1. b = WordAt(reg)[2]
          BY <2>2, <3>2 DEF WordAt
        <4>2. QED
          BY <2>4, <2>5, <2>6, <3>2, <4>1 DEF BytesOf
      <3>3. QED
        BY <2>3, <3>1, <3>2
    <2>8. TypeOK'
      BY <1>0, <2>1, <2>4, <2>5, BufShape DEF TypeOK
    <2>9. Shape' /\ Stamps'
      BY <1>0, <2>1, <2>5 DEF Shape, Stamps
    <2>10. Reading'
      <3>1. WordAt(todo[1].reg)' = WordAt(todo[1].reg)
        BY <2>1 DEF WordAt
      <3>2. QED
        BY <2>1, <2>5, <2>6, <2>7, <3>1 DEF Reading
    <2>11. QED
      BY <2>8, <2>9, <2>10 DEF IInv
  <1>4. CASE WriteByte
    <2> PICK n, reg, b : n = Len(transfer.buf) /\ reg = todo[1].reg /\ b = todo[1].data[n + 1]
      OBVIOUS
    <2>1. /\ transfer.at = "bytes" /\ todo[1].op = "write" /\ n < 2
          /\ gauge' = [gauge EXCEPT ![reg + 1] = b]
          /\ transfer' = [transfer EXCEPT !.buf = Append(@, b)]
          /\ UNCHANGED <<now, last_cmd, todo, bus, ret, held>>
      BY <1>4 DEF WriteByte, InLoop, Position
    <2>2. todo # <<>> /\ transfer.buf \in Bufs /\ reg \in {0, 2} /\ todo[1].data \in Words
      BY <1>0, <1>01, <2>1, TransferFields DEF Shape
    <2>3. n \in {0, 1} /\ b \in Byte
      <3>1. (n = 0 /\ n + 1 = 1) \/ (n = 1 /\ n + 1 = 2)
        <4>1. transfer.buf \in Seq(Byte)
          BY <2>2 DEF Bufs
        <4>2. n \in Nat /\ n < 2
          BY <2>1, <4>1, LenProperties
        <4>3. QED
          BY <4>2, BelowTwo
      <3>2. todo[1].data[1] \in Byte /\ todo[1].data[2] \in Byte
        BY <2>2 DEF Words
      <3>3. b = todo[1].data[n + 1]
        OBVIOUS
      <3>4. QED
        BY <3>1, <3>2, <3>3
    <2>4. Append(transfer.buf, b) \in Bufs
      BY <2>1, <2>2, <2>3, OneMore
    <2>5. /\ transfer'.at = "bytes" /\ transfer'.buf = Append(transfer.buf, b)
          /\ transfer' \in [at : {"none", "bytes", "read"}, buf : Bufs]
      BY <1>0, <2>1, <2>4 DEF Shape
    <2>6. gauge' \in [Registers -> Byte]
      BY <1>0, <2>1, <2>3
    <2>7. TypeOK'
      BY <1>0, <2>1, <2>4, <2>5, <2>6, BufShape DEF TypeOK
    <2>8. Shape' /\ Stamps' /\ Reading'
      BY <1>0, <2>1, <2>5 DEF Shape, Stamps, Reading
    <2>9. QED
      BY <2>7, <2>8 DEF IInv
  <1>5. CASE Fail
    BY <1>0, <1>02, <1>5, EmptySeq DEF Fail, NoTransfer, IInv, TypeOK, Shape, Stamps, Reading
  <1>6. CASE Finish
    <2>1. /\ transfer.at = "bytes" /\ Len(transfer.buf) = 2
          /\ last_cmd' = Stamped(last_cmd) /\ bus' = "free" /\ todo' = Tail(todo)
          /\ transfer' = IF Len(todo) = 1 /\ todo[1].op = "read"
                         THEN [transfer EXCEPT !.at = "read"] ELSE NoTransfer
          /\ ret' = IF Len(todo) = 1 THEN "ok" ELSE ret
          /\ UNCHANGED <<now, gauge, held>>
      BY <1>6 DEF Finish, Position
    <2>2. todo # <<>> /\ todo \in Seq(Transfers)
      BY <1>0, <2>1 DEF Shape
    <2>3. todo' \in Seq(Transfers) /\ Len(todo') <= 2
      BY <1>01, <2>1, <2>2, HeadTailProperties
    <2>4. last_cmd' \in (0 .. now) \X (0 .. now) /\ Stamps'
      BY <1>0, <2>1 DEF TypeOK, Stamped, Stamps, Null
    <2>5. /\ transfer' \in [at : {"none", "bytes", "read"}, buf : Bufs] /\ transfer'.at # "bytes"
          /\ transfer'.at = "read" => /\ Len(todo) = 1 /\ todo[1].op = "read"
                                      /\ transfer'.buf = transfer.buf
      BY <1>0, <1>02, <2>1 DEF Shape, NoTransfer
    <2>6. TypeOK'
      BY <1>0, <2>1, <2>3, <2>4, <2>5, BufShape DEF TypeOK
    <2>7. Shape'
      BY <2>3, <2>5 DEF Shape
    <2>8. Reading'
      BY <1>0, <2>1, <2>5 DEF Reading
    <2>9. QED
      BY <2>4, <2>6, <2>7, <2>8 DEF IInv
  <1>7. CASE Use
    BY <1>0, <1>02, <1>7 DEF Use, NoTransfer, IInv, TypeOK, Shape, Stamps, Reading
  <1>8. CASE Tick
    <2>1. now < MaxTime /\ now' = now + 1 /\ UNCHANGED <<last_cmd, todo, transfer, bus, ret, gauge, held>>
      BY <1>8 DEF Tick
    <2>2. TypeOK'
      BY <1>0, <2>1 DEF TypeOK
    <2>3. QED
      BY <1>0, <2>1, <2>2 DEF IInv, Shape, Stamps, Reading, WordAt
  <1>9. ASSUME NEW reg \in Regs, NEW word \in Words, Measure(reg, word) PROVE IInv'
    <2>1. /\ gauge' = [gauge EXCEPT ![reg] = word[1], ![reg + 1] = word[2]]
          /\ held' = IF transfer.at = "bytes" /\ todo[1].reg = reg THEN held \cup {word} ELSE held
          /\ UNCHANGED <<now, last_cmd, todo, transfer, bus, ret>>
      BY <1>9 DEF Measure
    <2>2. /\ gauge' \in [Registers -> Byte] /\ gauge'[reg] = word[1] /\ gauge'[reg + 1] = word[2]
          /\ \A r \in Registers \ {reg, reg + 1} : gauge'[r] = gauge[r]
      BY <1>0, <2>1 DEF Regs, CONTROL, MEASURE, Registers, Words
    <2>3. held \subseteq held' /\ held' \subseteq Words
      BY <1>0, <2>1 DEF TypeOK
    <2>4. TypeOK'
      BY <1>0, <2>1, <2>2, <2>3 DEF TypeOK
    <2>5. Shape' /\ Stamps'
      BY <1>0, <2>1 DEF Shape, Stamps
    <2>6. BytesOf(transfer.buf, held) => BytesOf(transfer.buf, held')
      BY <2>3 DEF BytesOf
    <2>7. ASSUME transfer.at = "bytes", todo[1].op = "read"
          PROVE  WordAt(todo[1].reg)' \in held'
      <3>1. todo[1].reg \in {0, 2} /\ todo' = todo
        BY <1>0, <1>01, <2>1, <2>7, TransferFields DEF Shape
      <3>2. CASE todo[1].reg = reg
        <4>1. WordAt(todo[1].reg)' = word
          BY <2>2, <3>1, <3>2 DEF WordAt, Words
        <4>2. QED
          BY <2>1, <2>7, <3>2, <4>1
      <3>3. CASE todo[1].reg # reg
        <4>1. WordAt(todo[1].reg)' = WordAt(todo[1].reg)
          BY <2>2, <3>1, <3>3 DEF WordAt, Regs, CONTROL, MEASURE, Registers
        <4>2. QED
          BY <1>0, <2>3, <2>7, <4>1 DEF Reading
      <3>4. QED
        BY <3>2, <3>3
    <2>8. Reading'
      BY <1>0, <2>1, <2>6, <2>7 DEF Reading
    <2>9. QED
      BY <2>4, <2>5, <2>8 DEF IInv
  <1>10. CASE UNCHANGED vars
    BY <1>10 DEF vars, IInv, TypeOK, Shape, Stamps, Reading, WordAt
  <1>11. QED
    BY <1>1, <1>2, <1>3, <1>4, <1>5, <1>6, <1>7, <1>8, <1>9, <1>10 DEF Next, Driver, Regs

\* The initial states satisfy the invariant.
LEMMA IInvInit == Init => IInv
  <1> SUFFICES ASSUME Init PROVE IInv
    OBVIOUS
  <1>1. TypeOK
    BY Bq27441Assumption DEF Init, TypeOK, NoTransfer, Null
  <1>2. Shape /\ Stamps /\ Reading
    BY EmptySeq DEF Init, Shape, Stamps, Reading, NoTransfer, Bufs, Null
  <1>3. QED
    BY <1>1, <1>2 DEF IInv

\* The invariant holds in every reachable state.
LEMMA Invariance == Spec => []IInv
  BY IInvInit, IInvStep, PTL DEF Spec

-----------------------------------------------------------------------------
(***************************************************************************)
(* Type correctness of the driver; the bus is held exactly as long as      *)
(* bytes are transferred.                                                  *)
(***************************************************************************)
THEOREM TypeCorrect == Spec => []TypeOK
  <1>1. IInv => TypeOK
    BY DEF IInv
  <1>2. QED
    BY <1>1, Invariance, PTL

(***************************************************************************)
(* _bq27441_read_word and the functions built on it: each byte of a word   *)
(* a successful call returns was in its register during the call, however  *)
(* the gauge changes it and wherever bytes fail.                           *)
(***************************************************************************)
THEOREM WordsAreReadings == Spec => []GoodWordsAreReadings
  <1>1. IInv => GoodWordsAreReadings
    BY DEF IInv, Reading, BytesOf, GoodWordsAreReadings
  <1>2. QED
    BY <1>1, Invariance, PTL
=============================================================================
