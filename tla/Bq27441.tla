------------------------------ MODULE Bq27441 ------------------------------
(***************************************************************************)
(* The driver of the battery gauge (bq27441.c).  Every function of it is a *)
(* sequence of transfers of one 16-bit word each, a byte at a time, with   *)
(* the I2C bus held; before a transfer the driver may sleep, to keep the   *)
(* commands apart.  The gauge changes its registers at any time, between   *)
(* the two bytes of a word as well, and any byte may fail.                 *)
(*                                                                         *)
(* The device structure is one in static memory: bq27441_init leaves the   *)
(* time stamps alone.                                                      *)
(***************************************************************************)
EXTENDS Integers, Sequences

CONSTANTS Byte,       \* the bytes that are told apart
          Second,     \* one second, in ticks of the clock
          MaxTime     \* bound on the ticks that pass outside of the driver

ASSUME Bq27441Assumption == Second \in Nat \ {0} /\ MaxTime \in Nat

VARIABLES now,        \* xtimer_now_timex
          last_cmd,   \* dev->last_cmd
          todo,       \* the transfers left in the function under way
          transfer,   \* the one on the bus: its position and the bytes read
          bus,        \* who holds the I2C bus
          ret,        \* what the last function returned
          gauge,      \* the gauge's registers
          held        \* history: what the register being read has held
                      \* since the transfer began

vars == <<now, last_cmd, todo, transfer, bus, ret, gauge, held>>

Null == 0   \* timex_set(0, 0)

CONTROL == 0
MEASURE == 2   \* any register with a measured value, the temperature too
Registers == 0 .. 3
Words == Byte \X Byte   \* low byte first

Read(reg) == [op |-> "read", reg |-> reg, data |-> <<>>]
Write(reg, word) == [op |-> "write", reg |-> reg, data |-> word]

\* bq27441_control, with a result or without.
Control(func, res) ==
    IF res THEN <<Write(CONTROL, func), Read(CONTROL)>> ELSE <<Write(CONTROL, func)>>

\* bq27441_voltage and the other functions that read one word.
Getter == <<Read(MEASURE)>>

\* bq27441_seal and bq27441_sealed are Control; bq27441_unseal is two of it.
Functions ==
    {Getter} \cup {<<Write(MEASURE, w)>> : w \in Words}
        \cup {Control(f, res) : f \in Words, res \in BOOLEAN}
        \cup {Control(f, FALSE) \o Control(f, FALSE) : f \in Words}

WordAt(reg) == <<gauge[reg], gauge[reg + 1]>>

NoTransfer == [at |-> "none", buf |-> <<>>]

Init ==
    /\ now = 1 /\ last_cmd = <<Null, Null>>
    /\ todo = <<>> /\ transfer = NoTransfer /\ bus = "free" /\ ret = "none"
    /\ gauge \in [Registers -> Byte]
    /\ held = {}

-----------------------------------------------------------------------------
\* A function of the driver is called.
Call(function) ==
    /\ todo = <<>> /\ transfer = NoTransfer
    /\ todo' = function /\ ret' = "none"
    /\ UNCHANGED <<now, last_cmd, transfer, bus, gauge, held>>

\* timex_sub: the difference of two stamps wraps to a huge value below zero.
LessThanSecond(diff) == diff >= 0 /\ diff < Second

\* _cmd_wait_time: how long it sleeps, or -1 when it leaves the stamps alone.
\* It sleeps for as long as the two stamps are apart.
Pause(stamps) ==
    LET diff == stamps[2] - stamps[1]
    IN  IF LessThanSecond(diff) /\ stamps[1] # Null /\ stamps[2] # Null THEN diff ELSE -1

\* i2c_acquire and _cmd_wait_time.
Acquire ==
    LET pause == Pause(last_cmd)
    IN  /\ todo # <<>> /\ transfer.at = "none" /\ bus = "free"
        /\ bus' = "driver"
        /\ transfer' = [at |-> "bytes", buf |-> <<>>]
        /\ IF pause >= 0
           THEN now' = now + pause /\ last_cmd' = <<Null, Null>>
           ELSE UNCHANGED <<now, last_cmd>>
        /\ held' = {WordAt(todo[1].reg)}
        /\ UNCHANGED <<todo, ret, gauge>>

Position == Len(transfer.buf)   \* the loop's i

InLoop(op) == transfer.at = "bytes" /\ todo[1].op = op /\ Position < 2

\* Mutant: reads the same register twice.
ReadSameByte ==
    /\ InLoop("read")
    /\ transfer' = [transfer EXCEPT !.buf = Append(@, gauge[todo[1].reg])]
    /\ UNCHANGED <<now, last_cmd, todo, bus, ret, gauge, held>>

\* _bq27441_read_regs: the next byte.
ReadByte ==
    /\ InLoop("read")
    /\ transfer' = [transfer EXCEPT !.buf = Append(@, gauge[todo[1].reg + Position])]
    /\ UNCHANGED <<now, last_cmd, todo, bus, ret, gauge, held>>

\* _bq27441_write_regs: the next byte, always to register reg + 1.
WriteByte ==
    LET byte == todo[1].data[Position + 1]
    IN  /\ InLoop("write")
        /\ gauge' = [gauge EXCEPT ![todo[1].reg + 1] = byte]
        /\ transfer' = [transfer EXCEPT !.buf = Append(@, byte)]
        /\ UNCHANGED <<now, last_cmd, todo, bus, ret, held>>

\* Mutant: returns with the bus still acquired.
FailKeepsBus ==
    /\ InLoop("read") \/ InLoop("write")
    /\ ret' = "error" /\ todo' = <<>> /\ transfer' = NoTransfer
    /\ UNCHANGED <<now, last_cmd, bus, gauge, held>>

\* The error path of both: release the bus; the function returns the error.
Fail ==
    /\ InLoop("read") \/ InLoop("write")
    /\ bus' = "free" /\ ret' = "error" /\ todo' = <<>> /\ transfer' = NoTransfer
    /\ UNCHANGED <<now, last_cmd, gauge, held>>

\* _cmd_update_timestamp.
Stamped(stamps) == IF stamps[1] = Null THEN <<now, Null>> ELSE <<stamps[1], now>>

\* After the loop.  A word read is kept for the caller when it was the last
\* transfer of the function.
Finish ==
    /\ transfer.at = "bytes" /\ Position = 2
    /\ last_cmd' = Stamped(last_cmd)
    /\ bus' = "free"
    /\ todo' = Tail(todo)
    /\ transfer' = IF Len(todo) = 1 /\ todo[1].op = "read"
                   THEN [transfer EXCEPT !.at = "read"] ELSE NoTransfer
    /\ ret' = IF Len(todo) = 1 THEN "ok" ELSE ret
    /\ UNCHANGED <<now, gauge, held>>

\* The caller uses the word.
Use ==
    /\ transfer.at = "read" /\ transfer' = NoTransfer
    /\ held' = {}
    /\ UNCHANGED <<now, last_cmd, todo, bus, ret, gauge>>

Tick ==
    /\ now < MaxTime /\ now' = now + 1
    /\ UNCHANGED <<last_cmd, todo, transfer, bus, ret, gauge, held>>

\* The gauge has a new value for a register.
Measure(reg, word) ==
    /\ gauge' = [gauge EXCEPT ![reg] = word[1], ![reg + 1] = word[2]]
    /\ held' = IF transfer.at = "bytes" /\ todo[1].reg = reg THEN held \cup {word} ELSE held
    /\ UNCHANGED <<now, last_cmd, todo, transfer, bus, ret>>

Driver == Acquire \/ ReadByte \/ WriteByte \/ Fail \/ Finish \/ Use

Next ==
    \/ \E function \in Functions : Call(function)
    \/ Driver
    \/ Tick
    \/ \E reg \in {CONTROL, MEASURE}, word \in Words : Measure(reg, word)

\* The thread in the driver goes on; nothing else is assumed.
Spec == Init /\ [][Next]_vars /\ WF_vars(Driver)

-----------------------------------------------------------------------------
\* The types of the variables; the bus is held exactly during a transfer.
TypeOK ==
    /\ now \in 1 .. MaxTime + Second
    /\ last_cmd \in (0 .. now) \X (0 .. now)
    /\ Len(todo) <= 2
    /\ transfer.at \in {"none", "bytes", "read"}
    /\ transfer.buf \in {<<>>} \cup {<<b>> : b \in Byte} \cup Words
    /\ bus = IF transfer.at = "bytes" THEN "driver" ELSE "free"
    /\ ret \in {"none", "ok", "error"}
    /\ gauge \in [Registers -> Byte]
    /\ held \subseteq Words

(***************************************************************************)
(* _bq27441_read_word and the functions built on it: the word a successful *)
(* call returns is made of a low and a high byte its register held during  *)
(* the call; it is a reading of the register unless that changed between   *)
(* the two bytes.                                                          *)
(***************************************************************************)
GoodWordsAreReadings ==
    transfer.at = "read" =>
        /\ ret = "ok"
        /\ \E w \in held : transfer.buf[1] = w[1]
        /\ \E w \in held : transfer.buf[2] = w[2]

(***************************************************************************)
(* Every function gives the bus back, also when a byte fails.              *)
(***************************************************************************)
BusIsReleased == bus = "driver" ~> bus = "free"
=============================================================================
