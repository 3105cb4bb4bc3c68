------------------------------- MODULE Device -------------------------------
(***************************************************************************)
(* The device of the board: the UART transmitter, and the answer to every  *)
(* device access, which is given when the transmitter is idle.  A write to *)
(* TX_DATA therefore waits until its own character is out; putchar keeps   *)
(* the character from going out again while the CPU, whose clock is        *)
(* slower, has not seen the answer.  A write to FINISH starts a greeting.  *)
(* Reset stops the CPU, not a character on its way.                        *)
(*                                                                         *)
(* A step is an edge of the fast clock; every Ratio-th is one of the CPU   *)
(* too.  Outside src/ are the two ends: the accesses, held until answered  *)
(* and withdrawn for a cycle of the CPU at least, as the arbiter does, and *)
(* a receiver that listens to the line and knows nothing else.             *)
(***************************************************************************)
EXTENDS Integers, Sequences

CONSTANTS
  CharBits,     \* bits of a character, 8 in the RTL
  BIT_TMR_MAX,  \* cycles of a bit, less one
  Ratio,        \* cycles of the device in a cycle of the CPU
  Chars,        \* characters the program writes
  Greeting      \* the bytes of str, from the one idx names first

Char      == [1 .. CharBits -> {0, 1}]
ZeroChar  == [b \in 1 .. CharBits |-> 0]
FrameBits == CharBits + 2               \* BIT_INDEX_MAX
Period    == BIT_TMR_MAX + 1
NoAccess  == [kind |-> "none", char |-> ZeroChar]

\* On one clock with the device the CPU would take the cycle that starts a
\* character for its answer, and the next character would be lost.
ASSUME DeviceAssumption ==
  /\ CharBits \in Nat \ {0} /\ BIT_TMR_MAX \in Nat \ {0} /\ Ratio \in Nat \ {0, 1}
  /\ Chars \subseteq Char /\ Greeting \in Seq(Char)

VARIABLES
  finish, idx, putchar,                        \* the registers of device.sv
  txState, txData, bitIndex, bitTmr, txBit,
  access,     \* the access the CPU has on the bus
  phase,      \* cycles since the last edge of the CPU's clock
  reset,      \* the button
  rx,         \* the receiver: cycles since the start bit, and the bits sampled
  due,        \* characters written and not yet heard
  upset,      \* a reset has hit something under way, and all is not quiet yet
  spurious    \* a character was heard that was not due

deviceRegs == <<finish, idx, putchar, txState, txData, bitIndex, bitTmr, txBit>>
deviceVars == <<deviceRegs, access, phase, reset, rx, due, upset, spurious>>

-----------------------------------------------------------------------------
(* Wires *)

Valid     == access.kind # "none"
TxWrite   == access.kind = "TX_DATA"
TxReady   == txState = "RDY"
BitDone   == bitTmr = BIT_TMR_MAX

\* str is two bytes longer than its initializer, which fills it from the right.
Str(i)    == IF i \in 0 .. Len(Greeting) - 1 THEN Greeting[Len(Greeting) - i]
                                             ELSE ZeroChar
Send      == (idx # 0 /\ finish) \/ TxWrite
CharData  == IF finish THEN Str(idx) ELSE access.char
Frame(c)  == <<0>> \o c \o <<1>>

\* A faulty answer, withheld until the device would take a character.
ReadyForChar == TxReady /\ putchar
Ready        == TxReady

-----------------------------------------------------------------------------
(* Registers *)

\* A faulty putchar that lets every idle cycle start a character.
PutcharAlways == TRUE

PutcharStep ==
  IF reset \/ ~Valid THEN TRUE
  ELSE IF TxWrite /\ txState # "RDY" THEN FALSE ELSE putchar

TxStateStep ==
  CASE txState = "RDY"      -> IF Send /\ putchar THEN "LOAD_BIT" ELSE "RDY"
    [] txState = "LOAD_BIT" -> "SEND_BIT"
    [] txState = "SEND_BIT" -> IF ~BitDone THEN "SEND_BIT"
                               ELSE IF bitIndex = FrameBits THEN "RDY" ELSE "LOAD_BIT"

DeviceClock ==
  /\ finish' = (~reset /\ (finish \/ access.kind = "FINISH"))
  /\ idx' = IF Send /\ finish /\ TxReady THEN idx - 1 ELSE idx
  /\ putchar' = PutcharStep
  /\ txState' = TxStateStep
  /\ txData' = IF Send THEN Frame(CharData) ELSE txData
  /\ bitIndex' = CASE txState = "RDY" -> 0
                   [] txState = "LOAD_BIT" -> bitIndex + 1
                   [] OTHER -> bitIndex
  /\ bitTmr' = IF TxReady \/ BitDone THEN 0 ELSE bitTmr + 1
  /\ txBit' = CASE txState = "RDY" -> 1
                [] txState = "LOAD_BIT" -> txData[bitIndex + 1]
                [] OTHER -> txBit

-----------------------------------------------------------------------------
(* The CPU's end.  FINISH is the last thing a program writes. *)

NextAccesses ==
  {NoAccess, [kind |-> "other", char |-> ZeroChar]} \cup
  (IF finish THEN {}
   ELSE {[kind |-> "FINISH", char |-> ZeroChar]} \cup
        {[kind |-> "TX_DATA", char |-> c] : c \in Chars})

CpuClock ==
  CASE reset           -> access' = NoAccess
    [] ~reset /\ Valid -> access' = IF Ready THEN NoAccess ELSE access
    [] OTHER           -> access' \in NextAccesses

-----------------------------------------------------------------------------
(* The receiver.  It samples the middle of each bit; a frame without its    *)
(* stop bit is dropped.                                                    *)

Listening == rx.t > 0
Sampled   == IF Listening /\ rx.t % Period = Period \div 2
             THEN Append(rx.bits, txBit) ELSE rx.bits
HasFrame  == Len(Sampled) = FrameBits
Heard     == HasFrame /\ Sampled[FrameBits] = 1
HeardChar == SubSeq(Sampled, 2, FrameBits - 1)

Receive ==
  rx' = IF HasFrame \/ (~Listening /\ txBit = 1) THEN [t |-> 0, bits |-> <<>>]
        ELSE [t |-> rx.t + 1, bits |-> Sampled]

\* The characters the greeting has from idx on; the last goes out twice.
GreetingFrom(i) ==
  IF i = 0 THEN <<>> ELSE [k \in 1 .. i |-> IF k < i THEN Str(i - k) ELSE Str(1)]

Idle == /\ TxReady /\ ~Valid /\ ~Listening /\ txBit = 1
        /\ finish => idx = 0

\* What the access that has come up owes the line.
Owes(a) == CASE a.kind = "TX_DATA" -> <<a.char>>
             [] a.kind = "FINISH"  -> GreetingFrom(idx)
             [] OTHER              -> <<>>

Expect ==
  LET rest   == IF Heard /\ due # <<>> THEN Tail(due) ELSE due
      raised == access' # access /\ ~Valid
  IN  /\ upset' = ((upset \/ reset) /\ ~Idle)
      /\ due' = IF upset' THEN <<>> ELSE IF raised THEN rest \o Owes(access') ELSE rest
      /\ spurious' = (spurious \/ (/\ Heard /\ ~upset /\ ~reset
                                   /\ due = <<>> \/ Head(due) # HeardChar))

-----------------------------------------------------------------------------
\* The button is held until the CPU has seen it.
Press == reset' \in (IF ~reset \/ phase = 0 THEN BOOLEAN ELSE {TRUE})

Tock ==
  /\ phase' = (phase + 1) % Ratio
  /\ DeviceClock /\ Receive /\ Expect /\ Press

DeviceEdge == phase # 0 /\ UNCHANGED access /\ Tock
BothEdges  == phase = 0 /\ CpuClock /\ Tock

DeviceInit ==
  /\ finish = FALSE /\ idx = Len(Greeting) /\ putchar = TRUE
  /\ txState = "RDY" /\ txData = Frame(ZeroChar)
  /\ bitIndex = 0 /\ bitTmr = 0 /\ txBit = 1
  /\ access = NoAccess /\ phase = 0 /\ reset = FALSE
  /\ rx = [t |-> 0, bits |-> <<>>]
  /\ due = <<>> /\ upset = FALSE /\ spurious = FALSE

DeviceNext == DeviceEdge \/ BothEdges

DeviceSpec == DeviceInit /\ [][DeviceNext]_deviceVars

-----------------------------------------------------------------------------
\* What is written is heard, every character once and in order: at the other end
\* of the line nothing arrives that was not due, and nothing is due when the
\* accesses are answered and the greeting is over (device.sv 132-190).  A reset
\* that hits a character may spoil it, and those written before the line is
\* quiet again; then all is well again, and the greeting goes on where it was.
WrittenIsHeard ==
  /\ ~spurious
  /\ ~upset /\ ~Valid /\ (finish => Idle) => due = <<>>

\* Every device access is answered, although the answer is a level that lasts a
\* single cycle between two characters of the greeting and the CPU looks at one
\* cycle in Ratio (device.sv 195-199).
AccessAnswered == Valid ~> ~Valid

-----------------------------------------------------------------------------
(* Why what is written is heard: transmitter, receiver and what is due, bit *)
(* by bit and cycle by cycle of a bit.                                     *)

\* The cycles the bit on the line has been there, the bits of it and of those
\* before it that the receiver has, and the character they belong to.
Offset  == IF txState = "SEND_BIT" THEN bitTmr - 1 ELSE BIT_TMR_MAX
Taken   == bitIndex - (IF Offset > Period \div 2 THEN 0 ELSE 1)
Current == CASE ~finish           -> access.char
             [] finish /\ idx = 0 -> Str(1)
             [] finish /\ idx # 0 -> Str(idx)

Tracked  == bitIndex > 0 /\ Taken < FrameBits
InFlight == Tracked \/ (txState = "LOAD_BIT" /\ bitIndex = 0)

Awaited ==
  CASE finish \/ access.kind = "FINISH" -> GreetingFrom(idx)
    [] ~finish /\ TxWrite /\ TxReady /\ putchar -> <<access.char>>
    [] OTHER -> <<>>

\* What holds with or without a reset under way.
RegistersInv ==
  /\ finish \in BOOLEAN /\ putchar \in BOOLEAN /\ reset \in BOOLEAN
  /\ upset \in BOOLEAN
  /\ idx \in 0 .. Len(Greeting) /\ phase \in 0 .. Ratio - 1
  /\ access \in [kind : {"none", "other", "FINISH", "TX_DATA"}, char : Char]
  /\ ~Valid => access = NoAccess
  /\ \/ txState = "RDY" /\ bitIndex \in {0, FrameBits} /\ bitTmr = 0
     \/ txState = "LOAD_BIT" /\ bitIndex \in 0 .. FrameBits - 1 /\ bitTmr = 0
     \/ txState = "SEND_BIT" /\ bitIndex \in 1 .. FrameBits
                             /\ bitTmr \in 1 .. BIT_TMR_MAX
  /\ rx.t \in Nat /\ (rx.t = 0 => rx = [t |-> 0, bits |-> <<>>])
  /\ TxWrite => ~finish
  /\ ~putchar => access.kind \in {"TX_DATA", "none"}
  /\ finish => putchar

\* A character of the program is started before the CPU looks for an answer, and
\* the CPU holds it until it is out.
AccessInv ==
  /\ ~finish /\ (~TxReady \/ bitIndex > 0) => TxWrite
  /\ TxWrite /\ bitIndex > 0 => ~putchar
  /\ TxWrite /\ TxReady /\ putchar => phase = 1

\* While idx is not 0 the data register is loaded again in every cycle: the
\* character that goes out is the one after the one that started it.
FrameInv ==
  /\ txBit = IF bitIndex = 0 THEN 1 ELSE Frame(Current)[bitIndex]
  /\ ~TxReady =>
       txData = Frame(IF finish /\ bitIndex = 0 THEN Str(idx + 1) ELSE Current)

ReceiverInv ==
  /\ rx = IF Tracked THEN [t |-> (bitIndex - 1) * Period + Offset,
                           bits |-> SubSeq(Frame(Current), 1, Taken)]
                     ELSE [t |-> 0, bits |-> <<>>]
  /\ due = (IF InFlight THEN <<Current>> ELSE <<>>) \o Awaited

DeviceInv ==
  /\ RegistersInv
  /\ spurious = FALSE
  /\ upset => due = <<>>
  /\ ~upset => AccessInv /\ FrameInv /\ ReceiverInv
=============================================================================
