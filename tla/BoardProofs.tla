---------------------------- MODULE BoardProofs -----------------------------
(***************************************************************************)
(* Proofs about the two parts of the board: BoardTop keeps its request     *)
(* still, and what the program writes to the device is heard at the other  *)
(* end of the line, for every length of a character and of a bit, every    *)
(* greeting, and every ratio of the clocks but one.  The device answers    *)
(* within the time of the greeting.                                        *)
(***************************************************************************)
EXTENDS BoardTop, Device, TLAPS

-----------------------------------------------------------------------------
(* The other CPU top *)

\* mycpu_top.sv: the request on the bus does not change until it is answered,
\* although nothing latches it: an unanswered port stalls the whole pipeline.
THEOREM RequestIsSteady == Spec => BusSteady
<1>1. ASSUME Tick, BusReq.valid, ~Resp.ready
      PROVE  BusReq' = BusReq
  <2>1. ~Iresp.data_ok /\ ~Dresp.data_ok
    BY <1>1 DEF Iresp, Dresp
  <2>2. MemAccess \/ Ireq.valid
    BY <1>1 DEF BusReq, Dreq
  <2>3. ~Advance(Iresp, Dresp)
    BY <2>1, <2>2 DEF Advance, MemWait, FetchWait
  <2>4. Stall(Iresp)
    BY <2>1, <2>2 DEF Stall, FetchWait
  <2>5. UNCHANGED <<pc, id, ex, mem>>
    BY <1>1, <2>3, <2>4 DEF Tick, CoreClock, PcStep, IfIdStep, IdExStep, ExMemStep,
                            RedirectFire, InsertBubble
  <2>6. Dreq' = Dreq /\ Ireq' = Ireq
    BY <2>5 DEF Dreq, Ireq, MemAccess, LoadUseHazard
  <2>. QED
    BY <2>6 DEF BusReq
<1>2. ASSUME UNCHANGED vars
      PROVE  BusReq' = BusReq
  BY <1>2 DEF vars, coreVars, BusReq, Dreq, Ireq, MemAccess, LoadUseHazard
<1>. QED
  BY <1>1, <1>2, PTL DEF Spec, BusSteady

-----------------------------------------------------------------------------
(* Frames and greetings as sequences *)

LEMMA PeriodFacts ==
  /\ Period \in Nat /\ Period > 1 /\ FrameBits \in Nat /\ FrameBits > 2
  /\ Period \div 2 \in 1 .. BIT_TMR_MAX
  /\ BIT_TMR_MAX \in Nat /\ BIT_TMR_MAX > 0 /\ CharBits \in Nat /\ CharBits > 0
  BY DeviceAssumption DEF Period, FrameBits

LEMMA FrameFacts ==
  ASSUME NEW c \in Char
  PROVE  /\ Frame(c) \in Seq({0, 1}) /\ Len(Frame(c)) = FrameBits
         /\ Frame(c)[1] = 0 /\ Frame(c)[FrameBits] = 1
         /\ SubSeq(Frame(c), 2, FrameBits - 1) = c
<1>1. c \in Seq({0, 1}) /\ Len(c) = CharBits
  BY PeriodFacts DEF Char
<1>2. /\ Frame(c) \in Seq({0, 1}) /\ Len(Frame(c)) = FrameBits
      /\ Frame(c)[1] = 0 /\ Frame(c)[FrameBits] = 1
  BY <1>1, PeriodFacts DEF Frame, FrameBits
<1>3. \A k \in 1 .. CharBits : Frame(c)[k + 1] = c[k]
  BY <1>1, PeriodFacts DEF Frame
<1>4. SubSeq(Frame(c), 2, FrameBits - 1) = c
  <2> DEFINE s == SubSeq(Frame(c), 2, FrameBits - 1)
  <2>1. s \in Seq({0, 1}) /\ Len(s) = CharBits
    BY <1>2, PeriodFacts DEF FrameBits
  <2>2. \A k \in 1 .. CharBits : s[k] = c[k]
    BY <1>2, <1>3, PeriodFacts DEF FrameBits
  <2>. QED
    BY <1>1, <2>1, <2>2
<1>. QED
  BY <1>2, <1>4

\* A receiver that has n bits of a frame and samples the next has n + 1.
LEMMA Prefix ==
  ASSUME NEW S, NEW s \in Seq(S), NEW n \in Nat, n < Len(s)
  PROVE  /\ Len(SubSeq(s, 1, n)) = n
         /\ Append(SubSeq(s, 1, n), s[n + 1]) = SubSeq(s, 1, n + 1)
         /\ SubSeq(s, 1, Len(s)) = s
         /\ SubSeq(s, 1, 0) = <<>>
<1>1. SubSeq(s, 1, n) \in Seq(S) /\ Len(SubSeq(s, 1, n)) = n
  OBVIOUS
<1>2. SubSeq(s, 1, n + 1) \in Seq(S) /\ Len(SubSeq(s, 1, n + 1)) = n + 1
  OBVIOUS
<1>3. /\ Append(SubSeq(s, 1, n), s[n + 1]) \in Seq(S)
      /\ Len(Append(SubSeq(s, 1, n), s[n + 1])) = n + 1
  BY <1>1
<1>4. \A k \in 1 .. n + 1 :
        Append(SubSeq(s, 1, n), s[n + 1])[k] = SubSeq(s, 1, n + 1)[k]
  BY <1>1, <1>2
<1>. QED
  BY <1>1, <1>2, <1>3, <1>4

LEMMA FirstOf ==
  ASSUME NEW S, NEW c \in S, NEW s \in Seq(S)
  PROVE  /\ <<c>> \o s # <<>> /\ Head(<<c>> \o s) = c /\ Tail(<<c>> \o s) = s
         /\ s \o <<>> = s /\ <<>> \o s = s
         /\ <<c>> \o s \in Seq(S)
OBVIOUS

LEMMA StrType == \A i \in Nat : Str(i) \in Char
  BY DeviceAssumption DEF Str, Char, ZeroChar

\* Of what is left of the greeting one character is out, the rest is left.
LEMMA GreetingStep ==
  ASSUME NEW i \in Nat
  PROVE  /\ GreetingFrom(i) \in Seq(Char)
         /\ i > 0 => GreetingFrom(i) =
              <<IF i = 1 THEN Str(1) ELSE Str(i - 1)>> \o GreetingFrom(i - 1)
         /\ GreetingFrom(0) = <<>>
<1>1. \A j \in Nat : GreetingFrom(j) \in Seq(Char) /\ Len(GreetingFrom(j)) = j
  BY StrType DEF GreetingFrom
<1>2. ASSUME i > 0
      PROVE  GreetingFrom(i) =
               <<IF i = 1 THEN Str(1) ELSE Str(i - 1)>> \o GreetingFrom(i - 1)
  <2> DEFINE first == IF i = 1 THEN Str(1) ELSE Str(i - 1)
             rest  == GreetingFrom(i - 1)
  <2>1. rest \in Seq(Char) /\ Len(rest) = i - 1 /\ first \in Char
    BY <1>1, <1>2, StrType
  <2>2. <<first>> \o rest \in Seq(Char) /\ Len(<<first>> \o rest) = i
    BY <2>1
  <2>3. (<<first>> \o rest)[1] = GreetingFrom(i)[1]
    BY <1>2, <2>1 DEF GreetingFrom
  <2>4. \A k \in 2 .. i : (<<first>> \o rest)[k] = rest[k - 1]
    BY <2>1
  <2>5. \A k \in 2 .. i : rest[k - 1] = GreetingFrom(i)[k]
    BY <1>2 DEF GreetingFrom
  <2>. QED
    BY <1>1, <1>2, <2>2, <2>3, <2>4, <2>5
<1>. QED
  BY <1>1, <1>2 DEF GreetingFrom

LEMMA WithinBit ==
  ASSUME NEW q \in Nat, NEW d \in Nat \ {0}, NEW r \in 0 .. d - 1
  PROVE  /\ (q * d + r) % d = r
         /\ q * d + r \in Nat
         /\ q * d + r = 0 <=> q = 0 /\ r = 0
OBVIOUS

-----------------------------------------------------------------------------
(* The device *)

LEMMA CurrentType == RegistersInv => Current \in Char /\ access.char \in Char
  BY StrType DEF RegistersInv, Current

\* The access after an edge: none was answered, or one was and is withdrawn, or
\* the next comes up.
LEMMA AccessStep ==
  ASSUME RegistersInv, DeviceNext
  PROVE  /\ access' \in [kind : {"none", "other", "FINISH", "TX_DATA"}, char : Char]
         /\ Valid => access' = access \/ access' = NoAccess
         /\ ~Valid' => access' = NoAccess
         /\ Valid /\ ~reset /\ ~TxReady => access' = access
         /\ Valid /\ ~reset /\ phase # 0 => access' = access
         /\ ~Valid /\ access' # access =>
              /\ ~reset /\ phase = 0
              /\ finish => access'.kind = "other"
         /\ reset => access' = access \/ access' = NoAccess
<1>1. /\ NoAccess \in [kind : {"none", "other", "FINISH", "TX_DATA"}, char : Char]
      /\ NoAccess.kind = "none"
      /\ Chars \subseteq Char /\ ZeroChar \in Char
  BY DeviceAssumption DEF NoAccess, Char, ZeroChar
<1>2. CASE DeviceEdge
  BY <1>2 DEF DeviceEdge, RegistersInv, Valid
<1>3. CASE BothEdges
  <2>2. CASE reset
    BY <1>1, <1>3, <2>2 DEF BothEdges, CpuClock, RegistersInv, Valid
  <2>3. CASE ~reset /\ Valid
    BY <1>1, <1>3, <2>3 DEF BothEdges, CpuClock, RegistersInv, Ready, Valid
  <2>4. CASE ~reset /\ ~Valid
    <3>1. access' \in NextAccesses /\ phase = 0
      BY <1>3, <2>4 DEF BothEdges, CpuClock
    <3>2. /\ access' \in [kind : {"none", "other", "FINISH", "TX_DATA"}, char : Char]
          /\ finish => access'.kind \in {"none", "other"}
          /\ access'.kind = "none" => access' = NoAccess
      BY <1>1, <3>1 DEF NextAccesses, RegistersInv
    <3>3. access = NoAccess
      BY <2>4 DEF RegistersInv
    <3>. QED
      BY <1>1, <2>4, <3>1, <3>2, <3>3 DEF Valid
  <2>. QED
    BY <2>2, <2>3, <2>4
<1>. QED
  BY <1>2, <1>3 DEF DeviceNext

\* What the transmitter does at an edge: it is at rest and stays so, it takes a
\* character, it puts the next bit on the line, or it holds the bit.
Rests  == /\ TxReady /\ ~(Send /\ putchar) /\ TxReady'
          /\ bitIndex' = 0 /\ bitTmr' = 0 /\ txBit' = 1
Starts == /\ TxReady /\ Send /\ putchar /\ txState' = "LOAD_BIT"
          /\ bitIndex' = 0 /\ bitTmr' = 0 /\ txBit' = 1
          /\ txData' = Frame(CharData)
Loads  == /\ txState = "LOAD_BIT" /\ txState' = "SEND_BIT"
          /\ bitIndex' = bitIndex + 1 /\ bitTmr' = 1 /\ txBit' = txData[bitIndex + 1]
Holds  == /\ txState = "SEND_BIT" /\ bitIndex' = bitIndex /\ txBit' = txBit
          /\ Offset' = Offset + 1 /\ Offset < BIT_TMR_MAX
          /\ \/ txState' = "SEND_BIT" /\ bitTmr' \in 1 .. BIT_TMR_MAX
             \/ txState' = "LOAD_BIT" /\ bitTmr' = 0 /\ bitIndex < FrameBits
             \/ txState' = "RDY" /\ bitTmr' = 0 /\ bitIndex = FrameBits

LEMMA TransmitterStep ==
  ASSUME RegistersInv, DeviceClock
  PROVE  Rests \/ Starts \/ Loads \/ Holds
<1>1. txState \in {"RDY", "LOAD_BIT", "SEND_BIT"}
  BY DEF RegistersInv
<1>2. CASE txState = "RDY"
  BY <1>2 DEF DeviceClock, TxStateStep, TxReady, Rests, Starts
<1>3. CASE txState = "LOAD_BIT"
  <2>1. bitTmr = 0 /\ ~BitDone /\ ~TxReady
    BY <1>3, PeriodFacts DEF RegistersInv, BitDone, TxReady
  <2>. QED
    BY <1>3, <2>1 DEF DeviceClock, TxStateStep, Loads
<1>4. CASE txState = "SEND_BIT"
  <2>1. bitTmr \in 1 .. BIT_TMR_MAX /\ bitIndex \in 1 .. FrameBits /\ ~TxReady
    BY <1>4 DEF RegistersInv, TxReady
  <2>2. bitIndex' = bitIndex /\ txBit' = txBit
    BY <1>4 DEF DeviceClock
  <2>3. CASE BitDone
    <3>1. bitTmr' = 0 /\ txState' = IF bitIndex = FrameBits THEN "RDY" ELSE "LOAD_BIT"
      BY <1>4, <2>3 DEF DeviceClock, TxStateStep
    <3>2. Offset' = BIT_TMR_MAX /\ Offset = BIT_TMR_MAX - 1
      BY <1>4, <2>3, <3>1 DEF Offset, BitDone
    <3>. QED
      BY <1>4, <2>1, <2>2, <3>1, <3>2, PeriodFacts DEF Holds
  <2>4. CASE ~BitDone
    <3>1. bitTmr' = bitTmr + 1 /\ txState' = "SEND_BIT" /\ bitTmr < BIT_TMR_MAX
      BY <1>4, <2>1, <2>4, PeriodFacts DEF DeviceClock, TxStateStep, BitDone
    <3>2. Offset' = bitTmr /\ Offset = bitTmr - 1
      BY <1>4, <2>1, <3>1 DEF Offset
    <3>. QED
      BY <1>4, <2>1, <2>2, <3>1, <3>2, PeriodFacts DEF Holds
  <2>. QED
    BY <2>3, <2>4
<1>. QED
  BY <1>1, <1>2, <1>3, <1>4

\* What holds of the registers holds after an edge, whatever was under way.
LEMMA RegistersStep ==
  ASSUME RegistersInv, DeviceNext
  PROVE  RegistersInv'
<1>1. DeviceClock /\ Receive /\ Expect /\ Press /\ phase' = (phase + 1) % Ratio
  BY DEF DeviceNext, DeviceEdge, BothEdges, Tock
<1>2. /\ finish' \in BOOLEAN /\ putchar' \in BOOLEAN /\ reset' \in BOOLEAN
      /\ upset' \in BOOLEAN
  BY <1>1 DEF RegistersInv, DeviceClock, PutcharStep, Press, Expect
<1>3. phase' \in 0 .. Ratio - 1
  BY <1>1, DeviceAssumption DEF RegistersInv
<1>4. idx' \in 0 .. Len(Greeting)
  <2>1. Send /\ finish => idx # 0
    BY DEF Send, RegistersInv
  <2>2. Len(Greeting) \in Nat
    BY DeviceAssumption
  <2>. QED
    BY <1>1, <2>1, <2>2 DEF DeviceClock, RegistersInv
<1>5. /\ access' \in [kind : {"none", "other", "FINISH", "TX_DATA"}, char : Char]
      /\ (~Valid => access = NoAccess)'
  BY AccessStep
<1>6. \/ txState' = "RDY" /\ bitIndex' \in {0, FrameBits} /\ bitTmr' = 0
      \/ txState' = "LOAD_BIT" /\ bitIndex' \in 0 .. FrameBits - 1 /\ bitTmr' = 0
      \/ txState' = "SEND_BIT" /\ bitIndex' \in 1 .. FrameBits
                               /\ bitTmr' \in 1 .. BIT_TMR_MAX
  BY <1>1, TransmitterStep, PeriodFacts
     DEF RegistersInv, Rests, Starts, Loads, Holds, TxReady
<1>7. rx'.t \in Nat /\ (rx'.t = 0 => rx' = [t |-> 0, bits |-> <<>>])
  BY <1>1 DEF RegistersInv, Receive
<1>8. (TxWrite => ~finish)'
  BY <1>1, AccessStep DEF RegistersInv, TxWrite, Valid, DeviceClock, NoAccess
<1>9. (~putchar => access.kind \in {"TX_DATA", "none"})'
  BY <1>1, AccessStep DEF RegistersInv, TxWrite, Valid, DeviceClock, PutcharStep, NoAccess
<1>10. (finish => putchar)'
  BY <1>1 DEF RegistersInv, TxWrite, Valid, DeviceClock, PutcharStep
<1>. QED
  BY <1>2, <1>3, <1>4, <1>5, <1>6, <1>7, <1>8, <1>9, <1>10 DEF RegistersInv

\* What the receiver has at an edge, and what is then still due.  It samples in
\* the middle of a bit, and the stop bit completes the frame.
LEMMA Reception ==
  ASSUME RegistersInv, FrameInv, ReceiverInv
  PROVE  /\ HasFrame <=> Tracked /\ Offset = Period \div 2 /\ bitIndex = FrameBits
         /\ HasFrame => Heard /\ HeardChar = Current
         /\ Receive => rx' =
              IF Tracked /\ ~HasFrame
              THEN [t |-> rx.t + 1,
                    bits |-> SubSeq(Frame(Current), 1,
                               bitIndex - (IF Offset + 1 > Period \div 2 THEN 0 ELSE 1))]
              ELSE [t |-> 0, bits |-> <<>>]
<1> DEFINE F == Frame(Current)
           m == Period \div 2
           got == bitIndex - (IF Offset + 1 > m THEN 0 ELSE 1)
<1>1. /\ F \in Seq({0, 1}) /\ Len(F) = FrameBits
      /\ F[1] = 0 /\ F[FrameBits] = 1
      /\ SubSeq(F, 2, FrameBits - 1) = Current
  BY CurrentType, FrameFacts
<1>2. /\ bitIndex \in 0 .. FrameBits
      /\ bitIndex > 0 => Offset \in 0 .. Period - 1
  BY PeriodFacts DEF RegistersInv, Offset, Period
<1>3. CASE ~Tracked
  <2>1. rx = [t |-> 0, bits |-> <<>>]
    BY <1>3 DEF ReceiverInv
  <2>2. bitIndex = 0 \/ bitIndex = FrameBits
    BY <1>2, <1>3, PeriodFacts DEF Tracked, Taken
  <2>3. txBit = 1
    BY <1>1, <2>2, PeriodFacts DEF FrameInv
  <2>4. ~Listening /\ Sampled = <<>>
    BY <2>1 DEF Listening, Sampled
  <2>5. ~HasFrame
    BY <2>4, PeriodFacts DEF HasFrame
  <2>. QED
    BY <1>3, <2>3, <2>4, <2>5 DEF Receive
<1>4. CASE Tracked
  <2>1. /\ bitIndex \in 1 .. FrameBits /\ Offset \in 0 .. Period - 1
        /\ Taken = bitIndex - (IF Offset > m THEN 0 ELSE 1)
        /\ Taken \in 0 .. FrameBits - 1
    BY <1>2, <1>4, PeriodFacts DEF Tracked, Taken
  <2>2. /\ rx = [t |-> (bitIndex - 1) * Period + Offset, bits |-> SubSeq(F, 1, Taken)]
        /\ txBit = F[bitIndex]
    BY <1>4, <2>1 DEF ReceiverInv, FrameInv
  <2>3. /\ rx.t % Period = Offset /\ rx.t \in Nat
        /\ rx.t = 0 <=> bitIndex = 1 /\ Offset = 0
    <3> DEFINE q == bitIndex - 1
    <3>1. q \in Nat /\ Period \in Nat \ {0} /\ (q = 0 <=> bitIndex = 1)
      BY <2>1, PeriodFacts
    <3>2. rx.t = q * Period + Offset
      BY <2>2
    <3> HIDE DEF q
    <3>0. Offset \in 0 .. Period - 1
      BY <2>1
    <3>3. /\ (q * Period + Offset) % Period = Offset
          /\ q * Period + Offset \in Nat
          /\ q * Period + Offset = 0 <=> q = 0 /\ Offset = 0
      BY <3>0, <3>1, WithinBit
    <3>. QED
      BY <3>1, <3>2, <3>3
  <2>4. Sampled = SubSeq(F, 1, got) /\ got \in 0 .. FrameBits
    <3>1. CASE Offset = m
      <4>1. Listening /\ Taken = bitIndex - 1 /\ got = bitIndex
        BY <2>1, <2>3, <3>1, PeriodFacts DEF Listening
      <4>2. Sampled = Append(SubSeq(F, 1, bitIndex - 1), F[bitIndex])
        BY <2>2, <2>3, <3>1, <4>1 DEF Sampled
      <4>3. bitIndex - 1 \in Nat /\ bitIndex - 1 < Len(F) /\ (bitIndex - 1) + 1 = bitIndex
        BY <1>1, <2>1, PeriodFacts
      <4>4. Append(SubSeq(F, 1, bitIndex - 1), F[(bitIndex - 1) + 1])
              = SubSeq(F, 1, (bitIndex - 1) + 1)
        BY <1>1, <4>3, Prefix
      <4>. QED
        BY <2>1, <4>1, <4>2, <4>3, <4>4
    <3>2. CASE Offset # m
      <4>1. Taken = got
        BY <2>1, <3>2, PeriodFacts
      <4>2. Sampled = rx.bits
        BY <2>3, <3>2 DEF Sampled
      <4>3. got \in 0 .. FrameBits
        BY <2>1, <4>1, PeriodFacts
      <4>. QED
        BY <2>2, <4>1, <4>2, <4>3
    <3>. QED
      BY <3>1, <3>2
  <2>5. Len(Sampled) = got
    BY <1>1, <2>4
  <2>6. HasFrame <=> Offset = m /\ bitIndex = FrameBits
    BY <2>1, <2>5, PeriodFacts DEF HasFrame
  <2>7. ASSUME HasFrame
        PROVE  Heard /\ HeardChar = Current
    <3>1. got = FrameBits
      BY <2>5, <2>7 DEF HasFrame
    <3>2. SubSeq(F, 1, Len(F)) = F
      BY <1>1
    <3>3. Sampled = F
      BY <1>1, <2>4, <3>1, <3>2
    <3>. QED
      BY <1>1, <2>7, <3>3 DEF Heard, HeardChar
  <2>8. ~Listening => txBit = 0
    BY <1>1, <2>2, <2>3 DEF Listening
  <2>9. Receive => rx' = IF ~HasFrame THEN [t |-> rx.t + 1, bits |-> Sampled]
                                     ELSE [t |-> 0, bits |-> <<>>]
    BY <2>8 DEF Receive
  <2>. QED
    BY <1>4, <2>4, <2>6, <2>7, <2>9
<1>. QED
  BY <1>3, <1>4

LEMMA AwaitedType == RegistersInv => Awaited \in Seq(Char)
<1>1. RegistersInv => access.char \in Char /\ idx \in Nat
  BY CurrentType, DeviceAssumption DEF RegistersInv
<1>2. \A c \in Char : <<c>> \in Seq(Char)
  OBVIOUS
<1>3. \A i \in Nat : GreetingFrom(i) \in Seq(Char)
  BY GreetingStep
<1>. QED
  BY <1>1, <1>2, <1>3 DEF Awaited

\* What is due after an edge but for the access that comes up at it.
Rest == IF Heard /\ due # <<>> THEN Tail(due) ELSE due

LEMMA Delivery ==
  ASSUME RegistersInv, FrameInv, ReceiverInv
  PROVE  /\ Rest = IF InFlight /\ ~HasFrame THEN <<Current>> \o Awaited ELSE Awaited
         /\ Heard => due # <<>> /\ Head(due) = HeardChar
         /\ Awaited \in Seq(Char) /\ Current \in Char
<1>1. Awaited \in Seq(Char) /\ Current \in Char
  BY AwaitedType, CurrentType
<1>2. /\ <<Current>> \o Awaited # <<>>
      /\ Head(<<Current>> \o Awaited) = Current
      /\ Tail(<<Current>> \o Awaited) = Awaited
      /\ <<>> \o Awaited = Awaited
  BY <1>1, FirstOf
<1>3. due = IF InFlight THEN <<Current>> \o Awaited ELSE Awaited
  BY <1>2 DEF ReceiverInv
<1>4. /\ HasFrame => InFlight /\ HeardChar = Current
      /\ Heard <=> HasFrame
  BY Reception DEF InFlight, Heard
<1>. QED
  BY <1>1, <1>2, <1>3, <1>4 DEF Rest

\* With nothing under way only the next access can change anything.
LEMMA QuietStep ==
  ASSUME DeviceInv, Idle, DeviceNext
  PROVE  DeviceInv'
<1>1. DeviceClock /\ Receive /\ Expect /\ Press /\ phase' = (phase + 1) % Ratio
  BY DEF DeviceNext, DeviceEdge, BothEdges, Tock
<1>2. RegistersInv /\ RegistersInv'
  BY RegistersStep DEF DeviceInv
<1>3. /\ TxReady /\ ~Send /\ access = NoAccess /\ access.kind = "none"
      /\ rx = [t |-> 0, bits |-> <<>>] /\ txBit = 1 /\ (finish => idx = 0)
  BY <1>2 DEF Idle, RegistersInv, Valid, Send, TxWrite, Listening
<1>4. TxReady' /\ bitIndex' = 0 /\ txBit' = 1 /\ idx' = idx /\ putchar' = TRUE
  <2>1. Rests
    BY <1>1, <1>2, <1>3, TransmitterStep DEF Starts, Loads, Holds, TxReady
  <2>. QED
    BY <1>1, <1>3, <2>1 DEF Rests, DeviceClock, PutcharStep, Valid
<1>5. ~HasFrame /\ ~Heard /\ rx' = [t |-> 0, bits |-> <<>>]
  <2>1. Sampled = <<>> /\ ~Listening
    BY <1>3 DEF Sampled, Listening
  <2>2. ~HasFrame
    BY <2>1, PeriodFacts DEF HasFrame
  <2>. QED
    BY <1>1, <1>3, <2>1, <2>2 DEF Receive, Heard
<1>6. due = <<>>
  <2>1. CASE upset
    BY <2>1 DEF DeviceInv
  <2>2. CASE ~upset
    <3>1. ReceiverInv
      BY <2>2 DEF DeviceInv
    <3>2. bitIndex \in {0, FrameBits} /\ txState = "RDY"
      BY <1>2, <1>3 DEF RegistersInv, TxReady
    <3>3. Offset = BIT_TMR_MAX
      BY <3>2 DEF Offset
    <3>4. ~Tracked
      <4>1. SUFFICES ASSUME Tracked, bitIndex = FrameBits PROVE FALSE
        BY <3>2, PeriodFacts DEF Tracked
      <4>2. rx.t = (bitIndex - 1) * Period + Offset
        BY <3>1, <4>1 DEF ReceiverInv
      <4> DEFINE q == bitIndex - 1
      <4>3. q \in Nat /\ Period \in Nat \ {0} /\ Offset \in 0 .. Period - 1 /\ Offset # 0
        BY <3>3, <4>1, PeriodFacts DEF Period
      <4>4. rx.t = q * Period + Offset
        BY <4>2
      <4> HIDE DEF q
      <4>5. q * Period + Offset # 0
        BY <4>3, WithinBit
      <4>. QED
        BY <1>3, <4>4, <4>5
    <3>5. ~InFlight
      BY <3>2, <3>4 DEF InFlight
    <3>6. Awaited = <<>>
      BY <1>3, GreetingStep DEF Awaited, TxWrite
    <3>. QED
      BY <3>1, <3>5, <3>6 DEF ReceiverInv
  <2>. QED
    BY <2>1, <2>2
<1>7. ~upset' /\ spurious' = FALSE
  BY <1>1, <1>5 DEF Expect, DeviceInv
<1>8. /\ AccessInv'
      /\ FrameInv'
      /\ ~Tracked' /\ ~InFlight'
  <2>1. txState' = "RDY"
    BY <1>4 DEF TxReady
  <2>2. phase = 0 => phase' = 1
    BY <1>1, DeviceAssumption
  <2>3. TxWrite' => phase = 0
    BY <1>2, <1>3, AccessStep DEF TxWrite, Valid
  <2>4. AccessInv'
    BY <1>4, <2>2, <2>3 DEF AccessInv
  <2>5. FrameInv'
    BY <1>4 DEF FrameInv
  <2>. QED
    BY <1>4, <2>1, <2>4, <2>5 DEF Tracked, InFlight
<1>9. due' = Awaited' /\ <<>> \o Awaited' = Awaited'
  <2>1. due' = IF access' # access THEN <<>> \o Owes(access') ELSE <<>>
    BY <1>1, <1>3, <1>5, <1>6, <1>7 DEF Expect, Valid
  <2>2. <<>> \o Owes(access') = Owes(access')
    BY <1>2, AwaitedType, GreetingStep, DeviceAssumption DEF Owes, RegistersInv
  <2>3. access' = access => Awaited' = <<>>
    BY <1>1, <1>3, <1>4, GreetingStep
       DEF Awaited, DeviceClock, TxWrite
  <2>4. ASSUME access' # access
        PROVE  Awaited' = Owes(access')
    <3>1. ~reset /\ (finish => access'.kind = "other")
      BY <1>2, <1>3, <2>4, AccessStep DEF Valid
    <3>2. finish' = finish
      BY <1>1, <1>3, <3>1, <1>2 DEF DeviceClock, RegistersInv
    <3>3. CASE finish
      BY <1>3, <1>4, <3>1, <3>2, <3>3, GreetingStep DEF Awaited, Owes
    <3>4. CASE ~finish
      BY <1>4, <3>2, <3>4 DEF Awaited, Owes, TxWrite
    <3>. QED
      BY <3>3, <3>4
  <2>5. <<>> \o <<>> = <<>>
    OBVIOUS
  <2>. QED
    BY <2>1, <2>2, <2>3, <2>4, <2>5
<1>10. ReceiverInv'
  BY <1>5, <1>8, <1>9 DEF ReceiverInv
<1>. QED
  BY <1>2, <1>7, <1>8, <1>10 DEF DeviceInv

\* While a character is out neither it nor what waits behind it changes.
LEMMA InFrame ==
  ASSUME DeviceInv, ~upset, ~reset, ~TxReady, DeviceNext
  PROVE  /\ Current' = Current /\ Awaited' = Awaited
         /\ finish' = finish /\ idx' = idx
         /\ ~finish => TxWrite /\ access' = access /\ ~putchar'
         /\ due' = Rest
<1>1. DeviceClock /\ Expect
  BY DEF DeviceNext, DeviceEdge, BothEdges, Tock
<1>2. RegistersInv /\ AccessInv /\ FrameInv /\ ReceiverInv
  BY DEF DeviceInv
<1>3. finish' = finish /\ idx' = idx
  <2>1. ~finish => access.kind # "FINISH"
    BY <1>2 DEF AccessInv, TxWrite
  <2>. QED
    BY <1>1, <1>2, <2>1 DEF DeviceClock, RegistersInv
<1>4. ~finish => TxWrite /\ access' = access /\ ~putchar'
  <2>1. ~finish => TxWrite
    BY <1>2 DEF AccessInv
  <2>2. TxWrite => access' = access
    BY <1>2, AccessStep DEF TxWrite, Valid
  <2>3. TxWrite => ~putchar'
    BY <1>1 DEF TxWrite, Valid, DeviceClock, PutcharStep, TxReady
  <2>. QED
    BY <2>1, <2>2, <2>3
<1>5. Current' = Current
  BY <1>3, <1>4 DEF Current
<1>6. Awaited' = Awaited
  <2>1. CASE finish
    BY <1>3, <2>1 DEF Awaited
  <2>2. CASE ~finish
    BY <1>3, <1>4, <2>2 DEF Awaited, TxWrite
  <2>. QED
    BY <2>1, <2>2
<1>7. due' = Rest
  <2>1. Rest \in Seq(Char)
    BY <1>2, Delivery, FirstOf
  <2>2. Rest \o <<>> = Rest
    BY <2>1
  <2>3. ~Valid /\ access' # access => Owes(access') = <<>>
    BY <1>2, <1>4, AccessStep DEF Owes
  <2>4. ~upset'
    BY <1>1 DEF Expect
  <2>. QED
    BY <1>1, <2>2, <2>3, <2>4 DEF Expect, Rest
<1>. QED
  BY <1>3, <1>4, <1>5, <1>6, <1>7

\* LOAD_BIT: the next bit is put on the line.
LEMMA LoadStep ==
  ASSUME DeviceInv, ~upset, ~reset, DeviceNext, Loads
  PROVE  FrameInv' /\ ReceiverInv'
<1>1. DeviceClock /\ Receive
  BY DEF DeviceNext, DeviceEdge, BothEdges, Tock
<1>2. RegistersInv /\ AccessInv /\ FrameInv /\ ReceiverInv
  BY DEF DeviceInv
<1>3. /\ ~TxReady /\ ~TxReady' /\ txState = "LOAD_BIT"
      /\ bitIndex \in 0 .. FrameBits - 1 /\ bitIndex' = bitIndex + 1
      /\ Offset = BIT_TMR_MAX /\ Offset' = 0 /\ txBit' = txData[bitIndex + 1]
  BY <1>2 DEF Loads, RegistersInv, TxReady, Offset
<1>4. /\ Current' = Current /\ Awaited' = Awaited /\ due' = Rest
      /\ finish' = finish /\ idx' = idx /\ (~finish => TxWrite)
  BY <1>3, InFrame
<1>5. /\ Current \in Char /\ access.char \in Char /\ idx \in Nat
      /\ \A i \in Nat : Str(i) \in Char
  BY <1>2, CurrentType, StrType, DeviceAssumption DEF RegistersInv
<1>6. txData = Frame(IF finish /\ bitIndex = 0 THEN Str(idx + 1) ELSE Current)
  BY <1>2, <1>3 DEF FrameInv
<1>7. txBit' = Frame(Current)[bitIndex + 1]
  <2>1. CASE bitIndex = 0
    <3>1. (IF finish /\ bitIndex = 0 THEN Str(idx + 1) ELSE Current) \in Char
      BY <1>5
    <3>2. txData[1] = 0 /\ Frame(Current)[1] = 0
      BY <1>5, <1>6, <3>1, FrameFacts
    <3>. QED
      BY <1>3, <2>1, <3>2
  <2>2. CASE bitIndex # 0
    BY <1>3, <1>6, <2>2
  <2>. QED
    BY <2>1, <2>2
<1>8. txData' = Frame(Current)
  <2>1. CASE Send
    <3>1. txData' = Frame(CharData)
      BY <1>1, <2>1 DEF DeviceClock
    <3>2. CharData = Current
      BY <1>2, <2>1 DEF CharData, Current, Send, RegistersInv
    <3>. QED
      BY <3>1, <3>2
  <2>2. CASE ~Send
    <3>1. txData' = txData
      BY <1>1, <2>2 DEF DeviceClock
    <3>2. finish /\ idx = 0
      BY <1>4, <2>2 DEF Send
    <3>3. Current = Str(1) /\ idx + 1 = 1
      BY <3>2 DEF Current
    <3>. QED
      BY <1>6, <3>1, <3>3
  <2>. QED
    BY <2>1, <2>2
<1>9. FrameInv'
  <2>1. bitIndex' # 0 /\ bitIndex' = bitIndex + 1
    BY <1>3
  <2>. QED
    BY <1>4, <1>7, <1>8, <2>1 DEF FrameInv
<1>10. /\ Tracked' /\ InFlight' /\ Taken' = bitIndex
       /\ InFlight /\ ~HasFrame /\ (Tracked <=> bitIndex > 0)
  BY <1>2, <1>3, PeriodFacts, Reception DEF Tracked, Taken, InFlight
<1>11. rx' = [t |-> bitIndex * Period, bits |-> SubSeq(Frame(Current), 1, bitIndex)]
  <2>1. CASE bitIndex = 0
    <3>1. rx' = [t |-> 0, bits |-> <<>>]
      BY <1>1, <1>2, <1>10, <2>1, Reception
    <3>2. SubSeq(Frame(Current), 1, 0) = <<>> /\ 0 * Period = 0
      BY <1>5, FrameFacts, PeriodFacts
    <3>. QED
      BY <2>1, <3>1, <3>2
  <2>2. CASE bitIndex # 0
    <3>1. /\ rx.t = (bitIndex - 1) * Period + BIT_TMR_MAX
          /\ bitIndex - 1 \in Nat
      BY <1>2, <1>3, <1>10, <2>2 DEF ReceiverInv
    <3>2. rx.t + 1 = bitIndex * Period
      BY <1>3, <3>1, PeriodFacts DEF Period
    <3>3. BIT_TMR_MAX + 1 > Period \div 2
      BY PeriodFacts
    <3>4. rx' = [t |-> rx.t + 1, bits |-> SubSeq(Frame(Current), 1, bitIndex - 0)]
      BY <1>1, <1>2, <1>3, <1>10, <2>2, <3>3, Reception
    <3>. QED
      BY <1>3, <3>2, <3>4
  <2>. QED
    BY <2>1, <2>2
<1>12. due' = <<Current>> \o Awaited
  BY <1>2, <1>4, <1>10, Delivery
<1>13. (bitIndex' - 1) * Period + Offset' = bitIndex * Period
  BY <1>3, PeriodFacts
<1>. QED
  BY <1>4, <1>9, <1>10, <1>11, <1>12, <1>13 DEF ReceiverInv

\* SEND_BIT: the bit stays on the line a cycle longer.
LEMMA HoldStep ==
  ASSUME DeviceInv, ~upset, ~reset, DeviceNext, Holds
  PROVE  FrameInv' /\ ReceiverInv'
<1>1. DeviceClock /\ Receive
  BY DEF DeviceNext, DeviceEdge, BothEdges, Tock
<1>2. RegistersInv /\ AccessInv /\ FrameInv /\ ReceiverInv
  BY DEF DeviceInv
<1>3. /\ ~TxReady /\ txState = "SEND_BIT"
      /\ bitIndex \in 1 .. FrameBits /\ bitIndex' = bitIndex
      /\ Offset \in 0 .. BIT_TMR_MAX - 1 /\ Offset' = Offset + 1 /\ txBit' = txBit
      /\ txState' # "LOAD_BIT" \/ bitIndex < FrameBits
  BY <1>2, PeriodFacts DEF Holds, RegistersInv, TxReady, Offset
<1>4. /\ Current' = Current /\ Awaited' = Awaited /\ due' = Rest
      /\ finish' = finish /\ idx' = idx /\ (~finish => TxWrite /\ access' = access)
  BY <1>3, InFrame
<1>5. txData = Frame(Current) /\ txData' = Frame(Current)
  <2>1. txData = Frame(Current)
    BY <1>2, <1>3 DEF FrameInv
  <2>2. Send => txData' = Frame(CharData) /\ CharData = Current
    BY <1>1, <1>2 DEF DeviceClock, CharData, Current, Send, RegistersInv
  <2>3. ~Send => txData' = txData
    BY <1>1 DEF DeviceClock
  <2>. QED
    BY <2>1, <2>2, <2>3
<1>6. FrameInv'
  BY <1>2, <1>3, <1>4, <1>5 DEF FrameInv
<1>7. /\ Taken' = bitIndex - (IF Offset + 1 > Period \div 2 THEN 0 ELSE 1)
      /\ Tracked' <=> Tracked /\ ~HasFrame
  <2>1. Taken' = bitIndex - (IF Offset + 1 > Period \div 2 THEN 0 ELSE 1)
    BY <1>3 DEF Taken
  <2>2. HasFrame <=> Tracked /\ Offset = Period \div 2 /\ bitIndex = FrameBits
    BY <1>2, Reception
  <2>3. Tracked <=> bitIndex < FrameBits \/ ~(Offset > Period \div 2)
    BY <1>3, PeriodFacts DEF Tracked, Taken
  <2>4. Tracked' <=> bitIndex < FrameBits \/ ~(Offset + 1 > Period \div 2)
    BY <1>3, <2>1, PeriodFacts DEF Tracked
  <2>. QED
    BY <1>3, <2>1, <2>2, <2>3, <2>4, PeriodFacts
<1>8. (InFlight <=> Tracked) /\ (InFlight' <=> Tracked')
  BY <1>3, PeriodFacts DEF InFlight, Tracked
<1>9. due' = (IF InFlight' THEN <<Current>> ELSE <<>>) \o Awaited
  <2>1. <<>> \o Awaited = Awaited
    BY <1>2, AwaitedType, FirstOf
  <2>. QED
    BY <1>2, <1>4, <1>7, <1>8, <2>1, Delivery
<1>10. rx' = IF Tracked' THEN [t |-> (bitIndex - 1) * Period + (Offset + 1),
                               bits |-> SubSeq(Frame(Current), 1, Taken')]
                         ELSE [t |-> 0, bits |-> <<>>]
  <2>1. CASE Tracked'
    <3>1. Tracked /\ ~HasFrame
      BY <1>7, <2>1
    <3>2. rx.t = (bitIndex - 1) * Period + Offset
      BY <1>2, <3>1 DEF ReceiverInv
    <3>3. rx.t + 1 = (bitIndex - 1) * Period + (Offset + 1)
      BY <1>3, <3>2, PeriodFacts
    <3>. QED
      BY <1>1, <1>2, <1>7, <2>1, <3>1, <3>3, Reception
  <2>2. CASE ~Tracked'
    BY <1>1, <1>2, <1>7, <2>2, Reception
  <2>. QED
    BY <2>1, <2>2
<1>. QED
  BY <1>3, <1>4, <1>6, <1>9, <1>10 DEF ReceiverInv

\* In the state RDY the receiver has the frame before the edge or at it.
LEMMA ReadyStep ==
  ASSUME DeviceInv, ~upset, DeviceNext, TxReady, bitIndex' = 0
  PROVE  /\ Rest = Awaited
         /\ rx' = [t |-> 0, bits |-> <<>>] /\ ~Tracked'
<1>1. Receive /\ RegistersInv /\ FrameInv /\ ReceiverInv
  BY DEF DeviceNext, DeviceEdge, BothEdges, Tock, DeviceInv
<1>2. txState = "RDY" /\ bitIndex \in {0, FrameBits} /\ Offset = BIT_TMR_MAX
  BY <1>1 DEF RegistersInv, TxReady, Offset
<1>3. Tracked => bitIndex = FrameBits /\ Offset = Period \div 2
  <2>1. Period = BIT_TMR_MAX + 1
    BY DEF Period
  <2>2. Tracked => bitIndex = FrameBits /\ ~(BIT_TMR_MAX > Period \div 2)
    BY <1>2, PeriodFacts DEF Tracked, Taken
  <2>. QED
    BY <1>2, <2>1, <2>2, PeriodFacts
<1>4. Tracked => HasFrame
  BY <1>1, <1>3, Reception
<1>5. InFlight <=> Tracked
  BY <1>2 DEF InFlight
<1>6. Rest = Awaited
  BY <1>1, <1>4, <1>5, Delivery
<1>7. rx' = [t |-> 0, bits |-> <<>>]
  BY <1>1, <1>4, Reception
<1>. QED
  BY <1>6, <1>7 DEF Tracked

\* A character is taken: of what was awaited it is the first.
LEMMA StartStep ==
  ASSUME DeviceInv, ~upset, ~reset, DeviceNext, Starts
  PROVE  FrameInv' /\ ReceiverInv' /\ (~finish' => TxWrite')
<1>1. DeviceClock /\ Expect
  BY DEF DeviceNext, DeviceEdge, BothEdges, Tock
<1>2. RegistersInv /\ RegistersInv' /\ AccessInv /\ FrameInv /\ ReceiverInv
  BY RegistersStep DEF DeviceInv
<1>3. /\ TxReady /\ Send /\ putchar /\ ~TxReady' /\ txState' = "LOAD_BIT"
      /\ bitIndex' = 0 /\ txBit' = 1 /\ txData' = Frame(CharData)
  BY DEF Starts, TxReady
<1>4. Rest = Awaited /\ rx' = [t |-> 0, bits |-> <<>>] /\ ~Tracked'
  BY <1>3, ReadyStep
<1>5. InFlight' /\ ~upset'
  BY <1>1, <1>3 DEF InFlight, Expect
<1>6. CASE finish
  <2>0. ~TxWrite /\ idx # 0 /\ idx \in 0 .. Len(Greeting)
    BY <1>2, <1>3, <1>6 DEF RegistersInv, Send
  <2>1. finish' /\ idx \in Nat \ {0} /\ idx' = idx - 1 /\ CharData = Str(idx)
    <3>1. finish' /\ idx' = idx - 1
      BY <1>1, <1>3, <1>6 DEF DeviceClock
    <3>2. CharData = Str(idx)
      BY <1>6 DEF CharData
    <3>. QED
      BY <2>0, <3>1, <3>2, DeviceAssumption
  <2>2. FrameInv'
    <3>1. idx' + 1 = idx
      BY <2>1
    <3>. QED
      BY <1>3, <2>1, <3>1 DEF FrameInv
  <2>3. Current' = IF idx = 1 THEN Str(1) ELSE Str(idx - 1)
    BY <2>1 DEF Current
  <2>4. Awaited = <<Current'>> \o Awaited'
    <3>1. Awaited = GreetingFrom(idx)
      BY <1>6 DEF Awaited
    <3>2. Awaited' = GreetingFrom(idx')
      BY <2>1 DEF Awaited
    <3>3. Awaited' = GreetingFrom(idx - 1)
      BY <2>1, <3>2
    <3>4. GreetingFrom(idx) =
            <<IF idx = 1 THEN Str(1) ELSE Str(idx - 1)>> \o GreetingFrom(idx - 1)
      <4>1. idx \in Nat /\ idx > 0
        BY <2>1
      <4>. QED
        BY <4>1, GreetingStep
    <3>. QED
      BY <2>3, <3>1, <3>3, <3>4
  <2>5. due' = Awaited
    <3>1. Awaited \o <<>> = Awaited
      BY <1>2, AwaitedType
    <3>2. ~Valid /\ access' # access => Owes(access') = <<>>
      BY <1>2, <1>6, AccessStep DEF Owes
    <3>. QED
      BY <1>1, <1>4, <1>5, <3>1, <3>2 DEF Expect, Rest
  <2>. QED
    BY <1>4, <1>5, <2>1, <2>2, <2>4, <2>5 DEF ReceiverInv
<1>7. CASE ~finish
  <2>1. TxWrite /\ phase = 1 /\ Valid
    BY <1>2, <1>3, <1>7 DEF Send, AccessInv, TxWrite, Valid
  <2>2. access' = access
    BY <1>2, <2>1, AccessStep
  <2>3. ~finish' /\ TxWrite' /\ CharData = access.char
    BY <1>1, <1>7, <2>1, <2>2 DEF DeviceClock, TxWrite, CharData
  <2>4. Current' = access.char
    BY <2>2, <2>3 DEF Current
  <2>5. FrameInv'
    BY <1>3, <2>3, <2>4 DEF FrameInv
  <2>6. Awaited = <<access.char>> /\ Awaited' = <<>>
    BY <1>3, <1>7, <2>1, <2>3, <2>2 DEF Awaited, TxWrite
  <2>7. due' = Awaited
    BY <1>1, <1>4, <1>5, <2>1 DEF Expect, Rest
  <2>8. <<access.char>> \o <<>> = <<access.char>>
    BY <1>2, CurrentType
  <2>. QED
    BY <1>4, <1>5, <2>3, <2>4, <2>5, <2>6, <2>7, <2>8 DEF ReceiverInv
<1>. QED
  BY <1>6, <1>7

\* Nothing is taken, and an access may come up or be answered.
LEMMA RestStep ==
  ASSUME DeviceInv, ~upset, ~reset, DeviceNext, Rests
  PROVE  FrameInv' /\ ReceiverInv'
<1>1. DeviceClock /\ Expect
  BY DEF DeviceNext, DeviceEdge, BothEdges, Tock
<1>2. RegistersInv /\ RegistersInv' /\ AccessInv /\ FrameInv /\ ReceiverInv
  BY RegistersStep DEF DeviceInv
<1>3. /\ TxReady /\ ~(Send /\ putchar) /\ TxReady' /\ bitIndex' = 0 /\ txBit' = 1
      /\ txState' = "RDY"
  BY DEF Rests, TxReady
<1>4. Rest = Awaited /\ rx' = [t |-> 0, bits |-> <<>>] /\ ~Tracked' /\ ~InFlight'
  BY <1>3, ReadyStep DEF InFlight, TxReady
<1>5. FrameInv'
  BY <1>3 DEF FrameInv
<1>6. ~upset'
  BY <1>1 DEF Expect
<1>7. due' = IF ~Valid /\ access' # access THEN Awaited \o Owes(access') ELSE Awaited
  BY <1>1, <1>4, <1>6 DEF Expect, Rest
<1>8. due' = Awaited' /\ <<>> \o Awaited' = Awaited'
  <2>0. <<>> \o <<>> = <<>> /\ <<>> \o Awaited = Awaited
    BY <1>2, AwaitedType
  <2>1. CASE finish
    <3>1. idx = 0 /\ idx' = 0 /\ finish'
      BY <1>1, <1>2, <1>3, <2>1 DEF DeviceClock, RegistersInv, Send
    <3>2. Awaited = <<>> /\ Awaited' = <<>>
      BY <2>1, <3>1, GreetingStep DEF Awaited
    <3>3. ~Valid /\ access' # access => Owes(access') = <<>>
      BY <1>2, <2>1, AccessStep DEF Owes
    <3>. QED
      BY <1>7, <2>0, <3>2, <3>3
  <2>2. CASE ~finish /\ Valid
    <3>1. access' = access \/ access'.kind = "none"
      BY <1>2, <2>2, AccessStep DEF NoAccess
    <3>2. idx' = idx
      BY <1>1, <2>2 DEF DeviceClock
    <3>3. CASE TxWrite
      <4>1. ~putchar /\ ~putchar'
        BY <1>1, <1>3, <2>2, <3>3
           DEF Send, DeviceClock, PutcharStep, TxReady
      <4>2. ~finish'
        BY <1>1, <2>2, <3>3 DEF DeviceClock, TxWrite
      <4>3. Awaited = <<>>
        BY <2>2, <3>3, <4>1 DEF Awaited, TxWrite
      <4>4. Awaited' = <<>>
        BY <3>1, <3>3, <4>1, <4>2 DEF Awaited, TxWrite
      <4>. QED
        BY <1>7, <2>0, <2>2, <4>3, <4>4
    <3>4. CASE access.kind = "FINISH"
      <4>1. finish'
        BY <1>1, <3>4 DEF DeviceClock
      <4>2. Awaited = GreetingFrom(idx) /\ Awaited' = GreetingFrom(idx')
        BY <2>2, <3>4, <4>1 DEF Awaited, TxWrite
      <4>. QED
        BY <1>7, <2>0, <2>2, <3>2, <4>2
    <3>5. CASE access.kind = "other"
      <4>1. ~finish'
        BY <1>1, <2>2, <3>5 DEF DeviceClock
      <4>2. Awaited = <<>> /\ Awaited' = <<>>
        BY <2>2, <3>1, <3>5, <4>1 DEF Awaited, TxWrite
      <4>. QED
        BY <1>7, <2>0, <2>2, <4>2
    <3>. QED
      BY <1>2, <2>2, <3>3, <3>4, <3>5 DEF RegistersInv, Valid, TxWrite
  <2>3. CASE ~finish /\ ~Valid
    <3>1. ~finish' /\ idx' = idx /\ putchar' = TRUE
      BY <1>1, <2>3 DEF DeviceClock, Valid, PutcharStep
    <3>2. Awaited = <<>>
      BY <2>3 DEF Awaited, Valid, TxWrite
    <3>3. Awaited' = Owes(access')
      BY <1>3, <3>1 DEF Awaited, Owes, TxWrite
    <3>4. <<>> \o Owes(access') = Owes(access')
      BY <1>2, GreetingStep, DeviceAssumption DEF Owes, RegistersInv
    <3>5. access' = access => Owes(access') = <<>>
      BY <2>3 DEF Owes, Valid
    <3>. QED
      BY <1>7, <2>3, <3>2, <3>3, <3>4, <3>5
  <2>. QED
    BY <2>1, <2>2, <2>3
<1>. QED
  BY <1>4, <1>5, <1>8 DEF ReceiverInv

\* A character of the program is taken in the cycle after it comes up, which is
\* before the CPU looks, and held until it is out.
LEMMA AccessInvStep ==
  ASSUME DeviceInv, ~upset, ~reset, DeviceNext
  PROVE  AccessInv'
<1>1. DeviceClock /\ phase' = (phase + 1) % Ratio
  BY DEF DeviceNext, DeviceEdge, BothEdges, Tock
<1>2. RegistersInv /\ RegistersInv' /\ AccessInv
  BY RegistersStep DEF DeviceInv
<1>3. CASE Rests
  <2>1. TxReady /\ TxReady' /\ bitIndex' = 0 /\ ~(Send /\ putchar)
    BY <1>3 DEF Rests
  <2>2. ASSUME TxWrite', putchar'
        PROVE  phase' = 1
    <3>1. CASE TxWrite
      <4>1. ~putchar /\ Valid
        BY <2>1, <3>1 DEF Send, TxWrite, Valid
      <4>2. ~reset /\ txState = "RDY"
        BY <2>1 DEF TxReady
      <4>3. ~putchar'
        BY <1>1, <4>1, <4>2 DEF DeviceClock, PutcharStep
      <4>. QED
        BY <2>2, <4>3
    <3>2. CASE ~TxWrite
      <4>1. access' # access /\ access'.kind = "TX_DATA"
        BY <2>2, <3>2 DEF TxWrite
      <4>2. ~Valid
        BY <1>2, <4>1, AccessStep DEF NoAccess
      <4>3. phase = 0
        BY <1>2, <4>1, <4>2, AccessStep
      <4>. QED
        BY <1>1, <4>3, DeviceAssumption
    <3>. QED
      BY <3>1, <3>2
  <2>. QED
    BY <2>1, <2>2 DEF AccessInv
<1>4. CASE Starts
  <2>1. ~TxReady' /\ bitIndex' = 0
    BY <1>4 DEF Starts, TxReady
  <2>2. ~finish' => TxWrite'
    BY <1>4, StartStep
  <2>. QED
    BY <2>1, <2>2 DEF AccessInv
<1>5. CASE Loads \/ Holds
  <2>1. ~TxReady
    BY <1>5 DEF Loads, Holds, TxReady
  <2>2. /\ finish' = finish /\ (~finish => TxWrite /\ access' = access /\ ~putchar')
    BY <2>1, InFrame
  <2>3. TxWrite' => ~finish'
    BY <1>2 DEF RegistersInv
  <2>. QED
    BY <2>2, <2>3 DEF AccessInv, TxWrite
<1>. QED
  BY <1>1, <1>2, <1>3, <1>4, <1>5, TransmitterStep

LEMMA DeviceInvInit == DeviceInit => DeviceInv
<1> SUFFICES ASSUME DeviceInit PROVE DeviceInv
  OBVIOUS
<1>1. /\ ~finish /\ TxReady /\ bitIndex = 0 /\ access = NoAccess /\ putchar = TRUE
      /\ ~TxWrite /\ ~Valid /\ due = <<>> /\ txBit = 1 /\ txState = "RDY"
      /\ access.kind = "none" /\ ~upset /\ spurious = FALSE
      /\ rx = [t |-> 0, bits |-> <<>>]
  BY DEF DeviceInit, TxReady, NoAccess, TxWrite, Valid
<1>2. RegistersInv
  <2>1. idx \in 0 .. Len(Greeting) /\ phase \in 0 .. Ratio - 1
    BY DeviceAssumption DEF DeviceInit
  <2>2. access \in [kind : {"none", "other", "FINISH", "TX_DATA"}, char : Char]
    BY <1>1 DEF NoAccess, ZeroChar, Char
  <2>3. /\ finish \in BOOLEAN /\ putchar \in BOOLEAN /\ reset \in BOOLEAN
        /\ upset \in BOOLEAN /\ bitTmr = 0
    BY DEF DeviceInit
  <2>4. bitIndex \in {0, FrameBits} /\ rx.t \in Nat
    BY <1>1
  <2>. QED
    BY <1>1, <2>1, <2>2, <2>3, <2>4 DEF RegistersInv
<1>3. ~InFlight /\ ~Tracked /\ Awaited = <<>>
  BY <1>1 DEF InFlight, Tracked, Awaited
<1>4. AccessInv /\ FrameInv
  BY <1>1 DEF AccessInv, FrameInv
<1>5. ReceiverInv
  BY <1>1, <1>3 DEF ReceiverInv
<1>. QED
  BY <1>1, <1>2, <1>4, <1>5 DEF DeviceInv

LEMMA DeviceInvStep == DeviceInv /\ [DeviceNext]_deviceVars => DeviceInv'
<1>1. ASSUME DeviceInv, DeviceNext
      PROVE  DeviceInv'
  <2>1. DeviceClock /\ Expect
    BY <1>1 DEF DeviceNext, DeviceEdge, BothEdges, Tock
  <2>2. RegistersInv /\ RegistersInv'
    BY <1>1, RegistersStep DEF DeviceInv
  <2>3. CASE Idle
    BY <1>1, <2>3, QuietStep
  <2>4. CASE ~Idle /\ (upset \/ reset)
    <3>1. upset' /\ due' = <<>> /\ spurious' = FALSE
      BY <1>1, <2>1, <2>4 DEF Expect, DeviceInv
    <3>. QED
      BY <2>2, <3>1 DEF DeviceInv
  <2>5. CASE ~Idle /\ ~upset /\ ~reset
    <3>1. RegistersInv /\ FrameInv /\ ReceiverInv
      BY <1>1, <2>5 DEF DeviceInv
    <3>2. ~upset' /\ spurious' = FALSE
      BY <1>1, <2>1, <2>5, <3>1, Delivery DEF Expect, DeviceInv
    <3>3. FrameInv' /\ ReceiverInv'
      BY <1>1, <2>1, <2>2, <2>5, TransmitterStep, RestStep, StartStep, LoadStep, HoldStep
    <3>4. AccessInv'
      BY <1>1, <2>5, AccessInvStep
    <3>. QED
      BY <2>2, <3>2, <3>3, <3>4 DEF DeviceInv
  <2>. QED
    BY <2>3, <2>4, <2>5
<1>2. ASSUME DeviceInv, UNCHANGED deviceVars
      PROVE  DeviceInv'
  BY <1>2 DEF deviceVars, deviceRegs, DeviceInv, RegistersInv, AccessInv, FrameInv,
              ReceiverInv, TxWrite, Valid, TxReady, Current, Tracked, Taken, Offset,
              InFlight, Awaited
<1>. QED
  BY <1>1, <1>2

\* The inductive invariant: transmitter, receiver, the access and what is due agree
\* in every cycle, unless a reset has just hit them (device.sv 100-199).
THEOREM DeviceInvariant == DeviceSpec => []DeviceInv
<1>. QED
  BY DeviceInvInit, DeviceInvStep, PTL DEF DeviceSpec

\* Every character the program writes, and the greeting, is heard once and in order
\* (device.sv 132-190), whenever the CPU's clock is slower than the device's.
THEOREM WritesAreHeard == DeviceSpec => []WrittenIsHeard
<1>1. ASSUME DeviceInv
      PROVE  WrittenIsHeard
  <2>1. SUFFICES ASSUME ~upset, ~Valid, finish => Idle
                 PROVE  due = <<>>
    BY <1>1 DEF WrittenIsHeard, DeviceInv
  <2>2. RegistersInv /\ AccessInv /\ ReceiverInv
    BY <1>1, <2>1 DEF DeviceInv
  <2>3. /\ TxReady /\ txState = "RDY" /\ (finish => idx = 0)
        /\ ~finish => bitIndex = 0
        /\ finish => ~Listening
    BY <2>1, <2>2, PeriodFacts DEF AccessInv, Idle, Valid, TxWrite, TxReady, RegistersInv
  <2>4. Awaited = <<>>
    BY <2>1, <2>3, GreetingStep DEF Awaited, TxWrite, Valid
  <2>5. ~Tracked
    <3>1. SUFFICES ASSUME Tracked PROVE FALSE
      OBVIOUS
    <3>2. bitIndex = FrameBits /\ finish /\ Offset = BIT_TMR_MAX
      BY <2>2, <2>3, <3>1 DEF Tracked, RegistersInv, Offset
    <3> DEFINE q == bitIndex - 1
    <3>3. rx.t = q * Period + Offset
      BY <2>2, <3>1 DEF ReceiverInv
    <3>4. /\ q \in Nat /\ Period \in Nat \ {0} /\ Offset \in 0 .. Period - 1
          /\ Offset # 0
      BY <3>2, PeriodFacts DEF Period
    <3> HIDE DEF q
    <3>5. q * Period + Offset \in Nat /\ q * Period + Offset # 0
      BY <3>4, WithinBit
    <3>. QED
      BY <2>3, <3>2, <3>3, <3>5 DEF Listening
  <2>6. ~InFlight
    BY <2>3, <2>5 DEF InFlight
  <2>. QED
    BY <2>2, <2>4, <2>6 DEF ReceiverInv
<1>. QED
  BY <1>1, DeviceInvariant, PTL

-----------------------------------------------------------------------------
(* An access is answered in time.                                          *)

\* The cycles until the frame on the line is out, and the characters still to be
\* sent while the access is on the bus: the greeting, once FINISH is written, or
\* the one that is written.
FrameLeft ==
  CASE txState = "RDY"      -> 0
    [] txState = "LOAD_BIT" -> (FrameBits - bitIndex) * Period
    [] txState = "SEND_BIT" -> (FrameBits - bitIndex) * Period + Period - bitTmr
GreetingLeft == IF finish \/ access.kind = "FINISH" THEN idx ELSE 0
WriteLeft    == IF TxWrite /\ putchar /\ TxReady THEN 1 ELSE 0
Unlatched    == IF access.kind = "FINISH" /\ ~finish THEN 1 ELSE 0
FrameCycles  == FrameBits * Period + 1

\* The cycles until the transmitter is idle for good, and those until the next edge
\* of the CPU's clock, that edge included.
UntilQuiet == FrameLeft + (GreetingLeft + WriteLeft) * FrameCycles + Unlatched
UntilEdge  == IF phase = 0 THEN 1 ELSE Ratio - phase + 1

\* The cycles until the access is answered, or withdrawn by a reset, at most.  The
\* transmitter may be idle for one cycle between two characters; the CPU, which
\* looks every Ratio-th cycle, may see that or not.
CyclesToAnswer ==
  IF ~Valid THEN 0
  ELSE IF reset \/ UntilQuiet = 0 THEN UntilEdge ELSE UntilQuiet + Ratio

AnsweredInTime ==
  [][Valid => ~Valid' \/ CyclesToAnswer' < CyclesToAnswer]_deviceVars

LEMMA Products ==
  ASSUME NEW i \in Nat, NEW n \in Nat
  PROVE  /\ i * n \in Nat /\ 0 * n = 0 /\ 1 * n = n /\ (i + 1) * n = i * n + n
         /\ i # 0 => (i - 1) * n = i * n - n /\ i * n >= n
         /\ \A j \in 0 .. i : j * n <= i * n
<1>1. i * n \in Nat /\ 0 * n = 0 /\ 1 * n = n /\ (i + 1) * n = i * n + n
  OBVIOUS
<1>2. (i - 1) * n = i * n - n
  OBVIOUS
<1>3. ASSUME NEW j \in 0 .. i PROVE j * n <= i * n
  <2>1. (i - j) * n \in Nat /\ i * n = j * n + (i - j) * n /\ j * n \in Nat
    OBVIOUS
  <2> QED BY <1>1, <2>1
<1>4. i # 0 => i * n >= n
  BY <1>1, <1>3
<1> QED BY <1>1, <1>2, <1>3, <1>4

LEMMA QuietTypes ==
  ASSUME RegistersInv
  PROVE  /\ FrameCycles \in Nat /\ FrameCycles > 1 /\ FrameCycles = FrameBits * Period + 1
         /\ FrameLeft \in 0 .. FrameCycles - 1 /\ (FrameLeft = 0 <=> TxReady)
         /\ GreetingLeft \in 0 .. Len(Greeting) /\ WriteLeft \in {0, 1}
         /\ Unlatched \in {0, 1} /\ Len(Greeting) \in Nat
         /\ (GreetingLeft + WriteLeft) * FrameCycles \in Nat
         /\ UntilQuiet \in Nat
         /\ UntilQuiet = 0 => TxReady /\ Unlatched = 0
         /\ UntilEdge \in 1 .. Ratio
<1>1. Period \in Nat /\ FrameBits \in Nat /\ FrameBits * Period \in Nat /\ Period > 1
  BY PeriodFacts
<1>2. FrameCycles \in Nat /\ FrameCycles = FrameBits * Period + 1 /\ FrameBits * Period >= Period
  BY <1>1, PeriodFacts, Products DEF FrameCycles
<1>3. FrameLeft \in 0 .. FrameCycles - 1 /\ (FrameLeft = 0 <=> TxReady)
  <2>1. CASE txState = "RDY"
    BY <1>1, <1>2, <2>1 DEF FrameLeft, TxReady
  <2>2. CASE txState = "LOAD_BIT"
    <3>1. bitIndex \in 0 .. FrameBits - 1
      BY <2>2 DEF RegistersInv
    <3> DEFINE k == FrameBits - bitIndex
    <3>2. k \in Nat /\ k # 0 /\ k <= FrameBits
      BY <1>1, <3>1
    <3>3. FrameLeft = k * Period
      BY <2>2 DEF FrameLeft
    <3> HIDE DEF k
    <3>4. k * Period >= Period /\ k * Period <= FrameBits * Period /\ k * Period \in Nat
      BY <1>1, <3>2, Products
    <3> QED BY <1>1, <1>2, <2>2, <3>3, <3>4 DEF TxReady
  <2>3. CASE txState = "SEND_BIT"
    <3>1. bitIndex \in 1 .. FrameBits /\ bitTmr \in 1 .. BIT_TMR_MAX
      BY <2>3 DEF RegistersInv
    <3> DEFINE k == FrameBits - bitIndex
    <3>2. k \in Nat /\ k <= FrameBits - 1 /\ FrameBits - 1 \in Nat
      BY <1>1, <3>1
    <3>3. FrameLeft = k * Period + Period - bitTmr
      BY <2>3 DEF FrameLeft
    <3> HIDE DEF k
    <3>4. k * Period <= (FrameBits - 1) * Period /\ k * Period \in Nat
      BY <1>1, <3>2, Products
    <3>5. (FrameBits - 1) * Period = FrameBits * Period - Period
      BY <1>1, PeriodFacts, Products
    <3>6. Period - bitTmr \in 1 .. Period
      BY <3>1, PeriodFacts DEF Period
    <3> QED BY <1>1, <1>2, <2>3, <3>3, <3>4, <3>5, <3>6 DEF TxReady
  <2> QED BY <2>1, <2>2, <2>3 DEF RegistersInv
<1>4. /\ GreetingLeft \in 0 .. Len(Greeting) /\ WriteLeft \in {0, 1}
      /\ Unlatched \in {0, 1} /\ Len(Greeting) \in Nat
  BY DeviceAssumption DEF RegistersInv, GreetingLeft, WriteLeft, Unlatched
<1>5. (GreetingLeft + WriteLeft) * FrameCycles \in Nat
  BY <1>2, <1>4
<1>6. UntilQuiet \in Nat /\ (UntilQuiet = 0 => FrameLeft = 0 /\ Unlatched = 0)
  BY <1>2, <1>3, <1>4, <1>5 DEF UntilQuiet
<1>7. UntilEdge \in 1 .. Ratio
  BY DeviceAssumption DEF RegistersInv, UntilEdge
<1> QED BY <1>1, <1>2, <1>3, <1>4, <1>5, <1>6, <1>7

\* While an access is held the transmitter comes nearer to being idle for good.
LEMMA QuietNearer ==
  ASSUME RegistersInv, RegistersInv', DeviceClock, ~reset, Valid, access' = access
  PROVE  /\ UntilQuiet = 0 => UntilQuiet' = 0
         /\ UntilQuiet # 0 => UntilQuiet' < UntilQuiet
<1> DEFINE n == FrameCycles
           c == GreetingLeft + WriteLeft
<1>1. /\ n \in Nat /\ n > 1 /\ n = FrameBits * Period + 1 /\ Period > 1
      /\ FrameLeft \in Nat /\ c \in Nat /\ c * n \in Nat /\ UntilQuiet \in Nat
      /\ GreetingLeft \in Nat /\ WriteLeft \in {0, 1} /\ Unlatched \in {0, 1}
      /\ Period \in Nat /\ FrameBits \in Nat
  BY QuietTypes, PeriodFacts
<1>2. UntilQuiet = FrameLeft + c * n + Unlatched /\ UntilQuiet' = FrameLeft' + c' * n + Unlatched'
  BY DEF UntilQuiet, FrameCycles
<1>3. /\ finish' \/ access'.kind = "FINISH" <=> finish \/ access.kind = "FINISH"
      /\ Unlatched' = 0
      /\ access.kind = "FINISH" => finish'
      /\ TxWrite' = TxWrite
  BY DEF DeviceClock, Unlatched, TxWrite
<1>4. /\ access.kind \in {"other", "FINISH", "TX_DATA"}
      /\ finish \in BOOLEAN /\ putchar \in BOOLEAN
      /\ idx \in Nat /\ (TxWrite => ~finish) /\ (finish => putchar)
  BY DeviceAssumption DEF RegistersInv, Valid
<1>5. putchar' = IF TxWrite /\ txState # "RDY" THEN FALSE ELSE putchar
  BY DEF DeviceClock, PutcharStep
<1>6. idx' = IF Send /\ finish /\ TxReady THEN idx - 1 ELSE idx
  BY DEF DeviceClock
<1>7. CASE Rests
  <2>1. TxReady /\ TxReady' /\ FrameLeft = 0 /\ FrameLeft' = 0 /\ ~(Send /\ putchar)
    BY <1>7 DEF Rests, FrameLeft, TxReady
  <2>2. idx' = idx
    BY <1>4, <1>6, <2>1
  <2>3. GreetingLeft' = GreetingLeft
    BY <1>3, <2>2 DEF GreetingLeft
  <2>4. WriteLeft = 0 /\ WriteLeft' = 0
    <3>1. CASE TxWrite
      <4>1. ~putchar /\ ~putchar'
        BY <1>4, <1>5, <2>1, <3>1 DEF Send, TxReady
      <4> QED BY <4>1 DEF WriteLeft
    <3>2. CASE ~TxWrite
      BY <1>3, <3>2 DEF WriteLeft
    <3> QED BY <3>1, <3>2
  <2>5. c' = c
    BY <2>3, <2>4
  <2> HIDE DEF c, n
  <2>6. UntilQuiet = c * n + Unlatched /\ UntilQuiet' = c * n
    BY <1>1, <1>2, <1>3, <2>1, <2>5
  <2>7. Unlatched = 0 => c * n = 0
    <3>1. SUFFICES ASSUME Unlatched = 0 PROVE c = 0
      BY <1>1, Products
    <3>2. GreetingLeft = 0
      BY <1>4, <2>1, <3>1 DEF GreetingLeft, Unlatched, Send
    <3> QED BY <2>4, <3>2 DEF c
  <2> QED BY <1>1, <2>6, <2>7
<1>8. CASE Starts
  <2>1. TxReady /\ Send /\ putchar /\ FrameLeft = 0 /\ FrameLeft' = FrameBits * Period
        /\ ~TxReady'
    BY <1>1, <1>8 DEF Starts, FrameLeft, TxReady
  <2>2. c # 0 /\ c' = c - 1
    <3>1. WriteLeft' = 0
      BY <2>1 DEF WriteLeft
    <3>2. CASE finish
      <4>1. ~TxWrite /\ WriteLeft = 0 /\ idx # 0 /\ idx' = idx - 1
        BY <1>4, <1>6, <2>1, <3>2 DEF Send, WriteLeft
      <4>2. GreetingLeft = idx /\ GreetingLeft' = idx - 1
        BY <1>3, <3>2, <4>1 DEF GreetingLeft
      <4> QED BY <1>4, <3>1, <4>1, <4>2
    <3>3. CASE ~finish
      <4>1. TxWrite /\ access.kind # "FINISH" /\ WriteLeft = 1
        BY <2>1, <3>3 DEF Send, WriteLeft, TxWrite
      <4>2. GreetingLeft = 0 /\ GreetingLeft' = 0
        BY <1>3, <3>3, <4>1 DEF GreetingLeft
      <4> QED BY <3>1, <4>1, <4>2
    <3> QED BY <1>4, <3>2, <3>3
  <2> HIDE DEF c, n
  <2>3. c' * n = c * n - n /\ c * n >= n
    BY <1>1, <2>2, Products
  <2> QED BY <1>1, <1>2, <1>3, <2>1, <2>3
<1>9. CASE Loads \/ Holds
  <2>1. ~TxReady /\ idx' = idx /\ txState # "RDY"
    BY <1>6, <1>9 DEF Loads, Holds, TxReady
  <2>2. GreetingLeft' = GreetingLeft
    BY <1>3, <2>1 DEF GreetingLeft
  <2>3. WriteLeft = 0 /\ WriteLeft' = 0
    BY <1>3, <1>5, <2>1 DEF WriteLeft
  <2>4. c' = c
    BY <2>2, <2>3
  <2>5. FrameLeft' = FrameLeft - 1
    <3>1. CASE Loads
      <4> DEFINE k == FrameBits - bitIndex
      <4>1. bitIndex \in 0 .. FrameBits - 1
        BY <3>1 DEF Loads, RegistersInv
      <4>2. k \in Nat /\ k # 0 /\ FrameBits - (bitIndex + 1) = k - 1
        BY <1>1, <4>1
      <4>3. FrameLeft = k * Period
        BY <3>1 DEF Loads, FrameLeft
      <4>4. FrameLeft' = (FrameBits - (bitIndex + 1)) * Period + Period - 1
        BY <3>1 DEF Loads, FrameLeft
      <4> HIDE DEF k
      <4>5. (k - 1) * Period = k * Period - Period /\ k * Period \in Nat
        BY <1>1, <4>2, Products
      <4> QED BY <1>1, <4>2, <4>3, <4>4, <4>5
    <3>2. CASE Holds
      <4> DEFINE a == (FrameBits - bitIndex) * Period
      <4>1. bitIndex \in 1 .. FrameBits /\ bitTmr \in 1 .. BIT_TMR_MAX /\ bitIndex' = bitIndex
        BY <3>2 DEF Holds, RegistersInv
      <4>2. a \in Nat
        BY <1>1, <4>1
      <4>3. FrameLeft = a + Period - bitTmr
        BY <3>2 DEF Holds, FrameLeft
      <4>4. Offset = bitTmr - 1 /\ Offset' = bitTmr /\ Period = BIT_TMR_MAX + 1
        BY <3>2, <4>1 DEF Holds, Offset, Period
      <4>5. CASE txState' = "SEND_BIT"
        <5>1. FrameLeft' = a + Period - bitTmr'
          BY <4>1, <4>5 DEF FrameLeft
        <5>2. bitTmr' # 0
          BY <3>2, <4>5 DEF Holds
        <5>4. bitTmr' = bitTmr + 1
          BY <5>2 DEF DeviceClock
        <5>3. bitTmr \in Nat
          BY <4>1, PeriodFacts
        <5> HIDE DEF a
        <5>5. Period \in Nat
          BY <1>1
        <5>6. FrameLeft = a + Period - bitTmr /\ FrameLeft' = a + Period - (bitTmr + 1)
          BY <4>3, <5>1, <5>4
        <5> QED BY ONLY <4>2, <5>3, <5>5, <5>6
      <4>6. CASE txState' # "SEND_BIT"
        <5>1. bitTmr = BIT_TMR_MAX
          BY <4>4, <4>6 DEF Offset
        <5>2. FrameLeft' = a
          <6>1. CASE txState' = "LOAD_BIT"
            BY <4>1, <6>1 DEF FrameLeft
          <6>2. CASE txState' = "RDY"
            <7>1. bitIndex = FrameBits
              BY <3>2, <6>2 DEF Holds
            <7>2. a = 0
              BY <1>1, <7>1
            <7> HIDE DEF a
            <7> QED BY <6>2, <7>2 DEF FrameLeft
          <6> QED BY <3>2, <4>6, <6>1, <6>2 DEF Holds
        <5> HIDE DEF a
        <5> QED BY <1>1, <4>2, <4>3, <4>4, <5>1, <5>2, PeriodFacts
      <4> QED BY <4>5, <4>6
    <3> QED BY <1>9, <3>1, <3>2
  <2>6. FrameLeft # 0
    BY <2>1, QuietTypes
  <2> HIDE DEF c, n
  <2> QED BY <1>1, <1>2, <1>3, <2>4, <2>5, <2>6
<1> QED BY <1>7, <1>8, <1>9, TransmitterStep

\* Whatever happens, in each cycle the answer comes nearer.
LEMMA InTimeStep ==
  ASSUME RegistersInv, RegistersInv', DeviceNext, Valid, Valid'
  PROVE  CyclesToAnswer' < CyclesToAnswer
<1>1. /\ UntilQuiet \in Nat /\ UntilEdge \in 1 .. Ratio /\ Ratio \in Nat /\ Ratio > 1
      /\ UntilQuiet = 0 => TxReady
  BY QuietTypes, DeviceAssumption
<1>2. UntilQuiet' \in Nat /\ UntilEdge' \in 1 .. Ratio
  <2>1. (RegistersInv => UntilQuiet \in Nat /\ UntilEdge \in 1 .. Ratio)'
    BY QuietTypes, PTL
  <2> QED BY <2>1
<1>3. access' = access /\ DeviceClock /\ phase' = (phase + 1) % Ratio /\ Press
  BY AccessStep DEF DeviceNext, DeviceEdge, BothEdges, Tock, Valid, NoAccess
<1>4. phase # 0 => UntilEdge' = UntilEdge - 1
  <2>1. SUFFICES ASSUME phase # 0 PROVE UntilEdge' = UntilEdge - 1
    OBVIOUS
  <2>2. phase \in 1 .. Ratio - 1
    BY <2>1, <1>1 DEF RegistersInv
  <2>3. phase' = IF phase = Ratio - 1 THEN 0 ELSE phase + 1
    BY <1>1, <1>3, <2>2
  <2> QED BY <1>1, <2>2, <2>3 DEF UntilEdge
<1>5. phase = 0 => ~reset /\ ~TxReady
  <2>1. SUFFICES ASSUME phase = 0 PROVE ~reset /\ ~TxReady
    OBVIOUS
  <2>2. CpuClock
    BY <2>1 DEF DeviceNext, DeviceEdge, BothEdges
  <2> QED BY <2>2 DEF CpuClock, Ready, Valid, NoAccess
<1>6. CASE reset
  <2>1. phase # 0 /\ reset'
    BY <1>3, <1>5, <1>6 DEF Press
  <2>2. CyclesToAnswer = UntilEdge /\ CyclesToAnswer' = UntilEdge'
    BY <1>6, <2>1 DEF CyclesToAnswer
  <2> QED BY <1>1, <1>4, <2>1, <2>2
<1>7. CASE ~reset /\ UntilQuiet = 0
  <2>1. phase # 0
    BY <1>1, <1>5, <1>7
  <2>2. UntilQuiet' = 0
    BY <1>3, <1>7, QuietNearer
  <2>3. CyclesToAnswer = UntilEdge /\ CyclesToAnswer' = UntilEdge'
    BY <1>7, <2>2 DEF CyclesToAnswer
  <2> QED BY <1>1, <1>4, <2>1, <2>3
<1>8. CASE ~reset /\ UntilQuiet # 0
  <2>1. UntilQuiet' < UntilQuiet
    BY <1>3, <1>8, QuietNearer
  <2>2. CyclesToAnswer = UntilQuiet + Ratio
    BY <1>8 DEF CyclesToAnswer
  <2>3. CyclesToAnswer' = UntilEdge' \/ CyclesToAnswer' = UntilQuiet' + Ratio
    BY DEF CyclesToAnswer
  <2> QED BY <1>1, <1>2, <1>8, <2>1, <2>2, <2>3
<1> QED BY <1>6, <1>7, <1>8

\* Every access is answered, or withdrawn by a reset, within the time of the whole
\* greeting, one frame more and a cycle of the CPU: AccessAnswered with its bound,
\* for every greeting, frame, period and ratio of the clocks, wherever the CPU's
\* edges fall (device.sv 100-199).
THEOREM AnsweredWithinGreeting ==
  DeviceSpec =>
    /\ AnsweredInTime
    /\ [](CyclesToAnswer \in 0 .. (Len(Greeting) + 1) * FrameCycles + Ratio)
<1>1. ASSUME RegistersInv
      PROVE  CyclesToAnswer \in 0 .. (Len(Greeting) + 1) * FrameCycles + Ratio
  <2> DEFINE n == FrameCycles
             c == GreetingLeft + WriteLeft
             m == Len(Greeting)
  <2>1. /\ n \in Nat /\ n > 1 /\ m \in Nat /\ UntilEdge \in 1 .. Ratio /\ Ratio \in Nat
        /\ FrameLeft \in 0 .. n - 1 /\ (FrameLeft = 0 <=> TxReady)
        /\ GreetingLeft \in 0 .. m /\ WriteLeft \in {0, 1} /\ Unlatched \in {0, 1}
        /\ UntilQuiet \in Nat
    BY <1>1, QuietTypes, DeviceAssumption
  <2>2. UntilQuiet = FrameLeft + c * n + Unlatched
    BY DEF UntilQuiet
  <2>3. WriteLeft = 1 => GreetingLeft = 0 /\ FrameLeft = 0 /\ Unlatched = 0
    BY <1>1, <2>1 DEF WriteLeft, GreetingLeft, Unlatched, TxWrite, RegistersInv
  <2> HIDE DEF n, m
  <2>4. m * n \in Nat /\ (m + 1) * n = m * n + n
    BY <2>1, Products
  <2>5. UntilQuiet <= (m + 1) * n
    <3>1. CASE WriteLeft = 1
      <4>1. c = 1
        BY <2>3, <3>1
      <4> HIDE DEF c
      <4>2. c * n = n
        BY <2>1, <4>1, Products
      <4> QED BY <2>1, <2>2, <2>3, <2>4, <3>1, <4>2
    <3>2. CASE WriteLeft = 0
      <4>1. c \in 0 .. m
        BY <2>1, <3>2
      <4> HIDE DEF c
      <4>2. c * n <= m * n /\ c * n \in Nat
        BY <2>1, <4>1, Products
      <4> QED BY <2>1, <2>2, <2>4, <4>2
    <3> QED BY <2>1, <3>1, <3>2
  <2>6. CyclesToAnswer \in {0, UntilEdge, UntilQuiet + Ratio}
    BY DEF CyclesToAnswer
  <2>7. CyclesToAnswer \in 0 .. (m + 1) * n + Ratio
    BY <2>1, <2>4, <2>5, <2>6
  <2> QED BY <2>7 DEF m, n
<1>2. ASSUME DeviceInv, DeviceInv', [DeviceNext]_deviceVars, ~UNCHANGED deviceVars, Valid
      PROVE  ~Valid' \/ CyclesToAnswer' < CyclesToAnswer
  BY <1>2, InTimeStep DEF DeviceInv
<1>3. DeviceInv /\ DeviceInv' /\ [DeviceNext]_deviceVars =>
        [Valid => ~Valid' \/ CyclesToAnswer' < CyclesToAnswer]_deviceVars
  BY <1>2
<1>4. DeviceInv => RegistersInv
  BY DEF DeviceInv
<1> QED BY <1>1, <1>3, <1>4, DeviceInvariant, PTL DEF DeviceSpec, AnsweredInTime
=============================================================================
