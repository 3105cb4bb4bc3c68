---------------------------- MODULE SimSocProofs ----------------------------
(***************************************************************************)
(* The simulated board, for every byte size, every number of characters    *)
(* typed, every layout and every program: the assertion on the serial port *)
(* and the number monitor are right, and the board is that of Peripherals, *)
(* with atomic accesses; and what is typed is offered in the end.          *)
(***************************************************************************)
EXTENDS SimSoc, TLAPS

\* The types the two invariants rest on.
PortTypeOK ==
  /\ ctx \in Context /\ ctx0 \in Context
  /\ ififo \in Seq(Nat) /\ typed \in Nat
  /\ current \in Nat /\ shown \in Seq(Nat)
  /\ program \in Programs

\* A queue that was appended to is not empty.
LEMMA AppendNotEmpty ==
  ASSUME NEW S, NEW s \in Seq(S), NEW e \in S
  PROVE  Append(s, e) # <<>>
<1>1. Len(Append(s, e)) = Len(s) + 1 /\ Len(s) \in Nat
  OBVIOUS
<1>2. Len(<<>>) = 0
  OBVIOUS
<1> QED BY <1>1, <1>2

\* The number after c, and the numbers up to it.
LEMMA CountOn ==
  ASSUME NEW c \in Nat
  PROVE  /\ c + 1 \in Nat \ {0}
         /\ \A n \in 1 .. c + 1 : n \in 1 .. c \/ n = c + 1
OBVIOUS

\* The numbers shown, with one more.
LEMMA AppendFacts ==
  ASSUME NEW s \in Seq(Nat), NEW e \in Nat
  PROVE  /\ Append(s, e) \in Seq(Nat) /\ Len(Append(s, e)) = Len(s) + 1
         /\ Append(s, e)[Len(s) + 1] = e
         /\ \A n \in 1 .. Len(s) : Append(s, e)[n] = s[n]
         /\ DOMAIN s = 1 .. Len(s) /\ DOMAIN Append(s, e) = 1 .. Len(s) + 1
OBVIOUS

\* The low half of a word is a digit.
LEMMA Digits ==
  ASSUME NEW w \in Word
  PROVE  Low(w) \in Digit
BY ConfregAssumption DEF Low, Digit, Word

\* What loads and stores make of the context is a context.
LEMMA CtxTypes ==
  ASSUME ctx \in Context, NEW r, NEW w \in Word
  PROVE  CtxAfterLoad(r) \in Context /\ CtxAfterStore(r, w) \in Context
BY Digits DEF CtxAfterLoad, CtxAfterStore, Context

LEMMA Accesses ==
  ASSUME program \in Programs, NEW a \in program
  PROVE  a.data \in Word
BY SimSocAssumption

LEMMA ZeroIsDigit == 0 \in Digit /\ 0 \in Word
<1>1. Base * Base >= 1 BY ConfregAssumption
<1> QED BY <1>1, ConfregAssumption DEF Digit, Word

\* A register that was never stored to announces nothing.
LEMMA HighOfZero == High(0) = 0
<1> DEFINE q == 0 \div Base
           r == 0 % Base
<1>1. q \in Nat /\ r \in Nat /\ q * Base + r = 0
  BY ConfregAssumption
<1> HIDE DEF q, r
<1>2. CASE q = 0
  BY <1>2 DEF High, q
<1>3. CASE q # 0
  <2>1. q - 1 \in Nat /\ Base \in Nat \ {0}
    BY <1>1, <1>3, ConfregAssumption
  <2>2. (q - 1) * Base \in Nat
    BY <2>1
  <2>3. q * Base = (q - 1) * Base + Base
    BY <1>1, <2>1
  <2> QED BY <1>1, <2>1, <2>2, <2>3
<1> QED BY <1>2, <1>3

LEMMA CtxResetType == CtxReset \in Context
BY ZeroIsDigit DEF CtxReset, Context

-----------------------------------------------------------------------------
LEMMA InitPortTypeOK == Init => PortTypeOK
BY CtxResetType DEF Init, ConfregInit, PortTypeOK

LEMMA NextPortTypeOK == PortTypeOK /\ [Next]_vars => PortTypeOK'
<1> SUFFICES ASSUME PortTypeOK, [Next]_vars PROVE PortTypeOK'
  OBVIOUS
<1> USE DEF PortTypeOK
<1>1. CASE Access /\ UNCHANGED program
  <2>1. PICK a \in program : ConLoad(a) \/ ConStore(a) \/ MemLoad(a) \/ MemStore(a)
    BY <1>1 DEF Access
  <2>2. ctx' \in Context
    BY <2>1, CtxTypes, Accesses, ZeroIsDigit
    DEF ConLoad, ConStore, ConfregStore, MemLoad, MemStore
  <2> QED BY <1>1, <2>2 DEF Access, threadVars
<1>2. CASE SyncTty /\ UNCHANGED program
  <2>1. ififo' \in Seq(Nat)
    BY <1>2 DEF SyncTty, SyncUart, Popped, FifoUnderrun
  <2> QED BY <1>2, <2>1 DEF SyncTty, SyncUart
<1>3. CASE SyncCommit /\ UNCHANGED program
  <2>1. ctx' \in Context
    BY <1>3 DEF SyncCommit, SyncRest, CtxNext, Context
  <2> QED BY <1>3, <2>1 DEF SyncCommit, SyncRest, threadVars
<1>4. CASE Checkout /\ UNCHANGED program
  <2>1. Num = current + 1 => Num \in Nat /\ Append(shown, Num) \in Seq(Nat)
    BY AppendFacts
  <2>2. current' \in Nat /\ shown' \in Seq(Nat)
    BY <1>4, <2>1 DEF Checkout, IsNext
  <2> QED BY <1>4, <2>2 DEF Checkout, confregVars, threadVars
<1>5. CASE CycleFails /\ UNCHANGED program
  <2>1. shown' \in Seq(Nat)
    <3>1. Num = current + 1 => Append(shown, Num) \in Seq(Nat)
      BY AppendFacts
    <3> QED
      BY <1>5, <3>1 DEF CycleFails, AccessFails, SyncFails, CheckoutFails, NotInOrder,
         NotAcked, IsNext
  <2> QED
    BY <1>5, <2>1 DEF CycleFails, AccessFails, SyncFails, CheckoutFails, NotInOrder,
       NotAcked, Fail, confregVars, threadVars
<1>6. CASE Reset /\ UNCHANGED program
  BY <1>6, CtxResetType DEF Reset, ConfregReset
<1>7. CASE ThreadStep /\ UNCHANGED program
  <2>1. UNCHANGED <<ctx, ctx0, current, shown, program>>
    BY <1>7 DEF ThreadStep
  <2>2. Append(ififo, typed) \in Seq(Nat)
    OBVIOUS
  <2>3. ififo' \in {ififo, Append(ififo, typed)} /\ typed' \in {typed, typed + 1}
    BY <1>7 DEF ThreadStep, Fgetc, Lock, Push, Unlock
  <2>4. ififo' \in Seq(Nat)
    BY <2>2, <2>3
  <2>5. typed' \in Nat
    BY <2>3
  <2> QED BY <2>1, <2>4, <2>5
<1>8. CASE Idle /\ UNCHANGED program
  BY <1>8 DEF Idle, confregVars, threadVars
<1>9. CASE UNCHANGED vars
  BY <1>9 DEF vars, confregVars, threadVars
<1> QED
  BY <1>1, <1>2, <1>3, <1>4, <1>5, <1>6, <1>7, <1>8, <1>9
  DEF Next, Running, Ended, CycleStep

-----------------------------------------------------------------------------
LEMMA InitFetchInv == Init => FetchInv
BY DEF Init, ConfregInit, CtxReset, FetchInv

LEMMA NextFetchInv == PortTypeOK /\ FetchInv /\ [Next]_vars => FetchInv'
<1> SUFFICES ASSUME PortTypeOK, FetchInv, [Next]_vars PROVE FetchInv'
  OBVIOUS
<1> USE DEF PortTypeOK, FetchInv
<1>1. CASE Access
  <2>1. PICK a \in program : ConLoad(a) \/ ConStore(a) \/ MemLoad(a) \/ MemStore(a)
    BY <1>1 DEF Access
  <2>2. ctx' = ctx \/ (\E r : ctx' = CtxAfterLoad(r)) \/ (\E r, w : ctx' = CtxAfterStore(r, w))
    BY <2>1 DEF ConLoad, ConStore, ConfregStore, MemLoad, MemStore
  <2>3. /\ ctx'.uart_avail = ctx.uart_avail
        /\ ctx'.uart_fetched => ctx.uart_fetched \/ ctx.uart_avail
    BY <2>2 DEF CtxAfterLoad, CtxAfterStore, Context
  <2> QED BY <1>1, <2>3 DEF Access, threadVars
<1>2. CASE SyncTty
  BY <1>2 DEF SyncTty, SyncUart, busVars
<1>3. CASE SyncCommit
  <2>1. ~ctx'.uart_fetched /\ (ctx'.uart_avail <=> ififo # <<>>)
    BY <1>3 DEF SyncCommit, SyncRest, CtxNext, Context
  <2> QED BY <1>3, <2>1 DEF SyncCommit, SyncRest, threadVars
<1>4. CASE Checkout
  BY <1>4 DEF Checkout, confregVars, threadVars
<1>5. CASE CycleFails
  BY <1>5 DEF CycleFails, AccessFails, SyncFails, CheckoutFails, NotInOrder,
     NotAcked, Fail, FifoUnderrun,
     confregVars, threadVars
<1>6. CASE Reset
  BY <1>6 DEF Reset, ConfregReset, CtxReset
<1>7. CASE ThreadStep
  <2>1. ififo # <<>> => ififo' # <<>>
    <3>2. Append(ififo, typed) # <<>>
      BY AppendNotEmpty
    <3> QED BY <1>7, <3>2 DEF ThreadStep, Fgetc, Lock, Push, Unlock
  <2>2. UNCHANGED <<ctx, phase, failed>>
    BY <1>7 DEF ThreadStep
  <2> QED BY <2>1, <2>2
<1>8. CASE Idle
  BY <1>8 DEF Idle, confregVars, threadVars
<1>9. CASE UNCHANGED vars
  BY <1>9 DEF vars, confregVars, threadVars
<1> QED
  BY <1>1, <1>2, <1>3, <1>4, <1>5, <1>6, <1>7, <1>8, <1>9
  DEF Next, Running, Ended, CycleStep

-----------------------------------------------------------------------------
LEMMA InitAckInv == Init => AckInv
BY DEF Init, ConfregInit, CtxReset, AckInv, InNums, CompletedInOrder

\* What was announced and acknowledged remains so.
LEMMA NumsGrow ==
  ASSUME nums \subseteq nums', NEW n
  PROVE  /\ Announced(n) => Announced(n)'
         /\ Acknowledged(n) => Acknowledged(n)'
BY DEF Announced, Acknowledged

\* A step in which the monitor does nothing.
LEMMA MonitorRests ==
  ASSUME AckInv, nums \subseteq nums', UNCHANGED <<current, shown>>,
         failed = "no", failed' # "not acked"
  PROVE  /\ CompletedInOrder'
         /\ Len(shown)' = IF failed' = "not acked" THEN current' + 1 ELSE current'
<1>1. \A n : /\ Announced(n) => Announced(n)'
             /\ Acknowledged(n) => Acknowledged(n)'
  BY NumsGrow
<1> QED BY <1>1 DEF AckInv, CompletedInOrder

\* What it shows next, acknowledged or not.
LEMMA MonitorShows ==
  ASSUME PortTypeOK, AckInv, failed = "no", IsNext, UNCHANGED nums,
         shown' = Append(shown, Num),
         Acked \/ failed' = "not acked"
  PROVE  CompletedInOrder' /\ Len(shown)' = current + 1
<1>1. current \in Nat /\ shown \in Seq(Nat)
  BY DEF PortTypeOK
<1>2. /\ current + 1 \in Nat \ {0}
      /\ \A n \in 1 .. current + 1 : n \in 1 .. current \/ n = current + 1
  BY <1>1, CountOn
<1>3. Len(shown) = current /\ Num = current + 1
  BY DEF AckInv, IsNext
<1>4. shown' = Append(shown, current + 1)
  BY <1>3
<1>5. /\ shown' \in Seq(Nat) /\ Len(shown') = current + 1 /\ DOMAIN shown' = 1 .. current + 1
      /\ shown'[current + 1] = current + 1
      /\ \A n \in 1 .. current : shown'[n] = shown[n]
  <2> DEFINE more == Append(shown, current + 1)
  <2>1. /\ more \in Seq(Nat) /\ Len(more) = Len(shown) + 1
        /\ more[Len(shown) + 1] = current + 1
        /\ \A n \in 1 .. Len(shown) : more[n] = shown[n]
        /\ DOMAIN more = 1 .. Len(shown) + 1
    BY <1>1, <1>2, AppendFacts, Zenon
  <2> HIDE DEF more
  <2>2. /\ more \in Seq(Nat) /\ Len(more) = current + 1 /\ DOMAIN more = 1 .. current + 1
        /\ more[current + 1] = current + 1
        /\ \A n \in 1 .. current : more[n] = shown[n]
    BY <1>3, <2>1, Zenon
  <2> QED BY <1>4, <2>2, Zenon DEF more
<1>6. ctx0.v_num # 0
  <2> DEFINE next == current + 1
  <2>1. High(ctx0.v_num) = next /\ next # 0
    BY <1>3, <1>2, Zenon DEF Num
  <2> HIDE DEF next
  <2> QED BY <2>1, HighOfZero, Zenon
<1>7. ctx0.v_num \in nums
  BY <1>6 DEF AckInv, InNums
<1>8. Announced(current + 1) /\ (Acked => Acknowledged(current + 1))
  BY <1>3, <1>7 DEF Announced, Acknowledged, Acked, Ack, Num
<1>9. DOMAIN shown = 1 .. current
  BY <1>3, AppendFacts DEF PortTypeOK
<1>10. \A n \in 1 .. current : shown[n] = n /\ Announced(n) /\ Acknowledged(n)
  BY <1>9 DEF AckInv, CompletedInOrder
<1>11. \A n : (Announced(n)' <=> Announced(n)) /\ (Acknowledged(n)' <=> Acknowledged(n))
  BY DEF Announced, Acknowledged
<1>12. ASSUME NEW n \in 1 .. current + 1
       PROVE  /\ shown'[n] = n /\ Announced(n)'
              /\ Acknowledged(n)' \/ (n = Len(shown') /\ failed' = "not acked")
  <2>1. CASE n = current + 1
    BY <1>5, <1>8, <1>11, <2>1
  <2>2. CASE n \in 1 .. current
    BY <1>5, <1>10, <1>11, <2>2
  <2>3. n \in 1 .. current \/ n = current + 1
    BY <1>2
  <2> QED BY <2>1, <2>2, <2>3
<1> QED BY <1>5, <1>12 DEF CompletedInOrder

LEMMA NextAckInv == PortTypeOK /\ AckInv /\ [Next]_vars => AckInv'
<1> SUFFICES ASSUME PortTypeOK, AckInv, Running PROVE AckInv'
  <2>1. CASE UNCHANGED vars
    <3>1. UNCHANGED <<ctx, ctx0, nums, current, shown, failed>>
      BY <2>1 DEF vars, confregVars
    <3>2. CompletedInOrder' <=> CompletedInOrder
      BY <3>1 DEF CompletedInOrder, Announced, Acknowledged
    <3> QED BY <3>1, <3>2 DEF AckInv, InNums
  <2> QED BY <2>1 DEF Next, Ended
<1>1. failed = "no"
  BY DEF Running
<1>2. CASE Access
  <2>1. PICK a \in program : ConLoad(a) \/ ConStore(a) \/ MemLoad(a) \/ MemStore(a)
    BY <1>2 DEF Access
  <2>2. nums \subseteq nums' /\ UNCHANGED <<ctx0, current, shown, failed>>
    BY <1>2, <2>1 DEF Access, ConLoad, ConStore, MemLoad, MemStore
  <2>3. InNums(ctx.v_num)'
    <3>1. CASE ConStore(a)
      <4>1. ctx'.v_num = (IF Port(a) = "NUM" THEN a.data ELSE ctx.v_num)
        BY <3>1 DEF ConStore, ConfregStore, CtxAfterStore, Context, PortTypeOK
      <4> QED BY <2>2, <3>1, <4>1 DEF ConStore, AckInv, InNums
    <3>2. CASE ConLoad(a) \/ MemLoad(a) \/ MemStore(a)
      <4>1. ctx'.v_num = ctx.v_num
        BY <3>2 DEF ConLoad, CtxAfterLoad, MemLoad, MemStore, Context, PortTypeOK
      <4> QED BY <2>2, <4>1 DEF AckInv, InNums
    <3> QED BY <2>1, <3>1, <3>2
  <2>4. InNums(ctx0.v_num)'
    BY <2>2 DEF AckInv, InNums
  <2> QED BY <1>1, <2>2, <2>3, <2>4, MonitorRests DEF AckInv
<1>3. CASE Idle \/ SyncTty \/ SyncCommit \/ Reset \/ ThreadStep
  <2>1. UNCHANGED <<current, shown, nums, failed>>
    BY <1>3 DEF Idle, SyncTty, SyncCommit, Reset, ThreadStep
  <2>2. /\ ctx'.v_num \in {0, ctx.v_num} /\ ctx0'.v_num \in {0, ctx.v_num, ctx0.v_num}
    <3>1. CASE Idle \/ SyncTty \/ ThreadStep
      <4>1. UNCHANGED <<ctx, ctx0>>
        BY <3>1 DEF Idle, SyncTty, SyncUart, ThreadStep, confregVars
      <4> QED BY <4>1
    <3>2. CASE SyncCommit
      <4>1. ctx' = CtxNext /\ ctx0' = ctx
        BY <3>2 DEF SyncCommit, SyncRest
      <4>2. CtxNext.v_num = ctx.v_num
        BY DEF CtxNext, PortTypeOK, Context
      <4> QED BY <4>1, <4>2
    <3>3. CASE Reset
      <4>1. ctx' = CtxReset /\ ctx0' = CtxReset
        BY <3>3 DEF Reset, ConfregReset
      <4>2. CtxReset.v_num = 0
        BY DEF CtxReset
      <4> QED BY <4>1, <4>2
    <3> QED BY <1>3, <3>1, <3>2, <3>3
  <2>3. InNums(ctx.v_num)' /\ InNums(ctx0.v_num)'
    BY <2>1, <2>2 DEF AckInv, InNums
  <2> QED BY <1>1, <2>1, <2>3, MonitorRests DEF AckInv
<1>4. CASE Checkout \/ CycleFails
  <2>1. UNCHANGED <<ctx, ctx0, nums>>
    BY <1>4 DEF Checkout, CycleFails, AccessFails, SyncFails, CheckoutFails, NotInOrder,
       NotAcked, Fail, confregVars
  <2>2. InNums(ctx.v_num)' /\ InNums(ctx0.v_num)'
    BY <2>1 DEF AckInv, InNums
  <2>3. \/ UNCHANGED <<current, shown>> /\ failed' # "not acked"
        \/ IsNext /\ Acked /\ shown' = Append(shown, Num) /\ current' = Num
           /\ UNCHANGED failed
        \/ IsNext /\ shown' = Append(shown, Num) /\ failed' = "not acked"
           /\ UNCHANGED current
    BY <1>1, <1>4 DEF Checkout, CycleFails, AccessFails, SyncFails, CheckoutFails,
       NotInOrder, NotAcked, Fail
  <2>4. CompletedInOrder'
        /\ Len(shown)' = IF failed' = "not acked" THEN current' + 1 ELSE current'
    BY <1>1, <2>1, <2>3, MonitorRests, MonitorShows DEF IsNext
  <2> QED BY <2>2, <2>4 DEF AckInv
<1> QED
  BY <1>2, <1>3, <1>4 DEF Running, CycleStep

-----------------------------------------------------------------------------
LEMMA Invariants == Spec => [](PortTypeOK /\ FetchInv /\ AckInv)
<1>1. Init => PortTypeOK /\ FetchInv /\ AckInv
  BY InitPortTypeOK, InitFetchInv, InitAckInv
<1>2. PortTypeOK /\ FetchInv /\ AckInv /\ [Next]_vars => (PortTypeOK /\ FetchInv /\ AckInv)'
  BY NextPortTypeOK, NextFetchInv, NextAckInv
<1> QED BY <1>1, <1>2, PTL DEF Spec

\* The assertion of Confreg::sync (confreg.cpp:103) never fails, and a read of
\* the serial port always finds the character its status register offered.
THEOREM CharacterIsThere == Spec => []FetchHasChar
<1>1. FetchInv => FetchHasChar
  BY DEF FetchInv, FetchHasChar
<1> QED BY <1>1, Invariants, PTL

\* The numbers shown as completed are those the program has announced, in order and
\* each once; it has acknowledged them all, or the run has just ended with the last
\* (model.cpp:148-151).
THEOREM MonitorIsSound == Spec => []CompletedInOrder
<1>1. AckInv => CompletedInOrder
  BY DEF AckInv
<1> QED BY <1>1, Invariants, PTL

-----------------------------------------------------------------------------
(* The router                                                              *)

LEMMA Monotone ==
  ASSUME NEW i \in Nat, NEW j \in Nat, NEW k \in Nat, i >= j
  PROVE  i * k >= j * k
<1>1. i - j \in Nat
  OBVIOUS
<1>2. (i - j) * k \in Nat
  BY <1>1
<1> QED
  BY <1>2

LEMMA Remainder ==
  ASSUME NEW q \in Nat, NEW d \in Nat \ {0}, NEW r \in 0 .. d - 1
  PROVE  (q * d + r) % d = r
OBVIOUS

\* What an entry of the layout matches, when its prefix is aligned to its size.
LEMMA InWindow ==
  ASSUME NEW x \in Nat, NEW s \in Nat \ {0}, NEW p \in Nat, p % s = 0
  PROVE  (x \div s) * s = p <=> x \in p .. p + s - 1
<1> DEFINE q == x \div s
           r == x % s
           k == p \div s
<1>1. q \in Nat /\ r \in 0 .. s - 1 /\ x = q * s + r
  OBVIOUS
<1>2. k \in Nat /\ p = k * s
  OBVIOUS
<1> HIDE DEF q, r, k
<1>3. q * s \in Nat /\ k * s \in Nat
  BY <1>1, <1>2
<1>4. CASE q = k
  BY <1>1, <1>2, <1>3, <1>4 DEF q
<1>5. CASE q >= k + 1
  <2>1. q * s >= (k + 1) * s
    BY <1>1, <1>2, <1>5, Monotone
  <2>2. (k + 1) * s = k * s + s
    BY <1>2
  <2> QED
    BY <1>1, <1>2, <1>3, <2>1, <2>2 DEF q
<1>6. CASE k >= q + 1
  <2>1. k * s >= (q + 1) * s
    BY <1>1, <1>2, <1>6, Monotone
  <2>2. (q + 1) * s = q * s + s
    BY <1>1
  <2> QED
    BY <1>1, <1>2, <1>3, <2>1, <2>2 DEF q
<1> QED
  BY <1>1, <1>2, <1>4, <1>5, <1>6

\* The offset in a window is the same whether the high half of the address is
\* dropped before or not.
LEMMA SameOffset ==
  ASSUME NEW a \in Nat, NEW s \in Nat \ {0}, NEW c \in Nat \ {0}, NEW p \in Nat,
         s % c = 0, p % c = 0, a % s \in p .. p + c - 1
  PROVE  a % c = (a % s) - p
<1> DEFINE q == a \div s
           x == a % s
           k == s \div c
           j == p \div c
           off == x - p
<1>1. q \in Nat /\ x \in Nat /\ a = q * s + x
  OBVIOUS
<1>2. k \in Nat /\ s = k * c
  OBVIOUS
<1>3. j \in Nat /\ p = j * c
  OBVIOUS
<1>4. off \in 0 .. c - 1 /\ x = p + off
  OBVIOUS
<1> HIDE DEF q, x, k, j, off
<1>5. q * k \in Nat
  BY <1>1, <1>2
<1>6. q * s = (q * k) * c
  BY <1>1, <1>2
<1>7. a = (q * k + j) * c + off
  <2>1. (q * k + j) * c = (q * k) * c + j * c
    BY <1>3, <1>5
  <2> QED
    BY <1>1, <1>3, <1>4, <1>6, <2>1
<1>8. q * k + j \in Nat
  BY <1>3, <1>5
<1> DEFINE n == q * k + j
<1> HIDE DEF n
<1>9. n \in Nat /\ a = n * c + off
  BY <1>7, <1>8 DEF n
<1>10. a % c = off
  BY <1>4, <1>9, Remainder
<1> QED
  BY <1>10 DEF off, x

InBoot(a) == a.addr % Span \in BootBase .. BootBase + BootSize - 1
InCon(a)  == a.addr % Span \in ConBase .. ConBase + ConSize - 1

LEMMA Routing ==
  ASSUME NEW a, a.addr \in Nat
  PROVE  Entry(a) = IF InBoot(a) THEN Layout[1] ELSE IF InCon(a) THEN Layout[2] ELSE Layout[3]
<1> DEFINE x == a.addr % Span
<1>1. x \in Nat /\ x < Span
  BY SimSocAssumption
<1> HIDE DEF x
<1>2. Matches(Layout[1], a.addr) <=> InBoot(a)
  <2>1. (x \div BootSize) * BootSize = BootBase <=> x \in BootBase .. BootBase + BootSize - 1
    BY <1>1, SimSocAssumption, LayoutAssumption, InWindow
  <2> QED
    BY <2>1 DEF Matches, Layout, InBoot, x
<1>3. Matches(Layout[2], a.addr) <=> InCon(a)
  <2>1. (x \div ConSize) * ConSize = ConBase <=> x \in ConBase .. ConBase + ConSize - 1
    BY <1>1, SimSocAssumption, LayoutAssumption, InWindow
  <2> QED
    BY <2>1 DEF Matches, Layout, InCon, x
<1>4. Matches(Layout[3], a.addr)
  <2>1. (x \div Span) * Span = 0
    <3>1. x \div Span = 0
      BY <1>1, SimSocAssumption
    <3> QED
      BY <3>1, SimSocAssumption
  <2> QED
    BY <2>1 DEF Matches, Layout, x
<1> DEFINE found == {i \in DOMAIN Layout : Matches(Layout[i], a.addr)}
<1>5. DOMAIN Layout = {1, 2, 3}
  BY DEF Layout
<1>6. Search(a.addr) = IF InBoot(a) THEN 1 ELSE IF InCon(a) THEN 2 ELSE 3
  <2>1. found \subseteq {1, 2, 3} /\ 3 \in found
        /\ (1 \in found <=> InBoot(a)) /\ (2 \in found <=> InCon(a))
    BY <1>2, <1>3, <1>4, <1>5
  <2> HIDE DEF found
  <2>2. Min(found) = IF 1 \in found THEN 1 ELSE IF 2 \in found THEN 2 ELSE 3
    <3> DEFINE least == IF 1 \in found THEN 1 ELSE IF 2 \in found THEN 2 ELSE 3
    <3>1. least \in found /\ \A y \in found : least <= y
      BY <2>1
    <3>2. Min(found) \in found /\ \A y \in found : Min(found) <= y
      BY <3>1 DEF Min
    <3>3. \A y \in found : y \in Int
      BY <2>1
    <3> HIDE DEF least
    <3>4. Min(found) = least
      BY <3>1, <3>2, <3>3
    <3> QED
      BY <3>4 DEF least
  <2> QED
    BY <2>1, <2>2 DEF Search, found
<1> QED
  BY <1>6 DEF Entry

\* Where an access goes, without the layout.
LEMMA Targets ==
  ASSUME NEW a, a.addr \in Nat
  PROVE  /\ Entry(a).con <=> InCon(a)
         /\ InCon(a) => /\ (a.addr % Span) - ConBase \in 0 .. ConSize - 1
                         /\ Port(a) = Register[(a.addr % Span) - ConBase]
         /\ ~InCon(a) =>
              LET cell == IF a.addr >= BootBase THEN a.addr - BootBase ELSE a.addr
              IN  /\ OutOfRange(a) <=> cell \notin 0 .. MemSize - 1
                  /\ ~OutOfRange(a) => CellOf(a) = cell
<1> DEFINE x == a.addr % Span
<1>1. x \in Nat /\ x <= a.addr /\ (a.addr < Span => x = a.addr)
  BY SimSocAssumption
<1>2. ~(InBoot(a) /\ InCon(a))
  BY LayoutAssumption DEF InBoot, InCon
<1>3. Entry(a).con <=> InCon(a)
  BY <1>2, Routing DEF Layout
<1>4. InCon(a) => /\ x - ConBase \in 0 .. ConSize - 1
                  /\ Port(a) = Register[x - ConBase]
  <2> SUFFICES ASSUME InCon(a)
               PROVE  x - ConBase \in 0 .. ConSize - 1 /\ a.addr % ConSize = x - ConBase
    BY DEF Port
  <2>1. x - ConBase \in 0 .. ConSize - 1
    BY <1>1, SimSocAssumption DEF InCon
  <2>2. a.addr % ConSize = x - ConBase
    <3>1. /\ Span \in Nat \ {0} /\ ConSize \in Nat \ {0} /\ ConBase \in Nat
          /\ Span % ConSize = 0 /\ ConBase % ConSize = 0
          /\ a.addr % Span \in ConBase .. ConBase + ConSize - 1
      BY SimSocAssumption, LayoutAssumption DEF InCon
    <3> QED
      BY <3>1, SameOffset
  <2> QED
    BY <2>1, <2>2
<1>5. ASSUME ~InCon(a)
      PROVE  LET cell == IF a.addr >= BootBase THEN a.addr - BootBase ELSE a.addr
             IN  /\ OutOfRange(a) <=> cell \notin 0 .. MemSize - 1
                 /\ ~OutOfRange(a) => CellOf(a) = cell
  <2>1. Entry(a).base = (IF InBoot(a) THEN BootBase ELSE 0) /\ ~Entry(a).con
    BY <1>5, Routing DEF Layout
  <2> HIDE DEF x
  <2>2. InBoot(a) => a.addr >= BootBase
    BY <1>1, SimSocAssumption DEF InBoot, x
  <2>3. ~InBoot(a) /\ a.addr >= BootBase => a.addr >= BootBase + BootSize
    BY <1>1, SimSocAssumption, LayoutAssumption DEF InBoot, x
  <2>4. OutOfRange(a) <=> CellOf(a) >= MemSize
    BY <2>1 DEF OutOfRange
  <2>5. CellOf(a) = a.addr - (IF InBoot(a) THEN BootBase ELSE 0)
    BY <2>1 DEF CellOf
  <2> QED
    BY <2>2, <2>3, <2>4, <2>5, SimSocAssumption, LayoutAssumption
<1> QED
  BY <1>3, <1>4, <1>5

-----------------------------------------------------------------------------
(* Between two cycles                                                      *)

LEMMA InitQuietInv == Init => QuietInv
BY DEF Init, ConfregInit, CtxReset, RegsReset, QuietInv

LEMMA NextQuietInv == PortTypeOK /\ FetchInv /\ QuietInv /\ [Next]_vars => QuietInv'
<1> SUFFICES ASSUME PortTypeOK, FetchInv, QuietInv, [Next]_vars PROVE QuietInv'
  OBVIOUS
<1> USE DEF PortTypeOK, QuietInv
<1>1. CASE Access
  <2>1. PICK a \in program : ConLoad(a) \/ ConStore(a) \/ MemLoad(a) \/ MemStore(a)
    BY <1>1 DEF Access
  <2>2. changes = <<>>
    BY <1>1 DEF Access
  <2>3. changes' = <<>> \/ \E c : changes' = <<c>>
    BY <2>1, <2>2 DEF ConLoad, ConStore, ConfregStore, MemLoad, MemStore
  <2> QED BY <1>1, <2>3 DEF Access, threadVars
<1>2. CASE SyncTty
  BY <1>2 DEF SyncTty, SyncUart
<1>3. CASE SyncCommit
  <2>1. ~ctx'.uart_written /\ ~ctx'.vuart_written /\ ~ctx'.uart_fetched
    BY <1>3 DEF SyncCommit, SyncRest, CtxNext, Context
  <2>2. regs' = [r \in Registers |-> regs'[r]]
    BY <1>3 DEF SyncCommit, SyncRest, Committed
  <2> QED BY <1>3, <2>1, <2>2 DEF SyncCommit, SyncRest, threadVars
<1>4. CASE Checkout
  BY <1>4 DEF Checkout, confregVars, threadVars, busVars
<1>5. CASE CycleFails
  <2>1. failed' # "no" /\ UNCHANGED <<phase, regs, ctx, changes, thread, opty, typed>>
    BY <1>5 DEF CycleFails, AccessFails, SyncFails, CheckoutFails, NotInOrder,
     NotAcked, Fail, confregVars, threadVars
  <2> QED BY <2>1
<1>6. CASE Reset
  <2>1. regs' = [r \in Registers |-> regs'[r]]
    BY <1>6 DEF Reset, ConfregReset, RegsReset
  <2>2. ~ctx'.uart_written /\ ~ctx'.vuart_written /\ ~ctx'.uart_fetched
    BY <1>6 DEF Reset, ConfregReset, CtxReset
  <2> QED BY <1>6, <2>1, <2>2 DEF Reset, ConfregReset
<1>7. CASE ThreadStep
  <2>1. UNCHANGED <<ctx, regs, changes, opty, acc, phase, failed>>
    BY <1>7 DEF ThreadStep, busVars
  <2>2. thread' # "fgetc" => opty /\ typed' \in 1 .. MaxTyped
    <3>1. CASE Fgetc
      BY <3>1, ConfregAssumption DEF Fgetc
    <3>2. CASE Lock \/ Push \/ Unlock
      BY <3>2 DEF Lock, Push, Unlock
    <3> QED BY <1>7, <3>1, <3>2 DEF ThreadStep
  <2> QED BY <2>1, <2>2
<1>8. CASE Idle
  BY <1>8 DEF Idle, confregVars, threadVars, busVars
<1>9. CASE UNCHANGED vars
  BY <1>9 DEF vars, confregVars, threadVars, busVars
<1> QED
  BY <1>1, <1>2, <1>3, <1>4, <1>5, <1>6, <1>7, <1>8, <1>9
  DEF Next, Running, Ended, CycleStep

BoardInv == PortTypeOK /\ FetchInv /\ QuietInv

LEMMA BoardInvariant == Spec => []BoardInv
<1>1. Init => BoardInv
  BY InitPortTypeOK, InitFetchInv, InitQuietInv DEF BoardInv
<1>2. BoardInv /\ [Next]_vars => BoardInv'
  BY NextPortTypeOK, NextFetchInv, NextQuietInv DEF BoardInv
<1> QED BY <1>1, <1>2, PTL DEF Spec

-----------------------------------------------------------------------------
(* The simulation is the board of Peripherals                              *)

Queue == IF phase = "uart" THEN Popped ELSE ififo
Ready == ctx.uart_avail /\ ~ctx.uart_fetched

\* The register file, when the cycle has stored nothing and when it has once.
LEMMA CommittedNone ==
  /\ QuietInv /\ changes = <<>> => Committed = regs
  /\ QuietInv' /\ changes' = <<>> => Committed' = regs'
<1>1. DOMAIN <<>> = {}
  OBVIOUS
<1> QED
  BY <1>1 DEF Committed, QuietInv

LEMMA CommittedOne ==
  ASSUME NEW r, NEW w, changes' = <<<<r, w>>>>, regs' = regs
  PROVE  Committed' = [s \in Registers |-> IF s = r THEN w ELSE regs[s]]
<1>1. DOMAIN changes' = {1} /\ changes'[1][1] = r /\ changes'[1][2] = w
  OBVIOUS
<1>2. Max({1}) = 1
  BY DEF Max
<1>3. ASSUME NEW s \in Registers
      PROVE  LET of == {i \in DOMAIN changes' : changes'[i][1] = s}
             IN  (IF of = {} THEN regs'[s] ELSE changes'[Max(of)][2])
                   = IF s = r THEN w ELSE regs[s]
  <2> DEFINE of == {i \in DOMAIN changes' : changes'[i][1] = s}
  <2>1. of = IF s = r THEN {1} ELSE {}
    BY <1>1
  <2> HIDE DEF of
  <2>2. (IF of = {} THEN regs'[s] ELSE changes'[Max(of)][2]) = IF s = r THEN w ELSE regs[s]
    BY <1>1, <1>2, <2>1
  <2> QED
    BY <2>2 DEF of
<1> QED
  BY <1>3 DEF Committed

\* The state of the abstract board in the middle of no cycle.
LEMMA QuietMap ==
  ASSUME BoardInv, phase \in {"access", "check"}
  PROVE  /\ Committed = regs /\ Queue = ififo /\ Ready = ctx.uart_avail
         /\ MappedTty = tty
         /\ MappedConsole = IF phase = "access" THEN console ELSE Show(ctx0)
<1>1. changes = <<>> /\ ~ctx.uart_written /\ ~ctx.vuart_written /\ ~ctx.uart_fetched
  BY DEF BoardInv, QuietInv
<1>2. ctx.uart_avail \in BOOLEAN /\ ctx.uart_fetched \in BOOLEAN
  BY DEF BoardInv, PortTypeOK, Context
<1>3. Committed = regs
  BY <1>1, CommittedNone DEF BoardInv
<1> QED
  BY <1>1, <1>2, <1>3 DEF Queue, Ready, MappedTty, MappedConsole

LEMMA RefineInit == Init => Board!Init
<1> SUFFICES ASSUME Init PROVE Board!Init
  OBVIOUS
<1>1. BoardInv /\ phase = "access"
  BY InitPortTypeOK, InitFetchInv, InitQuietInv DEF BoardInv, Init
<1>2. /\ Committed = regs /\ Queue = ififo /\ Ready = ctx.uart_avail
      /\ MappedTty = tty /\ MappedConsole = console
  BY <1>1, QuietMap
<1>3. regs = RegsReset /\ DOMAIN regs = Registers
  BY DEF Init, ConfregInit, RegsReset
<1>4. Committed = Board!InitialRegs
  BY <1>2, <1>3 DEF Board!InitialRegs, RegsReset
<1>5. mem \in [0 .. MemSize - 1 -> Board!Word]
  BY ZeroIsDigit DEF Init, Word, Board!Word
<1>6. ~Ready /\ Queue = <<>>
  BY <1>2 DEF Init, ConfregInit, CtxReset
<1> QED
  BY <1>2, <1>4, <1>5, <1>6 DEF Init, ConfregInit, Board!Init, None, Board!None, Queue, Ready

\* Steps that the abstract board does not see.
LEMMA Unseen ==
  ASSUME UNCHANGED <<program, acc, rdata, mem, saved_mem, opty, failed>>,
         Queue' = Queue, Ready' = Ready, Committed' = Committed,
         MappedTty' = MappedTty, MappedConsole' = MappedConsole
  PROVE  UNCHANGED Board!vars
BY DEF Board!vars, Queue, Ready

LEMMA RefineIdle ==
  ASSUME BoardInv, BoardInv', Idle, UNCHANGED program
  PROVE  UNCHANGED Board!vars
<1>1. /\ phase = "access" /\ phase' = "uart"
      /\ UNCHANGED <<ctx, ctx0, regs, changes, ififo, opty, tty, acc, rdata, mem, saved_mem,
                     console, failed>>
  BY DEF Idle, confregVars, threadVars, busVars
<1>2. /\ Committed = regs /\ Queue = ififo /\ Ready = ctx.uart_avail
      /\ MappedTty = tty /\ MappedConsole = console
  BY <1>1, QuietMap
<1>3. changes = <<>> /\ ~ctx.uart_written /\ ~ctx.vuart_written /\ ~ctx.uart_fetched
  BY <1>1 DEF BoardInv, QuietInv
<1>4. Committed' = Committed /\ Ready' = Ready
  BY <1>1 DEF Committed, Ready
<1>5. Queue' = ififo /\ MappedTty' = tty
  BY <1>1, <1>3 DEF Queue, Popped, MappedTty
<1>6. MappedConsole' = console
  BY <1>1, <1>3 DEF MappedConsole, Show, HasChar
<1> QED
  BY <1>1, <1>2, <1>4, <1>5, <1>6, Unseen

LEMMA RefineSyncTty ==
  ASSUME BoardInv, SyncTty, UNCHANGED program
  PROVE  UNCHANGED Board!vars
<1>1. /\ phase = "uart" /\ phase' = "rest" /\ ififo' = Popped
      /\ tty' = IF ctx.uart_written /\ opty THEN <<1 - tty[1], ctx.uart_data>> ELSE tty
      /\ UNCHANGED <<ctx, ctx0, regs, changes, opty, acc, rdata, mem, saved_mem, console,
                     failed>>
  BY DEF SyncTty, SyncUart, busVars
<1>2. Committed' = Committed /\ Ready' = Ready
  BY <1>1 DEF Committed, Ready
<1>3. Queue' = Queue /\ MappedTty' = MappedTty
  BY <1>1 DEF Queue, MappedTty
<1>4. MappedConsole' = MappedConsole
  BY <1>1 DEF MappedConsole, Show, HasChar
<1> QED
  BY <1>1, <1>2, <1>3, <1>4, Unseen

LEMMA RefineCheckout ==
  ASSUME BoardInv, BoardInv', Checkout, UNCHANGED program
  PROVE  UNCHANGED Board!vars
<1>1. /\ phase = "check" /\ phase' = "access" /\ console' = Show(ctx0)
      /\ UNCHANGED <<ctx, ctx0, regs, changes, ififo, opty, tty, acc, rdata, mem, saved_mem,
                     failed>>
  BY DEF Checkout, confregVars, threadVars, busVars
<1>2. Committed' = Committed /\ Ready' = Ready
  BY <1>1 DEF Committed, Ready
<1>3. Queue' = Queue /\ MappedTty' = MappedTty /\ MappedConsole' = MappedConsole
  BY <1>1 DEF Queue, MappedTty, MappedConsole
<1> QED
  BY <1>1, <1>2, <1>3, Unseen

\* The end of a cycle: what was stored is committed and the timer goes on.
LEMMA RefineCommit ==
  ASSUME BoardInv, BoardInv', SyncCommit, UNCHANGED program
  PROVE  Board!Finish
<1>1. /\ phase = "rest" /\ phase' = "check" /\ ctx0' = ctx /\ ctx' = CtxNext
      /\ regs' = [Committed EXCEPT !["TIMER"] = (@ + 1) % TimerSize] /\ changes' = <<>>
      /\ acc' = None /\ rdata' = 0
      /\ UNCHANGED <<mem, saved_mem, opty, tty, ififo, console, failed>>
  BY DEF SyncCommit, SyncRest, threadVars
<1>2. Committed' = regs'
  BY <1>1, CommittedNone DEF BoardInv
<1>3. Queue = ififo /\ Queue' = ififo
  BY <1>1 DEF Queue
<1>4. Ready' = (ififo # <<>>)
  <2>1. ctx'.uart_avail = (ififo # <<>>) /\ ctx'.uart_fetched = FALSE
    BY <1>1 DEF CtxNext, BoardInv, PortTypeOK, Context
  <2> QED
    BY <2>1 DEF Ready
<1>5. MappedTty' = MappedTty /\ MappedConsole' = MappedConsole
  BY <1>1 DEF MappedTty, MappedConsole, Show, HasChar
<1> QED
  BY <1>1, <1>2, <1>3, <1>4, <1>5 DEF Board!Finish, None, Board!None, Queue, Ready

LEMMA RefineReset ==
  ASSUME BoardInv, BoardInv', Reset, failed = "no"
  PROVE  Board!Reset
<1>1. /\ phase = "access" /\ phase' = "access" /\ ctx' = CtxReset /\ regs' = RegsReset
      /\ ififo' = <<>> /\ mem' = saved_mem
      /\ UNCHANGED <<changes, opty, tty, acc, rdata, saved_mem, console, failed>>
  BY DEF Reset, ConfregReset
<1>2. acc = None /\ changes = <<>>
  BY <1>1 DEF BoardInv, QuietInv
<1>3. Committed = regs /\ MappedTty = tty /\ MappedConsole = console
  BY <1>1, QuietMap
<1>4. Committed' = RegsReset
  BY <1>1, <1>2, CommittedNone DEF BoardInv
<1>5. Queue' = <<>> /\ Ready' = FALSE
  BY <1>1 DEF Queue, Ready, CtxReset
<1>6. MappedTty' = tty /\ MappedConsole' = console
  BY <1>1 DEF MappedTty, MappedConsole
<1>7. RegsReset = Board!InitialRegs
  <2>1. DOMAIN Committed = Registers
    BY DEF Committed
  <2> QED
    BY <2>1 DEF RegsReset, Board!InitialRegs
<1> QED
  BY <1>1, <1>2, <1>3, <1>4, <1>5, <1>6, <1>7
  DEF Board!Reset, None, Board!None, Queue, Ready

\* A character comes into the queue, at its end even while one is taken off.
LEMMA RefineThread ==
  ASSUME BoardInv, BoardInv', ThreadStep, UNCHANGED program
  PROVE  Board!Type \/ UNCHANGED Board!vars
<1>1. UNCHANGED <<ctx, ctx0, regs, changes, opty, tty, acc, rdata, mem, saved_mem, phase,
                  console, failed>>
  BY DEF ThreadStep, busVars
<1>2. /\ Committed' = Committed /\ Ready' = Ready /\ MappedTty' = MappedTty
      /\ MappedConsole' = MappedConsole
  BY <1>1 DEF Committed, Ready, MappedTty, MappedConsole, Show, HasChar
<1>3. CASE ififo' = ififo
  <2>1. Queue' = Queue
    BY <1>1, <1>3 DEF Queue, Popped
  <2> QED
    BY <1>1, <1>2, <2>1, Unseen
<1>4. CASE Push
  <2>1. ififo' = Append(ififo, typed) /\ opty /\ typed \in 1 .. MaxTyped
        /\ ififo \in Seq(Nat) /\ typed \in Nat
    BY <1>4 DEF Push, BoardInv, QuietInv, PortTypeOK
  <2>2. Queue' = Append(Queue, typed)
    <3>1. CASE phase = "uart" /\ ctx.uart_fetched
      <4>1. ififo # <<>>
        BY <3>1 DEF BoardInv, FetchInv
      <4>2. Tail(Append(ififo, typed)) = Append(Tail(ififo), typed)
        BY <2>1, <4>1
      <4> QED
        BY <1>1, <2>1, <3>1, <4>2 DEF Queue, Popped
    <3>2. CASE ~(phase = "uart" /\ ctx.uart_fetched)
      BY <1>1, <2>1, <3>2 DEF Queue, Popped
    <3> QED
      BY <3>1, <3>2
  <2> QED
    BY <1>1, <1>2, <2>1, <2>2 DEF Board!Type, Queue, Ready
<1> QED
  BY <1>3, <1>4 DEF ThreadStep, Fgetc, Lock, Unlock

LEMMA BoardTargets ==
  ASSUME program \in Programs, NEW a \in program, acc' = a
  PROVE  /\ Board!Port = IF Entry(a).con THEN Port(a) ELSE "none"
         /\ Entry(a).con => Port(a) \in Registers \cup {"UART_LSR", "UART_DATA", "unknown"}
         /\ ~Entry(a).con => /\ Board!InRam <=> ~OutOfRange(a)
                             /\ ~OutOfRange(a) => Board!Cell = CellOf(a)
         /\ a.data \in Word /\ a.store \in BOOLEAN
<1>1. a.addr \in Nat /\ a.data \in Word /\ a.store \in BOOLEAN
  BY SimSocAssumption
<1>2. Board!Off = (a.addr % Span) - ConBase
  BY DEF Board!Off
<1>3. CASE InCon(a)
  <2>1. Entry(a).con /\ Board!Off \in 0 .. ConSize - 1 /\ Port(a) = Register[Board!Off]
    BY <1>1, <1>2, <1>3, Targets
  <2>2. Register[Board!Off] \in Registers \cup {"UART_LSR", "UART_DATA", "unknown"}
    BY <2>1, SimSocAssumption
  <2> QED
    BY <1>1, <2>1, <2>2 DEF Board!Port
<1>4. CASE ~InCon(a)
  <2>1. ~Entry(a).con
    BY <1>1, <1>4, Targets
  <2>2. (a.addr % Span) \in Int
    BY <1>1, SimSocAssumption
  <2>3. Board!Off \notin 0 .. ConSize - 1
    BY <1>2, <1>4, <2>2, SimSocAssumption DEF InCon
  <2>4. Board!Cell = IF a.addr >= BootBase THEN a.addr - BootBase ELSE a.addr
    BY DEF Board!Cell
  <2>5. /\ OutOfRange(a) <=> Board!Cell \notin 0 .. MemSize - 1
        /\ ~OutOfRange(a) => CellOf(a) = Board!Cell
    BY <1>1, <1>4, <2>4, Targets
  <2> QED
    BY <1>1, <2>1, <2>3, <2>5 DEF Board!Port, Board!InRam
<1> QED
  BY <1>3, <1>4

\* Where the state of the abstract board is before an access and after it.
LEMMA AccessMap ==
  ASSUME BoardInv, Access, failed = "no"
  PROVE  /\ acc = None /\ changes = <<>> /\ ~ctx.uart_written /\ ~ctx.vuart_written
         /\ ~ctx.uart_fetched
         /\ Committed = regs /\ Queue = ififo /\ Ready = ctx.uart_avail
         /\ MappedTty = tty /\ MappedConsole = console
         /\ Queue' = IF ctx'.uart_fetched THEN Tail(ififo) ELSE ififo
         /\ MappedTty' = IF ctx'.uart_written /\ opty
                         THEN <<1 - tty[1], ctx'.uart_data>> ELSE tty
         /\ MappedConsole' = IF ctx'.vuart_written /\ 2 * ctx'.vuart_data < Base
                             THEN <<1 - console[1], ctx'.vuart_data>> ELSE console
         /\ UNCHANGED <<regs, saved_mem, opty, failed>>
<1>1. /\ phase = "access" /\ phase' = "uart"
      /\ UNCHANGED <<regs, ififo, opty, tty, saved_mem, console, failed>>
  BY DEF Access, threadVars
<1>2. /\ acc = None /\ changes = <<>> /\ ~ctx.uart_written /\ ~ctx.vuart_written
      /\ ~ctx.uart_fetched
  BY <1>1 DEF BoardInv, QuietInv
<1>3. /\ Committed = regs /\ Queue = ififo /\ Ready = ctx.uart_avail
      /\ MappedTty = tty /\ MappedConsole = console
  BY <1>1, QuietMap
<1>4. Queue' = IF ctx'.uart_fetched THEN Tail(ififo) ELSE ififo
  BY <1>1 DEF Queue, Popped
<1>5. MappedTty' = IF ctx'.uart_written /\ opty
                   THEN <<1 - tty[1], ctx'.uart_data>> ELSE tty
  BY <1>1 DEF MappedTty
<1>6. MappedConsole' = IF ctx'.vuart_written /\ 2 * ctx'.vuart_data < Base
                       THEN <<1 - console[1], ctx'.vuart_data>> ELSE console
  BY <1>1 DEF MappedConsole, Show, HasChar
<1> QED
  BY <1>1, <1>2, <1>3, <1>4, <1>5, <1>6

\* An access that does nothing to the context or to the register file shows
\* nothing either.
LEMMA NothingShown ==
  ASSUME BoardInv, Access, failed = "no", ctx' = ctx, changes' = changes
  PROVE  /\ Committed' = Committed /\ Queue' = Queue /\ Ready' = Ready
         /\ MappedTty' = MappedTty /\ MappedConsole' = MappedConsole
<1>1. Committed' = Committed
  BY AccessMap DEF Committed
<1> QED
  BY <1>1, AccessMap DEF Ready

LEMMA RefineConLoad ==
  ASSUME BoardInv, Access, failed = "no", NEW a \in program, acc' = a, ConLoad(a)
  PROVE  Board!LoadReg \/ Board!Status \/ Board!Receive \/ Board!Ignored
<1>1. /\ Board!Port = Port(a)
      /\ Port(a) \in Registers \cup {"UART_LSR", "UART_DATA", "unknown"}
      /\ ~a.store /\ rdata' = LoadValue(Port(a)) /\ ctx' = CtxAfterLoad(Port(a))
      /\ UNCHANGED <<mem, changes>>
  BY BoardTargets DEF ConLoad, BoardInv, PortTypeOK
<1>2. DOMAIN Committed = Registers /\ Committed = regs
  BY AccessMap DEF Committed
<1>3. CASE Port(a) \in Registers
  <2>1. ctx' = ctx /\ rdata' = regs[Port(a)]
    BY <1>1, <1>3 DEF CtxAfterLoad, LoadValue, Registers
  <2>2. Board!LoadReg
    BY <1>1, <1>2, <1>3, <2>1, NothingShown DEF Board!LoadReg, Queue, Ready
  <2> QED
    BY <2>2
<1>4. CASE Port(a) = "UART_LSR"
  <2>1. ctx' = ctx /\ rdata' = IF ctx.uart_avail THEN 1 ELSE 0
    BY <1>1, <1>4 DEF CtxAfterLoad, LoadValue, Registers
  <2>2. Ready = ctx.uart_avail
    BY AccessMap
  <2>3. Board!Status
    BY <1>1, <1>4, <2>1, <2>2, NothingShown DEF Board!Status, Queue, Ready
  <2> QED
    BY <2>3
<1>5. CASE Port(a) = "UART_DATA"
  <2>1. /\ rdata' = IF ctx.uart_avail THEN Head(ififo) ELSE 0
        /\ ctx' = IF ctx.uart_avail THEN [ctx EXCEPT !.uart_fetched = TRUE] ELSE ctx
    BY <1>1, <1>5 DEF CtxAfterLoad, LoadValue, Registers
  <2>2. /\ ctx'.uart_fetched <=> ctx.uart_avail
        /\ ctx'.uart_avail <=> ctx.uart_avail
        /\ ~ctx'.uart_written /\ ~ctx'.vuart_written
    BY <2>1, AccessMap DEF BoardInv, PortTypeOK, Context
  <2>3. /\ Queue' = IF ctx.uart_avail THEN Tail(ififo) ELSE ififo
        /\ MappedTty' = MappedTty /\ MappedConsole' = MappedConsole
    BY <2>2, AccessMap
  <2>4. Ready' = FALSE
    BY <2>2 DEF Ready
  <2>5. Committed' = Committed
    BY <1>1, AccessMap DEF Committed
  <2>6. Queue = ififo /\ Ready = ctx.uart_avail
    BY AccessMap
  <2>7. Board!Receive
    BY <1>1, <1>5, <2>1, <2>3, <2>4, <2>5, <2>6 DEF Board!Receive, Queue, Ready
  <2> QED
    BY <2>7
<1>6. CASE Port(a) = "unknown"
  <2>1. ctx' = ctx /\ rdata' = 0
    BY <1>1, <1>6 DEF CtxAfterLoad, LoadValue, Registers
  <2>2. Board!Ignored
    BY <1>1, <1>6, <2>1, NothingShown DEF Board!Ignored, Queue, Ready
  <2> QED
    BY <2>2
<1> QED
  BY <1>1, <1>3, <1>4, <1>5, <1>6

LEMMA RefineMemory ==
  ASSUME BoardInv, Access, failed = "no", NEW a \in program, acc' = a, ~OutOfRange(a),
         MemLoad(a) \/ MemStore(a)
  PROVE  Board!Memory
<1>1. /\ ~Entry(a).con /\ UNCHANGED <<ctx, changes>>
      /\ mem' = IF a.store THEN [mem EXCEPT ![CellOf(a)] = a.data] ELSE mem
      /\ rdata' = IF a.store THEN rdata ELSE mem[CellOf(a)]
  BY DEF MemLoad, MemStore
<1>2. Board!Port = "none" /\ Board!InRam /\ Board!Cell = CellOf(a)
  BY <1>1, BoardTargets DEF BoardInv, PortTypeOK
<1> QED
  BY <1>1, <1>2, NothingShown DEF Board!Memory, Queue, Ready

LEMMA RefineConStore ==
  ASSUME BoardInv, Access, failed = "no", NEW a \in program, acc' = a, ~Refused(a),
         ConStore(a)
  PROVE  Board!StoreReg \/ Board!Send \/ Board!Ignored
<1>1. /\ Board!Port = Port(a)
      /\ Port(a) \in Registers \cup {"UART_LSR", "UART_DATA", "unknown"}
      /\ a.store /\ ctx' = CtxAfterStore(Port(a), a.data)
      /\ changes' = IF Port(a) = "UART_DATA" THEN changes
                    ELSE Append(changes, <<Port(a), Stored(Port(a), a.data)>>)
      /\ UNCHANGED <<mem, rdata>>
  BY BoardTargets DEF ConStore, ConfregStore, BoardInv, PortTypeOK
<1>2. DOMAIN Committed = Registers /\ Committed = regs
  BY AccessMap DEF Committed
<1>3. /\ changes = <<>> /\ ~ctx.uart_written /\ ~ctx.vuart_written /\ ~ctx.uart_fetched
      /\ Queue = ififo /\ Ready = ctx.uart_avail /\ MappedTty = tty
      /\ MappedConsole = console /\ regs' = regs
  BY AccessMap
<1>4. ctx \in Context
  BY DEF BoardInv, PortTypeOK
<1>5. /\ ctx'.uart_fetched = ctx.uart_fetched /\ ctx'.uart_avail = ctx.uart_avail
      /\ ctx'.uart_written <=> Port(a) = "UART_DATA"
      /\ Port(a) = "UART_DATA" => ctx'.uart_data = Low(a.data)
      /\ ctx'.vuart_written <=> Port(a) = "VIRTUAL_UART"
      /\ Port(a) = "VIRTUAL_UART" => ctx'.vuart_data = Low(a.data)
  BY <1>1, <1>3, <1>4 DEF CtxAfterStore, Context
<1>6. Queue' = Queue /\ Ready' = Ready
  BY <1>3, <1>5, AccessMap DEF Ready
<1>7. MappedTty' = IF Port(a) = "UART_DATA" /\ opty
                   THEN <<1 - tty[1], Low(a.data)>> ELSE tty
  BY <1>5, AccessMap
<1>8. MappedConsole' = IF Port(a) = "VIRTUAL_UART" /\ 2 * Low(a.data) < Base
                       THEN <<1 - console[1], Low(a.data)>> ELSE console
  BY <1>5, AccessMap
<1>9. Port(a) # "UART_DATA" =>
        Committed' = [s \in Registers |-> IF s = Port(a) THEN Stored(Port(a), a.data)
                                          ELSE regs[s]]
  <2>1. Append(<<>>, <<Port(a), Stored(Port(a), a.data)>>)
          = <<<<Port(a), Stored(Port(a), a.data)>>>>
    OBVIOUS
  <2> QED
    BY <1>1, <1>3, <2>1, CommittedOne
<1>10. CASE Port(a) \in Registers
  <2>1. Port(a) # "UART_DATA"
    BY <1>10 DEF Registers
  <2>2. Stored(Port(a), a.data) = Board!Kept(Port(a), a.data)
    BY DEF Stored, Board!Kept, Low, High
  <2>3. regs = [s \in Registers |-> regs[s]]
    BY DEF BoardInv, QuietInv
  <2>4. Committed' = [Committed EXCEPT ![Port(a)] = Board!Kept(Port(a), a.data)]
    BY <1>2, <1>9, <1>10, <2>1, <2>2, <2>3
  <2>5. MappedTty' = MappedTty
    BY <1>3, <1>7, <2>1
  <2>6. MappedConsole' = IF Board!Port = "VIRTUAL_UART" /\ 2 * (acc'.data % Base) < Base
                         THEN Board!Put(MappedConsole, acc'.data % Base) ELSE MappedConsole
    BY <1>1, <1>3, <1>8 DEF Board!Put, Low
  <2>7. Board!StoreReg
    BY <1>1, <1>2, <1>6, <1>10, <2>4, <2>5, <2>6 DEF Board!StoreReg, Queue, Ready
  <2> QED
    BY <2>7
<1>11. CASE Port(a) = "UART_DATA"
  <2>1. a.byte
    BY <1>1, <1>11 DEF Refused, StoreRefused, ConStore
  <2>2. Committed' = Committed
    BY <1>1, <1>3, <1>11 DEF Committed
  <2>3. MappedTty' = IF opty THEN Board!Put(MappedTty, acc'.data % Base) ELSE MappedTty
    BY <1>3, <1>7, <1>11 DEF Board!Put, Low
  <2>4. MappedConsole' = MappedConsole
    BY <1>3, <1>8, <1>11
  <2>5. Board!Send
    BY <1>1, <1>6, <1>11, <2>1, <2>2, <2>3, <2>4 DEF Board!Send, Queue, Ready
  <2> QED
    BY <2>5
<1>12. CASE Port(a) = "unknown"
  <2>1. "unknown" \notin Registers
    BY DEF Registers
  <2>2. regs = [s \in Registers |-> regs[s]]
    BY DEF BoardInv, QuietInv
  <2>3. Committed' = Committed
    <3>1. Committed' = [s \in Registers |-> regs[s]]
      BY <1>9, <1>12, <2>1
    <3> QED
      BY <1>2, <2>2, <3>1
  <2>4. MappedTty' = MappedTty /\ MappedConsole' = MappedConsole
    BY <1>3, <1>7, <1>8, <1>12
  <2>5. Board!Ignored
    BY <1>1, <1>6, <1>12, <2>3, <2>4 DEF Board!Ignored, Queue, Ready
  <2> QED
    BY <2>5
<1>13. Port(a) # "UART_LSR"
  BY <1>1 DEF Refused, StoreRefused, ConStore
<1> QED
  BY <1>1, <1>10, <1>11, <1>12, <1>13

LEMMA RefineAccess ==
  ASSUME BoardInv, Access, failed = "no"
  PROVE  Board!Access
<1>1. PICK a \in program : /\ ~Refused(a) /\ ~OutOfRange(a) /\ acc' = a
                           /\ ConLoad(a) \/ ConStore(a) \/ MemLoad(a) \/ MemStore(a)
  BY DEF Access
<1>2. \/ Board!StoreReg \/ Board!LoadReg \/ Board!Send \/ Board!Status
      \/ Board!Receive \/ Board!Ignored \/ Board!Memory
  BY <1>1, RefineConLoad, RefineConStore, RefineMemory
<1>3. acc = None /\ UNCHANGED <<saved_mem, opty, failed>>
  BY AccessMap
<1> QED
  BY <1>1, <1>2, <1>3 DEF Board!Access, None, Board!None

\* An assertion that fails is an end of the run the abstract board knows.
LEMMA RefineFails ==
  ASSUME BoardInv, CycleFails, failed = "no", UNCHANGED program
  PROVE  Board!Refuse \/ Board!Monitor
<1>1. \A why : Fail(why) =>
        /\ failed' = why /\ UNCHANGED <<rdata, mem, saved_mem, opty>>
        /\ Committed' = Committed /\ Queue' = Queue /\ Ready' = Ready
        /\ MappedTty' = MappedTty /\ MappedConsole' = MappedConsole
  BY DEF Fail, confregVars, threadVars, Committed, Queue, Popped, Ready, MappedTty,
     MappedConsole, Show, HasChar
<1>2. ASSUME AccessFails PROVE Board!Refuse
  <2>1. acc = None /\ acc' \in program
    BY <1>2 DEF AccessFails, BoardInv, QuietInv
  <2>2. /\ Board!Port = IF Entry(acc').con THEN Port(acc') ELSE "none"
        /\ ~Entry(acc').con => (Board!InRam <=> ~OutOfRange(acc'))
    BY <2>1, BoardTargets DEF BoardInv, PortTypeOK
  <2>3. CASE Refused(acc') /\ Fail("refused")
    <3>1. acc'.store /\ (Board!Port = "UART_LSR" \/ (Board!Port = "UART_DATA" /\ ~acc'.byte))
      BY <2>2, <2>3 DEF Refused, StoreRefused
    <3> QED
      BY <1>1, <2>1, <2>3, <3>1 DEF Board!Refuse, None, Board!None, Queue, Ready
  <2>4. CASE OutOfRange(acc') /\ Fail("out of range")
    <3>1. Board!Port = "none" /\ ~Board!InRam
      BY <2>2, <2>4 DEF OutOfRange
    <3> QED
      BY <1>1, <2>1, <2>4, <3>1 DEF Board!Refuse, None, Board!None, Queue, Ready
  <2> QED
    BY <1>2, <2>3, <2>4 DEF AccessFails
<1>3. ~SyncFails
  BY DEF SyncFails, FifoUnderrun, BoardInv, FetchInv
<1>4. ASSUME CheckoutFails PROVE Board!Monitor
  BY <1>1, <1>4 DEF CheckoutFails, NotInOrder, NotAcked, Board!Monitor, Queue, Ready
<1> QED
  BY <1>2, <1>3, <1>4 DEF CycleFails

LEMMA RefineNext ==
  ASSUME BoardInv, BoardInv', [Next]_vars
  PROVE  [Board!Next]_Board!vars
<1>1. ASSUME UNCHANGED vars PROVE UNCHANGED Board!vars
  <2>1. UNCHANGED <<ctx, ctx0, regs, changes, ififo, opty, tty, acc, rdata, mem, saved_mem,
                    program, phase, console, failed>>
    BY <1>1 DEF vars, confregVars, threadVars, busVars
  <2> QED
    BY <2>1, Unseen DEF Committed, Queue, Popped, Ready, MappedTty, MappedConsole, Show,
       HasChar
<1>2. ASSUME Running PROVE Board!Next \/ UNCHANGED Board!vars
  <2>1. failed = "no" /\ UNCHANGED program
    BY <1>2 DEF Running
  <2>2. CASE CycleStep
    BY <2>1, <2>2, RefineIdle, RefineAccess, RefineSyncTty, RefineCommit, RefineCheckout
    DEF CycleStep, Board!Next
  <2>3. CASE CycleFails
    BY <2>1, <2>3, RefineFails DEF Board!Next
  <2>4. CASE Reset
    BY <2>1, <2>4, RefineReset DEF Board!Next
  <2>5. CASE ThreadStep
    BY <2>1, <2>5, RefineThread DEF Board!Next
  <2> QED
    BY <1>2, <2>2, <2>3, <2>4, <2>5 DEF Running
<1> QED
  BY <1>1, <1>2 DEF Next, Ended

\* For every layout, every program and every interleaving of the simulation with
\* the thread of the serial port: what confreg.cpp spreads over a load, a store,
\* the queue of changes, the context and its copy, and the next sync is to the
\* program one atomic access, and each character is read once and in order.
THEOREM SimulationIsBoard == Spec => ImplementsPeripherals
<1>1. Spec => []BoardInv
  BY BoardInvariant
<1>2. Init => Board!Init
  BY RefineInit
<1>3. BoardInv /\ BoardInv' /\ [Next]_vars => [Board!Next]_Board!vars
  BY RefineNext
<1> QED
  BY <1>1, <1>2, <1>3, PTL DEF Spec, ImplementsPeripherals, Board!Spec

-----------------------------------------------------------------------------
(* What is typed is offered                                                *)

\* What the two threads need for a step: the one that has a character, no lock but
\* its own; the simulation, no lock unless it has a character to pop.
StepPossible ==
  failed = "no" => /\ thread \in {"lock", "push"} => ENABLED <<Typing>>_vars
                   /\ ~ctx.uart_fetched => ENABLED <<Ticking>>_vars

\* The steps of the cycle until it looks at the queue and sees a character there.
PhasesLeft ==
  CASE phase = "rest" -> 1 [] phase = "uart" -> 2 [] phase = "access" -> 3 [] OTHER -> 4

InQueue(n) == ififo # <<>> /\ PhasesLeft <= n

\* The status register offers a character, the run has failed, or a reset has
\* cleared the queue.
Settled == ctx.uart_avail \/ failed # "no" \/ (thread # "push" /\ ififo = <<>>)

\* The thread goes from the lock to the push, and only it pushes.
LEMMA ThreadGoes ==
  ASSUME PortTypeOK, [Next]_vars
  PROVE  /\ thread = "lock" => thread' \in {"lock", "push"}
         /\ thread = "lock" /\ <<Typing>>_vars => thread' = "push"
         /\ thread = "push" => thread' = "push" \/ ififo' # <<>>
         /\ thread = "push" /\ <<Typing>>_vars => ififo' # <<>>
<1>1. ThreadStep => /\ thread = "lock" => thread' = "push"
                    /\ thread = "push" => ififo' # <<>>
  <2>1. Append(ififo, typed) # <<>>
    BY AppendNotEmpty DEF PortTypeOK
  <2> QED BY <2>1 DEF ThreadStep, Fgetc, Lock, Push, Unlock
<1>2. ThreadStep \/ thread' = thread
  BY DEF Next, Running, Ended, CycleStep, CycleFails, Idle, Access, AccessFails, SyncTty,
     SyncUart, SyncFails, SyncCommit, SyncRest, Checkout, CheckoutFails, NotInOrder,
     NotAcked, Reset, ConfregReset, Fail, vars, confregVars, threadVars
<1> QED BY <1>1, <1>2 DEF Typing

\* A character in the queue stays there until it is offered or a reset comes, and
\* each step of the cycle brings the offer nearer.
LEMMA QueueGoes ==
  ASSUME PortTypeOK, FetchInv, QuietInv, ~Settled, ififo # <<>>, [Next]_vars
  PROVE  /\ Settled' \/ (ififo' # <<>> /\ PhasesLeft' <= PhasesLeft)
         /\ <<Ticking>>_vars => Settled' \/ (ififo' # <<>> /\ PhasesLeft' < PhasesLeft)
<1>1. failed = "no" /\ ~ctx.uart_avail /\ ~ctx.uart_fetched
  BY DEF Settled, FetchInv
<1>2. phase \in {"access", "uart", "rest", "check"}
  BY DEF QuietInv
<1>3. CASE CycleStep
  <2>1. Idle \/ Access \/ SyncTty \/ Checkout => ififo' = ififo /\ PhasesLeft' < PhasesLeft
    BY <1>1 DEF Idle, Access, SyncTty, SyncUart, Popped, Checkout, PhasesLeft,
       confregVars, threadVars
  <2>2. SyncCommit => ctx'.uart_avail
    BY DEF SyncCommit, SyncRest, CtxNext, PortTypeOK, Context
  <2> QED BY <1>3, <2>1, <2>2 DEF CycleStep, Settled, PhasesLeft
<1>4. CASE CycleFails
  BY <1>4 DEF CycleFails, AccessFails, SyncFails, CheckoutFails, NotInOrder,
     NotAcked, Fail, Settled
<1>5. CASE Reset
  BY <1>5 DEF Reset, ConfregReset, Unlocked, Settled
<1>6. CASE ThreadStep
  <2>1. Append(ififo, typed) # <<>>
    BY AppendNotEmpty DEF PortTypeOK
  <2>2. ififo' # <<>> /\ PhasesLeft' = PhasesLeft
    BY <1>6, <2>1 DEF ThreadStep, Fgetc, Lock, Push, Unlock, PhasesLeft
  <2>3. <<Ticking>>_vars => CycleStep \/ CycleFails
    BY DEF Ticking
  <2> QED BY <1>3, <1>4, <2>2, <2>3 DEF PhasesLeft
<1>7. CASE UNCHANGED vars
  BY <1>7 DEF vars, confregVars, threadVars, PhasesLeft
<1> QED BY <1>3, <1>4, <1>5, <1>6, <1>7 DEF Next, Running, Ended

\* Neither thread keeps the other from its work: each character typed gets into the
\* queue, and what is there is offered or cleared, for every program, any resets and
\* any number of characters.  That the threads can step is a hypothesis here.
THEOREM OfferedInTheEnd == FairSpec /\ []StepPossible => TypedIsOffered
<1> DEFINE Good    == BoardInv /\ [Next]_vars
           Locking == thread = "lock"
           Pushing == thread = "push"
           Over    == failed # "no"
<1>1. PhasesLeft \in 1 .. 4 /\ PhasesLeft' \in 1 .. 4
  BY DEF PhasesLeft
<1>2. /\ (ififo # <<>> <=> InQueue(4)) /\ (ififo' # <<>> <=> InQueue(4)')
      /\ ~InQueue(0)
  BY <1>1 DEF InQueue
<1>3. /\ Good /\ Locking => Locking' \/ Pushing'
      /\ Good /\ Locking /\ <<Typing>>_vars => Pushing'
      /\ Good /\ Pushing => Pushing' \/ InQueue(4)'
      /\ Good /\ Pushing /\ <<Typing>>_vars => InQueue(4)'
  BY <1>1, <1>2, ThreadGoes DEF BoardInv
<1>4. ASSUME NEW n \in 1 .. 4, NEW m \in 0 .. 3, m = n - 1, Good, ~Settled, InQueue(n)
      PROVE  /\ Settled' \/ InQueue(n)'
             /\ <<Ticking>>_vars => Settled' \/ InQueue(m)'
  BY <1>1, <1>4, QueueGoes DEF BoardInv, InQueue
<1>5. /\ Good /\ InQueue(1) => Settled \/ Settled' \/ InQueue(1)'
      /\ Good /\ InQueue(2) => Settled \/ Settled' \/ InQueue(2)'
      /\ Good /\ InQueue(3) => Settled \/ Settled' \/ InQueue(3)'
      /\ Good /\ InQueue(4) => Settled \/ Settled' \/ InQueue(4)'
  BY <1>4
<1>6. /\ Good /\ InQueue(1) /\ <<Ticking>>_vars => Settled \/ Settled' \/ InQueue(0)'
      /\ Good /\ InQueue(2) /\ <<Ticking>>_vars => Settled \/ Settled' \/ InQueue(1)'
      /\ Good /\ InQueue(3) /\ <<Ticking>>_vars => Settled \/ Settled' \/ InQueue(2)'
      /\ Good /\ InQueue(4) /\ <<Ticking>>_vars => Settled \/ Settled' \/ InQueue(3)'
  BY <1>4
<1>7. /\ StepPossible /\ BoardInv /\ ~Settled => ENABLED <<Ticking>>_vars
      /\ StepPossible /\ (Locking \/ Pushing) => ENABLED <<Typing>>_vars \/ Over
  BY DEF StepPossible, BoardInv, FetchInv, Settled
<1>8. Over => Settled
  BY DEF Settled
<1>9. FairSpec /\ []StepPossible => (Locking ~> Pushing \/ Over) /\ (Pushing ~> Settled)
  <2> HIDE DEF Good, Locking, Pushing, Over
  <2> QED
    BY <1>2, <1>3, <1>5, <1>6, <1>7, <1>8, BoardInvariant, PTL DEF FairSpec, Spec, Good
<1> QED
  BY <1>9, PTL DEF TypedIsOffered, Settled
=============================================================================
