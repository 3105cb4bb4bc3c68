----------------------------- MODULE MCBusDriver ----------------------------
(***************************************************************************)
(* Two things the harness and the hardware share, one after the other.     *)
(* First the units on every pair of eight-bit operands: the counter runs   *)
(* through the words, the properties take every second one.  The core and  *)
(* the abstract machine share these units, so that they agree with each    *)
(* other says nothing of what the units compute; this does.  Then, with    *)
(* the counter at its end, the drivers that put accesses on the bus.       *)
(***************************************************************************)
EXTENDS MemoryCell, Datapath

VARIABLE a       \* the first operand; WordCount when all are done

\* A doubleword, its last halfword, the same one by an address that is not
\* aligned, and the upper word of another doubleword.
MCAccesses ==
  {[addr |-> 0, size |-> 8], [addr |-> 6, size |-> 2], [addr |-> 7, size |-> 2],
   [addr |-> 12, size |-> 4]}

\* What is stored: not zero, which is what memory is not at first.
MCValues == {[l \in Lane |-> IF l = 1 THEN 1 ELSE 0]}

CountUp == a \in Word /\ a' = a + 1 /\ UNCHANGED vars
Drive   == a = WordCount /\ DriverNext /\ UNCHANGED a

Init == DriverInit /\ a = 0
Next == CountUp \/ Drive
Spec == Init /\ [][Next]_<<vars, a>> /\ WF_vars(Running)

Bit(x, k) == (x \div 2 ^ k) % 2
Top == Xlen - 1

\* What a doubleword holds after a store into it (core.sv, the functions
\* store_strobe_from_funct3 and align_store_data).
AfterStore(old, f, low) ==
  [l \in Lane |-> IF l \in StoreStrobe(f, low) THEN AlignStore(a, low)[l] ELSE old[l]]

Old == {[l \in Lane |-> 0], [l \in Lane |-> 2 ^ LaneBits - 1]}

\* The two lane functions of the store and the one of the load
\* (core.sv 35-73) fit together: what an aligned store of any size leaves is
\* what loads of that size find, extended either way; byte loads find it in
\* little-endian order; and the bytes around it are as they were.
StoreThenLoad ==
  a \in Word =>
    \A f \in 0 .. 3, old \in Old : \A low \in {l \in Lane : l % 2 ^ f = 0} :
      LET n    == 2 ^ f
          line == AfterStore(old, f, low)
      IN  /\ ExtendLoad(line, low, f) = SignLanes(a, n)
          /\ f < 3 => ExtendLoad(line, low, f + 4) = ZeroLanes(a, n)
          /\ \A k \in 0 .. n - 1 : ExtendLoad(line, low + k, 4) = ToBus(a)[k]
          /\ \A l \in Lane \ (low .. low + n - 1) : line[l] = old[l]

\* The branch comparator and the ALU are two implementations of one order
\* (core.sv 333-344, cpu_alu.sv 22-31): a branch is taken just when the
\* comparison the ALU would make says so.
BranchesAgreeWithAlu ==
  a \in Word =>
    \A b \in Word :
      /\ BranchTaken(0, a, b) <=> Alu("SUB", a, b) = 0
      /\ BranchTaken(1, a, b) <=> Alu("XOR", a, b) # 0
      /\ BranchTaken(4, a, b) <=> Alu("SLT", a, b) = 1
      /\ BranchTaken(5, a, b) <=> Alu("SLT", a, b) = 0
      /\ BranchTaken(6, a, b) <=> Alu("SLTU", a, b) = 1
      /\ BranchTaken(7, a, b) <=> Alu("SLTU", a, b) = 0
      /\ Alu("ADD", Alu("SUB", a, b), b) = a

\* Shifts, bit by bit: the amount is the low bits of the operand, as many as
\* the width needs and no more, and the bit that comes in is 0, or the sign
\* (cpu_alu.sv 27-29, 41-52).
ShiftsMoveBits ==
  a \in Word =>
    \A b \in Word :
      LET s  == b % Xlen
          s4 == b % (Xlen \div 2)
          h  == Xlen \div 2 - 1           \* the sign bit of the low half
          Low(k) == IF k > h THEN h ELSE k
      IN  \A k \in 0 .. Top :
            /\ Bit(Alu("SLL", a, b), k) = IF k < s THEN 0 ELSE Bit(a, k - s)
            /\ Bit(Alu("SRL", a, b), k) = IF k + s > Top THEN 0 ELSE Bit(a, k + s)
            /\ Bit(Alu("SRA", a, b), k) = Bit(a, IF k + s > Top THEN Top ELSE k + s)
            /\ Bit(Alu("SLLW", a, b), k) =
                 IF Low(k) < s4 THEN 0 ELSE Bit(a, Low(k) - s4)
            /\ Bit(Alu("SRLW", a, b), k) =
                 IF Low(k) + s4 > h THEN 0 ELSE Bit(a, Low(k) + s4)
            /\ Bit(Alu("SRAW", a, b), k) = Bit(a, Low(Low(k) + s4))

\* The harness and the hardware mean the same bytes: for an aligned access of
\* any size the lanes LoadOp strobes are the core's, what it places in them is
\* what the core does, and what it takes out of a doubleword is what the core
\* loads unsigned (bus.h 26-264 against core.sv 35-73).
HarnessLanesAgree ==
  a \in Word =>
    \A f \in 0 .. 3 : \A low \in {l \in Lane : l % 2 ^ f = 0} :
      LET op == Parse(2 ^ f, low)
      IN  /\ StrobeOf(op) = StoreStrobe(f, low)
          /\ \A l \in StrobeOf(op) : Place(op, ToBus(a))[l] = AlignStore(a, low)[l]
          /\ FromBus(Truncate(2 ^ f, Apply(op, ToBus(a)))) =
               ExtendLoad(ToBus(a), low, IF f = 3 THEN 3 ELSE f + 4)

\* The units of the core compute what the branches, the shifts, the lanes and
\* the harness take them to compute, for every pair of operands.
UnitsAgree ==
  StoreThenLoad /\ BranchesAgreeWithAlu /\ ShiftsMoveBits /\ HarnessLanesAgree
==============================================================================
