------------------------------ MODULE Datapath ------------------------------
(***************************************************************************)
(* What the combinational units of the RTL compute, for a word of eight    *)
(* lanes of LaneBits bits: cpu_alu, the branch comparison and the byte     *)
(* lane functions of core.sv.  The RTL has LaneBits = 8; the widths it     *)
(* writes as constants (64, 32, 6, 5) are written here from LaneBits.      *)
(***************************************************************************)
EXTENDS Common, Bitwise, FiniteSetsExt

CONSTANT LaneBits

ASSUME LaneBitsAssumption ==
  /\ LaneBits \in Nat \ {0}
  /\ WordCount = 2 ^ (8 * LaneBits)
  /\ Byte = 0 .. (2 ^ LaneBits) - 1

Xlen      == 8 * LaneBits
HalfCount == 2 ^ (Xlen \div 2)       \* values of the low word[31:0]
LanePow(n) == 2 ^ (LaneBits * n)     \* weight of lane n

\* The signed reading of the low bits-many values in count.
SignedIn(x, count) == IF 2 * x >= count THEN x - count ELSE x
Signed(a)          == SignedIn(a, WordCount)

-----------------------------------------------------------------------------
(* cpu_alu *)

\* sext32: the low half of x, sign-extended.
Sext32(x) == SignedIn(x % HalfCount, HalfCount) % WordCount

Shamt(b)   == b % Xlen               \* op_b[5:0]
Shamt32(b) == b % (Xlen \div 2)      \* op_b[4:0]
BoolWord(p) == IF p THEN 1 ELSE 0

RtlAlu(op, a, b) ==
  CASE op = "ADD"  -> (a + b) % WordCount
    [] op = "SUB"  -> (a - b) % WordCount
    [] op = "AND"  -> a & b
    [] op = "OR"   -> a | b
    [] op = "XOR"  -> a ^^ b
    [] op = "SLL"  -> (a * 2 ^ Shamt(b)) % WordCount
    [] op = "SRL"  -> a \div 2 ^ Shamt(b)
    [] op = "SRA"  -> (Signed(a) \div 2 ^ Shamt(b)) % WordCount
    [] op = "SLT"  -> BoolWord(Signed(a) < Signed(b))
    [] op = "SLTU" -> BoolWord(a < b)
    [] op = "ADDW" -> Sext32(a + b)
    [] op = "SUBW" -> Sext32(a - b)
    [] op = "SLLW" -> Sext32((a % HalfCount) * 2 ^ Shamt32(b))
    [] op = "SRLW" -> Sext32((a % HalfCount) \div 2 ^ Shamt32(b))
    [] op = "SRAW" -> Sext32(SignedIn(a % HalfCount, HalfCount) \div 2 ^ Shamt32(b))

RtlBranchTaken(f, a, b) ==
  CASE f = 0 -> a = b
    [] f = 1 -> a # b
    [] f = 4 -> Signed(a) < Signed(b)
    [] f = 5 -> Signed(a) >= Signed(b)
    [] f = 6 -> a < b
    [] f = 7 -> a >= b
    [] OTHER -> FALSE

-----------------------------------------------------------------------------
(* Byte lanes *)

ToBus(w)   == [l \in Lane |-> (w \div LanePow(l)) % LanePow(1)]
FromBus(d) == MapThenSumSet(LAMBDA l : d[l] * LanePow(l), Lane)

RtlStoreStrobe(f, low) ==
  CASE f = 0 -> {low}
    [] f = 1 -> (low .. low + 1) \cap Lane
    [] f = 2 -> (low .. low + 3) \cap Lane
    [] OTHER -> Lane

RtlAlignStore(w, low) == ToBus((w * LanePow(low)) % WordCount)

\* The low n lanes of x, sign- or zero-extended.
SignLanes(x, n) == SignedIn(x % LanePow(n), LanePow(n)) % WordCount
ZeroLanes(x, n) == x % LanePow(n)

RtlExtendLoad(d, low, f) ==
  LET shifted == FromBus(d) \div LanePow(low)
  IN  CASE f = 0 -> SignLanes(shifted, 1)
        [] f = 1 -> SignLanes(shifted, 2)
        [] f = 2 -> SignLanes(shifted, 4)
        [] f = 4 -> ZeroLanes(shifted, 1)
        [] f = 5 -> ZeroLanes(shifted, 2)
        [] f = 6 -> ZeroLanes(shifted, 4)
        [] OTHER -> shifted
=============================================================================
