--------------------------------- MODULE Isa --------------------------------
(***************************************************************************)
(* The machine the programmer sees: one instruction per step, no pipeline, *)
(* no bus.  This is what the core promises; VTop is shown to implement it. *)
(*                                                                         *)
(* The instruction set is RV64I as this core has it: no traps, opcodes it  *)
(* does not know do nothing, bits 1:0 of a fetch address are ignored.      *)
(* Program text and data are separate memories (see README).               *)
(***************************************************************************)
EXTENDS Common

CONSTANTS
  PCINIT,
  Programs,        \* program texts
  RamImages,       \* what data memory may hold at first
  TextLine(_, _)   \* the two instruction words of a doubleword: program, line

VARIABLES
  program,   \* the text being run; never changes
  pc,
  gpr,
  ram

vars == <<program, pc, gpr, ram>>

InstrAt(p, a) == TextLine(p, LineOf(a))[Half(a)]
Current == InstrAt(program, pc)

(***************************************************************************)
(* The operation of each arithmetic instruction, by its funct3.            *)
(***************************************************************************)
BaseOp(f) ==
  CASE f = 0 -> "ADD" [] f = 1 -> "SLL" [] f = 2 -> "SLT" [] f = 3 -> "SLTU"
    [] f = 4 -> "XOR" [] f = 5 -> "SRL" [] f = 6 -> "OR" [] f = 7 -> "AND"

\* Reserved funct3 of the 32-bit groups execute as ADDW.
BaseOp32(f) ==
  CASE f = 1 -> "SLLW" [] f = 5 -> "SRLW" [] OTHER -> "ADDW"

\* funct7[5] selects SUB and SRA; an immediate has no subtraction.
OpOf(i) ==
  IF i.op \in {"OP", "OP_IMM"}
  THEN CASE i.alt /\ i.funct3 = 0 /\ i.op = "OP" -> "SUB"
         [] i.alt /\ i.funct3 = 5 -> "SRA"
         [] OTHER -> BaseOp(i.funct3)
  ELSE CASE i.alt /\ i.funct3 = 0 /\ i.op = "OP_32" -> "SUBW"
         [] i.alt /\ i.funct3 = 5 -> "SRAW"
         [] OTHER -> BaseOp32(i.funct3)

\* Register 0 reads as 0 because it is never written.
Written(r, v) == IF r = 0 THEN gpr ELSE [gpr EXCEPT ![r] = v]

(***************************************************************************)
(* What executing instruction i does: one operator per effect.             *)
(***************************************************************************)
Address(i) == Add(gpr[i.rs1], i.imm)

Result(i) ==
  CASE i.op \in {"OP", "OP_32"}         -> Alu(OpOf(i), gpr[i.rs1], gpr[i.rs2])
    [] i.op \in {"OP_IMM", "OP_IMM_32"} -> Alu(OpOf(i), gpr[i.rs1], i.imm)
    [] i.op = "LUI"                     -> i.imm
    [] i.op = "AUIPC"                   -> Add(pc, i.imm)
    [] i.op = "LOAD"                    -> ExtendLoad(ram[LineOf(Address(i))],
                                             AddrLow(Address(i)), i.funct3)
    [] OTHER                            -> Add(pc, 4)  \* JAL, JALR: the link

HasResult(i) ==
  i.op \in {"OP", "OP_32", "OP_IMM", "OP_IMM_32", "LUI", "AUIPC", "LOAD", "JAL",
            "JALR"}

GprAfter(i) == IF HasResult(i) THEN Written(i.rd, Result(i)) ELSE gpr

PcAfter(i) ==
  CASE i.op = "JAL"  -> Add(pc, i.imm)
    [] i.op = "JALR" -> Address(i) - (Address(i) % 2)
    [] i.op = "BRANCH" /\ BranchTaken(i.funct3, gpr[i.rs1], gpr[i.rs2])
                     -> Add(pc, i.imm)
    [] OTHER         -> Add(pc, 4)

Stored(i) ==
  LET a      == Address(i)
      strobe == StoreStrobe(i.funct3, AddrLow(a))
      data   == AlignStore(gpr[i.rs2], AddrLow(a))
  IN  [ram EXCEPT ![LineOf(a)] =
        [l \in Lane |-> IF l \in strobe THEN data[l] ELSE @[l]]]

RamAfter(i) == IF i.op = "STORE" THEN Stored(i) ELSE ram

-----------------------------------------------------------------------------
Init ==
  /\ program \in Programs
  /\ pc = PCINIT
  /\ gpr = [r \in Reg |-> 0]
  /\ ram \in RamImages

Step ==
  /\ pc' = PcAfter(Current)
  /\ gpr' = GprAfter(Current)
  /\ ram' = RamAfter(Current)
  /\ UNCHANGED program

\* Reset restarts the program.  Memory is not reset, and the store the
\* machine had reached may or may not have been done.
Reset ==
  /\ pc' = PCINIT
  /\ gpr' = [r \in Reg |-> 0]
  /\ ram' \in {ram, RamAfter(Current)}
  /\ UNCHANGED program

Next == Step \/ Reset

Spec == Init /\ [][Next]_vars
=============================================================================
