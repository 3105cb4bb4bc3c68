------------------------------- MODULE Common -------------------------------
(***************************************************************************)
(* The types shared by the whole design (vsrc/include/common.sv): machine  *)
(* words, registers, instruction words seen through their fields, and the  *)
(* request and response records of the instruction bus (IBus), the data    *)
(* bus (DBus) and the cache bus (CBus).                                    *)
(*                                                                         *)
(* The combinational units of the datapath are constant operators: what is *)
(* proved about the pipeline holds whatever the ALU or the byte lanes      *)
(* compute.  Module Datapath gives them the meaning the RTL gives them.    *)
(***************************************************************************)
EXTENDS Integers

CONSTANTS
  WordCount,            \* number of machine words, 2^64 in the RTL
  Byte,                 \* the values of one byte lane
  Reg,                  \* the register numbers, 0..31 in the RTL
  LineCount,            \* doublewords the external RAM decodes
  Alu(_, _, _),         \* cpu_alu: operation, operand a, operand b
  BranchTaken(_, _, _), \* branch comparison: funct3, rs1, rs2
  StoreStrobe(_, _),    \* byte lanes a store enables: funct3, addr[2:0]
  AlignStore(_, _),     \* store data moved to its lanes: data, addr[2:0]
  ExtendLoad(_, _, _)   \* loaded value: bus data, addr[2:0], funct3

Word   == 0 .. WordCount - 1
Funct3 == 0 .. 7
Lane   == 0 .. 7                  \* the byte lanes of a 64-bit bus
Line   == 0 .. LineCount - 1

\* 64-bit addition, carry out dropped.
Add(a, b) == (a + b) % WordCount

\* The parts of an address the design looks at: addr[2:0], addr[2], and the
\* doubleword the RAM selects.
AddrLow(a) == a % 8
Half(a)    == (a \div 4) % 2
LineOf(a)  == (a \div 8) % LineCount

-----------------------------------------------------------------------------
(* Instruction words.  A 32-bit word is the record of the fields cpu_decode *)
(* slices out of it; alt is funct7[5] and imm is the immediate in the       *)
(* format its opcode selects.  OTHER stands for every opcode the decoder    *)
(* does not list, TRAP_INST for the one word that ends a simulation.        *)

Opcode == {"OP_IMM", "OP_IMM_32", "LOAD", "STORE", "OP", "OP_32", "LUI",
           "AUIPC", "BRANCH", "JAL", "JALR", "OTHER", "TRAP_INST"}

Instr == [op : Opcode, rd : Reg, rs1 : Reg, rs2 : Reg, funct3 : Funct3,
          alt : BOOLEAN, imm : Word]

ZeroInstr == [op |-> "OTHER", rd |-> 0, rs1 |-> 0, rs2 |-> 0, funct3 |-> 0,
              alt |-> FALSE, imm |-> 0]

AluOp == {"ADD", "SUB", "ADDW", "SUBW", "AND", "OR", "XOR", "SLL", "SRL", "SRA",
          "SLT", "SLTU", "SLLW", "SRLW", "SRAW"}
WbSel == {"WB_ALU", "WB_MEM", "WB_PC4"}

DecodeOut == [rd : Reg, rs1 : Reg, rs2 : Reg, funct3 : Funct3, imm : Word,
              alu_op : AluOp, alu_src : BOOLEAN, use_pc : BOOLEAN,
              mem_read : BOOLEAN, mem_write : BOOLEAN, reg_write : BOOLEAN,
              is_branch : BOOLEAN, is_jump : BOOLEAN, is_jalr : BOOLEAN,
              wb_sel : WbSel]

-----------------------------------------------------------------------------
(* Buses.  The 64 bits a memory answers with have two readings: eight byte  *)
(* lanes of data, or two instruction words.                                 *)

BusData  == [Lane -> Byte]
TextPair == [{0, 1} -> Instr]
ZeroData == [l \in Lane |-> 0]
ZeroText == [h \in {0, 1} |-> ZeroInstr]

MSize == {"MSIZE1", "MSIZE2", "MSIZE4", "MSIZE8"}

IBusReq  == [valid : BOOLEAN, addr : Word]
IBusResp == [data_ok : BOOLEAN, data : Instr]
DBusReq  == [valid : BOOLEAN, addr : Word, size : MSize, strobe : SUBSET Lane,
             data : BusData]
DBusResp == [data_ok : BOOLEAN, data : BusData, text : TextPair]
CBusReq  == [valid : BOOLEAN, is_write : BOOLEAN, size : MSize, addr : Word,
             strobe : SUBSET Lane, data : BusData]
CBusResp == [ready : BOOLEAN, last : BOOLEAN, data : BusData, text : TextPair]

\* The all-zero request and response ('0).
NoReq  == [valid |-> FALSE, is_write |-> FALSE, size |-> "MSIZE1", addr |-> 0,
           strobe |-> {}, data |-> ZeroData]
NoResp == [ready |-> FALSE, last |-> FALSE, data |-> ZeroData, text |-> ZeroText]

-----------------------------------------------------------------------------
(* What the constants are assumed to be: the sizes, and that each          *)
(* combinational unit drives a value of its output's type.  The one thing  *)
(* assumed of what a unit computes is that ALU_ADD adds.                   *)

ASSUME SizeAssumption ==
  /\ WordCount \in Nat \ {0}
  /\ LineCount \in Nat \ {0}
  /\ 0 \in Byte
  /\ 0 \in Reg

ASSUME AluAssumption ==
  \A a, b \in Word :
    /\ \A op \in AluOp : Alu(op, a, b) \in Word
    /\ Alu("ADD", a, b) = Add(a, b)

ASSUME BranchAssumption ==
  \A f \in Funct3 : \A a, b \in Word : BranchTaken(f, a, b) \in BOOLEAN

ASSUME LaneAssumption ==
  \A low \in Lane :
    /\ \A f \in Funct3 : StoreStrobe(f, low) \in SUBSET Lane
    /\ \A w \in Word : AlignStore(w, low) \in BusData
    /\ \A d \in BusData, f \in Funct3 : ExtendLoad(d, low, f) \in Word
=============================================================================
