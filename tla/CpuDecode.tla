----------------------------- MODULE CpuDecode ------------------------------
(***************************************************************************)
(* cpu_decode: from an instruction word to the controls that travel down   *)
(* the pipeline.  The slicing of the immediates is the imm field of the    *)
(* word; everything the opcode, funct3 and funct7[5] decide is here.       *)
(***************************************************************************)
EXTENDS Common

ArithOp(i) ==
  CASE i.funct3 = 0 -> IF i.op = "OP" /\ i.alt THEN "SUB" ELSE "ADD"
    [] i.funct3 = 1 -> "SLL"
    [] i.funct3 = 2 -> "SLT"
    [] i.funct3 = 3 -> "SLTU"
    [] i.funct3 = 4 -> "XOR"
    [] i.funct3 = 5 -> IF i.alt THEN "SRA" ELSE "SRL"
    [] i.funct3 = 6 -> "OR"
    [] OTHER        -> "AND"

ArithOp32(i) ==
  CASE i.funct3 = 0 -> IF i.op = "OP_32" /\ i.alt THEN "SUBW" ELSE "ADDW"
    [] i.funct3 = 1 -> "SLLW"
    [] i.funct3 = 5 -> IF i.alt THEN "SRAW" ELSE "SRLW"
    [] OTHER        -> "ADDW"

DecodeAluOp(i) ==
  CASE i.op \in {"OP_IMM", "OP"}       -> ArithOp(i)
    [] i.op \in {"OP_IMM_32", "OP_32"} -> ArithOp32(i)
    [] OTHER                           -> "ADD"

DecodeImm(i) ==
  IF i.op \in {"OP_IMM", "LOAD", "JALR", "OP_IMM_32", "STORE", "BRANCH", "LUI",
               "AUIPC", "JAL"}
  THEN i.imm ELSE 0

DecodeWbSel(i) ==
  CASE i.op = "LOAD"              -> "WB_MEM"
    [] i.op \in {"JAL", "JALR"}   -> "WB_PC4"
    [] OTHER                      -> "WB_ALU"

AluSrc(i) ==
  i.op \in {"OP_IMM", "OP_IMM_32", "LOAD", "STORE", "LUI", "AUIPC"}

RegWrite(i) ==
  i.op \in {"OP_IMM", "OP_IMM_32", "LOAD", "OP", "OP_32", "LUI", "AUIPC", "JAL",
            "JALR"}

Decode(i) ==
  [rd        |-> i.rd,
   rs1       |-> IF i.op = "LUI" THEN 0 ELSE i.rs1,
   rs2       |-> i.rs2,
   funct3    |-> i.funct3,
   imm       |-> DecodeImm(i),
   alu_op    |-> DecodeAluOp(i),
   alu_src   |-> AluSrc(i),
   use_pc    |-> i.op = "AUIPC",
   mem_read  |-> i.op = "LOAD",
   mem_write |-> i.op = "STORE",
   reg_write |-> RegWrite(i),
   is_branch |-> i.op = "BRANCH",
   is_jump   |-> i.op \in {"JAL", "JALR"},
   is_jalr   |-> i.op = "JALR",
   wb_sel    |-> DecodeWbSel(i)]
=============================================================================
