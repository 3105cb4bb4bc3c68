------------------------------ MODULE MCProgram -----------------------------
(***************************************************************************)
(* Values for TLC: three registers, eight-bit words of eight one-bit lanes *)
(* (so that every load and store width exists), a RAM of four doublewords, *)
(* and every program of some instructions drawn from a menu.  What follows *)
(* a program is "halt", a jump to itself.                                  *)
(***************************************************************************)
EXTENDS Datapath

I(op, rd, rs1, rs2, f3, imm) ==
  [op |-> op, rd |-> rd, rs1 |-> rs1, rs2 |-> rs2, funct3 |-> f3,
   alt |-> FALSE, imm |-> imm % WordCount]

\* The instructions, under their assembly.  Where a format has no rs2, or no
\* rd, the field holds what the immediate's bits would put there.
Code ==
  [addi_x1_x1_1  |-> I("OP_IMM", 1, 1, 1, 0, 1),
   addi_x1_x1_8  |-> I("OP_IMM", 1, 1, 0, 0, 8),
   addi_x2_x1_3  |-> I("OP_IMM", 2, 1, 0, 0, 3),
   addi_x0_x1_5  |-> I("OP_IMM", 0, 1, 0, 0, 5),
   xori_x1_x2_m1 |-> I("OP_IMM", 1, 2, 0, 4, -1),
   add_x2_x1_x2  |-> I("OP", 2, 1, 2, 0, 0),
   sub_x1_x2_x1  |-> [I("OP", 1, 2, 1, 0, 0) EXCEPT !.alt = TRUE],
   subw_x2_x0_x1 |-> [I("OP_32", 2, 0, 1, 0, 0) EXCEPT !.alt = TRUE],
   srai_x1_x1_2  |-> [I("OP_IMM", 1, 1, 2, 5, 2) EXCEPT !.alt = TRUE],
   sraiw_x1_x1_1 |-> [I("OP_IMM_32", 1, 1, 1, 5, 1) EXCEPT !.alt = TRUE],
   lui_x1_96     |-> I("LUI", 1, 1, 2, 0, 96),
   auipc_x2_0    |-> I("AUIPC", 2, 1, 1, 0, 0),
   ld_x1_8_x0    |-> I("LOAD", 1, 0, 1, 3, 8),
   ld_x2_0_x1    |-> I("LOAD", 2, 1, 0, 3, 0),
   lb_x1_2_x2    |-> I("LOAD", 1, 2, 2, 0, 2),
   lhu_x0_8_x1   |-> I("LOAD", 0, 1, 1, 5, 8),
   lw_x2_12_x2   |-> I("LOAD", 2, 2, 1, 2, 12),
   sd_x1_8_x0    |-> I("STORE", 1, 0, 1, 3, 8),
   sd_x2_8_x0    |-> I("STORE", 1, 0, 2, 3, 8),
   sd_x2_16_x0   |-> I("STORE", 0, 0, 2, 3, 16),
   lb_x1_17_x2   |-> I("LOAD", 1, 2, 1, 0, 17),
   sb_x2_2_x1    |-> I("STORE", 2, 1, 2, 0, 2),
   sh_x1_9_x2    |-> I("STORE", 1, 2, 1, 1, 9),
   beq_x1_x2_p8  |-> I("BRANCH", 1, 1, 2, 0, 8),
   bne_x1_x0_p8  |-> I("BRANCH", 2, 1, 0, 1, 8),
   blt_x2_x1_p8  |-> I("BRANCH", 0, 2, 1, 4, 8),
   bgeu_x1_x2_m4 |-> I("BRANCH", 1, 1, 2, 7, -4),
   jal_x1_p8     |-> I("JAL", 1, 1, 1, 0, 8),
   jal_x0_m8     |-> I("JAL", 0, 1, 2, 0, -8),
   jalr_x2_x1_5  |-> I("JALR", 2, 1, 1, 0, 5),
   jalr_x1_x1_4  |-> I("JALR", 1, 1, 0, 0, 4),
   fence         |-> I("OTHER", 1, 1, 1, 0, 0),
   trap          |-> I("TRAP_INST", 0, 1, 0, 0, 0),
   halt          |-> I("JAL", 0, 0, 0, 0, 0)]

\* Instructions that write, forward, load, store and branch on two registers.
HazardMenu ==
  {"addi_x1_x1_1", "add_x2_x1_x2", "sub_x1_x2_x1", "ld_x2_0_x1", "lb_x1_2_x2",
   "sd_x2_8_x0", "sb_x2_2_x1", "addi_x0_x1_5", "bne_x1_x0_p8"}

\* Branches and jumps of every kind, forwards and backwards.
ControlMenu ==
  {"addi_x1_x1_1", "addi_x2_x1_3", "xori_x1_x2_m1", "auipc_x2_0", "lw_x2_12_x2",
   "sd_x1_8_x0", "beq_x1_x2_p8", "bne_x1_x0_p8", "blt_x2_x1_p8", "bgeu_x1_x2_m4",
   "jal_x1_p8", "jal_x0_m8", "jalr_x2_x1_5", "jalr_x1_x1_4"}

\* For runs that multiply the states of each program.
MixedMenu ==
  {"addi_x1_x1_1", "add_x2_x1_x2", "ld_x2_0_x1", "sd_x2_8_x0", "sb_x2_2_x1",
   "bgeu_x1_x2_m4", "jalr_x1_x1_4"}

\* Memory accesses back to back, for runs that multiply them even more.
MemoryMenu ==
  {"addi_x1_x1_1", "ld_x2_0_x1", "sd_x2_8_x0", "sb_x2_2_x1", "jalr_x1_x1_4"}

\* Accesses to devices and to RAM, and the trap, also with an a0 its port cuts off.
DeviceMenu ==
  {"addi_x1_x1_8", "sub_x1_x2_x1", "lb_x1_2_x2", "lb_x1_17_x2", "ld_x2_0_x1",
   "sd_x1_8_x0", "sd_x2_16_x0", "sb_x2_2_x1", "bne_x1_x0_p8", "jal_x1_p8",
   "jalr_x2_x1_5", "trap"}

MCPrograms       == [1 .. 4 -> HazardMenu] \cup [1 .. 3 -> ControlMenu]
MCMixedPrograms  == [1 .. 3 -> MixedMenu]
MCMemoryPrograms == [1 .. 3 -> MemoryMenu]
MCDevicePrograms == [1 .. 3 -> DeviceMenu]
MCAllPrograms    == MCPrograms \cup MCDevicePrograms

MCTextLine(p, l) ==
  [h \in {0, 1} |-> LET k == 2 * l + h + 1
                    IN  IF k \in DOMAIN p THEN Code[p[k]] ELSE Code["halt"]]

\* Every lane of memory holds a one: no load returns zero by accident.
MCRamImages == {[l \in Line |-> [b \in Lane |-> 1]]}

\* Zeros come with the answer to a write; MCAnyAnswer leaves the wires free.
MCWriteAnswers == {[b \in Lane |-> 0]}
MCAnyAnswer == [Lane -> Byte]
=============================================================================
