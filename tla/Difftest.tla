------------------------------ MODULE Difftest ------------------------------
(***************************************************************************)
(* Co-simulation.  core.sv reports every commit to the Difftest framework, *)
(* which steps a reference machine (NEMU) by one instruction and compares  *)
(* registers.  The reference is outside src/: it is an Isa machine with a  *)
(* state of its own, which only the commit ports can move.                 *)
(*                                                                         *)
(* Addresses with the RamBase bit clear are device registers: the core     *)
(* asks for those accesses to be skipped, and the reference takes over its *)
(* registers instead of executing them.                                    *)
(***************************************************************************)
EXTENDS VTop

CONSTANTS
  RamBase,    \* the address bit that tells RAM from devices, 2^31 in the RTL
  A0          \* the register a trap reports, x10 in the RTL

ASSUME A0Assumption == A0 \in Reg \ {0}

IsRam(a) == (a \div RamBase) % 2 = 1

\* No RAM doubleword is also a device register.
ASSUME RamBaseAssumption ==
  /\ RamBase \in Nat \ {0}
  /\ \A a, b \in Word : LineOf(a) = LineOf(b) => (IsRam(a) <=> IsRam(b))

VARIABLES
  ref_pc,     \* the reference machine
  ref_gpr,
  ref_ram

refVars == <<ref_pc, ref_gpr, ref_ram>>
dvars == <<vars, refVars>>

Ref == INSTANCE Isa WITH pc <- ref_pc, gpr <- ref_gpr, ram <- ref_ram

-----------------------------------------------------------------------------
(* The commit ports *)

\* A faulty skip with the sense of the address bit inverted.
SkipRam ==
  (wb.d.mem_read \/ wb.d.mem_write) /\ IsRam(wb.alu_result)

DifftestSkip ==
  (wb.d.mem_read \/ wb.d.mem_write) /\ ~IsRam(wb.alu_result)

IsTrap    == wb.valid /\ wb.instr.op = "TRAP_INST"
TrapValid == IsTrap /\ CommitValid

\* The trap code is read from the file itself, not from the view GprDt.  Eight bits
\* of it are kept, and the port takes three.
trap_code_wb == regs[A0] % 256
TrapCode     == trap_code_wb % 8

-----------------------------------------------------------------------------
(* The reference: where it is once what WB has to commit is committed *)

PcAfterCommit ==
  CASE ~CommitValid                  -> ref_pc
    [] CommitValid /\ DifftestSkip   -> Add(wb.pc, 4)
    [] CommitValid /\ ~DifftestSkip  -> Ref!PcAfter(Ref!Current)

GprAfterCommit ==
  CASE ~CommitValid                  -> ref_gpr
    [] CommitValid /\ DifftestSkip   -> GprDt
    [] CommitValid /\ ~DifftestSkip  -> Ref!GprAfter(Ref!Current)

RamAfterCommit ==
  IF CommitValid /\ ~DifftestSkip THEN Ref!RamAfter(Ref!Current) ELSE ref_ram

RefStep ==
  /\ ref_pc'  = PcAfterCommit
  /\ ref_gpr' = GprAfterCommit
  /\ ref_ram' = RamAfterCommit

DInit ==
  /\ Init
  /\ ref_pc = PCINIT
  /\ ref_gpr = [r \in Reg |-> 0]
  /\ ref_ram = dmem

\* A simulation is reset once, before it starts.
DNext == (IdleEdge \/ WaitEdge \/ AnswerEdge) /\ RefStep

DSpec == DInit /\ [][DNext]_dvars

-----------------------------------------------------------------------------
(* What the framework checks at every commit, and what it takes for granted *)

\* The instruction committed is the one the reference has reached, and the
\* registers shown with it are those the reference computes: no instruction is
\* lost, repeated or committed out of order.
LockStep ==
  CommitValid =>
    /\ wb.pc = ref_pc
    /\ wb.instr = Ref!Current
    /\ ~DifftestSkip => GprDt = Ref!GprAfter(Ref!Current)

\* A trap reports the low three bits of the reference's a0, although it reads the
\* register file behind the view's back: no write to a0 can still be under way.  A
\* trap with 8 in a0 is reported as one with 0 (core.sv:468, 572).
TrapReportsLowA0 == TrapValid => TrapCode = ref_gpr[A0] % 8

\* Nothing speculative reaches the data port: an access is made only by the
\* instruction the reference reaches next, at the address and with the data the
\* reference has for it.  A wrong-path load from a device register would have a
\* side effect that no flush takes back.
NoSpeculativeAccess ==
  Dreq.valid =>
    /\ mem.pc = PcAfterCommit
    /\ mem.instr = Ref!InstrAt(program, PcAfterCommit)
    /\ mem.instr.op \in {"LOAD", "STORE"}
    /\ Dreq.addr = Add(GprAfterCommit[mem.instr.rs1], mem.instr.imm)
    /\ Dreq.strobe # {} =>
         Dreq.data = AlignStore(GprAfterCommit[mem.instr.rs2], AddrLow(Dreq.addr))

\* The reference's RAM is the machine's, whatever was skipped.
SameRam ==
  \A a \in Word : IsRam(a) => RamAfterCommit[LineOf(a)] = dmem[LineOf(a)]

\* Why: once the commit pending in WB is made, the reference is exactly where
\* the pipeline says the architecture is.
InStep ==
  /\ ref_gpr \in [Reg -> Word]
  /\ ref_ram \in [Line -> BusData]
  /\ PcAfterCommit = ArchPc
  /\ GprAfterCommit = GprDt
  /\ SameRam
  /\ CommitValid => wb.pc = ref_pc /\ wb.instr = Ref!Current
=============================================================================
