-------------------------------- MODULE Core --------------------------------
(***************************************************************************)
(* The five-stage pipeline of vsrc/src/core.sv with the units it           *)
(* instantiates (decoder, register file, hazard unit, forwarding unit).    *)
(*                                                                         *)
(* One record per pipeline register; the decoded controls an instruction   *)
(* carries are its field d.  Every wire is an operator; a wire that        *)
(* depends on a bus response takes the response as parameter.  Each        *)
(* always_ff block is one action, a disjunct per branch of the block, and  *)
(* CoreClock is the clock edge that takes them all at once.                *)
(***************************************************************************)
EXTENDS CpuDecode

CONSTANT PCINIT               \* the reset vector

ASSUME PcInitAssumption == PCINIT \in Word

VARIABLES
  pc,         \* fetch address
  id,         \* IF/ID register
  ex,         \* ID/EX register
  mem,        \* EX/MEM register
  wb,         \* MEM/WB register
  wb_fired,   \* the instruction in WB has already committed
  regs        \* register file

coreVars == <<pc, id, ex, mem, wb, wb_fired, regs>>

IfId  == [pc : Word, instr : Instr, valid : BOOLEAN]
IdEx  == [pc : Word, rs1_data : Word, rs2_data : Word, instr : Instr,
          d : DecodeOut, valid : BOOLEAN]
ExMem == [pc : Word, alu_result : Word, rs2_data : Word, instr : Instr,
          d : DecodeOut, valid : BOOLEAN]
MemWb == [pc : Word, alu_result : Word, mem_data : Word, instr : Instr,
          d : DecodeOut, valid : BOOLEAN]

\* The values the reset (and, for the first two, flush and bubble) assign.
EmptyIfId  == [pc |-> 0, instr |-> ZeroInstr, valid |-> FALSE]
EmptyIdEx  == [pc |-> 0, rs1_data |-> 0, rs2_data |-> 0, instr |-> ZeroInstr,
               d |-> Decode(ZeroInstr), valid |-> FALSE]
EmptyExMem == [pc |-> 0, alu_result |-> 0, rs2_data |-> 0, instr |-> ZeroInstr,
               d |-> Decode(ZeroInstr), valid |-> FALSE]
EmptyMemWb == [pc |-> 0, alu_result |-> 0, mem_data |-> 0, instr |-> ZeroInstr,
               d |-> Decode(ZeroInstr), valid |-> FALSE]

-----------------------------------------------------------------------------
(* Write back and commit *)

WbData ==
  CASE wb.d.wb_sel = "WB_MEM" -> wb.mem_data
    [] wb.d.wb_sel = "WB_PC4" -> Add(wb.pc, 4)
    [] OTHER                  -> wb.alu_result

CommitValid == wb.valid /\ ~wb_fired

RegWriteFire == wb.d.reg_write /\ CommitValid /\ wb.d.rd # 0

\* A register file read: no write-through of a write in the same cycle.
ReadReg(r) == IF r = 0 THEN 0 ELSE regs[r]

\* The register view handed to Difftest: the file with the write that fires.
GprDt == [r \in Reg |-> IF r = 0 THEN 0
                        ELSE IF RegWriteFire /\ wb.d.rd = r THEN WbData
                        ELSE regs[r]]

-----------------------------------------------------------------------------
(* Memory stage *)

ForwardDataMem ==
  IF mem.d.wb_sel = "WB_PC4" THEN Add(mem.pc, 4) ELSE mem.alu_result

MemAccess == mem.valid /\ (mem.d.mem_read \/ mem.d.mem_write)

MemSize(f) ==
  CASE f \in {0, 4} -> "MSIZE1"
    [] f \in {1, 5} -> "MSIZE2"
    [] f \in {2, 6} -> "MSIZE4"
    [] OTHER        -> "MSIZE8"

Dreq == [valid  |-> MemAccess,
         addr   |-> mem.alu_result,
         size   |-> MemSize(mem.d.funct3),
         strobe |-> IF mem.d.mem_write
                    THEN StoreStrobe(mem.d.funct3, AddrLow(mem.alu_result))
                    ELSE {},
         data   |-> AlignStore(mem.rs2_data, AddrLow(mem.alu_result))]

LoadData(dresp) ==
  ExtendLoad(dresp.data, AddrLow(mem.alu_result), mem.d.funct3)

MemWait(dresp) == MemAccess /\ ~dresp.data_ok

-----------------------------------------------------------------------------
(* Execute stage: forwarding, ALU, redirect *)

\* A faulty forwarding unit that prefers the older producer.
ForwardOldest(rs, data) ==
  IF wb.d.reg_write /\ wb.d.rd # 0 /\ wb.d.rd = rs THEN WbData
  ELSE IF mem.d.reg_write /\ mem.d.rd # 0 /\ mem.d.rd = rs THEN ForwardDataMem
  ELSE data

Forward(rs, data) ==
  IF mem.d.reg_write /\ mem.d.rd # 0 /\ mem.d.rd = rs THEN ForwardDataMem
  ELSE IF wb.d.reg_write /\ wb.d.rd # 0 /\ wb.d.rd = rs THEN WbData
  ELSE data

Rs1Forwarded == Forward(ex.d.rs1, ex.rs1_data)
Rs2Forwarded == Forward(ex.d.rs2, ex.rs2_data)

AluResult ==
  Alu(ex.d.alu_op,
      IF ex.d.use_pc  THEN ex.pc    ELSE Rs1Forwarded,
      IF ex.d.alu_src THEN ex.d.imm ELSE Rs2Forwarded)

\* A faulty comparison that reads the operands as they left ID.
RedirectUnforwarded ==
  /\ ex.valid
  /\ \/ ex.d.is_jump
     \/ ex.d.is_branch /\ BranchTaken(ex.d.funct3, ex.rs1_data, ex.rs2_data)

RedirectValid ==
  /\ ex.valid
  /\ \/ ex.d.is_jump
     \/ ex.d.is_branch /\ BranchTaken(ex.d.funct3, Rs1Forwarded, Rs2Forwarded)

ClearBit0(a) == a - (a % 2)

RedirectTarget ==
  IF ex.d.is_jalr THEN ClearBit0(Add(Rs1Forwarded, ex.d.imm))
                  ELSE Add(ex.pc, ex.d.imm)

-----------------------------------------------------------------------------
(* Fetch and stall control *)

\* A hazard unit that forgets the second source.
LoadUseRs1Only ==
  /\ ex.d.mem_read
  /\ ex.d.rd # 0
  /\ ex.d.rd = Decode(id.instr).rs1

LoadUseHazard ==
  /\ ex.d.mem_read
  /\ ex.d.rd # 0
  /\ \/ ex.d.rd = Decode(id.instr).rs1
     \/ ex.d.rd = Decode(id.instr).rs2

Ireq == [valid |-> ~LoadUseHazard /\ ~MemAccess, addr |-> pc]

FetchWait(iresp) == Ireq.valid /\ ~iresp.data_ok

Stall(iresp) == LoadUseHazard \/ FetchWait(iresp) \/ MemAccess

\* Neither bus is waited for: the older half of the pipeline moves.
Advance(iresp, dresp) == ~FetchWait(iresp) /\ ~MemWait(dresp)

\* A faulty redirect that does not wait for the buses.
RedirectAtOnce(iresp, dresp) == RedirectValid

RedirectFire(iresp, dresp) == RedirectValid /\ Advance(iresp, dresp)

-----------------------------------------------------------------------------
(* The always_ff blocks at a clock edge out of reset *)

PcStep(iresp, dresp) ==
  \/ RedirectFire(iresp, dresp) /\ pc' = RedirectTarget
  \/ ~RedirectFire(iresp, dresp) /\ ~Stall(iresp) /\ pc' = Add(pc, 4)
  \/ ~RedirectFire(iresp, dresp) /\ Stall(iresp) /\ UNCHANGED pc

\* A taken branch that leaves the wrong-path instruction in IF/ID.
IfIdNoFlush(iresp, dresp) ==
  \/ /\ ~Stall(iresp)
     /\ id' = [pc |-> pc, instr |-> iresp.data, valid |-> iresp.data_ok]
  \/ Stall(iresp) /\ UNCHANGED id

IfIdStep(iresp, dresp) ==
  \/ RedirectFire(iresp, dresp) /\ id' = EmptyIfId
  \/ /\ ~RedirectFire(iresp, dresp)
     /\ ~Stall(iresp)
     /\ id' = [pc |-> pc, instr |-> iresp.data, valid |-> iresp.data_ok]
  \/ ~RedirectFire(iresp, dresp) /\ Stall(iresp) /\ UNCHANGED id

\* EX goes on to MEM and nothing follows it out of ID.
InsertBubble(iresp, dresp) ==
  (LoadUseHazard \/ MemAccess) /\ Advance(iresp, dresp)

IdExStep(iresp, dresp) ==
  \/ /\ RedirectFire(iresp, dresp) \/ InsertBubble(iresp, dresp)
     /\ ex' = EmptyIdEx
  \/ /\ ~RedirectFire(iresp, dresp)
     /\ ~Stall(iresp)
     /\ LET d == Decode(id.instr)
        IN  ex' = [pc |-> id.pc, rs1_data |-> ReadReg(d.rs1),
                   rs2_data |-> ReadReg(d.rs2), instr |-> id.instr, d |-> d,
                   valid |-> id.valid]
  \/ /\ ~RedirectFire(iresp, dresp)
     /\ ~InsertBubble(iresp, dresp)
     /\ Stall(iresp)
     /\ UNCHANGED ex

ExMemStep(iresp, dresp) ==
  \/ /\ Advance(iresp, dresp)
     /\ mem' = [pc |-> ex.pc, alu_result |-> AluResult,
                rs2_data |-> Rs2Forwarded, instr |-> ex.instr, d |-> ex.d,
                valid |-> ex.valid]
  \/ ~Advance(iresp, dresp) /\ UNCHANGED mem

MemWbStep(iresp, dresp) ==
  \/ /\ Advance(iresp, dresp)
     /\ wb' = [pc |-> mem.pc, alu_result |-> mem.alu_result,
               mem_data |-> LoadData(dresp), instr |-> mem.instr, d |-> mem.d,
               valid |-> mem.valid]
  \/ ~Advance(iresp, dresp) /\ UNCHANGED wb

\* A commit flag that is never raised: WB commits once per waiting cycle.
WbNeverFired(iresp, dresp) == wb_fired' = FALSE

WbFiredStep(iresp, dresp) ==
  \/ Advance(iresp, dresp) /\ wb_fired' = FALSE
  \/ ~Advance(iresp, dresp) /\ CommitValid /\ wb_fired' = TRUE
  \/ ~Advance(iresp, dresp) /\ ~CommitValid /\ UNCHANGED wb_fired

RegfileStep ==
  \/ RegWriteFire /\ regs' = [regs EXCEPT ![wb.d.rd] = WbData]
  \/ ~RegWriteFire /\ UNCHANGED regs

CoreClock(iresp, dresp) ==
  /\ PcStep(iresp, dresp)
  /\ IfIdStep(iresp, dresp)
  /\ IdExStep(iresp, dresp)
  /\ ExMemStep(iresp, dresp)
  /\ MemWbStep(iresp, dresp)
  /\ WbFiredStep(iresp, dresp)
  /\ RegfileStep

-----------------------------------------------------------------------------
(* Reset: also the state every run starts from *)

CoreInit ==
  /\ pc = PCINIT
  /\ id = EmptyIfId
  /\ ex = EmptyIdEx
  /\ mem = EmptyExMem
  /\ wb = EmptyMemWb
  /\ wb_fired = FALSE
  /\ regs = [r \in Reg |-> 0]

\* A faulty reset that leaves the access in MEM alone.
ResetKeepsMem ==
  /\ pc' = PCINIT
  /\ id' = EmptyIfId
  /\ ex' = EmptyIdEx
  /\ UNCHANGED mem
  /\ wb' = EmptyMemWb
  /\ wb_fired' = FALSE
  /\ regs' = [r \in Reg |-> 0]

CoreReset ==
  /\ pc' = PCINIT
  /\ id' = EmptyIfId
  /\ ex' = EmptyIdEx
  /\ mem' = EmptyExMem
  /\ wb' = EmptyMemWb
  /\ wb_fired' = FALSE
  /\ regs' = [r \in Reg |-> 0]

CoreTypeOK ==
  /\ pc \in Word
  /\ id \in IfId
  /\ ex \in IdEx
  /\ mem \in ExMem
  /\ wb \in MemWb
  /\ wb_fired \in BOOLEAN
  /\ regs \in [Reg -> Word]
=============================================================================
