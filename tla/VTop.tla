-------------------------------- MODULE VTop --------------------------------
(***************************************************************************)
(* The machine the tops VTop.sv and SimTop.sv build: the core, its two bus *)
(* converters and the arbiter, on a RAM that answers when it likes.        *)
(*                                                                         *)
(* A step is one rising clock edge.  The RAM is outside src/ (RAMHelper2   *)
(* of the difftest framework, or a CBusDevice of the harness): it is       *)
(* modelled by the bus protocol alone, so its latency is any number of     *)
(* cycles, chosen afresh for every request.                                *)
(***************************************************************************)
EXTENDS Core, CBusArbiter

CONSTANTS
  Programs,        \* program texts
  RamImages,       \* what data memory may hold at first
  TextLine(_, _),  \* the two instruction words of a doubleword: program, line
  WriteAnswers,    \* what the data wires may hold when a write is answered
  AllowReset       \* may reset be asserted in mid run?

ASSUME MastersAssumption == NUM_INPUTS = 2   \* the parameter's default

ASSUME TextAssumption ==
  \A p \in Programs, l \in Line : TextLine(p, l) \in TextPair

ASSUME RamAssumption ==
  /\ RamImages \subseteq [Line -> BusData]
  /\ WriteAnswers \subseteq BusData

VARIABLES
  program,   \* the text in memory
  dmem       \* the data in memory

vars == <<pc, id, ex, mem, wb, wb_fired, regs, busy, index, saved_req, program,
          dmem>>

-----------------------------------------------------------------------------
(* DBusToCBus and IBusToCBus, the combinational adapters between the core's *)
(* ports and the bus; the second is the first applied to the fetch request *)
(* seen as a four-byte read.  len and burst are always MLEN1 and FIXED and *)
(* are left out of the request.                                            *)

DBusToCBus(dreq) ==
  [valid    |-> dreq.valid,
   is_write |-> dreq.strobe # {},
   size     |-> dreq.size,
   addr     |-> dreq.addr,
   strobe   |-> dreq.strobe,
   data     |-> dreq.data]

CBusToDResp(cresp) ==
  [data_ok |-> cresp.ready /\ cresp.last, data |-> cresp.data,
   text |-> cresp.text]

IReqToDReq(ireq) ==
  [valid |-> ireq.valid, addr |-> ireq.addr, size |-> "MSIZE4", strobe |-> {},
   data |-> ZeroData]

DRespToIResp(dresp, ireq) ==
  [data_ok |-> dresp.data_ok, data |-> dresp.text[Half(ireq.addr)]]

IBusToCBus(ireq) == DBusToCBus(IReqToDReq(ireq))

CBusToIResp(cresp, ireq) == DRespToIResp(CBusToDResp(cresp), ireq)

-----------------------------------------------------------------------------
(* Wires.  ireqs({icreq, dcreq}): the data port is input 0, fetch input 1. *)

Ireqs == [i \in Master |-> IF i = 0 THEN DBusToCBus(Dreq) ELSE IBusToCBus(Ireq)]

Oreq == OutReq(Ireqs)

Iresp(oresp) == CBusToIResp(InResps(oresp)[1], Ireq)
Dresp(oresp) == CBusToDResp(InResps(oresp)[0])

-----------------------------------------------------------------------------
(* The RAM *)

RamResps ==
  {[ready |-> TRUE, last |-> TRUE, data |-> d,
    text |-> TextLine(program, LineOf(Oreq.addr))] :
      d \in IF Oreq.is_write THEN WriteAnswers ELSE {dmem[LineOf(Oreq.addr)]}}

Written ==
  IF Oreq.is_write
  THEN [dmem EXCEPT ![LineOf(Oreq.addr)] =
         [l \in Lane |-> IF l \in Oreq.strobe THEN Oreq.data[l] ELSE @[l]]]
  ELSE dmem

-----------------------------------------------------------------------------
(* Clock edges *)

Edge(oresp) ==
  /\ CoreClock(Iresp(oresp), Dresp(oresp))
  /\ ArbClock(Ireqs, oresp)
  /\ dmem' = IF oresp.last THEN Written ELSE dmem
  /\ UNCHANGED program

\* Nothing on the bus.
IdleEdge == ~Oreq.valid /\ Edge(NoResp)

\* The RAM keeps the request waiting.
WaitEdge == Oreq.valid /\ Edge(NoResp)

\* The RAM answers: a read with what memory holds.
AnswerEdge == Oreq.valid /\ \E oresp \in RamResps : Edge(oresp)

\* An edge with reset asserted; a write on the bus may still get through.
ResetEdge ==
  /\ AllowReset
  /\ CoreReset
  /\ ArbReset
  /\ dmem' \in {dmem, IF Oreq.valid THEN Written ELSE dmem}
  /\ UNCHANGED program

Init ==
  /\ CoreInit
  /\ ArbInit
  /\ program \in Programs
  /\ dmem \in RamImages

Next == IdleEdge \/ WaitEdge \/ AnswerEdge \/ ResetEdge

Spec == Init /\ [][Next]_vars

\* The clock keeps ticking and no request is left unanswered for ever.
FairSpec == Spec /\ WF_vars(IdleEdge) /\ WF_vars(AnswerEdge)

-----------------------------------------------------------------------------
(* Type correctness *)

\* Every register holds a value its width allows, and the data port's address
\* is a RAM line.
TypeOK ==
  /\ CoreTypeOK
  /\ ArbTypeOK
  /\ program \in Programs
  /\ dmem \in [Line -> BusData]

-----------------------------------------------------------------------------
(* The bus *)

\* While a transaction is on the bus the request driven is, wire for wire, the
\* one the arbiter granted: CBusDevice asserts this of every design, and the
\* arbiter itself does not ensure it (it passes its input on, not saved_req).
\* The core must therefore hold both of its requests still until answered,
\* through every stall, redirect and commit in between.
RequestHeld == busy => Oreq = saved_req /\ Oreq.valid

\* An answer never finds an instruction in WB still to commit.  The register
\* file has no write-through and the core no bypass from WB to ID, so an
\* instruction that leaves ID must find every result two ahead of it already
\* written: the cycle the arbiter adds to every request provides it.
CommitBeforeAnswer == busy => ~CommitValid

-----------------------------------------------------------------------------
(* The architecture *)

\* The oldest instruction that has not left MEM is the next to execute.
ArchPc ==
  CASE mem.valid -> mem.pc
    [] ~mem.valid /\ ex.valid -> ex.pc
    [] ~mem.valid /\ ~ex.valid /\ id.valid -> id.pc
    [] OTHER -> pc

Arch == INSTANCE Isa WITH pc <- ArchPc, gpr <- GprDt, ram <- dmem

\* Every behaviour of the pipeline is a behaviour of the one-instruction-at-a-
\* time machine: stalls, forwarding, redirects, bubbles, memory latency and
\* reset are invisible to the program.
ImplementsIsa == Arch!Spec

-----------------------------------------------------------------------------
(* Progress *)

\* Unless it is reset again and again the machine commits instructions for
\* ever: no combination of hazard, memory wait and redirect leaves it stuck, and
\* no reset, wherever it hits, either.
KeepsCommitting == []<><<ResetEdge>>_vars \/ []<>CommitValid

\* The stages the oldest instruction has still to leave.
StagesToCommit ==
  IF mem.valid THEN 1 ELSE IF ex.valid THEN 2 ELSE IF id.valid THEN 3 ELSE 4

\* Each of them takes a grant and an answer, or a bubble and no bus.
EdgesToCommit == 2 * StagesToCommit + (IF busy THEN 0 ELSE 1)

\* Between resets a commit comes with every eighth edge at the latest that is not
\* spent waiting for the RAM: no stall, bubble, redirect or new grant sets the
\* oldest instruction back, and no wait loses what was gained.
CommitsInTime ==
  [][~ResetEdge =>
       \/ CommitValid'
       \/ EdgesToCommit' < EdgesToCommit
       \/ ~(IdleEdge \/ AnswerEdge) /\ EdgesToCommit' = EdgesToCommit]_vars

-----------------------------------------------------------------------------
(* Why the pipeline implements that machine: the inductive invariant, one *)
(* named part per reason.                                                  *)

\* Controls in a stage are those of the instruction in it; an empty stage holds
\* the zero word, whose controls do nothing.
ControlsMatch ==
  /\ ex.d = Decode(ex.instr)
  /\ mem.d = Decode(mem.instr)
  /\ wb.d = Decode(wb.instr)
  /\ ~id.valid => id.instr = ZeroInstr
  /\ ~ex.valid => ex.instr = ZeroInstr
  /\ ~mem.valid => mem.instr = ZeroInstr
  /\ ~wb.valid => wb.instr = ZeroInstr

\* A valid instruction is the one the text has at the stage's address.
FetchedFromText ==
  /\ id.valid => id.instr = Arch!InstrAt(program, id.pc)
  /\ ex.valid => ex.instr = Arch!InstrAt(program, ex.pc)
  /\ mem.valid => mem.instr = Arch!InstrAt(program, mem.pc)

\* Behind a valid instruction the stages hold the ones that follow it in the
\* text: a redirect empties both.
InOrder ==
  /\ ex.valid => id.valid /\ id.pc = Add(ex.pc, 4)
  /\ id.valid => pc = Add(id.pc, 4)

\* What the bus is doing: the granted master's request is still there, as it
\* was when saved, and nothing is left to commit.
BusInv ==
  busy => /\ index \in {0, 1}
          /\ Ireqs[index].valid
          /\ saved_req = Ireqs[index]
          /\ ~CommitValid

\* Once committed, the result in WB is in the register file.
FiredInv ==
  wb_fired /\ wb.d.reg_write /\ wb.d.rd # 0 => regs[wb.d.rd] = WbData

\* Does the instruction in a stage write register r?
Writes(stage, r) == stage.d.reg_write /\ stage.d.rd = r

\* An operand read in ID is still good unless MEM or WB is about to change it,
\* and then the forwarding unit sees it.
OperandGood(r, data) ==
  /\ r = 0 => data = 0
  /\ r # 0 /\ ~Writes(mem, r) /\ ~Writes(wb, r) => data = regs[r]

OperandsInv ==
  ex.valid => /\ OperandGood(ex.d.rs1, ex.rs1_data)
              /\ OperandGood(ex.d.rs2, ex.rs2_data)

\* The one result MEM cannot forward, a load's, is never wanted by EX.
NoLoadUse ==
  mem.d.mem_read /\ mem.d.rd # 0 /\ ex.valid =>
    mem.d.rd # ex.d.rs1 /\ mem.d.rd # ex.d.rs2

\* The address of the oldest instruction younger than MEM.
AfterMem == CASE ex.valid -> ex.pc
              [] ~ex.valid /\ id.valid -> id.pc
              [] OTHER -> pc

\* The instruction in MEM has been executed as the architecture says: its
\* successor, its address, its store data and its result are right.
ExecutedInv ==
  mem.valid =>
    /\ AfterMem = Arch!PcAfter(mem.instr)
    /\ mem.instr.op \in {"LOAD", "STORE"} =>
         mem.alu_result = Arch!Address(mem.instr)
    /\ mem.instr.op = "STORE" => mem.rs2_data = GprDt[mem.instr.rs2]
    /\ Arch!HasResult(mem.instr) /\ mem.instr.op # "LOAD" =>
         ForwardDataMem = Arch!Result(mem.instr)

\* The inductive invariant.
IInv ==
  /\ TypeOK
  /\ ControlsMatch
  /\ FetchedFromText
  /\ InOrder
  /\ BusInv
  /\ FiredInv
  /\ OperandsInv
  /\ NoLoadUse
  /\ ExecutedInv
=============================================================================
