----------------------------- MODULE VTopProofs -----------------------------
(***************************************************************************)
(* Proofs about VTop, for every word size, register file, RAM, program and *)
(* datapath that the assumptions of Common and VTop admit: the pipeline    *)
(* implements Isa, and it does not take longer than it may.                *)
(***************************************************************************)
EXTENDS VTop, TLAPS

-----------------------------------------------------------------------------
(* The operators the model is built from return values of their type.      *)

LEMMA WordFacts ==
  /\ 0 \in Word
  /\ \A a \in Word, b \in Nat : Add(a, b) \in Word
  /\ \A a \in Word : ClearBit0(a) \in Word
  /\ \A a \in Word : a \in Nat
  BY SizeAssumption DEF Word, Add, ClearBit0

LEMMA AddressFacts ==
  \A a \in Word : AddrLow(a) \in Lane /\ Half(a) \in {0, 1} /\ LineOf(a) \in Line
  BY SizeAssumption DEF Word, AddrLow, Lane, Half, LineOf, Line

LEMMA DecodeType == \A i \in Instr : Decode(i) \in DecodeOut
  <1> SUFFICES ASSUME NEW i \in Instr PROVE Decode(i) \in DecodeOut
    OBVIOUS
  <1>1. i.rd \in Reg /\ i.rs1 \in Reg /\ i.rs2 \in Reg /\ i.funct3 \in Funct3
        /\ i.imm \in Word /\ i.op \in Opcode /\ i.alt \in BOOLEAN
    BY DEF Instr
  <1>2. DecodeAluOp(i) \in AluOp
    BY DEF DecodeAluOp, ArithOp, ArithOp32, AluOp
  <1>3. DecodeImm(i) \in Word
    BY <1>1, WordFacts DEF DecodeImm
  <1>4. DecodeWbSel(i) \in WbSel
    BY DEF DecodeWbSel, WbSel
  <1>5. AluSrc(i) \in BOOLEAN /\ RegWrite(i) \in BOOLEAN
    BY DEF AluSrc, RegWrite
  <1>. QED
    BY <1>1, <1>2, <1>3, <1>4, <1>5, SizeAssumption DEF Decode, DecodeOut

LEMMA ZeroTypes ==
  /\ ZeroInstr \in Instr
  /\ ZeroData \in BusData
  /\ ZeroText \in TextPair
  /\ NoReq \in CBusReq
  /\ NoResp \in CBusResp
  <1>1. ZeroInstr \in Instr
    BY SizeAssumption, WordFacts DEF ZeroInstr, Instr, Opcode, Funct3
  <1>2. ZeroData \in BusData /\ ZeroText \in TextPair
    BY <1>1, SizeAssumption DEF ZeroData, BusData, ZeroText, TextPair
  <1>. QED
    BY <1>1, <1>2, WordFacts DEF NoReq, CBusReq, NoResp, CBusResp, MSize

LEMMA EmptyTypes ==
  /\ [r \in Reg |-> 0] \in [Reg -> Word]
  /\ 0 \in Master
  /\ EmptyIfId \in IfId
  /\ EmptyIdEx \in IdEx
  /\ EmptyExMem \in ExMem
  /\ EmptyMemWb \in MemWb
  BY ZeroTypes, DecodeType, WordFacts, MastersAssumption
  DEF Master, EmptyIfId, IfId, EmptyIdEx, IdEx, EmptyExMem, ExMem, EmptyMemWb, MemWb

-----------------------------------------------------------------------------
(* Every wire carries a value of its type.                                  *)

LEMMA CoreWireTypes ==
  ASSUME CoreTypeOK
  PROVE  /\ WbData \in Word
         /\ ForwardDataMem \in Word
         /\ Rs1Forwarded \in Word
         /\ Rs2Forwarded \in Word
         /\ AluResult \in Word
         /\ RedirectTarget \in Word
         /\ \A r \in Reg : ReadReg(r) \in Word
         /\ Ireq \in IBusReq
         /\ Dreq \in DBusReq
  <1> USE DEF CoreTypeOK
  <1>1. WbData \in Word
    BY WordFacts DEF WbData, MemWb
  <1>2. ForwardDataMem \in Word
    BY WordFacts DEF ForwardDataMem, ExMem
  <1>3. Rs1Forwarded \in Word /\ Rs2Forwarded \in Word
    BY <1>1, <1>2 DEF Rs1Forwarded, Rs2Forwarded, Forward, IdEx
  <1>4. ex.d.alu_op \in AluOp /\ ex.d.imm \in Word /\ ex.pc \in Word
    BY DEF IdEx, DecodeOut
  <1>5. AluResult \in Word
    BY <1>3, <1>4, AluAssumption DEF AluResult
  <1>6. RedirectTarget \in Word
    BY <1>3, <1>4, WordFacts DEF RedirectTarget
  <1>7. \A r \in Reg : ReadReg(r) \in Word
    BY WordFacts DEF ReadReg
  <1>8. Ireq \in IBusReq
    BY DEF Ireq, IBusReq
  <1>9. Dreq \in DBusReq
    <2>1. /\ mem.alu_result \in Word /\ mem.rs2_data \in Word
          /\ mem.d.funct3 \in Funct3
      BY DEF ExMem, DecodeOut
    <2>2. AddrLow(mem.alu_result) \in Lane
      BY <2>1, AddressFacts
    <2>3. /\ StoreStrobe(mem.d.funct3, AddrLow(mem.alu_result)) \in SUBSET Lane
          /\ AlignStore(mem.rs2_data, AddrLow(mem.alu_result)) \in BusData
      BY <2>1, <2>2, LaneAssumption
    <2>4. MemSize(mem.d.funct3) \in MSize
      BY DEF MemSize, MSize
    <2>5. MemAccess \in BOOLEAN
      BY DEF MemAccess, ExMem, DecodeOut
    <2>. QED
      BY <2>1, <2>3, <2>4, <2>5 DEF Dreq, DBusReq
  <1>. QED
    BY <1>1, <1>2, <1>3, <1>5, <1>6, <1>7, <1>8, <1>9

LEMMA BusWireTypes ==
  ASSUME TypeOK
  PROVE  /\ Ireqs \in [Master -> CBusReq]
         /\ Oreq \in CBusReq
         /\ RamResps \subseteq CBusResp
         /\ Written \in [Line -> BusData]
         /\ \A r \in CBusResp : Iresp(r) \in IBusResp /\ Dresp(r) \in DBusResp
  <1> USE MastersAssumption DEF Master
  <1>1. Ireq \in IBusReq /\ Dreq \in DBusReq
    BY CoreWireTypes DEF TypeOK
  <1>2. IBusToCBus(Ireq) \in CBusReq /\ DBusToCBus(Dreq) \in CBusReq
    BY <1>1, ZeroTypes
    DEF IBusToCBus, DBusToCBus, IReqToDReq, IBusReq, DBusReq, CBusReq, MSize
  <1>3. Ireqs \in [Master -> CBusReq]
    BY <1>2 DEF Ireqs
  <1>4. index \in Master
    BY DEF TypeOK, ArbTypeOK
  <1>5. Oreq \in CBusReq
    BY <1>3, <1>4, ZeroTypes DEF Oreq, OutReq
  <1>6. LineOf(Oreq.addr) \in Line
    BY <1>5, AddressFacts DEF CBusReq
  <1>7. RamResps \subseteq CBusResp
    <2>1. TextLine(program, LineOf(Oreq.addr)) \in TextPair
      BY <1>6, TextAssumption DEF TypeOK
    <2>2. dmem[LineOf(Oreq.addr)] \in BusData
      BY <1>6 DEF TypeOK
    <2>3. (IF Oreq.is_write THEN WriteAnswers ELSE {dmem[LineOf(Oreq.addr)]})
            \subseteq BusData
      BY <2>2, RamAssumption
    <2>4. ASSUME NEW r \in RamResps
          PROVE  r \in CBusResp
      <3>1. PICK d \in BusData :
              r = [ready |-> TRUE, last |-> TRUE, data |-> d,
                   text |-> TextLine(program, LineOf(Oreq.addr))]
        BY <2>3 DEF RamResps
      <3>. QED
        BY <2>1, <3>1 DEF CBusResp
    <2>. QED
      BY <2>4
  <1>8. Written \in [Line -> BusData]
    BY <1>5, <1>6 DEF Written, TypeOK, BusData, CBusReq
  <1>9. ASSUME NEW r \in CBusResp
        PROVE  Iresp(r) \in IBusResp /\ Dresp(r) \in DBusResp
    <2>1. InResps(r)[0] \in CBusResp /\ InResps(r)[1] \in CBusResp
      BY ZeroTypes DEF InResps
    <2>2. \A c \in CBusResp : CBusToDResp(c) \in DBusResp
      BY DEF CBusToDResp, DBusResp, CBusResp
    <2>3. Half(Ireq.addr) \in {0, 1}
      BY <1>1, AddressFacts DEF IBusReq
    <2>. QED
      BY <2>1, <2>2, <2>3
      DEF Iresp, Dresp, CBusToIResp, DRespToIResp, DBusResp, IBusResp, TextPair
  <1>. QED
    BY <1>3, <1>5, <1>7, <1>8, <1>9

-----------------------------------------------------------------------------
(* Type correctness.                                                        *)

LEMMA CoreClockType ==
  ASSUME CoreTypeOK,
         NEW iresp \in IBusResp,
         NEW dresp \in DBusResp,
         CoreClock(iresp, dresp)
  PROVE  CoreTypeOK'
  <1> USE CoreWireTypes, EmptyTypes DEF CoreTypeOK, CoreClock
  <1>1. pc' \in Word
    BY WordFacts DEF PcStep
  <1>2. id' \in IfId
    BY DEF IfIdStep, IfId, IBusResp
  <1>3. ex' \in IdEx
    <2>1. Decode(id.instr) \in DecodeOut
      BY DecodeType DEF IfId
    <2>2. /\ ReadReg(Decode(id.instr).rs1) \in Word
          /\ ReadReg(Decode(id.instr).rs2) \in Word
      BY <2>1 DEF DecodeOut
    <2>. QED
      BY <2>1, <2>2 DEF IdExStep, IdEx, IfId
  <1>4. mem' \in ExMem
    BY DEF ExMemStep, ExMem, IdEx
  <1>5. wb' \in MemWb
    <2>1. /\ AddrLow(mem.alu_result) \in Lane
          /\ mem.d.funct3 \in Funct3
      BY AddressFacts DEF ExMem, DecodeOut
    <2>2. LoadData(dresp) \in Word
      BY <2>1, LaneAssumption DEF LoadData, DBusResp
    <2>. QED
      BY <2>2 DEF MemWbStep, MemWb, ExMem
  <1>6. wb_fired' \in BOOLEAN
    BY DEF WbFiredStep
  <1>7. regs' \in [Reg -> Word]
    BY DEF RegfileStep, MemWb, DecodeOut
  <1>. QED
    BY <1>1, <1>2, <1>3, <1>4, <1>5, <1>6, <1>7

LEMMA SelectFacts ==
  ASSUME NEW ireqs
  PROVE  /\ Select(ireqs) \in {0, 1}
         /\ ireqs[0].valid => Select(ireqs) = 0
         /\ ireqs[1].valid /\ ~ireqs[0].valid => Select(ireqs) = 1
  <1>1. Master = {0, 1}
    BY MastersAssumption DEF Master
  <1> DEFINE First(i) == /\ i \in Master
                         /\ ireqs[i].valid
                         /\ \A j \in Master : ireqs[j].valid => i <= j
  <1>2. ASSUME NEW k \in Master, ireqs[k].valid, ~ireqs[0].valid
        PROVE  Select(ireqs) = 1
    <2>1. First(1) /\ \A i : First(i) => i = 1
      BY <1>1, <1>2
    <2>. QED
      BY <2>1, <1>2 DEF Select
  <1>3. ASSUME ireqs[0].valid
        PROVE  Select(ireqs) = 0
    <2>1. First(0) /\ \A i : First(i) => i = 0
      BY <1>1, <1>3
    <2>. QED
      BY <1>1, <2>1, <1>3 DEF Select
  <1>4. (\A k \in Master : ~ireqs[k].valid) => Select(ireqs) = 0
    BY DEF Select
  <1>. QED
    BY <1>1, <1>2, <1>3, <1>4

LEMMA ArbClockType ==
  ASSUME ArbTypeOK,
         NEW ireqs \in [Master -> CBusReq],
         NEW oresp,
         ArbClock(ireqs, oresp)
  PROVE  ArbTypeOK'
  <1>1. Select(ireqs) \in Master
    BY SelectFacts, MastersAssumption DEF Master
  <1>. QED
    BY <1>1, ZeroTypes DEF ArbTypeOK, ArbClock, arbVars, CBusReq

LEMMA InitTypes == Init => TypeOK
  BY ZeroTypes, EmptyTypes, PcInitAssumption, RamAssumption
  DEF Init, CoreInit, ArbInit, TypeOK, CoreTypeOK, ArbTypeOK

LEMMA TypeStep == TypeOK /\ [Next]_vars => TypeOK'
  <1> SUFFICES ASSUME TypeOK, [Next]_vars PROVE TypeOK'
    OBVIOUS
  <1>1. ASSUME NEW oresp \in CBusResp, Edge(oresp)
        PROVE  TypeOK'
    <2>1. CoreTypeOK'
      BY <1>1, CoreClockType, BusWireTypes DEF Edge, TypeOK
    <2>2. ArbTypeOK'
      BY <1>1, ArbClockType, BusWireTypes DEF Edge, TypeOK
    <2>3. program' \in Programs /\ dmem' \in [Line -> BusData]
      BY <1>1, BusWireTypes DEF Edge, TypeOK
    <2>. QED
      BY <2>1, <2>2, <2>3 DEF TypeOK
  <1>2. CASE ResetEdge
    <2>1. CoreTypeOK' /\ ArbTypeOK'
      BY <1>2, ZeroTypes, EmptyTypes, PcInitAssumption
      DEF ResetEdge, CoreReset, ArbReset, CoreTypeOK, ArbTypeOK
    <2>2. program' \in Programs /\ dmem' \in [Line -> BusData]
      BY <1>2, BusWireTypes DEF ResetEdge, TypeOK
    <2>. QED
      BY <2>1, <2>2 DEF TypeOK
  <1>3. CASE UNCHANGED vars
    BY <1>3 DEF vars, TypeOK, CoreTypeOK, ArbTypeOK
  <1>. QED
    BY <1>1, <1>2, <1>3, BusWireTypes, ZeroTypes
    DEF Next, IdleEdge, WaitEdge, AnswerEdge

\* Every register, wire and memory cell holds a value of its type in every
\* reachable state.
THEOREM TypeCorrect == Spec => []TypeOK
  BY InitTypes, TypeStep, PTL DEF Spec

-----------------------------------------------------------------------------
(* What a clock edge does: four outcomes.                                   *)

\* A response the RAM can give in the current state.
Given(oresp) == \/ oresp = NoResp
                \/ oresp \in RamResps /\ Oreq.valid

\* Something older than ID waits: only the commit flag and the register file
\* can change in the core.
Hold(oresp) == ~Advance(Iresp(oresp), Dresp(oresp)) /\ dmem' = dmem

\* The fetch is answered and every stage moves.
Flow(oresp) ==
  /\ Advance(Iresp(oresp), Dresp(oresp))
  /\ ~LoadUseHazard /\ ~MemAccess
  /\ Iresp(oresp) = [data_ok |-> TRUE, data |-> Arch!InstrAt(program, pc)]
  /\ ~CommitValid
  /\ dmem' = dmem

\* The data access is answered: MEM and EX move, ID waits.
MemDone(oresp) ==
  /\ Advance(Iresp(oresp), Dresp(oresp))
  /\ MemAccess
  /\ ~mem.d.mem_write => Dresp(oresp).data = dmem[LineOf(mem.alu_result)]
  /\ Oreq = DBusToCBus(Dreq)
  /\ dmem' = Written

\* A load in EX that ID depends on: MEM and EX move, ID waits.
LoadUse(oresp) ==
  /\ Advance(Iresp(oresp), Dresp(oresp))
  /\ LoadUseHazard /\ ~MemAccess
  /\ dmem' = dmem

\* The helpers of Common mean the same inside the instance Arch.
LEMMA ArchHelpers ==
  /\ \A a, b : Arch!Add(a, b) = Add(a, b)
  /\ \A a : /\ Arch!LineOf(a) = LineOf(a)
            /\ Arch!Half(a) = Half(a)
            /\ Arch!AddrLow(a) = AddrLow(a)
  /\ Arch!Lane = Lane
  BY DEF Arch!Add, Add, Arch!LineOf, LineOf, Arch!Half, Half, Arch!AddrLow, AddrLow,
         Arch!Lane, Lane

LEMMA GrantFacts ==
  ASSUME TypeOK, BusInv
  PROVE  /\ Oreq.valid <=> busy
         /\ busy /\ index = 0 => Oreq = DBusToCBus(Dreq) /\ MemAccess
         /\ busy /\ index = 1 =>
              Oreq = IBusToCBus(Ireq) /\ Ireq.valid /\ Oreq.addr = pc
              /\ ~Oreq.is_write
         /\ busy => index \in {0, 1} /\ ~CommitValid
  <1>1. /\ Ireqs[0] = DBusToCBus(Dreq)
        /\ Ireqs[1] = IBusToCBus(Ireq)
    BY MastersAssumption DEF Ireqs, Master
  <1>2. /\ DBusToCBus(Dreq).valid = MemAccess
        /\ IBusToCBus(Ireq).valid = Ireq.valid
        /\ IBusToCBus(Ireq).addr = pc
        /\ IBusToCBus(Ireq).is_write = FALSE
    BY DEF DBusToCBus, IBusToCBus, IReqToDReq, Dreq, Ireq
  <1>. QED
    BY <1>1, <1>2 DEF Oreq, OutReq, NoReq, BusInv

LEMMA RespFacts ==
  ASSUME TypeOK, BusInv, NEW oresp, Given(oresp)
  PROVE  /\ Iresp(oresp).data_ok <=> busy /\ index = 1 /\ oresp \in RamResps
         /\ Dresp(oresp).data_ok <=> busy /\ index = 0 /\ oresp \in RamResps
         /\ Iresp(oresp).data_ok =>
              Iresp(oresp) = [data_ok |-> TRUE, data |-> Arch!InstrAt(program, pc)]
         /\ Dresp(oresp).data_ok /\ ~mem.d.mem_write =>
              Dresp(oresp).data = dmem[LineOf(mem.alu_result)]
         /\ oresp.last <=> oresp \in RamResps
  <1>1. /\ InResps(oresp)[0] = IF busy /\ index = 0 THEN oresp ELSE NoResp
        /\ InResps(oresp)[1] = IF busy /\ index = 1 THEN oresp ELSE NoResp
    BY MastersAssumption DEF InResps, Master
  <1>2. /\ oresp \in RamResps => oresp.ready /\ oresp.last
        /\ oresp \notin RamResps => oresp = NoResp /\ ~oresp.ready /\ ~oresp.last
        /\ ~NoResp.ready
    BY DEF Given, RamResps, NoResp
  <1>3. Dresp(oresp).data_ok <=> busy /\ index = 0 /\ oresp \in RamResps
    BY <1>1, <1>2 DEF Dresp, CBusToDResp
  <1>4. Iresp(oresp).data_ok <=> busy /\ index = 1 /\ oresp \in RamResps
    BY <1>1, <1>2 DEF Iresp, CBusToIResp, DRespToIResp, CBusToDResp
  <1>5. ASSUME Iresp(oresp).data_ok
        PROVE  Iresp(oresp) = [data_ok |-> TRUE,
                               data |-> Arch!InstrAt(program, pc)]
    <2>1. busy /\ index = 1 /\ oresp \in RamResps /\ InResps(oresp)[1] = oresp
      BY <1>1, <1>4, <1>5
    <2>2. oresp.text = TextLine(program, LineOf(pc))
      BY <2>1, GrantFacts DEF RamResps
    <2>3. oresp.ready = TRUE /\ oresp.last = TRUE
      BY <2>1 DEF RamResps
    <2>4. Ireq.addr = pc
      BY DEF Ireq
    <2>5. Iresp(oresp) = [data_ok |-> oresp.ready /\ oresp.last,
                          data |-> oresp.text[Half(Ireq.addr)]]
      BY <2>1 DEF Iresp, CBusToIResp, DRespToIResp, CBusToDResp
    <2>. QED
      BY <2>2, <2>3, <2>4, <2>5, ArchHelpers DEF Arch!InstrAt
  <1>6. ASSUME Dresp(oresp).data_ok, ~mem.d.mem_write
        PROVE  Dresp(oresp).data = dmem[LineOf(mem.alu_result)]
    <2>1. busy /\ index = 0 /\ oresp \in RamResps /\ InResps(oresp)[0] = oresp
      BY <1>1, <1>3, <1>6
    <2>2. Oreq = DBusToCBus(Dreq)
      BY <2>1, GrantFacts
    <2>3. Dreq.strobe = {}
      BY <1>6 DEF Dreq
    <2>4. Oreq.addr = mem.alu_result /\ Oreq.is_write = FALSE
      BY <2>2, <2>3 DEF DBusToCBus, Dreq
    <2>5. oresp.data = dmem[LineOf(mem.alu_result)]
      BY <2>1, <2>4 DEF RamResps
    <2>. QED
      BY <2>1, <2>5 DEF Dresp, CBusToDResp
  <1>. QED
    BY <1>2, <1>3, <1>4, <1>5, <1>6

LEMMA EdgeOutcomes ==
  ASSUME TypeOK, BusInv, NEW oresp, Given(oresp), Edge(oresp)
  PROVE  Hold(oresp) \/ Flow(oresp) \/ MemDone(oresp) \/ LoadUse(oresp)
  <1>1. Ireq.valid <=> ~LoadUseHazard /\ ~MemAccess
    BY DEF Ireq
  <1>2. Advance(Iresp(oresp), Dresp(oresp)) <=>
          (Ireq.valid => Iresp(oresp).data_ok) /\ (MemAccess => Dresp(oresp).data_ok)
    BY DEF Advance, FetchWait, MemWait
  <1>3. dmem' = IF oresp \in RamResps THEN Written ELSE dmem
    BY RespFacts DEF Edge
  <1>4. CASE oresp \notin RamResps
    BY <1>1, <1>2, <1>3, <1>4, RespFacts DEF Hold, LoadUse
  <1>5. CASE oresp \in RamResps /\ busy /\ index = 0
    <2>1. MemDone(oresp)
      BY <1>1, <1>2, <1>3, <1>5, RespFacts, GrantFacts
      DEF MemDone
    <2>. QED
      BY <2>1
  <1>6. CASE oresp \in RamResps /\ busy /\ index = 1
    <2>1. Written = dmem
      BY <1>6, GrantFacts DEF Written
    <2>2. Flow(oresp)
      BY <1>1, <1>2, <1>3, <1>6, <2>1, RespFacts, GrantFacts DEF Flow
    <2>. QED
      BY <2>2
  <1>7. CASE oresp \in RamResps /\ ~busy
    <2>1. oresp = NoResp
      BY <1>7, GrantFacts DEF Given
    <2>2. FALSE
      BY <2>1, <1>7 DEF NoResp, RamResps
    <2>. QED
      BY <2>2
  <1>. QED
    BY <1>4, <1>5, <1>6, <1>7, GrantFacts

-----------------------------------------------------------------------------
(* Reading the invariant: registers and operands.                           *)

\* The decoder's controls, in the terms of the architecture.
LEMMA DecodeFacts ==
  ASSUME NEW i
  PROVE  /\ Decode(i).rd = i.rd
         /\ Decode(i).rs1 = IF i.op = "LUI" THEN 0 ELSE i.rs1
         /\ Decode(i).rs2 = i.rs2
         /\ Decode(i).funct3 = i.funct3
         /\ Decode(i).reg_write <=> Arch!HasResult(i)
         /\ Decode(i).mem_read <=> i.op = "LOAD"
         /\ Decode(i).mem_write <=> i.op = "STORE"
         /\ Decode(i).wb_sel = "WB_MEM" <=> i.op = "LOAD"
         /\ Decode(i).wb_sel = "WB_PC4" <=> i.op \in {"JAL", "JALR"}
  BY DEF Decode, RegWrite, DecodeWbSel, Arch!HasResult

LEMMA EmptyControls ==
  /\ ~Decode(ZeroInstr).reg_write
  /\ ~Decode(ZeroInstr).mem_read
  /\ ~Decode(ZeroInstr).mem_write
  BY DecodeFacts DEF ZeroInstr, Arch!HasResult

\* The register view is the file, except for what WB holds.
LEMMA GprView ==
  ASSUME TypeOK, ControlsMatch, FiredInv
  PROVE  /\ GprDt \in [Reg -> Word]
         /\ GprDt[0] = 0
         /\ \A r \in Reg \ {0} :
              GprDt[r] = IF Writes(wb, r) THEN WbData ELSE regs[r]
  <1>1. WbData \in Word /\ regs \in [Reg -> Word]
    BY CoreWireTypes DEF TypeOK, CoreTypeOK
  <1>2. GprDt \in [Reg -> Word] /\ GprDt[0] = 0
    BY <1>1, WordFacts, SizeAssumption DEF GprDt
  <1>3. ASSUME NEW r \in Reg \ {0}
        PROVE  GprDt[r] = IF Writes(wb, r) THEN WbData ELSE regs[r]
    <2>1. wb.d.reg_write => wb.valid
      BY EmptyControls DEF ControlsMatch
    <2>2. GprDt[r] = IF RegWriteFire /\ wb.d.rd = r THEN WbData ELSE regs[r]
      BY <1>3 DEF GprDt
    <2>. QED
      BY <2>1, <2>2, <1>3 DEF Writes, RegWriteFire, CommitValid, FiredInv
  <1>. QED
    BY <1>2, <1>3

\* The registers as they are once MEM has executed.
GprNext == IF mem.valid THEN Arch!GprAfter(mem.instr) ELSE GprDt

LEMMA GprNextFacts ==
  ASSUME IInv
  PROVE  \A r \in Reg :
           GprNext[r] = IF Writes(mem, r) /\ r # 0 THEN Arch!Result(mem.instr)
                                                   ELSE GprDt[r]
  <1> SUFFICES ASSUME NEW r \in Reg
               PROVE  GprNext[r] = IF Writes(mem, r) /\ r # 0
                                   THEN Arch!Result(mem.instr) ELSE GprDt[r]
    OBVIOUS
  <1>1. GprDt \in [Reg -> Word]
    BY GprView DEF IInv
  <1>2. mem.d = Decode(mem.instr) /\ (mem.d.reg_write => mem.valid)
    BY EmptyControls DEF IInv, ControlsMatch
  <1>3. Writes(mem, r) <=> Arch!HasResult(mem.instr) /\ mem.instr.rd = r
    BY <1>2, DecodeFacts DEF Writes
  <1>. QED
    BY <1>1, <1>2, <1>3, DecodeFacts DEF GprNext, Arch!GprAfter, Arch!Written

LEMMA ForwardGood ==
  ASSUME IInv,
         NEW r \in Reg, NEW data,
         OperandGood(r, data),
         mem.d.mem_read /\ mem.d.rd # 0 => mem.d.rd # r
  PROVE  Forward(r, data) = GprNext[r]
  <1>1. GprNext[r] = IF Writes(mem, r) /\ r # 0 THEN Arch!Result(mem.instr)
                                                ELSE GprDt[r]
    BY GprNextFacts
  <1>2. mem.d = Decode(mem.instr) /\ (mem.d.reg_write => mem.valid)
    BY EmptyControls DEF IInv, ControlsMatch
  <1>3. GprDt[r] = IF r = 0 THEN 0 ELSE IF Writes(wb, r) THEN WbData ELSE regs[r]
    BY GprView DEF IInv
  <1>4. CASE Writes(mem, r) /\ r # 0
    <2>1. Arch!HasResult(mem.instr) /\ mem.instr.op # "LOAD" /\ mem.valid
      BY <1>2, <1>4, DecodeFacts DEF Writes
    <2>2. ForwardDataMem = Arch!Result(mem.instr)
      BY <2>1 DEF IInv, ExecutedInv
    <2>. QED
      BY <1>1, <1>4, <2>2 DEF Forward, Writes
  <1>5. CASE ~(Writes(mem, r) /\ r # 0)
    BY <1>1, <1>3, <1>5 DEF Forward, Writes, OperandGood
  <1>. QED
    BY <1>4, <1>5

\* What EX computes with is what the program has computed by then.
LEMMA Operands ==
  ASSUME IInv, ex.valid
  PROVE  /\ Rs1Forwarded = GprNext[ex.d.rs1]
         /\ Rs2Forwarded = GprNext[ex.d.rs2]
  <1>1. ex.d.rs1 \in Reg /\ ex.d.rs2 \in Reg
    BY DEF IInv, TypeOK, CoreTypeOK, IdEx, DecodeOut
  <1>. QED
    BY <1>1, ForwardGood
    DEF Rs1Forwarded, Rs2Forwarded, IInv, OperandsInv, NoLoadUse

-----------------------------------------------------------------------------
(* The registers across a clock edge.                                       *)

\* The register file catches up with the view at every edge.
LEMMA RegsStep ==
  ASSUME TypeOK, ControlsMatch, FiredInv, RegfileStep
  PROVE  \A r \in Reg \ {0} : regs'[r] = GprDt[r]
  <1>1. regs \in [Reg -> Word] /\ wb.d.rd \in Reg
    BY DEF TypeOK, CoreTypeOK, MemWb, DecodeOut
  <1>. QED
    BY <1>1 DEF RegfileStep, GprDt

\* What MEM hands to WB is the result of its instruction.
LEMMA ResultStep ==
  ASSUME IInv, NEW oresp, Given(oresp), Edge(oresp),
         Advance(Iresp(oresp), Dresp(oresp)),
         mem.valid, Arch!HasResult(mem.instr)
  PROVE  WbData' = Arch!Result(mem.instr)
  <1>1. wb' = [pc |-> mem.pc, alu_result |-> mem.alu_result,
               mem_data |-> LoadData(Dresp(oresp)), instr |-> mem.instr,
               d |-> mem.d, valid |-> mem.valid]
    BY DEF Edge, CoreClock, MemWbStep
  <1>2. mem.d = Decode(mem.instr)
    BY DEF IInv, ControlsMatch
  <1>3. CASE mem.instr.op = "LOAD"
    <2>1. MemAccess
      BY <1>2, <1>3, DecodeFacts DEF MemAccess
    <2>2. MemDone(oresp)
      BY <2>1, EdgeOutcomes DEF IInv, Hold, Flow, LoadUse
    <2>3. mem.alu_result = Arch!Address(mem.instr)
      BY <1>3 DEF IInv, ExecutedInv
    <2>4. Arch!Result(mem.instr) =
            ExtendLoad(dmem[LineOf(mem.alu_result)], AddrLow(mem.alu_result),
                       mem.instr.funct3)
      BY <1>3, <2>3, ArchHelpers DEF Arch!Result
    <2>5. ~mem.d.mem_write
      BY <1>2, <1>3, DecodeFacts
    <2>6. Dresp(oresp).data = dmem[LineOf(mem.alu_result)]
      BY <2>2, <2>5 DEF MemDone
    <2>7. LoadData(Dresp(oresp)) = Arch!Result(mem.instr)
      BY <2>4, <2>6, <1>2, DecodeFacts DEF LoadData
    <2>. QED
      BY <1>1, <1>2, <1>3, <2>7, DecodeFacts DEF WbData
  <1>4. CASE mem.instr.op # "LOAD"
    <2>1. ForwardDataMem = Arch!Result(mem.instr)
      BY <1>4 DEF IInv, ExecutedInv
    <2>. QED
      BY <1>1, <1>2, <1>4, <2>1, DecodeFacts DEF WbData, ForwardDataMem
  <1>. QED
    BY <1>3, <1>4

\* The architectural registers change when MEM's instruction leaves it, and
\* then as that instruction says.
LEMMA GprStep ==
  ASSUME IInv, NEW oresp, Given(oresp), Edge(oresp)
  PROVE  GprDt' = IF Advance(Iresp(oresp), Dresp(oresp)) THEN GprNext ELSE GprDt
  <1>1. \A r \in Reg \ {0} : regs'[r] = GprDt[r]
    BY RegsStep DEF IInv, Edge, CoreClock
  <1>2. GprDt \in [Reg -> Word] /\ GprDt[0] = 0
    BY GprView DEF IInv
  <1>3. GprDt' = [r \in Reg |-> IF r = 0 THEN 0
                                ELSE IF RegWriteFire' /\ wb'.d.rd = r THEN WbData'
                                ELSE regs'[r]]
    BY DEF GprDt
  <1>4. CASE ~Advance(Iresp(oresp), Dresp(oresp))
    <2>1. ~RegWriteFire'
      BY <1>4 DEF Edge, CoreClock, MemWbStep, WbFiredStep, RegWriteFire, CommitValid
    <2>. QED
      BY <1>1, <1>2, <1>3, <1>4, <2>1
  <1>5. CASE Advance(Iresp(oresp), Dresp(oresp))
    <2>1. /\ wb'.d = mem.d /\ wb'.valid = mem.valid
          /\ wb_fired' = FALSE
      BY <1>5 DEF Edge, CoreClock, MemWbStep, WbFiredStep
    <2>2. mem.d = Decode(mem.instr) /\ (mem.d.reg_write => mem.valid)
      BY EmptyControls DEF IInv, ControlsMatch
    <2>3. RegWriteFire' <=> mem.d.reg_write /\ mem.d.rd # 0
      BY <2>1, <2>2 DEF RegWriteFire, CommitValid
    <2>4. mem.d.reg_write => WbData' = Arch!Result(mem.instr)
      BY <1>5, <2>2, ResultStep, DecodeFacts
    <2>5. GprNext \in [Reg -> {GprNext[r] : r \in Reg}]
      BY <1>2 DEF GprNext, Arch!GprAfter, Arch!Written
    <2>6. ASSUME NEW r \in Reg PROVE GprDt'[r] = GprNext[r]
      BY <1>1, <1>2, <1>3, <2>1, <2>3, <2>4, GprNextFacts DEF Writes
    <2>7. GprDt' = GprNext
      BY <1>3, <2>5, <2>6
    <2>. QED
      BY <1>5, <2>7
  <1>. QED
    BY <1>4, <1>5

\* So do the program counter and the memory.
LEMMA PcStepsToSuccessor ==
  ASSUME IInv, NEW oresp, Given(oresp), Edge(oresp)
  PROVE  ArchPc' = IF Advance(Iresp(oresp), Dresp(oresp)) THEN AfterMem ELSE ArchPc
  <1> DEFINE adv == Advance(Iresp(oresp), Dresp(oresp))
  <1>1. CASE ~adv
    <2>1. UNCHANGED <<pc, id, ex, mem>>
      BY <1>1 DEF Edge, CoreClock, PcStep, IfIdStep, IdExStep, ExMemStep, Advance,
                  Stall, MemWait, RedirectFire, InsertBubble
    <2>. QED
      BY <1>1, <2>1 DEF ArchPc
  <1>2. CASE adv
    <2>1. mem'.valid = ex.valid /\ mem'.pc = ex.pc
      BY <1>2 DEF Edge, CoreClock, ExMemStep
    <2>2. CASE ex.valid
      BY <1>2, <2>1, <2>2 DEF ArchPc, AfterMem
    <2>3. CASE ~ex.valid /\ ~Stall(Iresp(oresp))
      <3>1. /\ ex'.valid = id.valid /\ ex'.pc = id.pc
            /\ id'.valid = Iresp(oresp).data_ok /\ id'.pc = pc
        BY <2>3 DEF Edge, CoreClock, IfIdStep, IdExStep, RedirectFire,
                    RedirectValid, InsertBubble, Stall
      <3>2. Iresp(oresp).data_ok
        BY <1>2, <2>3 DEF Advance, Stall, FetchWait, Ireq
      <3>. QED
        BY <1>2, <2>1, <2>3, <3>1, <3>2 DEF ArchPc, AfterMem
    <2>4. CASE ~ex.valid /\ Stall(Iresp(oresp))
      <3>1. ex' = EmptyIdEx /\ UNCHANGED <<pc, id>>
        BY <1>2, <2>4
        DEF Edge, CoreClock, PcStep, IfIdStep, IdExStep, RedirectFire,
            RedirectValid, InsertBubble, Stall, Advance
      <3>. QED
        BY <1>2, <2>1, <2>4, <3>1 DEF ArchPc, AfterMem, EmptyIdEx
    <2>. QED
      BY <2>2, <2>3, <2>4
  <1>. QED
    BY <1>1, <1>2

\* A write on the bus is the store in MEM.
LEMMA WrittenFacts ==
  ASSUME IInv, MemAccess, Oreq = DBusToCBus(Dreq)
  PROVE  Written = Arch!RamAfter(mem.instr)
  <1>1. mem.d = Decode(mem.instr)
    BY DEF IInv, ControlsMatch
  <1>2. mem.valid /\ mem.instr.op \in {"LOAD", "STORE"}
    BY <1>1, DecodeFacts DEF MemAccess
  <1>3. CASE mem.instr.op = "LOAD"
    <2>1. ~Oreq.is_write
      BY <1>1, <1>3, DecodeFacts DEF DBusToCBus, Dreq
    <2>. QED
      BY <1>3, <2>1 DEF Written, Arch!RamAfter
  <1>4. CASE mem.instr.op = "STORE"
    <2> DEFINE a      == mem.alu_result
               strobe == StoreStrobe(mem.instr.funct3, AddrLow(a))
               data   == AlignStore(mem.rs2_data, AddrLow(a))
    <2>1. a = Arch!Address(mem.instr) /\ mem.rs2_data = GprDt[mem.instr.rs2]
      BY <1>2, <1>4 DEF IInv, ExecutedInv
    <2>2. Arch!RamAfter(mem.instr) =
            [dmem EXCEPT ![LineOf(a)] =
              [l \in Lane |-> IF l \in strobe THEN data[l] ELSE @[l]]]
      BY <1>4, <2>1, ArchHelpers DEF Arch!RamAfter, Arch!Stored
    <2>3. /\ Oreq.addr = a /\ Oreq.strobe = strobe /\ Oreq.data = data
          /\ Oreq.is_write <=> strobe # {}
      <3>1. mem.d.mem_write /\ mem.d.funct3 = mem.instr.funct3
        BY <1>1, <1>4, DecodeFacts
      <3>2. Dreq.addr = a /\ Dreq.strobe = strobe /\ Dreq.data = data
        BY <3>1 DEF Dreq
      <3>. QED
        BY <3>2 DEF DBusToCBus
    <2>4. CASE strobe # {}
      BY <2>2, <2>3, <2>4 DEF Written
    <2>5. CASE strobe = {}
      <3>1. Written = dmem
        BY <2>3, <2>5 DEF Written
      <3>2. LineOf(a) \in Line /\ dmem \in [Line -> BusData]
        BY AddressFacts DEF IInv, TypeOK, CoreTypeOK, ExMem
      <3>3. [l \in Lane |-> IF l \in strobe THEN data[l] ELSE dmem[LineOf(a)][l]]
              = dmem[LineOf(a)]
        BY <2>5, <3>2 DEF BusData
      <3>4. Arch!RamAfter(mem.instr) = dmem
        BY <2>2, <3>2, <3>3
      <3>. QED
        BY <3>1, <3>4
    <2>. QED
      BY <2>4, <2>5
  <1>. QED
    BY <1>2, <1>3, <1>4

LEMMA RamStep ==
  ASSUME IInv, NEW oresp, Given(oresp), Edge(oresp)
  PROVE  dmem' = IF Advance(Iresp(oresp), Dresp(oresp)) /\ mem.valid
                 THEN Arch!RamAfter(mem.instr) ELSE dmem
  <1>1. MemAccess <=> mem.valid /\ mem.instr.op \in {"LOAD", "STORE"}
    BY DecodeFacts DEF IInv, ControlsMatch, MemAccess
  <1>2. CASE ~MemAccess \/ Hold(oresp)
    <2>1. dmem' = dmem
      BY <1>2, EdgeOutcomes DEF IInv, Hold, Flow, LoadUse, MemDone
    <2>. QED
      BY <1>1, <1>2, <2>1 DEF Hold, Arch!RamAfter
  <1>3. CASE MemAccess /\ ~Hold(oresp)
    <2>1. MemDone(oresp)
      BY <1>3, EdgeOutcomes DEF IInv, Flow, LoadUse
    <2>. QED
      BY <1>1, <2>1, WrittenFacts DEF MemDone
  <1>. QED
    BY <1>2, <1>3

-----------------------------------------------------------------------------
(* Every part of the invariant survives a clock edge.                       *)

LEMMA EdgeHolds ==
  ASSUME NEW oresp, Edge(oresp), ~Advance(Iresp(oresp), Dresp(oresp))
  PROVE  /\ UNCHANGED <<pc, id, ex, mem, wb, program>>
         /\ wb_fired' = (IF CommitValid THEN TRUE ELSE wb_fired)
  BY DEF Edge, CoreClock, PcStep, IfIdStep, IdExStep, ExMemStep, MemWbStep,
         WbFiredStep, Advance, Stall, MemWait, RedirectFire, InsertBubble

LEMMA EdgeAdvances ==
  ASSUME NEW oresp, Edge(oresp), Advance(Iresp(oresp), Dresp(oresp))
  PROVE  /\ mem'.pc = ex.pc /\ mem'.instr = ex.instr /\ mem'.d = ex.d
         /\ mem'.valid = ex.valid
         /\ mem'.alu_result = AluResult /\ mem'.rs2_data = Rs2Forwarded
         /\ wb'.instr = mem.instr /\ wb'.d = mem.d /\ wb'.valid = mem.valid
         /\ wb_fired' = FALSE
         /\ program' = program
  BY DEF Edge, CoreClock, ExMemStep, MemWbStep, WbFiredStep

\* The younger half of the pipeline when the older half moves: redirected,
\* held back behind a bubble, or moving too.
LEMMA FrontEnd ==
  ASSUME TypeOK, BusInv, NEW oresp, Given(oresp), Edge(oresp),
         Advance(Iresp(oresp), Dresp(oresp))
  PROVE  \/ /\ RedirectValid
            /\ pc' = RedirectTarget
            /\ id' = EmptyIfId
            /\ ex' = EmptyIdEx
         \/ /\ ~RedirectValid
            /\ LoadUseHazard \/ MemAccess
            /\ UNCHANGED <<pc, id>>
            /\ ex' = EmptyIdEx
         \/ /\ ~RedirectValid
            /\ ~LoadUseHazard /\ ~MemAccess
            /\ pc' = Add(pc, 4)
            /\ id' = [pc |-> pc, instr |-> Arch!InstrAt(program, pc),
                      valid |-> TRUE]
            /\ ex' = [pc |-> id.pc,
                      rs1_data |-> ReadReg(Decode(id.instr).rs1),
                      rs2_data |-> ReadReg(Decode(id.instr).rs2),
                      instr |-> id.instr, d |-> Decode(id.instr),
                      valid |-> id.valid]
            /\ ~CommitValid
  <1>1. CASE RedirectValid
    BY <1>1 DEF Edge, CoreClock, PcStep, IfIdStep, IdExStep, RedirectFire,
                InsertBubble
  <1>2. CASE ~RedirectValid /\ (LoadUseHazard \/ MemAccess)
    BY <1>2 DEF Edge, CoreClock, PcStep, IfIdStep, IdExStep, RedirectFire,
                InsertBubble, Stall
  <1>3. CASE ~RedirectValid /\ ~(LoadUseHazard \/ MemAccess)
    <2>1. Flow(oresp)
      BY <1>3, EdgeOutcomes DEF Hold, MemDone, LoadUse
    <2>2. ~Stall(Iresp(oresp))
      BY <1>3 DEF Advance, Stall
    <2>3. /\ Iresp(oresp).data_ok = TRUE
          /\ Iresp(oresp).data = Arch!InstrAt(program, pc)
      BY <2>1 DEF Flow
    <2>. QED
      BY <1>3, <2>1, <2>2, <2>3
      DEF Edge, CoreClock, PcStep, IfIdStep, IdExStep, RedirectFire, InsertBubble,
          Flow
  <1>. QED
    BY <1>1, <1>2, <1>3

LEMMA ControlsStep ==
  ASSUME IInv, NEW oresp, Given(oresp), Edge(oresp)
  PROVE  ControlsMatch'
  <1> USE DEF IInv, ControlsMatch
  <1>1. CASE ~Advance(Iresp(oresp), Dresp(oresp))
    BY <1>1, EdgeHolds
  <1>2. CASE Advance(Iresp(oresp), Dresp(oresp))
    <2>1. /\ mem'.d = Decode(mem'.instr) /\ (~mem'.valid => mem'.instr = ZeroInstr)
          /\ wb'.d = Decode(wb'.instr) /\ (~wb'.valid => wb'.instr = ZeroInstr)
      BY <1>2, EdgeAdvances
    <2>2. /\ ~id'.valid => id'.instr = ZeroInstr
          /\ ex'.d = Decode(ex'.instr) /\ (~ex'.valid => ex'.instr = ZeroInstr)
      BY <1>2, FrontEnd DEF EmptyIfId, EmptyIdEx
    <2>. QED
      BY <2>1, <2>2
  <1>. QED
    BY <1>1, <1>2

LEMMA FetchedStep ==
  ASSUME IInv, NEW oresp, Given(oresp), Edge(oresp)
  PROVE  FetchedFromText'
  <1> USE DEF IInv, FetchedFromText
  <1>1. CASE ~Advance(Iresp(oresp), Dresp(oresp))
    BY <1>1, EdgeHolds DEF Arch!InstrAt
  <1>2. CASE Advance(Iresp(oresp), Dresp(oresp))
    <2>1. program' = program
          /\ mem'.valid = ex.valid /\ mem'.instr = ex.instr /\ mem'.pc = ex.pc
      BY <1>2, EdgeAdvances
    <2>2. mem'.valid => mem'.instr = Arch!InstrAt(program', mem'.pc)
      BY <2>1
    <2>3. ex'.valid => ex'.instr = Arch!InstrAt(program, ex'.pc)
      BY <1>2, FrontEnd DEF EmptyIdEx
    <2>4. id'.valid => id'.instr = Arch!InstrAt(program, id'.pc)
      BY <1>2, FrontEnd DEF EmptyIfId
    <2>. QED
      BY <2>1, <2>2, <2>3, <2>4 DEF Arch!InstrAt
  <1>. QED
    BY <1>1, <1>2

LEMMA InOrderStep ==
  ASSUME IInv, NEW oresp, Given(oresp), Edge(oresp)
  PROVE  InOrder'
  <1> USE DEF IInv, InOrder
  <1>1. CASE ~Advance(Iresp(oresp), Dresp(oresp))
    BY <1>1, EdgeHolds
  <1>2. CASE Advance(Iresp(oresp), Dresp(oresp))
    BY <1>2, FrontEnd DEF EmptyIfId, EmptyIdEx
  <1>. QED
    BY <1>1, <1>2

LEMMA BusStep ==
  ASSUME IInv, NEW oresp, Given(oresp), Edge(oresp)
  PROVE  BusInv'
  <1> SUFFICES ASSUME busy'
               PROVE  /\ index' \in {0, 1}
                      /\ Ireqs'[index'].valid
                      /\ saved_req' = Ireqs'[index']
                      /\ ~CommitValid'
    BY DEF BusInv
  <1>1. ArbClock(Ireqs, oresp)
    BY DEF Edge
  <1>2. /\ Ireqs[0].valid <=> MemAccess
        /\ Ireqs[1].valid <=> Ireq.valid
    BY MastersAssumption
    DEF Ireqs, Master, DBusToCBus, IBusToCBus, IReqToDReq, Dreq
  <1>3. oresp \notin RamResps
    <2>1. CASE busy
      BY <1>1, <2>1, RespFacts DEF IInv, ArbClock
    <2>2. CASE ~busy
      <3>1. oresp = NoResp
        BY <2>2, GrantFacts DEF IInv, Given
      <3>2. NoResp.last = FALSE /\ (\A r \in RamResps : r.last = TRUE)
        BY DEF NoResp, RamResps
      <3>. QED
        BY <3>1, <3>2
    <2>. QED
      BY <2>1, <2>2
  <1>4. ~Iresp(oresp).data_ok /\ ~Dresp(oresp).data_ok
    BY <1>3, RespFacts DEF IInv
  <1>5. ~oresp.last
    BY <1>3, RespFacts DEF IInv
  <1>6. /\ index' \in {0, 1}
        /\ Ireqs[index'].valid
        /\ saved_req' = Ireqs[index']
    BY <1>1, <1>5, SelectFacts DEF IInv, BusInv, ArbClock, arbVars
  <1>7. ~Advance(Iresp(oresp), Dresp(oresp))
    BY <1>2, <1>4, <1>6 DEF Advance, FetchWait, MemWait
  <1>8. Ireqs' = Ireqs
    <2>1. UNCHANGED <<pc, id, ex, mem>>
      BY <1>7, EdgeHolds
    <2>2. Ireq' = Ireq /\ Dreq' = Dreq
      BY <2>1 DEF Ireq, Dreq, MemAccess, LoadUseHazard
    <2>. QED
      BY <2>2 DEF Ireqs, IBusToCBus, DBusToCBus, IReqToDReq
  <1>9. ~CommitValid'
    <2>1. wb' = wb /\ wb_fired' = (IF CommitValid THEN TRUE ELSE wb_fired)
      BY <1>7, EdgeHolds
    <2>. QED
      BY <2>1 DEF CommitValid, IInv, TypeOK, CoreTypeOK
  <1>10. Ireqs'[index'] = Ireqs[index']
    BY <1>8
  <1>. QED
    BY <1>6, <1>9, <1>10

LEMMA FiredStep ==
  ASSUME IInv, NEW oresp, Given(oresp), Edge(oresp)
  PROVE  FiredInv'
  <1>1. CASE Advance(Iresp(oresp), Dresp(oresp))
    BY <1>1, EdgeAdvances DEF FiredInv
  <1>2. CASE ~Advance(Iresp(oresp), Dresp(oresp))
    <2>1. UNCHANGED wb /\ WbData' = WbData
      BY <1>2, EdgeHolds DEF WbData
    <2>2. RegfileStep /\ wb.d.rd \in Reg /\ regs \in [Reg -> Word]
      BY DEF Edge, CoreClock, IInv, TypeOK, CoreTypeOK, MemWb, DecodeOut
    <2>3. CASE CommitValid
      BY <2>1, <2>2, <2>3 DEF FiredInv, RegfileStep, RegWriteFire
    <2>4. CASE ~CommitValid
      BY <1>2, <2>1, <2>2, <2>4, EdgeHolds
      DEF FiredInv, RegfileStep, RegWriteFire, IInv
    <2>. QED
      BY <2>3, <2>4
  <1>. QED
    BY <1>1, <1>2

LEMMA OperandsStep ==
  ASSUME IInv, NEW oresp, Given(oresp), Edge(oresp)
  PROVE  OperandsInv'
  <1>1. RegfileStep /\ wb.d.rd \in Reg /\ regs \in [Reg -> Word]
    BY DEF Edge, CoreClock, IInv, TypeOK, CoreTypeOK, MemWb, DecodeOut
  <1>2. CASE ~Advance(Iresp(oresp), Dresp(oresp))
    <2>1. UNCHANGED <<ex, mem, wb>>
      BY <1>2, EdgeHolds
    <2>2. ASSUME NEW r \in Reg, NEW data, OperandGood(r, data)
          PROVE  OperandGood(r, data)'
      BY <1>1, <2>1, <2>2 DEF OperandGood, Writes, RegfileStep, RegWriteFire
    <2>3. ex.d.rs1 \in Reg /\ ex.d.rs2 \in Reg
      BY DEF IInv, TypeOK, CoreTypeOK, IdEx, DecodeOut
    <2>. QED
      BY <2>1, <2>2, <2>3 DEF OperandsInv, OperandGood, Writes, IInv
  <1>3. CASE Advance(Iresp(oresp), Dresp(oresp)) /\ ex' = EmptyIdEx
    BY <1>3 DEF OperandsInv, EmptyIdEx
  <1>4. CASE Advance(Iresp(oresp), Dresp(oresp)) /\ ex' # EmptyIdEx
    <2>1. /\ ex'.rs1_data = ReadReg(ex'.d.rs1)
          /\ ex'.rs2_data = ReadReg(ex'.d.rs2)
          /\ ~CommitValid
      BY <1>4, FrontEnd DEF IInv
    <2>2. regs' = regs
      BY <1>1, <2>1 DEF RegfileStep, RegWriteFire
    <2>. QED
      BY <2>1, <2>2 DEF OperandsInv, OperandGood, ReadReg
  <1>. QED
    BY <1>2, <1>3, <1>4

LEMMA NoLoadUseStep ==
  ASSUME IInv, NEW oresp, Given(oresp), Edge(oresp)
  PROVE  NoLoadUse'
  <1>1. CASE ~Advance(Iresp(oresp), Dresp(oresp))
    BY <1>1, EdgeHolds DEF NoLoadUse, IInv
  <1>2. CASE Advance(Iresp(oresp), Dresp(oresp))
    <2>1. mem'.d = ex.d
      BY <1>2, EdgeAdvances
    <2>2. ex'.valid => ~LoadUseHazard /\ ex'.d = Decode(id.instr)
      BY <1>2, FrontEnd DEF EmptyIdEx, IInv
    <2>. QED
      BY <2>1, <2>2 DEF NoLoadUse, LoadUseHazard
  <1>. QED
    BY <1>1, <1>2

-----------------------------------------------------------------------------
(* EX computes what the architecture says.                                  *)

\* The decoder's operation is the architecture's.
LEMMA OpOfDecode ==
  ASSUME NEW i \in Instr, i.op \in {"OP", "OP_IMM", "OP_32", "OP_IMM_32"}
  PROVE  Decode(i).alu_op = Arch!OpOf(i)
  <1>1. i.funct3 \in 0 .. 7 /\ i.alt \in BOOLEAN
    BY DEF Instr, Funct3
  <1>2. Decode(i).alu_op = DecodeAluOp(i)
    BY DEF Decode
  <1>3. CASE i.op \in {"OP", "OP_IMM"}
    <2>1. DecodeAluOp(i) = ArithOp(i)
      BY <1>3 DEF DecodeAluOp
    <2>2. ArithOp(i) = Arch!OpOf(i)
      BY <1>1, <1>3 DEF ArithOp, Arch!OpOf, Arch!BaseOp
    <2>. QED
      BY <1>2, <2>1, <2>2
  <1>4. CASE i.op \in {"OP_32", "OP_IMM_32"}
    <2>1. DecodeAluOp(i) = ArithOp32(i)
      BY <1>4 DEF DecodeAluOp
    <2>2. ArithOp32(i) = Arch!OpOf(i)
      BY <1>1, <1>4 DEF ArithOp32, Arch!OpOf, Arch!BaseOp32
    <2>. QED
      BY <1>2, <2>1, <2>2
  <1>. QED
    BY <1>3, <1>4

\* The controls EX reads.
LEMMA ExecuteControls ==
  ASSUME NEW i
  PROVE  /\ Decode(i).alu_src <=> i.op \in {"OP_IMM", "OP_IMM_32", "LOAD",
                                            "STORE", "LUI", "AUIPC"}
         /\ Decode(i).use_pc <=> i.op = "AUIPC"
         /\ Decode(i).is_branch <=> i.op = "BRANCH"
         /\ Decode(i).is_jump <=> i.op \in {"JAL", "JALR"}
         /\ Decode(i).is_jalr <=> i.op = "JALR"
         /\ i.op \in {"OP_IMM", "LOAD", "JALR", "OP_IMM_32", "STORE", "BRANCH",
                      "LUI", "AUIPC", "JAL"} => Decode(i).imm = i.imm
         /\ i.op \in {"LOAD", "STORE", "LUI", "AUIPC"} =>
              Decode(i).alu_op = "ADD"
  BY DEF Decode, AluSrc, DecodeImm, DecodeAluOp

\* The architectural state as EX's instruction will find it.
LEMMA ExecuteStep ==
  ASSUME IInv, NEW oresp, Given(oresp), Edge(oresp),
         Advance(Iresp(oresp), Dresp(oresp)), ex.valid
  PROVE  /\ ArchPc' = ex.pc
         /\ GprDt'[0] = 0
         /\ Rs1Forwarded = GprDt'[ex.d.rs1]
         /\ Rs2Forwarded = GprDt'[ex.d.rs2]
  <1>1. mem'.valid /\ mem'.pc = ex.pc
    BY EdgeAdvances
  <1>2. GprDt' = GprNext
    BY GprStep
  <1>3. GprNext[0] = 0
    BY GprNextFacts, GprView, SizeAssumption DEF IInv
  <1>. QED
    BY <1>1, <1>2, <1>3, Operands DEF ArchPc

\* The address that follows EX's instruction is its successor.
LEMMA SuccessorStep ==
  ASSUME IInv, NEW oresp, Given(oresp), Edge(oresp),
         Advance(Iresp(oresp), Dresp(oresp)), ex.valid,
         NEW i, i = ex.instr
  PROVE  AfterMem' = Arch!PcAfter(i)'
  <1>1. id.valid /\ id.pc = Add(ex.pc, 4)
    BY DEF IInv, InOrder
  <1>2. AfterMem' = IF RedirectValid THEN RedirectTarget ELSE Add(ex.pc, 4)
    <2>1. CASE RedirectValid
      <3>1. pc' = RedirectTarget /\ ~id'.valid /\ ~ex'.valid
        BY <2>1, FrontEnd DEF IInv, EmptyIfId, EmptyIdEx
      <3>. QED
        BY <2>1, <3>1 DEF AfterMem
    <2>2. CASE ~RedirectValid /\ (LoadUseHazard \/ MemAccess)
      <3>1. id' = id /\ ~ex'.valid
        BY <2>2, FrontEnd DEF IInv, EmptyIdEx
      <3>. QED
        BY <1>1, <2>2, <3>1 DEF AfterMem
    <2>3. CASE ~RedirectValid /\ ~(LoadUseHazard \/ MemAccess)
      <3>1. ex'.valid = id.valid /\ ex'.pc = id.pc
        BY <2>3, FrontEnd DEF IInv
      <3>. QED
        BY <1>1, <2>3, <3>1 DEF AfterMem
    <2>. QED
      BY <2>1, <2>2, <2>3
  <1>3. ex.d = Decode(i)
    BY DEF IInv, ControlsMatch
  <1>4. /\ ex.d.rs1 = IF i.op = "LUI" THEN 0 ELSE i.rs1
        /\ ex.d.rs2 = i.rs2 /\ ex.d.funct3 = i.funct3
        /\ ex.d.is_branch <=> i.op = "BRANCH"
        /\ ex.d.is_jump <=> i.op \in {"JAL", "JALR"}
        /\ ex.d.is_jalr <=> i.op = "JALR"
        /\ i.op \in {"JAL", "JALR", "BRANCH"} => ex.d.imm = i.imm
    BY <1>3, DecodeFacts, ExecuteControls
  <1>5. /\ ArchPc' = ex.pc
        /\ Rs1Forwarded = GprDt'[ex.d.rs1] /\ Rs2Forwarded = GprDt'[ex.d.rs2]
    BY ExecuteStep
  <1>6. Arch!PcAfter(i)' =
          CASE i.op = "JAL"  -> Add(ex.pc, i.imm)
            [] i.op = "JALR" -> ClearBit0(Add(GprDt'[i.rs1], i.imm))
            [] i.op = "BRANCH" /\ BranchTaken(i.funct3, GprDt'[i.rs1], GprDt'[i.rs2])
                             -> Add(ex.pc, i.imm)
            [] OTHER         -> Add(ex.pc, 4)
    BY <1>5, ArchHelpers DEF Arch!PcAfter, Arch!Address, ClearBit0
  <1>7. RedirectValid <=>
          \/ i.op \in {"JAL", "JALR"}
          \/ i.op = "BRANCH" /\ BranchTaken(i.funct3, GprDt'[i.rs1], GprDt'[i.rs2])
    BY <1>4, <1>5 DEF RedirectValid
  <1>8. CASE i.op = "JALR"
    BY <1>2, <1>4, <1>5, <1>6, <1>7, <1>8 DEF RedirectTarget
  <1>9. CASE i.op # "JALR"
    BY <1>2, <1>4, <1>5, <1>6, <1>7, <1>9 DEF RedirectTarget
  <1>. QED
    BY <1>8, <1>9

\* So are its address, its store data and its result.
LEMMA ExecuteResult ==
  ASSUME IInv, NEW oresp, Given(oresp), Edge(oresp),
         Advance(Iresp(oresp), Dresp(oresp)), ex.valid,
         NEW i, i = ex.instr
  PROVE  /\ i.op \in {"LOAD", "STORE"} => AluResult = Arch!Address(i)'
         /\ Rs2Forwarded = GprDt'[i.rs2]
         /\ Arch!HasResult(i) /\ i.op # "LOAD" =>
              ForwardDataMem' = Arch!Result(i)'
  <1>1. /\ i \in Instr /\ ex.d = Decode(i)
        /\ i.imm \in Word /\ ex.pc \in Word
    BY DEF IInv, ControlsMatch, TypeOK, CoreTypeOK, IdEx, Instr
  <1>2. /\ ex.d.rs1 = IF i.op = "LUI" THEN 0 ELSE i.rs1
        /\ ex.d.rs2 = i.rs2
        /\ ex.d.wb_sel = "WB_PC4" <=> i.op \in {"JAL", "JALR"}
        /\ ex.d.use_pc <=> i.op = "AUIPC"
    BY <1>1, DecodeFacts, ExecuteControls
  <1>3. /\ ArchPc' = ex.pc /\ GprDt'[0] = 0
        /\ Rs1Forwarded = GprDt'[ex.d.rs1] /\ Rs2Forwarded = GprDt'[ex.d.rs2]
    BY ExecuteStep
  <1>4. Rs1Forwarded \in Word /\ Rs2Forwarded \in Word
    BY CoreWireTypes DEF IInv, TypeOK
  <1>5. /\ mem'.pc = ex.pc /\ mem'.d = ex.d /\ mem'.alu_result = AluResult
    BY EdgeAdvances
  <1>6. ASSUME i.op \in {"LOAD", "STORE", "LUI", "AUIPC"}
        PROVE  AluResult = Add(IF i.op = "AUIPC" THEN ex.pc ELSE Rs1Forwarded,
                               i.imm)
    <2>1. /\ ex.d.alu_op = "ADD" /\ ex.d.alu_src /\ ex.d.imm = i.imm
      BY <1>1, <1>6, ExecuteControls
    <2>2. AluResult = Alu("ADD", IF i.op = "AUIPC" THEN ex.pc ELSE Rs1Forwarded,
                          i.imm)
      BY <1>2, <2>1 DEF AluResult
    <2>. QED
      BY <1>1, <1>4, <2>2, AluAssumption
  <1>7. i.op \in {"LOAD", "STORE"} => AluResult = Arch!Address(i)'
    BY <1>2, <1>3, <1>6, ArchHelpers DEF Arch!Address
  <1>8. ForwardDataMem' = IF i.op \in {"JAL", "JALR"} THEN Add(ex.pc, 4)
                                                       ELSE AluResult
    BY <1>2, <1>5 DEF ForwardDataMem
  <1>9. ASSUME Arch!HasResult(i), i.op # "LOAD"
        PROVE  ForwardDataMem' = Arch!Result(i)'
    <2>1. CASE i.op \in {"JAL", "JALR"}
      BY <1>3, <1>8, <2>1, ArchHelpers DEF Arch!Result
    <2>2. CASE i.op = "LUI"
      <3>1. AluResult = Add(0, i.imm)
        BY <1>2, <1>3, <1>6, <2>2
      <3>2. Add(0, i.imm) = i.imm
        BY <1>1, SizeAssumption DEF Add, Word
      <3>. QED
        BY <1>8, <2>2, <3>1, <3>2 DEF Arch!Result
    <2>3. CASE i.op = "AUIPC"
      BY <1>3, <1>6, <1>8, <2>3, ArchHelpers DEF Arch!Result
    <2>4. CASE i.op \in {"OP", "OP_32", "OP_IMM", "OP_IMM_32"}
      <3>1. /\ ex.d.alu_op = Arch!OpOf(i)
            /\ ex.d.alu_src <=> i.op \in {"OP_IMM", "OP_IMM_32"}
            /\ i.op \in {"OP_IMM", "OP_IMM_32"} => ex.d.imm = i.imm
        BY <1>1, <2>4, OpOfDecode, ExecuteControls
      <3>2. AluResult = Alu(Arch!OpOf(i), GprDt'[i.rs1],
                            IF i.op \in {"OP_IMM", "OP_IMM_32"} THEN i.imm
                                                                ELSE GprDt'[i.rs2])
        BY <1>2, <1>3, <2>4, <3>1 DEF AluResult
      <3>3. CASE i.op \in {"OP", "OP_32"}
        BY <1>8, <3>2, <3>3 DEF Arch!Result
      <3>4. CASE i.op \in {"OP_IMM", "OP_IMM_32"}
        BY <1>8, <3>2, <3>4 DEF Arch!Result
      <3>. QED
        BY <2>4, <3>3, <3>4
    <2>. QED
      BY <1>9, <2>1, <2>2, <2>3, <2>4 DEF Arch!HasResult
  <1>. QED
    BY <1>2, <1>3, <1>7, <1>9

LEMMA ExecutedStep ==
  ASSUME IInv, NEW oresp, Given(oresp), Edge(oresp)
  PROVE  ExecutedInv'
  <1>1. CASE ~Advance(Iresp(oresp), Dresp(oresp))
    <2>1. UNCHANGED <<pc, id, ex, mem, program>>
      BY <1>1, EdgeHolds
    <2>2. GprDt' = GprDt /\ ArchPc' = ArchPc /\ dmem' = dmem
      BY <1>1, GprStep, PcStepsToSuccessor, RamStep
    <2>3. ForwardDataMem' = ForwardDataMem /\ AfterMem' = AfterMem
      BY <2>1 DEF ForwardDataMem, AfterMem
    <2>. QED
      BY <2>1, <2>2, <2>3
      DEF IInv, ExecutedInv, Arch!PcAfter, Arch!Address, Arch!Result
  <1>2. CASE Advance(Iresp(oresp), Dresp(oresp))
    <2> SUFFICES ASSUME mem'.valid
                 PROVE  ExecutedInv'
      BY DEF ExecutedInv
    <2>1. /\ ex.valid /\ mem'.instr = ex.instr
          /\ mem'.alu_result = AluResult /\ mem'.rs2_data = Rs2Forwarded
      BY <1>2, EdgeAdvances
    <2>. QED
      BY <1>2, <2>1, SuccessorStep, ExecuteResult
      DEF ExecutedInv
  <1>. QED
    BY <1>1, <1>2

-----------------------------------------------------------------------------
(* Reset, and the invariant as a whole.                                     *)

\* An empty machine satisfies everything but its types.
LEMMA EmptyMachine ==
  ASSUME id = EmptyIfId, ex = EmptyIdEx, mem = EmptyExMem, wb = EmptyMemWb,
         wb_fired = FALSE, busy = FALSE
  PROVE  /\ ControlsMatch /\ FetchedFromText /\ InOrder /\ BusInv /\ FiredInv
         /\ OperandsInv /\ NoLoadUse /\ ExecutedInv
  BY EmptyControls
  DEF EmptyIfId, EmptyIdEx, EmptyExMem, EmptyMemWb, ControlsMatch, FetchedFromText,
      InOrder, BusInv, FiredInv, OperandsInv, NoLoadUse, ExecutedInv

LEMMA EdgeStep ==
  ASSUME IInv, TypeOK', NEW oresp, Given(oresp), Edge(oresp)
  PROVE  IInv'
  BY ControlsStep, FetchedStep, InOrderStep, BusStep, FiredStep, OperandsStep,
     NoLoadUseStep, ExecutedStep
  DEF IInv

LEMMA ResetStep ==
  ASSUME IInv, TypeOK', ResetEdge
  PROVE  IInv'
  <1>1. /\ id' = EmptyIfId /\ ex' = EmptyIdEx /\ mem' = EmptyExMem
        /\ wb' = EmptyMemWb /\ wb_fired' = FALSE /\ busy' = FALSE
    BY DEF ResetEdge, CoreReset, ArbReset
  <1>2. (/\ ControlsMatch /\ FetchedFromText /\ InOrder /\ BusInv /\ FiredInv
         /\ OperandsInv /\ NoLoadUse /\ ExecutedInv)'
    BY <1>1, EmptyControls
    DEF EmptyIfId, EmptyIdEx, EmptyExMem, EmptyMemWb, ControlsMatch,
        FetchedFromText, InOrder, BusInv, FiredInv, OperandsInv, NoLoadUse,
        ExecutedInv
  <1>. QED
    BY <1>2 DEF IInv

\* A step of Next other than a reset answers the bus in a way the RAM can.
LEMMA NextEdges ==
  ASSUME Next
  PROVE  \/ \E oresp : Given(oresp) /\ Edge(oresp)
         \/ ResetEdge
  BY DEF Next, IdleEdge, WaitEdge, AnswerEdge, Given

LEMMA StutterStep ==
  ASSUME IInv, UNCHANGED vars
  PROVE  IInv'
  <1>1. UNCHANGED <<pc, id, ex, mem, wb, wb_fired, regs, busy, index, saved_req,
                    program, dmem>>
    BY DEF vars
  <1>2. /\ WbData' = WbData /\ CommitValid' = CommitValid
        /\ ForwardDataMem' = ForwardDataMem /\ AfterMem' = AfterMem
        /\ ArchPc' = ArchPc
    BY <1>1 DEF WbData, CommitValid, ForwardDataMem, AfterMem, ArchPc
  <1>3. GprDt' = GprDt
    BY <1>1, <1>2 DEF GprDt, RegWriteFire
  <1>4. Ireqs' = Ireqs
    BY <1>1
    DEF Ireqs, Ireq, Dreq, MemAccess, LoadUseHazard, IBusToCBus, DBusToCBus,
        IReqToDReq
  <1>5. ExecutedInv'
    BY <1>1, <1>2, <1>3
    DEF IInv, ExecutedInv, Arch!PcAfter, Arch!Address, Arch!Result
  <1>6. FetchedFromText'
    BY <1>1 DEF IInv, FetchedFromText, Arch!InstrAt
  <1>7. BusInv' /\ OperandsInv' /\ FiredInv'
    BY <1>1, <1>2, <1>4
    DEF IInv, BusInv, OperandsInv, OperandGood, Writes, FiredInv
  <1>8. TypeOK' /\ ControlsMatch' /\ InOrder' /\ NoLoadUse'
    BY <1>1 DEF IInv, TypeOK, CoreTypeOK, ArbTypeOK, ControlsMatch, InOrder, NoLoadUse
  <1>. QED
    BY <1>5, <1>6, <1>7, <1>8 DEF IInv

LEMMA InvariantStep == IInv /\ [Next]_vars => IInv'
  <1>1. IInv /\ [Next]_vars => TypeOK'
    BY TypeStep DEF IInv
  <1>. QED
    BY <1>1, NextEdges, EdgeStep, ResetStep, StutterStep

\* The invariant that ties the stages to the architecture holds in every
\* reachable state.
THEOREM Invariant == Spec => []IInv
  <1>1. Init /\ TypeOK => IInv
    BY EmptyMachine DEF Init, CoreInit, ArbInit, IInv
  <1>. QED
    BY <1>1, InvariantStep, TypeCorrect, PTL DEF Spec

-----------------------------------------------------------------------------
(* What the invariant gives.                                                *)

\* While a transaction is on the bus, the request driven is the one granted.
THEOREM RequestsHeld == Spec => []RequestHeld
  <1>1. IInv => RequestHeld
    BY DEF IInv, BusInv, RequestHeld, Oreq, OutReq
  <1>. QED
    BY <1>1, Invariant, PTL

\* No instruction is left to commit when the bus answers.
THEOREM CommitsBeforeAnswer == Spec => []CommitBeforeAnswer
  <1>1. IInv => CommitBeforeAnswer
    BY DEF IInv, BusInv, CommitBeforeAnswer
  <1>. QED
    BY <1>1, Invariant, PTL

\* The instruction in MEM is the one the architecture executes next.
LEMMA MemIsCurrent ==
  ASSUME IInv, mem.valid
  PROVE  ArchPc = mem.pc /\ Arch!Current = mem.instr
  BY DEF IInv, FetchedFromText, ArchPc, Arch!Current

-----------------------------------------------------------------------------
(* The pipeline implements the architecture.                                *)

LEMMA ArchInit ==
  ASSUME Init
  PROVE  Arch!Init
  <1>1. ArchPc = PCINIT
    BY DEF Init, CoreInit, ArchPc, EmptyIfId, EmptyIdEx, EmptyExMem
  <1>2. GprDt = [r \in Reg |-> 0]
    BY DEF Init, CoreInit, EmptyMemWb, GprDt, RegWriteFire, CommitValid
  <1>. QED
    BY <1>1, <1>2 DEF Init, Arch!Init

\* A clock edge executes the instruction that leaves MEM, if one does.
LEMMA EdgeRefines ==
  ASSUME IInv, NEW oresp, Given(oresp), Edge(oresp)
  PROVE  Arch!Step \/ UNCHANGED Arch!vars
  <1>1. program' = program
    BY DEF Edge
  <1>2. CASE Advance(Iresp(oresp), Dresp(oresp)) /\ mem.valid
    <2>1. Arch!Current = mem.instr
      BY <1>2, MemIsCurrent
    <2>2. ArchPc' = Arch!PcAfter(mem.instr)
      BY <1>2, PcStepsToSuccessor DEF IInv, ExecutedInv
    <2>3. GprDt' = Arch!GprAfter(mem.instr)
      BY <1>2, GprStep DEF GprNext
    <2>4. dmem' = Arch!RamAfter(mem.instr)
      BY <1>2, RamStep
    <2>. QED
      BY <1>1, <2>1, <2>2, <2>3, <2>4 DEF Arch!Step
  <1>3. CASE ~(Advance(Iresp(oresp), Dresp(oresp)) /\ mem.valid)
    <2>1. ArchPc' = ArchPc
      BY <1>3, PcStepsToSuccessor DEF ArchPc, AfterMem
    <2>2. GprDt' = GprDt
      BY <1>3, GprStep DEF GprNext
    <2>3. dmem' = dmem
      BY <1>3, RamStep
    <2>. QED
      BY <1>1, <2>1, <2>2, <2>3 DEF Arch!vars
  <1>. QED
    BY <1>2, <1>3

LEMMA ResetRefines ==
  ASSUME IInv, ResetEdge
  PROVE  Arch!Reset
  <1>1. ArchPc' = PCINIT
    BY DEF ResetEdge, CoreReset, ArchPc, EmptyIfId, EmptyIdEx, EmptyExMem
  <1>2. GprDt' = [r \in Reg |-> 0]
    BY DEF ResetEdge, CoreReset, EmptyMemWb, GprDt, RegWriteFire, CommitValid
  <1>3. dmem' \in {dmem, Arch!RamAfter(Arch!Current)}
    <2>1. CASE dmem' = dmem
      BY <2>1
    <2>2. CASE Oreq.valid /\ dmem' = Written /\ index = 0
      <3>1. Oreq = DBusToCBus(Dreq) /\ MemAccess
        BY <2>2, GrantFacts DEF IInv
      <3>. QED
        BY <2>2, <3>1, WrittenFacts, MemIsCurrent DEF MemAccess
    <2>3. CASE Oreq.valid /\ dmem' = Written /\ index # 0
      BY <2>3, GrantFacts DEF IInv, Written
    <2>. QED
      BY <2>1, <2>2, <2>3 DEF ResetEdge
  <1>. QED
    BY <1>1, <1>2, <1>3 DEF ResetEdge, Arch!Reset

\* Every behaviour of the pipeline is one of the one-instruction-at-a-time
\* machine, whatever the programs, the datapath, the RAM's latency and the
\* moments of reset.
THEOREM Refinement == Spec => ImplementsIsa
  <1>1. Init => Arch!Init
    BY ArchInit
  <1>2. IInv /\ [Next]_vars => [Arch!Next]_(Arch!vars)
    <2> SUFFICES ASSUME IInv, [Next]_vars PROVE [Arch!Next]_(Arch!vars)
      OBVIOUS
    <2>1. CASE UNCHANGED vars
      BY <2>1
      DEF vars, Arch!vars, ArchPc, GprDt, RegWriteFire, CommitValid, WbData
    <2>2. CASE Next
      BY <2>2, NextEdges, EdgeRefines, ResetRefines DEF Arch!Next
    <2>. QED
      BY <2>1, <2>2
  <1>. QED
    BY <1>1, <1>2, Invariant, PTL DEF Spec, ImplementsIsa, Arch!Spec

-----------------------------------------------------------------------------
(* Progress.  Every edge but the ones on which the RAM keeps a request      *)
(* waiting brings the oldest instruction nearer to its commit.              *)

ClockedEdge == IdleEdge \/ AnswerEdge

LEMMA StagesFacts ==
  /\ StagesToCommit \in 1 .. 4
  /\ EdgesToCommit \in 2 .. 9
  BY DEF StagesToCommit, EdgesToCommit

\* While older stages wait, the core is where it is: the edge is a grant, or the
\* RAM is at work.
LEMMA HoldProgress ==
  ASSUME IInv, NEW oresp, Given(oresp), Edge(oresp),
         ~Advance(Iresp(oresp), Dresp(oresp))
  PROVE  /\ busy' /\ UNCHANGED <<id, ex, mem>>
         /\ busy => oresp = NoResp
  <1>1. UNCHANGED <<pc, id, ex, mem>>
    BY EdgeHolds
  <1>2. Ireq.valid \/ MemAccess
    BY DEF Advance, FetchWait, MemWait
  <1>3. /\ Ireqs[0].valid <=> MemAccess
        /\ Ireqs[1].valid <=> Ireq.valid
    BY MastersAssumption
    DEF Ireqs, Master, DBusToCBus, IBusToCBus, IReqToDReq, Dreq
  <1>4. oresp \notin RamResps
    <2>1. SUFFICES ASSUME oresp \in RamResps PROVE FALSE
      OBVIOUS
    <2>2. busy
      BY <2>1, GrantFacts DEF Given, IInv, NoResp, RamResps
    <2>3. CASE index = 0
      <3>1. MemAccess /\ ~Ireq.valid /\ Dresp(oresp).data_ok
        BY <2>1, <2>2, <2>3, RespFacts, GrantFacts DEF IInv, Ireq
      <3> QED BY <3>1 DEF Advance, FetchWait, MemWait
    <2>4. CASE index = 1
      <3>1. Ireq.valid /\ ~MemAccess /\ Iresp(oresp).data_ok
        BY <2>1, <2>2, <2>4, RespFacts, GrantFacts DEF IInv, Ireq
      <3> QED BY <3>1 DEF Advance, FetchWait, MemWait
    <2> QED BY <2>2, <2>3, <2>4, GrantFacts DEF IInv
  <1>5. oresp = NoResp /\ ~oresp.last
    BY <1>4 DEF Given, NoResp
  <1>6. busy'
    BY <1>2, <1>3, <1>5, SelectFacts DEF Edge, ArbClock, arbVars, IInv
  <1> QED BY <1>1, <1>5, <1>6

\* When they move, so does the oldest instruction; a redirect empties only what is
\* younger than a branch, and a bubble goes in behind a load.
LEMMA AdvanceProgress ==
  ASSUME IInv, NEW oresp, Given(oresp), Edge(oresp),
         Advance(Iresp(oresp), Dresp(oresp))
  PROVE  ~busy' /\ (CommitValid' \/ StagesToCommit' < StagesToCommit)
  <1>1. mem'.valid = ex.valid /\ wb'.valid = mem.valid /\ wb_fired' = FALSE
    BY EdgeAdvances
  <1>2. ~busy'
    <2>1. CASE busy
      <3>1. oresp \in RamResps
        BY <2>1, RespFacts, GrantFacts DEF IInv, Advance, FetchWait, MemWait
      <3> QED BY <2>1, <3>1, RespFacts DEF IInv, Edge, ArbClock
    <2>2. CASE ~busy
      <3>1. ~Iresp(oresp).data_ok /\ ~Dresp(oresp).data_ok
        BY <2>2, RespFacts DEF IInv
      <3>2. ~Ireq.valid /\ ~MemAccess
        BY <3>1 DEF Advance, FetchWait, MemWait
      <3>3. \A i \in Master : ~Ireqs[i].valid
        BY <3>2, MastersAssumption
        DEF Ireqs, Master, DBusToCBus, IBusToCBus, IReqToDReq, Dreq
      <3>4. ~Ireqs[Select(Ireqs)].valid
        BY <3>3, SelectFacts, MastersAssumption DEF Master
      <3> QED BY <2>2, <3>4 DEF Edge, ArbClock
    <2> QED BY <2>1, <2>2
  <1> SUFFICES CommitValid' \/ StagesToCommit' < StagesToCommit
    BY <1>2
  <1>3. mem.valid \in BOOLEAN /\ ex.valid \in BOOLEAN /\ id.valid \in BOOLEAN
    BY DEF IInv, TypeOK, CoreTypeOK, ExMem, IdEx, IfId
  <1>4. CASE mem.valid
    BY <1>1, <1>3, <1>4 DEF CommitValid
  <1>5. CASE ~mem.valid /\ ex.valid
    BY <1>1, <1>3, <1>5 DEF StagesToCommit
  <1>6. CASE ~mem.valid /\ ~ex.valid
    <2>1. ~RedirectValid /\ ~MemAccess
      BY <1>6 DEF RedirectValid, MemAccess
    <2>2. ~LoadUseHazard
      BY <1>6, EmptyControls DEF IInv, ControlsMatch, LoadUseHazard
    <2>3. id'.valid = TRUE /\ ex'.valid = id.valid
      BY <2>1, <2>2, FrontEnd DEF IInv
    <2> QED BY <1>1, <1>3, <1>6, <2>3 DEF StagesToCommit
  <1> QED BY <1>4, <1>5, <1>6

LEMMA EdgeProgress ==
  ASSUME IInv, NEW oresp, Given(oresp), Edge(oresp)
  PROVE  \/ CommitValid'
         \/ EdgesToCommit' < EdgesToCommit
         \/ EdgesToCommit' = EdgesToCommit /\ busy /\ oresp = NoResp
  <1>1. StagesToCommit \in Nat /\ StagesToCommit' \in Nat
    BY DEF StagesToCommit
  <1>2. CASE ~Advance(Iresp(oresp), Dresp(oresp))
    <2>1. busy' /\ StagesToCommit' = StagesToCommit
      BY <1>2, HoldProgress DEF StagesToCommit
    <2>2. busy => oresp = NoResp
      BY <1>2, HoldProgress
    <2> QED BY <1>1, <2>1, <2>2 DEF EdgesToCommit
  <1>3. CASE Advance(Iresp(oresp), Dresp(oresp)) /\ ~CommitValid'
    <2>1. ~busy' /\ StagesToCommit' < StagesToCommit
      BY <1>3, AdvanceProgress
    <2>2. \A s, t \in Nat : t < s => 2 * t + 1 < 2 * s + 0
      OBVIOUS
    <2>3. \A s, t \in Nat : t < s => 2 * t + 1 < 2 * s + 1
      OBVIOUS
    <2>4. /\ EdgesToCommit' = 2 * StagesToCommit' + 1
          /\ \/ EdgesToCommit = 2 * StagesToCommit + 0
             \/ EdgesToCommit = 2 * StagesToCommit + 1
      BY <2>1 DEF EdgesToCommit
    <2> QED BY ONLY <1>1, <2>1, <2>2, <2>3, <2>4
  <1> QED BY <1>2, <1>3

LEMMA ClockedProgress ==
  ASSUME IInv, ClockedEdge
  PROVE  CommitValid' \/ EdgesToCommit' < EdgesToCommit
  <1>1. CASE IdleEdge
    <2>1. ~busy /\ Given(NoResp) /\ Edge(NoResp)
      BY <1>1, GrantFacts DEF IdleEdge, Given, IInv
    <2> QED BY <2>1, EdgeProgress
  <1>2. CASE AnswerEdge
    <2>1. PICK oresp \in RamResps : Oreq.valid /\ Edge(oresp)
      BY <1>2 DEF AnswerEdge
    <2>2. oresp # NoResp /\ Given(oresp)
      BY <2>1 DEF RamResps, NoResp, Given
    <2> QED BY <2>1, <2>2, EdgeProgress
  <1> QED BY <1>1, <1>2 DEF ClockedEdge

LEMMA WaitProgress ==
  ASSUME IInv, WaitEdge
  PROVE  CommitValid' \/ EdgesToCommit' < EdgesToCommit \/ EdgesToCommit' = EdgesToCommit
  BY EdgeProgress DEF WaitEdge, Given

LEMMA ProgressStep ==
  ASSUME IInv, Next, ~ResetEdge
  PROVE  \/ CommitValid'
         \/ EdgesToCommit' < EdgesToCommit
         \/ ~ClockedEdge /\ EdgesToCommit' = EdgesToCommit
  BY ClockedProgress, WaitProgress DEF Next, ClockedEdge

LEMMA StutterProgress ==
  ASSUME UNCHANGED vars
  PROVE  EdgesToCommit' = EdgesToCommit /\ CommitValid' = CommitValid
  BY DEF vars, EdgesToCommit, StagesToCommit, CommitValid

\* Stalls, bubbles, redirects and the two masters of the bus never keep the core
\* from its next commit for more than eight edges and the waits of the RAM, for
\* every program and datapath, after any reset.
THEOREM CommitWithinEight == Spec => CommitsInTime
  <1>1. IInv /\ [Next]_vars =>
          [~ResetEdge => \/ CommitValid'
                         \/ EdgesToCommit' < EdgesToCommit
                         \/ ~ClockedEdge /\ EdgesToCommit' = EdgesToCommit]_vars
    BY ProgressStep
  <1> QED
    BY <1>1, Invariant, PTL DEF Spec, CommitsInTime, ClockedEdge

\* The machine is never without an edge it can take: the clock's when the bus is
\* idle, the RAM's answer when it is not.
EdgePossible ==
  IF Oreq.valid THEN ENABLED <<AnswerEdge>>_vars ELSE ENABLED <<IdleEdge>>_vars

AtMost(n) == EdgesToCommit <= n

LEMMA AtMostStep ==
  ASSUME IInv, [Next]_vars, ~<<ResetEdge>>_vars, NEW n \in 2 .. 9, AtMost(n)
  PROVE  CommitValid' \/ AtMost(n)'
  <1>1. EdgesToCommit \in Int /\ EdgesToCommit' \in Int
    BY DEF EdgesToCommit, StagesToCommit
  <1>2. CASE UNCHANGED vars
    BY <1>2, StutterProgress DEF AtMost
  <1>3. CASE ~UNCHANGED vars
    <2>1. Next /\ ~ResetEdge
      BY <1>3
    <2>2. \/ CommitValid'
          \/ EdgesToCommit' < EdgesToCommit
          \/ EdgesToCommit' = EdgesToCommit
      BY <2>1, ProgressStep
    <2> QED BY <1>1, <2>2 DEF AtMost
  <1> QED BY <1>2, <1>3

LEMMA AtMostClocked ==
  ASSUME IInv, [Next]_vars, ~<<ResetEdge>>_vars, <<IdleEdge>>_vars \/ <<AnswerEdge>>_vars,
         NEW n \in 2 .. 9, AtMost(n)
  PROVE  CommitValid' \/ AtMost(n - 1)'
  <1>1. EdgesToCommit \in Int /\ EdgesToCommit' \in Int
    BY DEF EdgesToCommit, StagesToCommit
  <1>2. Next /\ ~ResetEdge /\ ClockedEdge
    BY DEF ClockedEdge
  <1>3. CommitValid' \/ EdgesToCommit' < EdgesToCommit
    BY <1>2, ProgressStep
  <1> QED BY <1>1, <1>3 DEF AtMost

LEMMA ValidIsBusy == IInv => (Oreq.valid <=> busy)
  BY GrantFacts DEF IInv

\* The bus stays idle until the clock ticks, and taken until the RAM answers.
LEMMA BusWaits ==
  ASSUME IInv, IInv', [Next]_vars, ~<<ResetEdge>>_vars
  PROVE  /\ ~Oreq.valid => <<IdleEdge>>_vars \/ ~Oreq.valid'
         /\ Oreq.valid => <<AnswerEdge>>_vars \/ Oreq.valid'
  <1>1. (Oreq.valid <=> busy) /\ (Oreq'.valid <=> busy')
    <2>1. (IInv => (Oreq.valid <=> busy))'
      BY ValidIsBusy, PTL
    <2> QED BY <2>1, ValidIsBusy
  <1>2. CASE UNCHANGED vars
    BY <1>1, <1>2 DEF vars
  <1>3. CASE ~UNCHANGED vars
    <2>1. Oreq.valid => AnswerEdge \/ WaitEdge
      BY <1>3 DEF Next, IdleEdge
    <2>2. ~Oreq.valid => IdleEdge
      BY <1>3 DEF Next, WaitEdge, AnswerEdge
    <2>3. WaitEdge /\ busy => busy'
      BY DEF WaitEdge, Edge, ArbClock, NoResp, arbVars
    <2> QED BY <1>1, <1>3, <2>1, <2>2, <2>3
  <1> QED BY <1>2, <1>3

\* The machine commits for ever unless it is reset again and again, given a clock
\* that ticks and a RAM that answers.  ENABLED is beyond the provers: that an edge
\* is always possible is a hypothesis here.
THEOREM CommitsForEver == FairSpec /\ []EdgePossible => KeepsCommitting
  <1> DEFINE Quiet == IInv /\ IInv' /\ [Next]_vars /\ ~<<ResetEdge>>_vars
             Tick  == <<IdleEdge>>_vars \/ <<AnswerEdge>>_vars
  <1>1. IInv => AtMost(9) /\ ~AtMost(1)
    BY StagesFacts DEF AtMost
  <1>2. /\ Quiet /\ AtMost(2) => CommitValid' \/ AtMost(2)'
        /\ Quiet /\ AtMost(3) => CommitValid' \/ AtMost(3)'
        /\ Quiet /\ AtMost(4) => CommitValid' \/ AtMost(4)'
        /\ Quiet /\ AtMost(5) => CommitValid' \/ AtMost(5)'
        /\ Quiet /\ AtMost(6) => CommitValid' \/ AtMost(6)'
        /\ Quiet /\ AtMost(7) => CommitValid' \/ AtMost(7)'
        /\ Quiet /\ AtMost(8) => CommitValid' \/ AtMost(8)'
    BY AtMostStep
  <1>3. /\ Quiet /\ Tick /\ AtMost(2) => CommitValid' \/ AtMost(1)'
        /\ Quiet /\ Tick /\ AtMost(3) => CommitValid' \/ AtMost(2)'
        /\ Quiet /\ Tick /\ AtMost(4) => CommitValid' \/ AtMost(3)'
        /\ Quiet /\ Tick /\ AtMost(5) => CommitValid' \/ AtMost(4)'
        /\ Quiet /\ Tick /\ AtMost(6) => CommitValid' \/ AtMost(5)'
        /\ Quiet /\ Tick /\ AtMost(7) => CommitValid' \/ AtMost(6)'
        /\ Quiet /\ Tick /\ AtMost(8) => CommitValid' \/ AtMost(7)'
        /\ Quiet /\ Tick /\ AtMost(9) => CommitValid' \/ AtMost(8)'
    <2>1. ASSUME NEW n \in 2 .. 9, NEW m \in 1 .. 8, m = n - 1, Quiet, Tick, AtMost(n)
          PROVE  CommitValid' \/ AtMost(m)'
      BY <2>1, AtMostClocked
    <2> QED BY <2>1
  <1>4. Quiet => /\ ~Oreq.valid => <<IdleEdge>>_vars \/ ~Oreq.valid'
                 /\ Oreq.valid => <<AnswerEdge>>_vars \/ Oreq.valid'
    BY BusWaits
  <1>5. EdgePossible => /\ Oreq.valid => ENABLED <<AnswerEdge>>_vars
                        /\ ~Oreq.valid => ENABLED <<IdleEdge>>_vars
    BY DEF EdgePossible
  <1> HIDE DEF Quiet, Tick
  <1> QED
    BY <1>1, <1>2, <1>3, <1>4, <1>5, Invariant, PTL
    DEF FairSpec, Spec, KeepsCommitting, Quiet, Tick
=============================================================================
