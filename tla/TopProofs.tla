------------------------------ MODULE TopProofs ------------------------------
(***************************************************************************)
(* Proofs about the two machines built on VTop; what VTopProofs proves of  *)
(* VTop holds of both.                                                     *)
(*                                                                         *)
(* SocTop: behind the arbiter, bram_wrapper is one of the RAMs VTop        *)
(* allows, for every delay, program and datapath.                          *)
(*                                                                         *)
(* Difftest: co-simulation never reports a difference.  For every program, *)
(* datapath, RAM latency and map of devices the assumptions admit, the     *)
(* reference that the commit ports step stays with the pipeline.           *)
(***************************************************************************)
EXTENDS SocTop, Difftest, VTopProofs

-----------------------------------------------------------------------------
(* The board *)

\* What the wrapper's registers hold.
BramTypeOK ==
  /\ real_valid \in BOOLEAN
  /\ ready_read \in BOOLEAN
  /\ rdata \in [data : BusData, text : TextPair]

SocInv == IInv /\ BramTypeOK /\ AnswerIsCurrent

\* The bus as the wrapper sees it.
LEMMA BusFacts ==
  ASSUME IInv
  PROVE  /\ ~busy => Oreq = NoReq
         /\ busy => Oreq = saved_req /\ Oreq.valid /\ index \in {0, 1}
         /\ busy /\ index = 0 => MemAccess
         /\ busy /\ index = 1 => Ireq.valid /\ Oreq.strobe = {}
         /\ Oreq.valid <=> busy
         /\ Oreq.is_write <=> Oreq.strobe # {}
         /\ Content \in [data : BusData, text : TextPair]
<1> USE DEF IInv
<1>1. /\ Ireqs[0] = DBusToCBus(Dreq)
      /\ Ireqs[1] = IBusToCBus(Ireq)
  BY MastersAssumption DEF Ireqs, Master
<1>2. /\ Ireqs[0].is_write <=> Ireqs[0].strobe # {}
      /\ Ireqs[1].strobe = {} /\ ~Ireqs[1].is_write
  <2>1. DBusToCBus(Dreq).is_write = (DBusToCBus(Dreq).strobe # {})
    BY DEF DBusToCBus
  <2>2. IBusToCBus(Ireq).strobe = {} /\ IBusToCBus(Ireq).is_write = FALSE
    BY DEF DBusToCBus, IBusToCBus, IReqToDReq
  <2> QED
    BY <1>1, <2>1, <2>2
<1>3. Oreq = IF busy THEN Ireqs[index] ELSE NoReq
  BY DEF Oreq, OutReq
<1>4. NoReq.strobe = {} /\ ~NoReq.is_write /\ ~NoReq.valid
  BY DEF NoReq
<1>5. busy => index \in {0, 1} /\ saved_req = Ireqs[index] /\ Ireqs[index].valid
  BY DEF BusInv
<1>6. busy /\ index = 1 => Oreq.strobe = {}
  BY <1>2, <1>3
<1>7. Oreq.is_write <=> Oreq.strobe # {}
  <2>1. CASE busy /\ index = 0
    BY <1>2, <1>3, <2>1
  <2>2. CASE busy /\ index = 1
    BY <1>2, <1>3, <2>2
  <2>3. CASE ~busy
    BY <1>3, <1>4, <2>3
  <2> QED
    BY <1>5, <2>1, <2>2, <2>3
<1>8. Content \in [data : BusData, text : TextPair]
  <2>1. LineOf(Oreq.addr) \in Line
    BY BusWireTypes, AddressFacts DEF CBusReq
  <2> QED
    BY <2>1, TextAssumption DEF Content, TypeOK
<1> QED
  BY <1>3, <1>4, <1>5, <1>6, <1>7, <1>8, GrantFacts

\* The core looks at the data of a response only when it is one, and at no more
\* of the data port's response.
LEMMA SameClock ==
  ASSUME NEW i, NEW j, NEW d, NEW e,
         i.data_ok = j.data_ok, d.data_ok = e.data_ok,
         i.data = j.data \/ Stall(i),
         d.data = e.data \/ ~Advance(i, d),
         CoreClock(i, d)
  PROVE  CoreClock(j, e)
<1>1. FetchWait(i) = FetchWait(j) /\ MemWait(d) = MemWait(e)
  BY DEF FetchWait, MemWait
<1>2. Stall(i) = Stall(j) /\ Advance(i, d) = Advance(j, e)
  BY <1>1 DEF Stall, Advance
<1>3. /\ RedirectFire(i, d) = RedirectFire(j, e)
      /\ InsertBubble(i, d) = InsertBubble(j, e)
  BY <1>2 DEF RedirectFire, InsertBubble
<1>4. Advance(i, d) => LoadData(d) = LoadData(e)
  BY DEF LoadData
<1>5. PcStep(j, e)
  BY <1>2, <1>3 DEF CoreClock, PcStep
<1>6. IfIdStep(j, e)
  BY <1>2, <1>3 DEF CoreClock, IfIdStep
<1>7. IdExStep(j, e)
  BY <1>2, <1>3 DEF CoreClock, IdExStep
<1>8. ExMemStep(j, e)
  BY <1>2 DEF CoreClock, ExMemStep
<1>9. MemWbStep(j, e)
  BY <1>2, <1>4 DEF CoreClock, MemWbStep
<1>10. WbFiredStep(j, e)
  BY <1>2 DEF CoreClock, WbFiredStep
<1> QED
  BY <1>5, <1>6, <1>7, <1>8, <1>9, <1>10 DEF CoreClock

LEMMA RespWires ==
  ASSUME NEW r
  PROVE  /\ ~(busy /\ index = 1) => Iresp(r) = Iresp(NoResp)
         /\ ~(busy /\ index = 0) => Dresp(r) = Dresp(NoResp)
         /\ Iresp(NoResp).data_ok = FALSE /\ Dresp(NoResp).data_ok = FALSE
         /\ busy /\ index = 1 => /\ Iresp(r).data_ok = (r.ready /\ r.last)
                                 /\ Iresp(r).data = r.text[Half(Ireq.addr)]
         /\ busy /\ index = 0 => /\ Dresp(r).data_ok = (r.ready /\ r.last)
                                 /\ Dresp(r).data = r.data
<1>1. \A q : /\ InResps(q)[0] = IF busy /\ index = 0 THEN q ELSE NoResp
             /\ InResps(q)[1] = IF busy /\ index = 1 THEN q ELSE NoResp
  BY MastersAssumption DEF InResps, Master
<1>2. InResps(NoResp)[0] = NoResp /\ InResps(NoResp)[1] = NoResp
  BY <1>1
<1>3. NoResp.ready = FALSE
  BY DEF NoResp
<1> QED
  BY <1>1, <1>2, <1>3 DEF Iresp, Dresp, CBusToIResp, CBusToDResp, DRespToIResp

-----------------------------------------------------------------------------
(* A clock edge: nothing on the bus, the RAM still busy, its answer.        *)

\* Whatever the wrapper drives between two requests reaches nobody.
LEMMA IdleTick ==
  ASSUME SocInv, Tick, ~busy
  PROVE  IdleEdge
<1> USE DEF SocInv
<1>1. ~Oreq.valid /\ Oreq.strobe = {}
  BY BusFacts DEF NoReq
<1>2. Iresp(Resp) = Iresp(NoResp) /\ Dresp(Resp) = Dresp(NoResp)
  BY RespWires
<1>3. CoreClock(Iresp(NoResp), Dresp(NoResp))
  BY <1>2 DEF Tick
<1>4. ArbClock(Ireqs, NoResp)
  BY DEF Tick, ArbClock
<1>5. dmem' = dmem
  BY <1>1 DEF Tick, BramWrites
<1> QED
  BY <1>1, <1>3, <1>4, <1>5 DEF IdleEdge, Edge, NoResp, Tick

LEMMA WaitTick ==
  ASSUME SocInv, Tick, busy, ~Resp.last
  PROVE  WaitEdge
<1> USE DEF SocInv
<1>1. Oreq.valid
  BY BusFacts
<1>2. Resp.ready = Resp.last
  BY DEF Resp, BramResp
<1>3. /\ Iresp(Resp).data_ok = FALSE /\ Dresp(Resp).data_ok = FALSE
  <2>1. index \in {0, 1}
    BY BusFacts
  <2>2. ASSUME index = 0 PROVE Iresp(Resp).data_ok = FALSE /\ Dresp(Resp).data_ok = FALSE
    BY <2>2, RespWires, <1>2
  <2>3. ASSUME index = 1 PROVE Iresp(Resp).data_ok = FALSE /\ Dresp(Resp).data_ok = FALSE
    BY <2>3, RespWires, <1>2
  <2> QED
    BY <2>1, <2>2, <2>3
<1>4. Stall(Iresp(Resp)) /\ ~Advance(Iresp(Resp), Dresp(Resp))
  BY <1>3, BusFacts DEF Stall, FetchWait, Advance, MemWait
<1>5. CoreClock(Iresp(NoResp), Dresp(NoResp))
  <2>1. /\ Iresp(Resp).data_ok = Iresp(NoResp).data_ok
        /\ Dresp(Resp).data_ok = Dresp(NoResp).data_ok
    BY <1>3, RespWires
  <2>2. CoreClock(Iresp(Resp), Dresp(Resp))
    BY DEF Tick
  <2> QED
    BY <1>4, <2>1, <2>2, SameClock
<1>6. ArbClock(Ireqs, NoResp)
  BY DEF Tick, ArbClock, NoResp
<1>7. dmem' = dmem
  BY DEF Tick, BramWrites, Resp, BramResp
<1> QED
  BY <1>1, <1>5, <1>6, <1>7 DEF WaitEdge, Edge, NoResp, Tick

LEMMA AnswerTick ==
  ASSUME SocInv, Tick, busy, Resp.last
  PROVE  AnswerEdge
<1> USE DEF SocInv
<1> DEFINE text == TextLine(program, LineOf(Oreq.addr))
<1>1. Oreq.valid /\ (Oreq.is_write <=> Oreq.strobe # {}) /\ index \in {0, 1}
  BY BusFacts
<1>2. Resp.ready = TRUE /\ Resp.last = TRUE
  BY DEF Resp, BramResp, BramTypeOK
<1>3. ~Oreq.is_write => Resp.data = dmem[LineOf(Oreq.addr)] /\ Resp.text = text
  <2>1. ASSUME ~Oreq.is_write PROVE ready_read /\ rdata = Content
    BY <1>1, <2>1 DEF Resp, BramResp, AnswerIsCurrent
  <2> QED
    BY <2>1 DEF Resp, BramResp, Content
<1>4. Oreq.is_write => Resp.data \in WriteAnswers
  BY OutputAssumption DEF Resp, BramResp, BramTypeOK
<1>5. PICK answer \in RamResps :
        /\ answer.ready = TRUE /\ answer.last = TRUE
        /\ answer.data = Resp.data /\ answer.text = text
  <2>1. [ready |-> TRUE, last |-> TRUE, data |-> Resp.data, text |-> text] \in RamResps
    BY <1>3, <1>4 DEF RamResps
  <2> QED
    BY <2>1
<1>6. CoreClock(Iresp(answer), Dresp(answer))
  <2>1. CoreClock(Iresp(Resp), Dresp(Resp))
    BY DEF Tick
  <2>2. CASE index = 0
    <3> index # 1
      BY <2>2
    <3>1. Iresp(Resp) = Iresp(NoResp) /\ Iresp(answer) = Iresp(NoResp)
      BY RespWires, Zenon
    <3>2. Dresp(Resp).data_ok = TRUE /\ Dresp(Resp).data = Resp.data
      BY <2>2, <1>2, RespWires, Zenon
    <3>3. Dresp(answer).data_ok = TRUE /\ Dresp(answer).data = Resp.data
      BY <2>2, <1>5, RespWires, Zenon
    <3> QED
      BY <2>1, <3>1, <3>2, <3>3, SameClock, Zenon
  <2>3. CASE index = 1
    <3> index # 0
      BY <2>3
    <3>1. Dresp(Resp) = Dresp(NoResp) /\ Dresp(answer) = Dresp(NoResp)
      BY RespWires, Zenon
    <3>2. ~Oreq.is_write
      BY <1>1, <2>3, BusFacts
    <3>3. Iresp(Resp).data_ok = TRUE /\ Iresp(Resp).data = Resp.text[Half(Ireq.addr)]
      BY <2>3, <1>2, RespWires, Zenon
    <3>4. Iresp(answer).data_ok = TRUE /\ Iresp(answer).data = text[Half(Ireq.addr)]
      BY <2>3, <1>5, RespWires, Zenon
    <3> QED
      BY <2>1, <1>3, <3>1, <3>2, <3>3, <3>4, SameClock, Zenon
  <2> QED
    BY <1>1, <2>2, <2>3
<1>7. ArbClock(Ireqs, answer)
  BY <1>2, <1>5 DEF Tick, ArbClock
<1>8. dmem' = Written
  BY <1>1, <1>2 DEF Tick, BramWrites, Written, Resp, BramResp
<1>9. Edge(answer)
  BY <1>5, <1>6, <1>7, <1>8 DEF Edge, Tick
<1> QED
  BY <1>1, <1>9 DEF AnswerEdge

LEMMA SocResets ==
  ASSUME SocInv, SocReset
  PROVE  ResetEdge
<1>1. Oreq.strobe # {} => Oreq.valid
  BY BusFacts DEF SocInv, NoReq
<1> QED
  BY <1>1 DEF SocReset, ResetEdge, BramWrites

LEMMA Refines == SocInv /\ [SocNext]_socVars => [Next]_vars
<1> SUFFICES ASSUME SocInv, [SocNext]_socVars PROVE Next \/ UNCHANGED vars
  OBVIOUS
<1>1. ASSUME Tick PROVE Next
  BY <1>1, IdleTick, WaitTick, AnswerTick DEF Next
<1>2. ASSUME SocReset PROVE Next
  BY <1>2, SocResets DEF Next
<1>3. ASSUME UNCHANGED socVars PROVE UNCHANGED vars
  BY <1>3 DEF socVars
<1> QED
  BY <1>1, <1>2, <1>3 DEF SocNext

-----------------------------------------------------------------------------
(* The invariant of the wrapper.                                            *)

LEMMA SocTypes ==
  ASSUME SocInv, [SocNext]_socVars
  PROVE  BramTypeOK'
<1>1. Content \in [data : BusData, text : TextPair]
  BY BusFacts DEF SocInv
<1>2. CASE Tick
  <2>1. BramClock(Oreq, Content)
    BY <1>2 DEF Tick
  <2> QED
    BY <1>1, <2>1 DEF SocInv, BramTypeOK, BramClock
<1>3. CASE SocReset
  <2>1. BramReset(Oreq, Content)
    BY <1>3 DEF SocReset
  <2> QED
    BY <1>1, <2>1 DEF SocInv, BramTypeOK, BramReset
<1>4. CASE UNCHANGED socVars
  BY <1>4 DEF socVars, bramVars, SocInv, BramTypeOK
<1> QED
  BY <1>2, <1>3, <1>4 DEF SocNext

LEMMA TickAnswers ==
  ASSUME SocInv, Tick, IInv'
  PROVE  AnswerIsCurrent'
<1> USE DEF SocInv
<1>1. BramClock(Oreq, Content)
  BY DEF Tick
<1>2. CASE ~busy
  <2>1. ~real_valid /\ ~Oreq.valid
    BY <1>2, BusFacts DEF AnswerIsCurrent
  <2>2. ready_read' = FALSE /\ real_valid' = FALSE
    BY <1>1, <2>1 DEF BramClock, BramTypeOK
  <2> QED
    BY <2>2 DEF AnswerIsCurrent
<1>3. CASE busy /\ Resp.last
  <2>1. busy' = FALSE
    BY <1>3 DEF Tick, ArbClock
  <2>2. real_valid' = FALSE
    BY <1>1, <1>3 DEF BramClock, Resp
  <2> QED
    BY <2>1, <2>2 DEF AnswerIsCurrent
<1>4. CASE busy /\ ~Resp.last
  <2>1. busy' /\ saved_req' = saved_req
    BY <1>4 DEF Tick, ArbClock, arbVars
  <2>2. Oreq = saved_req
    BY <1>4, BusFacts
  <2>3. Oreq' = saved_req'
    BY <2>1 DEF BusInv, IInv, Oreq, OutReq
  <2>4. dmem' = dmem /\ program' = program
    BY <1>4 DEF Tick, BramWrites, Resp, BramResp
  <2>5. Content' = Content
    BY <2>1, <2>2, <2>3, <2>4 DEF Content
  <2>6. ready_read' => rdata' = Content
    BY <1>1 DEF BramClock
  <2> QED
    BY <2>1, <2>5, <2>6 DEF AnswerIsCurrent
<1> QED
  BY <1>2, <1>3, <1>4

LEMMA SocInvStep == SocInv /\ [SocNext]_socVars => SocInv'
<1> SUFFICES ASSUME SocInv, [SocNext]_socVars PROVE SocInv'
  OBVIOUS
<1>1. IInv'
  BY Refines, InvariantStep DEF SocInv
<1>2. AnswerIsCurrent'
  <2>1. CASE SocReset
    BY <2>1 DEF SocReset, BramReset, ArbReset, AnswerIsCurrent
  <2>2. CASE UNCHANGED socVars
    <3>1. UNCHANGED <<busy, real_valid, ready_read, rdata, dmem, program, saved_req>>
      BY <2>2 DEF socVars, vars, bramVars
    <3>2. busy => Oreq' = Oreq
      BY <1>1, <3>1, BusFacts DEF SocInv, IInv, BusInv, Oreq, OutReq
    <3>3. busy => Content' = Content
      BY <3>1, <3>2 DEF Content
    <3> QED
      BY <3>1, <3>3 DEF SocInv, AnswerIsCurrent
  <2> QED
    BY <1>1, <2>1, <2>2, TickAnswers DEF SocNext
<1> QED
  BY <1>1, <1>2, SocTypes DEF SocInv

LEMMA SocInitInv == SocInit => Init /\ SocInv
<1> SUFFICES ASSUME SocInit PROVE Init /\ SocInv
  OBVIOUS
<1>1. Init
  BY DEF SocInit
<1>2. IInv
  <2>1. TypeOK
    BY <1>1, InitTypes
  <2> QED
    BY <1>1, <2>1, EmptyMachine DEF Init, CoreInit, ArbInit, IInv
<1>3. BramTypeOK
  BY ZeroTypes DEF SocInit, BramInit, BramTypeOK, ZeroOut
<1>4. AnswerIsCurrent
  BY DEF SocInit, BramInit, AnswerIsCurrent
<1> QED
  BY <1>1, <1>2, <1>3, <1>4 DEF SocInv

-----------------------------------------------------------------------------
\* The delayed answer of the RAM is never taken for another request's: with the
\* arbiter in front of it, for every delay.
THEOREM AnswersAreCurrent == SocSpec => []AnswerIsCurrent
<1>1. SocInv => AnswerIsCurrent
  BY DEF SocInv
<1> QED
  BY <1>1, SocInitInv, SocInvStep, PTL DEF SocSpec

\* The board with vsrc/mycpu_top.sv implements VTop: bram_wrapper is one of the
\* RAMs it allows.
THEOREM BoardIsVTop == SocSpec => ImplementsVTop
<1> QED
  BY SocInitInv, SocInvStep, Refines, PTL DEF SocSpec, ImplementsVTop, Spec

\* So the board executes programs one instruction at a time, as Isa does.
THEOREM BoardImplementsIsa == SocSpec => ImplementsIsa
  BY BoardIsVTop, Refinement, PTL DEF ImplementsVTop

-----------------------------------------------------------------------------
(* The board's RAM is slow by a known number of cycles.                     *)

\* The cycles until the request on the bus is answered, at most.
TicksToAnswer ==
  IF Resp.last THEN 0
  ELSE IF real_valid THEN 1
  ELSE BRAM_DELAY + 2 - counter

\* Every cycle without a reset commits, brings the next commit an edge nearer, or
\* the answer a cycle nearer.
TicksInTime ==
  [][~SocReset =>
       \/ CommitValid'
       \/ EdgesToCommit' < EdgesToCommit
       \/ EdgesToCommit' = EdgesToCommit /\ TicksToAnswer' < TicksToAnswer]_socVars

\* The counter has come to its end before the RAM is enabled.
CounterInv ==
  /\ counter \in 0 .. BRAM_DELAY
  /\ real_valid => counter = BRAM_DELAY

LEMMA CounterStep ==
  ASSUME CounterInv, [SocNext]_socVars
  PROVE  CounterInv'
<1>1. CASE Tick
  <2>1. BramClock(Oreq, Content)
    BY <1>1 DEF Tick
  <2>2. counter' \in {0, counter} \/ (counter # BRAM_DELAY /\ counter' = counter + 1)
    BY <2>1 DEF BramClock
  <2>3. real_valid' => counter = BRAM_DELAY /\ Oreq.valid /\ ~BramResp(Oreq).last
    BY <2>1 DEF BramClock
  <2>4. real_valid' => counter' = counter
    BY <2>1, <2>3 DEF BramClock
  <2> QED
    BY <2>2, <2>3, <2>4, DelayAssumption DEF CounterInv
<1>2. CASE SocReset
  <2>1. counter' = 0 /\ real_valid' = FALSE
    BY <1>2 DEF SocReset, BramReset
  <2> QED
    BY <2>1, DelayAssumption DEF CounterInv
<1>3. CASE UNCHANGED socVars
  BY <1>3 DEF socVars, bramVars, CounterInv
<1> QED
  BY <1>1, <1>2, <1>3 DEF SocNext

\* A cycle in which the request waits brings the answer nearer.
LEMMA WaitIsShort ==
  ASSUME SocInv, SocInv', CounterInv, CounterInv', Tick, busy, ~Resp.last
  PROVE  TicksToAnswer' < TicksToAnswer
<1>1. BramClock(Oreq, Content)
  BY DEF Tick
<1>2. Oreq.valid
  BY BusFacts DEF SocInv
<1>3. CASE real_valid
  <2>1. ready_read' = real_valid
    BY <1>1 DEF BramClock
  <2>2. Oreq' = Oreq
    <3>1. busy' /\ saved_req' = saved_req
      BY DEF Tick, ArbClock, arbVars
    <3>2. Oreq = saved_req
      BY BusFacts DEF SocInv
    <3>3. Oreq' = saved_req'
      BY <3>1 DEF SocInv, BusInv, IInv, Oreq, OutReq
    <3> QED
      BY <3>1, <3>2, <3>3
  <2>3. Oreq.strobe = {}
    BY <1>3 DEF Resp, BramResp
  <2>4. Resp'.last
    BY <1>3, <2>1, <2>2, <2>3 DEF Resp, BramResp
  <2> QED
    BY <1>3, <2>4 DEF TicksToAnswer
<1>4. CASE ~real_valid /\ counter = BRAM_DELAY
  <2>1. real_valid'
    BY <1>1, <1>2, <1>4 DEF BramClock, Resp
  <2>2. TicksToAnswer' \in {0, 1} /\ TicksToAnswer = 2
    BY <1>4, <2>1, DelayAssumption DEF TicksToAnswer
  <2> QED
    BY <2>2
<1>5. CASE ~real_valid /\ counter # BRAM_DELAY
  <2>1. counter' = counter + 1 /\ counter \in 0 .. BRAM_DELAY - 1
    BY <1>1, <1>2, <1>5, DelayAssumption DEF BramClock, Resp, CounterInv
  <2>2. TicksToAnswer = BRAM_DELAY + 2 - counter
    BY <1>5 DEF TicksToAnswer
  <2>3. TicksToAnswer' \in {0, 1, BRAM_DELAY + 2 - (counter + 1)}
    BY <2>1 DEF TicksToAnswer
  <2> QED
    BY <2>1, <2>2, <2>3, DelayAssumption
<1> QED
  BY <1>3, <1>4, <1>5

LEMMA TickProgress ==
  ASSUME SocInv, SocInv', CounterInv, CounterInv', SocNext, ~SocReset
  PROVE  \/ CommitValid'
         \/ EdgesToCommit' < EdgesToCommit
         \/ EdgesToCommit' = EdgesToCommit /\ TicksToAnswer' < TicksToAnswer
<1>1. Tick /\ IInv
  BY DEF SocNext, SocInv
<1>2. CASE busy /\ ~Resp.last
  <2>1. WaitEdge /\ TicksToAnswer' < TicksToAnswer
    BY <1>1, <1>2, WaitTick, WaitIsShort
  <2> QED
    BY <1>1, <2>1, WaitProgress
<1>3. CASE ~(busy /\ ~Resp.last)
  <2>1. IdleEdge \/ AnswerEdge
    BY <1>1, <1>3, IdleTick, AnswerTick
  <2> QED
    BY <1>1, <2>1, ClockedProgress DEF ClockedEdge
<1> QED
  BY <1>2, <1>3

\* The board commits an instruction in every 8 * (BRAM_DELAY + 3) cycles at the
\* latest, for every delay, program and datapath: each of at most eight edges is a
\* wait of BRAM_DELAY + 2 cycles and one more.
THEOREM BoardCommitsInTime ==
  SocSpec => TicksInTime /\ [](EdgesToCommit \in 2 .. 9 /\ TicksToAnswer \in 0 .. BRAM_DELAY + 2)
<1>1. SocInit => CounterInv
  BY DelayAssumption DEF SocInit, BramInit, CounterInv
<1>2. CounterInv => EdgesToCommit \in 2 .. 9 /\ TicksToAnswer \in 0 .. BRAM_DELAY + 2
  BY StagesFacts, DelayAssumption DEF TicksToAnswer, CounterInv
<1>3. SocInv /\ SocInv' /\ CounterInv /\ CounterInv' /\ [SocNext]_socVars =>
        [~SocReset =>
           \/ CommitValid'
           \/ EdgesToCommit' < EdgesToCommit
           \/ EdgesToCommit' = EdgesToCommit /\ TicksToAnswer' < TicksToAnswer]_socVars
  BY TickProgress
<1> QED
  BY <1>1, <1>2, <1>3, CounterStep, SocInitInv, SocInvStep, PTL DEF SocSpec, TicksInTime

-----------------------------------------------------------------------------
(* Co-simulation *)

\* What is true of VTop is true of it with the reference beside it.
LEMMA DifftestIsVTop == DSpec => Spec
  <1>1. DInit => Init
    BY DEF DInit
  <1>2. [DNext]_dvars => [Next]_vars
    BY DEF DNext, dvars, Next
  <1>. QED
    BY <1>1, <1>2, PTL DEF DSpec, Spec

LEMMA RefHelpers ==
  /\ \A a, b : Ref!Add(a, b) = Add(a, b)
  /\ \A a : /\ Ref!LineOf(a) = LineOf(a)
            /\ Ref!Half(a) = Half(a)
            /\ Ref!AddrLow(a) = AddrLow(a)
  /\ Ref!Lane = Lane
  BY DEF Ref!Add, Add, Ref!LineOf, LineOf, Ref!Half, Half, Ref!AddrLow, AddrLow,
         Ref!Lane, Lane

\* A reference that has reached the architectural state sees an instruction do
\* what the architecture says it does.
LEMMA RefIsArch ==
  ASSUME ref_pc' = ArchPc, ref_gpr' = GprDt, program' = program, NEW i
  PROVE  /\ Ref!Current' = Arch!Current
         /\ Ref!PcAfter(i)' = Arch!PcAfter(i)
         /\ Ref!Address(i)' = Arch!Address(i)
         /\ (i.op = "LOAD" =>
               ref_ram'[LineOf(Arch!Address(i))] = dmem[LineOf(Arch!Address(i))])
              => Ref!GprAfter(i)' = Arch!GprAfter(i)
  <1>1. Ref!Current' = Arch!Current
    BY RefHelpers, ArchHelpers
    DEF Ref!Current, Ref!InstrAt, Arch!Current, Arch!InstrAt
  <1>2. Ref!PcAfter(i)' = Arch!PcAfter(i) /\ Ref!Address(i)' = Arch!Address(i)
    BY RefHelpers, ArchHelpers
    DEF Ref!PcAfter, Arch!PcAfter, Ref!Address, Arch!Address
  <1>3. Ref!OpOf(i) = Arch!OpOf(i)
    BY DEF Ref!OpOf, Arch!OpOf, Ref!BaseOp, Arch!BaseOp, Ref!BaseOp32, Arch!BaseOp32
  <1>4. ASSUME i.op = "LOAD" =>
                 ref_ram'[LineOf(Arch!Address(i))] = dmem[LineOf(Arch!Address(i))]
        PROVE  Ref!Result(i)' = Arch!Result(i)
    BY <1>2, <1>3, <1>4, RefHelpers, ArchHelpers DEF Ref!Result, Arch!Result
  <1>5. Ref!HasResult(i) <=> Arch!HasResult(i)
    BY DEF Ref!HasResult, Arch!HasResult
  <1>. QED
    BY <1>1, <1>2, <1>4, <1>5
    DEF Ref!GprAfter, Arch!GprAfter, Ref!Written, Arch!Written

LEMMA AddressType ==
  ASSUME IInv, NEW i, i = mem.instr
  PROVE  Arch!Address(i) \in Word /\ LineOf(Arch!Address(i)) \in Line
  <1>1. i.rs1 \in Reg /\ i.imm \in Word /\ GprDt \in [Reg -> Word]
    BY GprView DEF IInv, TypeOK, CoreTypeOK, ExMem, Instr
  <1>. QED
    BY <1>1, WordFacts, AddressFacts, ArchHelpers DEF Arch!Address

\* A store leaves alone every doubleword but its own, and does the same to that
\* one in both memories.
LEMMA StoreLines ==
  ASSUME ref_gpr' = GprDt, ref_ram' \in [Line -> BusData],
         dmem \in [Line -> BusData], NEW i, NEW l \in Line
  PROVE  /\ l # LineOf(Arch!Address(i)) => Arch!RamAfter(i)[l] = dmem[l]
         /\ ref_ram'[l] = dmem[l] => Ref!RamAfter(i)'[l] = Arch!RamAfter(i)[l]
  <1>1. Ref!Address(i)' = Arch!Address(i)
    BY RefHelpers, ArchHelpers DEF Ref!Address, Arch!Address
  <1>2. CASE i.op # "STORE"
    BY <1>2 DEF Arch!RamAfter, Ref!RamAfter
  <1>3. CASE i.op = "STORE"
    <2>1. Arch!RamAfter(i) = Arch!Stored(i) /\ Ref!RamAfter(i)' = Ref!Stored(i)'
      BY <1>3 DEF Arch!RamAfter, Ref!RamAfter
    <2>2. CASE l # LineOf(Arch!Address(i))
      BY <1>1, <2>1, <2>2, RefHelpers, ArchHelpers DEF Arch!Stored, Ref!Stored
    <2>3. CASE l = LineOf(Arch!Address(i))
      BY <1>1, <2>1, <2>3, RefHelpers, ArchHelpers DEF Arch!Stored, Ref!Stored
    <2>. QED
      BY <2>2, <2>3
  <1>. QED
    BY <1>2, <1>3

-----------------------------------------------------------------------------
(* The invariant *)

LEMMA InStepInit ==
  ASSUME DInit
  PROVE  InStep
  <1>1. ~CommitValid /\ ~RegWriteFire
    BY DEF DInit, Init, CoreInit, EmptyMemWb, CommitValid, RegWriteFire
  <1>2. ArchPc = PCINIT
    BY DEF DInit, Init, CoreInit, ArchPc, EmptyIfId, EmptyIdEx, EmptyExMem
  <1>3. GprDt = [r \in Reg |-> 0]
    BY <1>1 DEF DInit, Init, CoreInit, GprDt
  <1>. QED
    BY <1>1, <1>2, <1>3, WordFacts, RamAssumption
    DEF DInit, Init, InStep, PcAfterCommit, GprAfterCommit, RamAfterCommit, SameRam

LEMMA RamAfterCommitType ==
  ASSUME TypeOK, InStep
  PROVE  RamAfterCommit \in [Line -> BusData]
  <1> DEFINE i == Ref!Current
  <1>1. CASE i.op # "STORE"
    BY <1>1 DEF RamAfterCommit, Ref!RamAfter, InStep
  <1>2. CASE i.op = "STORE" /\ CommitValid
    <2>1. i \in Instr
      BY <1>2 DEF InStep, TypeOK, CoreTypeOK, MemWb
    <2>2. i.rs2 \in Reg /\ i.rs1 \in Reg /\ i.imm \in Word
      BY <2>1 DEF Instr
    <2>3. ref_gpr[i.rs2] \in Word /\ ref_gpr[i.rs1] \in Word
      BY <2>2 DEF InStep
    <2>4. Ref!Address(i) \in Word
      BY <2>2, <2>3, WordFacts, RefHelpers DEF Ref!Address
    <2>5. AlignStore(ref_gpr[i.rs2], AddrLow(Ref!Address(i))) \in BusData
      BY <2>3, <2>4, AddressFacts, LaneAssumption
    <2>6. Ref!Stored(i) \in [Line -> BusData]
      BY <2>4, <2>5, AddressFacts, RefHelpers DEF Ref!Stored, InStep, BusData
    <2>. QED
      BY <1>2, <2>6 DEF RamAfterCommit, Ref!RamAfter, InStep
  <1>3. CASE ~CommitValid
    BY <1>3 DEF RamAfterCommit, InStep
  <1>. QED
    BY <1>1, <1>2, <1>3

\* A wait: what was pending is committed, and nothing else moves.
LEMMA InStepHold ==
  ASSUME IInv, InStep, NEW oresp, Given(oresp), Edge(oresp), RefStep,
         ~Advance(Iresp(oresp), Dresp(oresp))
  PROVE  /\ ~CommitValid'
         /\ PcAfterCommit' = ArchPc'
         /\ GprAfterCommit' = GprDt'
         /\ SameRam'
  <1>1. ~CommitValid'
    <2>1. wb' = wb /\ wb_fired' = (IF CommitValid THEN TRUE ELSE wb_fired)
      BY EdgeHolds
    <2>. QED
      BY <2>1 DEF CommitValid, IInv, TypeOK, CoreTypeOK
  <1>2. ArchPc' = ArchPc /\ GprDt' = GprDt /\ dmem' = dmem
    BY PcStepsToSuccessor, GprStep, RamStep
  <1>3. /\ ref_pc' = ArchPc /\ ref_gpr' = GprDt
        /\ ref_ram' = RamAfterCommit
    BY DEF RefStep, InStep
  <1>4. PcAfterCommit' = ref_pc' /\ GprAfterCommit' = ref_gpr'
        /\ RamAfterCommit' = ref_ram'
    BY <1>1 DEF PcAfterCommit, GprAfterCommit, RamAfterCommit
  <1>. QED
    BY <1>1, <1>2, <1>3, <1>4 DEF InStep, SameRam

\* MEM was empty: nothing is left to commit.
LEMMA InStepBubble ==
  ASSUME IInv, InStep, NEW oresp, Given(oresp), Edge(oresp), RefStep,
         Advance(Iresp(oresp), Dresp(oresp)), ~mem.valid
  PROVE  /\ ~CommitValid'
         /\ PcAfterCommit' = ArchPc'
         /\ GprAfterCommit' = GprDt'
         /\ SameRam'
  <1>1. ~CommitValid'
    BY EdgeAdvances DEF CommitValid
  <1>2. ArchPc' = ArchPc /\ GprDt' = GprDt /\ dmem' = dmem
    BY PcStepsToSuccessor, GprStep, RamStep DEF ArchPc, AfterMem, GprNext
  <1>3. /\ ref_pc' = ArchPc /\ ref_gpr' = GprDt
        /\ ref_ram' = RamAfterCommit
    BY DEF RefStep, InStep
  <1>4. PcAfterCommit' = ref_pc' /\ GprAfterCommit' = ref_gpr'
        /\ RamAfterCommit' = ref_ram'
    BY <1>1 DEF PcAfterCommit, GprAfterCommit, RamAfterCommit
  <1>. QED
    BY <1>1, <1>2, <1>3, <1>4 DEF InStep, SameRam

\* An instruction enters WB: the reference has reached it.
LEMMA InStepCommit ==
  ASSUME IInv, InStep, NEW oresp, Given(oresp), Edge(oresp), RefStep,
         Advance(Iresp(oresp), Dresp(oresp)), mem.valid
  PROVE  /\ wb'.pc = ref_pc' /\ wb'.instr = Ref!Current'
         /\ PcAfterCommit' = ArchPc'
         /\ GprAfterCommit' = GprDt'
         /\ SameRam'
  <1>0. PICK i, a : i = mem.instr /\ a = Arch!Address(i)
    OBVIOUS
  <1>1. /\ wb'.pc = mem.pc /\ wb'.instr = i /\ wb'.d = mem.d
        /\ wb'.alu_result = mem.alu_result
        /\ CommitValid'
    BY <1>0 DEF Edge, CoreClock, MemWbStep, WbFiredStep, CommitValid
  <1>2. ArchPc = mem.pc /\ Arch!Current = i /\ program' = program
    BY <1>0, MemIsCurrent DEF Edge
  <1>3. /\ ref_pc' = ArchPc /\ ref_gpr' = GprDt
        /\ ref_ram' = RamAfterCommit
    BY DEF RefStep, InStep
  <1>4. Ref!Current' = i /\ Ref!PcAfter(i)' = Arch!PcAfter(i)
    BY <1>2, <1>3, RefIsArch
  <1>5. /\ ArchPc' = Arch!PcAfter(i) /\ GprDt' = Arch!GprAfter(i)
        /\ dmem' = Arch!RamAfter(i)
    BY <1>0, PcStepsToSuccessor, GprStep, RamStep DEF IInv, ExecutedInv, GprNext
  <1>6. i.op \in {"LOAD", "STORE"} => mem.alu_result = a
    BY <1>0 DEF IInv, ExecutedInv
  <1>7. DifftestSkip' <=> i.op \in {"LOAD", "STORE"} /\ ~IsRam(a)
    BY <1>0, <1>1, <1>6, DecodeFacts DEF DifftestSkip, IInv, ControlsMatch
  <1>8. RamAfterCommit' = IF DifftestSkip' THEN ref_ram' ELSE Ref!RamAfter(i)'
    BY <1>1, <1>4 DEF RamAfterCommit, Ref!RamAfter, Ref!Stored, Ref!Address
  <1>9. PcAfterCommit' = ArchPc'
    <2>1. CASE DifftestSkip'
      BY <1>1, <1>2, <1>5, <1>7, <2>1, ArchHelpers DEF PcAfterCommit, Arch!PcAfter
    <2>2. CASE ~DifftestSkip'
      <3>1. PcAfterCommit' = Ref!PcAfter(i)'
        BY <1>1, <1>4, <2>2 DEF PcAfterCommit, Ref!PcAfter, Ref!Address
      <3>. QED
        BY <1>4, <1>5, <3>1
    <2>. QED
      BY <2>1, <2>2
  <1>10. a \in Word /\ LineOf(a) \in Line
    BY <1>0, AddressType
  <1>11. GprAfterCommit' = GprDt'
    <2>1. CASE DifftestSkip'
      BY <1>1, <2>1 DEF GprAfterCommit
    <2>2. CASE ~DifftestSkip'
      <3>1. GprAfterCommit' = Ref!GprAfter(i)'
        BY <1>1, <1>4, <2>2
        DEF GprAfterCommit, Ref!GprAfter, Ref!Written, Ref!Result, Ref!Address
      <3>2. i.op = "LOAD" => ref_ram'[LineOf(a)] = dmem[LineOf(a)]
        BY <1>3, <1>7, <1>10, <2>2 DEF InStep, SameRam
      <3>. QED
        BY <1>0, <1>2, <1>3, <1>5, <3>1, <3>2, RefIsArch
    <2>. QED
      BY <2>1, <2>2
  <1>12. SameRam'
    <2> SUFFICES ASSUME NEW b \in Word, IsRam(b)
                 PROVE  RamAfterCommit'[LineOf(b)] = dmem'[LineOf(b)]
      BY DEF SameRam
    <2>1. LineOf(b) \in Line /\ dmem \in [Line -> BusData]
          /\ ref_ram' \in [Line -> BusData]
      BY <1>3, RamAfterCommitType, AddressFacts DEF IInv, TypeOK
    <2>2. ref_ram'[LineOf(b)] = dmem[LineOf(b)]
      BY <1>3 DEF InStep, SameRam
    <2>3. CASE DifftestSkip'
      <3>1. LineOf(b) # LineOf(a)
        BY <1>7, <1>10, <2>3, RamBaseAssumption
      <3>. QED
        BY <1>3, <1>5, <1>8, <2>1, <2>2, <2>3, <3>1, <1>0, StoreLines
    <2>4. CASE ~DifftestSkip'
      BY <1>3, <1>5, <1>8, <2>1, <2>2, <2>4, <1>0, StoreLines
    <2>. QED
      BY <2>3, <2>4
  <1>. QED
    BY <1>1, <1>2, <1>3, <1>4, <1>9, <1>11, <1>12

LEMMA InStepStep ==
  ASSUME IInv, TypeOK', InStep, DNext
  PROVE  InStep'
  <1>1. PICK oresp : Given(oresp) /\ Edge(oresp)
    BY DEF DNext, IdleEdge, WaitEdge, AnswerEdge, Given
  <1>2. RefStep
    BY DEF DNext
  <1>3. ref_gpr' \in [Reg -> Word] /\ ref_ram' \in [Line -> BusData]
    BY <1>2, GprView, RamAfterCommitType DEF RefStep, InStep, IInv
  <1>4. CASE ~Advance(Iresp(oresp), Dresp(oresp))
    BY <1>1, <1>2, <1>3, <1>4, InStepHold DEF InStep
  <1>5. CASE Advance(Iresp(oresp), Dresp(oresp)) /\ ~mem.valid
    BY <1>1, <1>2, <1>3, <1>5, InStepBubble DEF InStep
  <1>6. CASE Advance(Iresp(oresp), Dresp(oresp)) /\ mem.valid
    BY <1>1, <1>2, <1>3, <1>6, InStepCommit DEF InStep
  <1>. QED
    BY <1>4, <1>5, <1>6

LEMMA InStepStutter ==
  ASSUME InStep, UNCHANGED dvars
  PROVE  InStep'
  <1>1. UNCHANGED <<pc, id, ex, mem, wb, wb_fired, regs, program, dmem>>
        /\ UNCHANGED <<ref_pc, ref_gpr, ref_ram>>
    BY DEF dvars, vars, refVars
  <1>2. /\ CommitValid' = CommitValid /\ DifftestSkip' = DifftestSkip
        /\ ArchPc' = ArchPc /\ Ref!Current' = Ref!Current
    BY <1>1 DEF CommitValid, DifftestSkip, ArchPc, Ref!Current, Ref!InstrAt
  <1>3. GprDt' = GprDt
    BY <1>1, <1>2 DEF GprDt, RegWriteFire, WbData
  <1>4. PcAfterCommit' = PcAfterCommit
    BY <1>1, <1>2
    DEF PcAfterCommit, Ref!PcAfter, Ref!Address, Ref!Current, Ref!InstrAt
  <1>5. GprAfterCommit' = GprAfterCommit
    BY <1>1, <1>2, <1>3
    DEF GprAfterCommit, Ref!GprAfter, Ref!Written, Ref!Result, Ref!Address,
        Ref!Current, Ref!InstrAt
  <1>6. RamAfterCommit' = RamAfterCommit
    BY <1>1, <1>2
    DEF RamAfterCommit, Ref!RamAfter, Ref!Stored, Ref!Address, Ref!Current,
        Ref!InstrAt
  <1>. QED
    BY <1>1, <1>2, <1>3, <1>4, <1>5, <1>6 DEF InStep, SameRam

\* The reference, once it has made the commit pending in WB, is where the
\* pipeline says the architecture is.
THEOREM ReferenceInStep == DSpec => []InStep
  <1>1. DInit /\ TypeOK => InStep
    BY InStepInit
  <1>2. IInv /\ TypeOK' /\ InStep /\ [DNext]_dvars => InStep'
    BY InStepStep, InStepStutter
  <1>. QED
    BY <1>1, <1>2, DifftestIsVTop, TypeCorrect, Invariant, PTL DEF DSpec

-----------------------------------------------------------------------------
(* What the framework checks *)

\* Every commit is of the instruction the reference has reached, with the
\* registers the reference computes.
THEOREM CommitsInLockStep == DSpec => []LockStep
  <1>1. InStep => LockStep
    BY DEF InStep, LockStep, GprAfterCommit
  <1>. QED
    BY <1>1, ReferenceInStep, PTL

\* The memory of the reference is the machine's outside the devices.
THEOREM RamInStep == DSpec => []SameRam
  <1>1. InStep => SameRam
    BY DEF InStep
  <1>. QED
    BY <1>1, ReferenceInStep, PTL

\* The trap code read behind the view's back is the low three bits of the
\* reference's a0: the eight bits kept on the way do not change them.
THEOREM TrapCodeIsLowA0 == DSpec => []TrapReportsLowA0
  <1>1. IInv /\ InStep => TrapReportsLowA0
    <2> SUFFICES ASSUME IInv, InStep, TrapValid PROVE TrapCode = ref_gpr[A0] % 8
      BY DEF TrapReportsLowA0
    <2>1. CommitValid /\ wb.instr.op = "TRAP_INST" /\ wb.instr = Ref!Current
      BY DEF TrapValid, IsTrap, InStep
    <2>2. ~wb.d.reg_write /\ ~wb.d.mem_read /\ ~wb.d.mem_write
      BY <2>1, DecodeFacts DEF IInv, ControlsMatch, Arch!HasResult
    <2>3. GprDt = ref_gpr
      BY <2>1, <2>2
      DEF InStep, GprAfterCommit, DifftestSkip, Ref!GprAfter, Ref!HasResult
    <2>4. GprDt[A0] = regs[A0]
      BY <2>2, A0Assumption DEF GprDt, RegWriteFire
    <2>5. regs[A0] \in Nat
      BY <2>3, <2>4, A0Assumption, SizeAssumption DEF InStep, Word
    <2>6. \A n \in Nat : (n % 256) % 8 = n % 8
      OBVIOUS
    <2>. QED
      BY <2>3, <2>4, <2>5, <2>6 DEF TrapCode, trap_code_wb
  <1>. QED
    BY <1>1, ReferenceInStep, Invariant, DifftestIsVTop, PTL

\* A data access is the one the reference makes next.
THEOREM NothingSpeculative == DSpec => []NoSpeculativeAccess
  <1>1. IInv /\ InStep => NoSpeculativeAccess
    <2> SUFFICES ASSUME IInv, InStep, Dreq.valid PROVE NoSpeculativeAccess
      BY DEF NoSpeculativeAccess
    <2> DEFINE i == mem.instr
    <2>1. /\ MemAccess /\ mem.valid
          /\ Dreq.addr = mem.alu_result
          /\ Dreq.data = AlignStore(mem.rs2_data, AddrLow(mem.alu_result))
          /\ Dreq.strobe # {} => mem.d.mem_write
      BY DEF Dreq, MemAccess
    <2>2. /\ mem.d.mem_read <=> i.op = "LOAD"
          /\ mem.d.mem_write <=> i.op = "STORE"
      BY DecodeFacts DEF IInv, ControlsMatch
    <2>3. i.op \in {"LOAD", "STORE"}
      BY <2>1, <2>2 DEF MemAccess
    <2>4. PcAfterCommit = mem.pc
      BY <2>1, MemIsCurrent DEF InStep
    <2>5. i = Ref!InstrAt(program, PcAfterCommit)
      BY <2>1, <2>4, ArchHelpers, RefHelpers
      DEF IInv, FetchedFromText, Arch!InstrAt, Ref!InstrAt
    <2>6. /\ mem.alu_result = Add(GprAfterCommit[i.rs1], i.imm)
          /\ i.op = "STORE" => mem.rs2_data = GprAfterCommit[i.rs2]
      BY <2>1, <2>3, ArchHelpers DEF IInv, ExecutedInv, InStep, Arch!Address
    <2>. QED
      BY <2>1, <2>2, <2>3, <2>4, <2>5, <2>6 DEF NoSpeculativeAccess
  <1>. QED
    BY <1>1, ReferenceInStep, Invariant, DifftestIsVTop, PTL
=============================================================================
