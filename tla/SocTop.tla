------------------------------- MODULE SocTop -------------------------------
(***************************************************************************)
(* The board's system around the CPU of vsrc/mycpu_top.sv, which is VTop:  *)
(* its bus goes through the crossbar to bram_wrapper.  Programs here use   *)
(* RAM addresses only, so the crossbar passes every request on.            *)
(***************************************************************************)
EXTENDS VTop, BramWrapper

\* A write is answered with whatever the RAM's output register holds.
ASSUME OutputAssumption == WriteAnswers = BusData

socVars == <<vars, bramVars>>

Content == [data |-> dmem[LineOf(Oreq.addr)],
            text |-> TextLine(program, LineOf(Oreq.addr))]

Resp == BramResp(Oreq)

Tick ==
  /\ CoreClock(Iresp(Resp), Dresp(Resp))
  /\ ArbClock(Ireqs, Resp)
  /\ BramClock(Oreq, Content)
  /\ dmem' = IF BramWrites(Oreq) THEN Written ELSE dmem
  /\ UNCHANGED program

SocReset ==
  /\ AllowReset
  /\ CoreReset
  /\ ArbReset
  /\ BramReset(Oreq, Content)
  /\ dmem' = IF BramWrites(Oreq) THEN Written ELSE dmem
  /\ UNCHANGED program

SocInit == Init /\ BramInit

SocNext == Tick \/ SocReset

SocSpec == SocInit /\ [][SocNext]_socVars

FairSocSpec == SocSpec /\ WF_socVars(Tick)

-----------------------------------------------------------------------------
\* The RAM is enabled only for a request that is on the bus, never for one that
\* has been answered or reset away; and whenever its delayed answer is up while a
\* request is, it is what memory holds at that request's address, although no
\* register of the wrapper knows which request it answers.
AnswerIsCurrent ==
  /\ real_valid => busy
  /\ busy /\ ready_read => rdata = Content

\* bram_wrapper is one of the RAMs VTop is built for: it answers a transaction
\* once, with what memory holds, and writes when it answers.  It also raises
\* ready once more in the cycle after; the cycle in which the arbiter is between
\* two requests swallows it.
ImplementsVTop == Spec

\* With this RAM the machine commits for ever unless it is reset again and
\* again, nothing assumed but the clock.
SocKeepsCommitting == []<><<SocReset>>_socVars \/ []<>CommitValid
=============================================================================
