------------------------------ MODULE BoardTop ------------------------------
(***************************************************************************)
(* The same board around the other CPU top of the repository,              *)
(* vivado/src/with_delay/mycpu_top.sv: no converters and no arbiter, the   *)
(* data port has priority over fetch by a multiplexer, and an answer goes  *)
(* to whichever of the two is up.  RAM addresses only, as in SocTop.       *)
(***************************************************************************)
EXTENDS Core, BramWrapper

CONSTANTS
  Programs,
  RamImages,
  TextLine(_, _)

VARIABLES
  program,
  dmem

vars == <<coreVars, bramVars, program, dmem>>

-----------------------------------------------------------------------------
(* Wires *)

BusReq ==
  CASE Dreq.valid -> [valid |-> TRUE, addr |-> Dreq.addr, strobe |-> Dreq.strobe,
                      data |-> Dreq.data]
    [] ~Dreq.valid /\ Ireq.valid ->
                     [valid |-> TRUE, addr |-> Ireq.addr, strobe |-> {},
                      data |-> ZeroData]
    [] OTHER      -> [valid |-> FALSE, addr |-> 0, strobe |-> {},
                      data |-> ZeroData]

Resp == BramResp(BusReq)

\* The instruction is bits 31:0 of the answer, whatever addr[2] is.
Iresp == [data_ok |-> Resp.ready /\ Ireq.valid /\ ~Dreq.valid,
          data |-> Resp.text[0]]

Dresp == [data_ok |-> Resp.ready /\ Dreq.valid, data |-> Resp.data,
          text |-> Resp.text]

Content == [data |-> dmem[LineOf(BusReq.addr)],
            text |-> TextLine(program, LineOf(BusReq.addr))]

Written ==
  [dmem EXCEPT ![LineOf(BusReq.addr)] =
    [l \in Lane |-> IF l \in BusReq.strobe THEN BusReq.data[l] ELSE @[l]]]

-----------------------------------------------------------------------------
Tick ==
  /\ CoreClock(Iresp, Dresp)
  /\ BramClock(BusReq, Content)
  /\ dmem' = IF BramWrites(BusReq) THEN Written ELSE dmem
  /\ UNCHANGED program

Init ==
  /\ CoreInit
  /\ BramInit
  /\ program \in Programs
  /\ dmem \in RamImages

Spec == Init /\ [][Tick]_vars

-----------------------------------------------------------------------------
\* The multiplexer does not latch its choice: a request on its way through the
\* RAM's delay stays what it was only because the core freezes both of its ports
\* until the answer, redirects and memory accesses included.
BusSteady ==
  [][BusReq.valid /\ ~Resp.ready => BusReq' = BusReq]_vars

\* "is data arrived in this cycle?" (common.sv): a read is answered with what
\* the RAM holds at its address.  (It is not: the answer to one request is
\* repeated to the next; see README.)
DataArrived == BusReq.valid /\ BusReq.strobe = {} /\ Resp.ready => rdata = Content

\* "the data read from cache" (common.sv): when the right doubleword has been
\* read, fetch gets the instruction at its address.  (It gets the one in the
\* lower half; see README.)
FetchGetsItsHalf ==
  Iresp.data_ok /\ rdata = Content =>
    Iresp.data = TextLine(program, LineOf(Ireq.addr))[Half(Ireq.addr)]
=============================================================================
