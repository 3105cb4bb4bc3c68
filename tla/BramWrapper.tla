---------------------------- MODULE BramWrapper -----------------------------
(***************************************************************************)
(* bram_wrapper: the block RAM of the board, made to look slow.  A request *)
(* has been up for BRAM_DELAY cycles before the RAM is enabled; a write is *)
(* answered in the cycle it is done, a read in the cycle after, when the   *)
(* RAM's output register has it.  The registers that delay the answer of a *)
(* read know nothing of the request they answer.                           *)
(*                                                                         *)
(* Bursts are left out: the CPU's bus only asks for single FIXED beats.    *)
(***************************************************************************)
EXTENDS Common

CONSTANT BRAM_DELAY

ASSUME DelayAssumption == BRAM_DELAY \in Nat

VARIABLES
  counter,      \* cycles the request has been up, saturating
  real_valid,   \* the RAM is enabled
  ready_read,   \* answer to a read; last_read is the same signal
  rdata         \* output register of the RAM

bramVars == <<counter, real_valid, ready_read, rdata>>

ZeroOut == [data |-> ZeroData, text |-> ZeroText]

\* A faulty wrapper that answers a read when the RAM is enabled, a cycle before
\* its output is there.
BramEarly(req) ==
  [ready |-> real_valid, last |-> real_valid,
   data |-> rdata.data, text |-> rdata.text]

\* The answer in this cycle to the request that is up.
BramResp(req) ==
  LET ready == IF req.strobe # {} THEN real_valid ELSE ready_read
  IN  [ready |-> ready, last |-> ready, data |-> rdata.data, text |-> rdata.text]

\* The RAM writes at the edge of this cycle.
BramWrites(req) == real_valid /\ req.strobe # {}

\* A clock edge; content is what the RAM holds at the address.
BramClock(req, content) ==
  LET last == BramResp(req).last
  IN  /\ counter' = CASE ~req.valid \/ last -> 0
                      [] req.valid /\ ~last /\ counter # BRAM_DELAY -> counter + 1
                      [] OTHER -> counter
      /\ real_valid' = (counter = BRAM_DELAY /\ req.valid /\ ~last)
      /\ ready_read' = real_valid
      /\ rdata' = IF real_valid THEN content ELSE rdata

\* A faulty reset that leaves the RAM enabled.
BramResetEnabled(req, content) ==
  /\ counter' = 0
  /\ UNCHANGED real_valid
  /\ ready_read' = real_valid
  /\ rdata' = IF real_valid THEN content ELSE rdata

\* An edge with reset asserted.
BramReset(req, content) ==
  /\ counter' = 0
  /\ real_valid' = FALSE
  /\ ready_read' = real_valid
  /\ rdata' = IF real_valid THEN content ELSE rdata

BramInit ==
  /\ counter = 0
  /\ real_valid = FALSE
  /\ ready_read = FALSE
  /\ rdata = ZeroOut
=============================================================================
