---------------------------- MODULE CBusArbiter -----------------------------
(***************************************************************************)
(* CBusArbiter: NUM_INPUTS masters share one cache bus.  A request is      *)
(* chosen in one cycle, lowest index first, and driven from the next cycle *)
(* until its last word is answered.                                        *)
(***************************************************************************)
EXTENDS Common

CONSTANT NUM_INPUTS

ASSUME NumInputsAssumption == NUM_INPUTS \in Nat \ {0}

VARIABLES
  busy,       \* a transaction is on the bus
  index,      \* its master
  saved_req   \* its request, as it was when chosen

arbVars == <<busy, index, saved_req>>

Master == 0 .. NUM_INPUTS - 1

\* The first master with a request, 0 if there is none.
Select(ireqs) ==
  IF \E i \in Master : ireqs[i].valid
  THEN CHOOSE i \in Master : /\ ireqs[i].valid
                             /\ \A j \in Master : ireqs[j].valid => i <= j
  ELSE 0

OutReq(ireqs) == IF busy THEN ireqs[index] ELSE NoReq

InResps(oresp) ==
  [i \in Master |-> IF busy /\ index = i THEN oresp ELSE NoResp]

ArbInit ==
  /\ busy = FALSE
  /\ index = 0
  /\ saved_req = NoReq

\* A faulty arbiter that keeps the grant after an answer while the master's
\* request is still up.
ArbKeepsGrant(ireqs, oresp) ==
  \/ /\ busy
     /\ UNCHANGED arbVars
  \/ /\ ~busy
     /\ busy' = ireqs[Select(ireqs)].valid
     /\ index' = Select(ireqs)
     /\ saved_req' = ireqs[Select(ireqs)]

ArbClock(ireqs, oresp) ==
  \/ /\ busy
     /\ oresp.last
     /\ busy' = FALSE
     /\ saved_req' = NoReq
     /\ UNCHANGED index
  \/ /\ busy
     /\ ~oresp.last
     /\ UNCHANGED arbVars
  \/ /\ ~busy
     /\ busy' = ireqs[Select(ireqs)].valid
     /\ index' = Select(ireqs)
     /\ saved_req' = ireqs[Select(ireqs)]

ArbReset ==
  /\ busy' = FALSE
  /\ index' = 0
  /\ saved_req' = NoReq

ArbTypeOK ==
  /\ busy \in BOOLEAN
  /\ index \in Master
  /\ saved_req \in CBusReq
=============================================================================
