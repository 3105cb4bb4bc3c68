----------------------------- MODULE CBusDevice -----------------------------
(***************************************************************************)
(* CBusDevice: the simulated memory on the cache bus.  In a cycle the      *)
(* harness asks it for its response (eval_resp), shows it the request      *)
(* (eval_req) and clocks it (sync).  Between cycles the next-transaction   *)
(* record equals the current one and the strobe and data registers are     *)
(* zero, so tx and enable are all its state.                               *)
(***************************************************************************)
EXTENDS CBusMaster

CONSTANT AllowReset     \* may the harness reset it in mid run?

-----------------------------------------------------------------------------
(* Transactions: burst addresses from anywhere in a window, upwards, and   *)
(* from its end on to its start.                                           *)

Transaction ==
  [busy : BOOLEAN, is_write : BOOLEAN, aligned : BOOLEAN, N : Nat, addr : Nat,
   Start_Address : Nat, Number_Bytes : Nat, Burst_Length : Nat,
   Aligned_Address : Nat, Lower_Wrap_Boundry : Nat, Upper_Wrap_Boundry : Nat]

ResetTx ==
  [busy |-> FALSE, is_write |-> FALSE, aligned |-> FALSE, N |-> 0, addr |-> 0,
   Start_Address |-> 0, Number_Bytes |-> 0, Burst_Length |-> 0,
   Aligned_Address |-> 0, Lower_Wrap_Boundry |-> 0, Upper_Wrap_Boundry |-> 0]

\* init, and the two fields its caller sets right after.
InitTx(is_write, addr, size, len) ==
  LET bytes  == 2 ^ size
      dtsize == bytes * (len + 1)
      lower  == (addr \div dtsize) * dtsize
  IN  [busy |-> TRUE, is_write |-> is_write, aligned |-> FALSE, N |-> 1,
       addr |-> addr, Start_Address |-> addr, Number_Bytes |-> bytes,
       Burst_Length |-> len + 1, Aligned_Address |-> (addr \div bytes) * bytes,
       Lower_Wrap_Boundry |-> lower, Upper_Wrap_Boundry |-> lower + dtsize]

\* A faulty sync that does not count the beat.
SyncUncounted(tx) ==
  LET next == tx.Number_Bytes +
                IF tx.aligned THEN tx.addr ELSE tx.Aligned_Address
  IN  [tx EXCEPT !.aligned = TRUE,
                 !.addr = IF next >= tx.Upper_Wrap_Boundry
                          THEN tx.Lower_Wrap_Boundry ELSE next]

SyncTx(tx) ==
  LET next == tx.Number_Bytes +
                IF tx.aligned THEN tx.addr ELSE tx.Aligned_Address
  IN  [tx EXCEPT !.N = @ + 1, !.aligned = TRUE,
                 !.addr = IF next >= tx.Upper_Wrap_Boundry
                          THEN tx.Lower_Wrap_Boundry ELSE next]

LastTx(tx) == tx.N = tx.Burst_Length

-----------------------------------------------------------------------------
VARIABLES
  tx,        \* the transaction being answered
  enable,    \* the device takes part in this cycle
  dmem,      \* the memory behind it
  saved_mem  \* the image it was made with

vars == <<creq, taken, tx, enable, dmem, saved_mem>>

Active == enable /\ tx.busy

\* A faulty eval_resp that reads every beat at the address of the first.
EvalRespFirst ==
  IF Active
  THEN [ready |-> TRUE, last |-> LastTx(tx),
        data |-> IF tx.is_write THEN ZeroWord ELSE dmem[WordAt(tx.Start_Address)]]
  ELSE NoResp

EvalResp ==
  IF Active
  THEN [ready |-> TRUE, last |-> LastTx(tx),
        data |-> IF tx.is_write THEN ZeroWord ELSE dmem[WordAt(tx.addr)]]
  ELSE NoResp

\* A faulty eval_req that leaves a finished write on the device.
EvalReqSticky ==
  CASE Active /\ LastTx(tx) /\ creq.is_write -> tx
    [] Active /\ LastTx(tx)  -> ResetTx
    [] Active /\ ~LastTx(tx) -> SyncTx(tx)
    [] enable /\ ~tx.busy /\ creq.valid ->
         InitTx(creq.is_write, creq.addr, creq.size, creq.len)
    [] OTHER -> tx

EvalReq ==
  CASE Active /\ LastTx(tx)  -> ResetTx
    [] Active /\ ~LastTx(tx) -> SyncTx(tx)
    [] enable /\ ~tx.busy /\ creq.valid ->
         InitTx(creq.is_write, creq.addr, creq.size, creq.len)
    [] OTHER -> tx

Sync ==
  /\ tx' = EvalReq
  /\ dmem' = IF Active /\ tx.is_write
             THEN [dmem EXCEPT ![WordAt(tx.addr)] = Merge(@, creq)]
             ELSE dmem
  /\ enable' \in BOOLEAN

Cycle == MasterStep(EvalResp) /\ Sync /\ UNCHANGED saved_mem

\* reset, of the device and of the design on its bus; enable is not reset.
Reset ==
  /\ AllowReset
  /\ MasterReset
  /\ tx' = ResetTx
  /\ dmem' = saved_mem
  /\ UNCHANGED <<enable, saved_mem>>

Init ==
  /\ MasterInit
  /\ tx = ResetTx
  /\ enable = TRUE
  /\ saved_mem \in Images
  /\ dmem = saved_mem

Next == Cycle \/ Reset

Spec == Init /\ [][Next]_vars

\* Cycles go on, and the device is not disabled in all of them: p_disable < 1.
FairSpec == Spec /\ WF_vars(Cycle /\ enable')

-----------------------------------------------------------------------------
\* The transaction of the request on the bus when n beats of it are answered.
TxAt(n) ==
  [InitTx(creq.is_write, creq.addr, creq.size, creq.len) EXCEPT
     !.N = n + 1, !.aligned = n # 0,
     !.addr = BeatAddress(creq.addr, creq.size, creq.len, n)]

\* What the device holds is always the request's own wrapping burst, some beats
\* on, although it is stepped from beat to beat and never looks at the request.
TxInv ==
  IF tx.busy THEN creq.valid /\ \E n \in 0 .. creq.len : tx = TxAt(n)
             ELSE tx = ResetTx

\* The assertions of eval_req and of BlockMemory: through pauses of any length
\* the request seen is the one the transaction was started with, and no beat of
\* it leaves the memory.
SanityChecks ==
  Active =>
    /\ creq.valid
    /\ creq.is_write = tx.is_write
    /\ 2 ^ creq.size = tx.Number_Bytes
    /\ creq.addr = tx.Start_Address
    /\ creq.len + 1 = tx.Burst_Length
    /\ WordAt(tx.addr) \in Line

\* The comment on the class: it should match the behaviour of CBusToAXI.  Both
\* are the memory a cache bus promises; the two differ in what a reset leaves,
\* here the image the test started from.
CBus == INSTANCE CBusMemory
          WITH beat <- IF tx.busy THEN tx.N - 1 ELSE 0, ram <- dmem,
               kept <- saved_mem
ImplementsCBus == CBus!Spec

\* Every request is answered to its last beat, however often the device pauses,
\* unless a reset withdraws it.
AlwaysAnswered == creq.valid ~> taken.last \/ ~creq.valid
=============================================================================
