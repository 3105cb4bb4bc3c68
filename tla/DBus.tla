-------------------------------- MODULE DBus --------------------------------
(***************************************************************************)
(* DBusGen: the driver of a data bus, and the design under test behind it. *)
(* A load or a store puts a request on the bus and awaits the answer,      *)
(* cycle by cycle; under CMP_TO it is repeated on a reference memory and   *)
(* compared.  The design answers a request in any cycle, the one in which  *)
(* it is made included, and says data_ok as it likes when there is none.   *)
(* Bit 31, which the driver sets in every address and strips from every    *)
(* address it reads back, is left out.                                     *)
(***************************************************************************)
EXTENDS LoadOp, Sequences

CONSTANTS
  Dest,      \* the variables loads are put in
  NullPtr,
  MaxWait    \* max_count: cycles a call waits before it gives up

ASSUME DriverAssumption == NullPtr \notin Dest /\ MaxWait \in Nat \ {0}

VARIABLES
  req,       \* ports.req
  mem,       \* the memory of the design
  call,      \* the call that has not returned: what it waits for, cycles waited
  dests,     \* what the destinations hold
  compared,  \* the test is under CMP_TO
  refmem,    \* the memory of the reference model
  failed     \* the assertion that has ended the test, "no" until then

dbusVars == <<req, mem, call, dests, compared, refmem, failed>>

Task == [addr : Word, size : Width, strobe : SUBSET Lane, data : BusData,
         dest : Dest \cup {NullPtr}, op : LoadOp]

LoadTask(n, addr, dest) ==
  [addr |-> addr, size |-> n, strobe |-> {}, data |-> ZeroData, dest |-> dest,
   op |-> Parse(n, addr)]

StoreTask(n, addr, w) ==
  LET op == Parse(n, addr) IN
  [addr |-> addr, size |-> n, strobe |-> StrobeOf(op), data |-> Place(op, w),
   dest |-> NullPtr, op |-> Parse(8, addr)]

IsLoad(t) == t.strobe = {}

NoTask == LoadTask(8, 0, NullPtr)
NoCall == [op |-> "none", task |-> NoTask, count |-> 0]
Called(op, t) == [op |-> op, task |-> t, count |-> 0]

Free == call.op = "none" /\ failed = "no"

-----------------------------------------------------------------------------
(* The bus and the design *)

Issue(t) ==
  [valid |-> TRUE, addr |-> t.addr, size |-> SizeName(t.size),
   strobe |-> t.strobe, data |-> t.data]

\* The rest of a request without valid says nothing.
Clear == [valid |-> FALSE, addr |-> 0, size |-> "MSIZE1", strobe |-> {},
          data |-> ZeroData]

\* What is on the data wires in a cycle with an answer.
Rdata == mem[LineOf(req.addr)]

\* The design at the clock edge that ends a cycle.
Clock(ok) ==
  mem' = IF req.valid /\ ok
         THEN [mem EXCEPT ![LineOf(req.addr)] = Strobed(@, req.strobe, req.data)]
         ELSE mem

-----------------------------------------------------------------------------
(* load, store and await *)

Call(t) ==
  /\ Free
  /\ req' = Issue(t)
  /\ call' = Called("await", t)
  /\ UNCHANGED <<mem, compared, refmem, failed>>

\* What a load of DBus returns.
Loaded == Truncate(call.task.size, Apply(call.task.op, Rdata))

\* A faulty wrapper that hands the reference the data without the strobe.
RefStoreWhole(t) ==
  IF IsLoad(t) THEN refmem ELSE [refmem EXCEPT ![LineOf(t.addr)] = t.data]

RefStore(t) == [refmem EXCEPT ![LineOf(t.addr)] = Strobed(@, t.strobe, t.data)]

Return ==
  /\ req' = Clear
  /\ call' = NoCall
  /\ dests' = IF call.task.dest \in Dest
              THEN [dests EXCEPT ![call.task.dest] = Loaded] ELSE dests
  /\ refmem' = IF compared THEN RefStore(call.task) ELSE refmem
  /\ failed' = IF compared /\ IsLoad(call.task)
                    /\ Rdata # refmem[LineOf(call.task.addr)]
               THEN "different outputs" ELSE failed
  /\ UNCHANGED compared

\* A faulty loop whose counter is too narrow for max_count.
WaitedWraps == [call EXCEPT !.count = (@ + 1) % MaxWait]

Waited == [call EXCEPT !.count = @ + 1]

Await(ok) ==
  /\ call.op = "await" /\ failed = "no"
  /\ call.count < MaxWait
  /\ Clock(ok)
  /\ \/ ok /\ Return
     \/ /\ ~ok
        /\ call' = Waited
        /\ UNCHANGED <<req, dests, compared, refmem, failed>>

AwaitTimeout ==
  /\ call.op = "await" /\ failed = "no"
  /\ call.count = MaxWait
  /\ failed' = "timeout"
  /\ UNCHANGED <<req, mem, call, dests, compared, refmem>>
=============================================================================
