----------------------------- MODULE MemoryCell -----------------------------
(***************************************************************************)
(* MemoryCellGen and MemoryCellFactory: variables of a test that live in   *)
(* the memory under test, and a test that uses them, the bare driver and   *)
(* the pipeline in any order.  Reading a cell and writing it are each one  *)
(* access of the bus it was made for; assigning one cell to another is     *)
(* two, and swap is four.  The factory cuts cells off one after the other. *)
(***************************************************************************)
EXTENDS DBusPipeline, FiniteSetsExt

CONSTANTS
  Accesses,   \* the sizes and addresses the test uses
  Values,     \* what it stores
  Sizes,      \* of the cells it allocates
  ArenaSize,  \* bytes it allocates at most before a reset
  MaxOngoing, \* accesses it queues before it fences
  R,          \* where it puts what it loads
  U, V        \* the locals of get() and swap

ASSUME CellAssumption ==
  /\ {R, U, V} \subseteq Dest /\ U # V
  /\ \A k \in Accesses : k.size \in Width /\ k.addr \in Word
  /\ Values \subseteq BusData
  /\ Sizes \subseteq Width
  /\ ArenaSize \in 0 .. WordCount
  /\ \E b \in Byte : b # 0

VARIABLES
  uses,     \* what the test works with, "accesses" or "cells"
  offset,   \* of the factory
  cells,    \* allocated since its last reset
  script,   \* what is left of an operation on cells
  was       \* history: the operation, and the memory it began with

cellVars == <<uses, offset, cells, script, was>>
vars == <<pipelineVars, cellVars>>

Cell == [addr : Word, size : Width]
Step == [get : BOOLEAN, cell : Cell, reg : Dest, bus : {"DBus", "DBusPipeline"}]

Get(c, r, b) == [get |-> TRUE, cell |-> c, reg |-> r, bus |-> b]
Set(c, r, b) == [get |-> FALSE, cell |-> c, reg |-> r, bus |-> b]

\* Memory m after the first n tasks of q: a byte is what the last of them that
\* writes it has put there.
Storing(q, n, w, l) == {i \in 1 .. n : LineOf(q[i].addr) = w /\ l \in q[i].strobe}
After(m, q, n) ==
  [w \in Line |-> [l \in Lane |->
     LET by == Storing(q, n, w, l) IN IF by = {} THEN m[w][l] ELSE q[Max(by)].data[l]]]

\* Memory as the test sees it: with all it has asked for done.
Unanswered == IF call.op = "await" THEN <<call.task>> ELSE ongoing
Done(t, m) == [m EXCEPT ![LineOf(t.addr)] = Strobed(@, t.strobe, t.data)]
ProgramMem == After(mem, Unanswered, Len(Unanswered))

\* The value of a cell in memory m.
ValueIn(m, c) == Truncate(c.size, Apply(Parse(c.size, c.addr), m[LineOf(c.addr)]))

-----------------------------------------------------------------------------
(* The factory *)

\* A faulty allocate() that advances by whole words only.
OffsetAfterFour(n) == IF n < 4 THEN offset ELSE offset + n

OffsetAfter(n) == offset + n

\* allocate(), with the assertion of the cell's constructor.
Allocate(n) ==
  /\ Free /\ script = <<>>
  /\ offset + n <= ArenaSize
  /\ offset' = OffsetAfter(n)
  /\ \/ /\ offset % n = 0
        /\ cells' = cells \cup {[addr |-> offset, size |-> n]}
        /\ UNCHANGED failed
     \/ /\ offset % n # 0
        /\ failed' = "unaligned"
        /\ UNCHANGED cells
  /\ UNCHANGED <<req, mem, call, dests, compared, refmem, ongoing, uses, script, was>>

\* reset(): the cells handed out before are not used any more.
FactoryReset ==
  /\ Free /\ script = <<>> /\ offset > 0
  /\ offset' = 0 /\ cells' = {}
  /\ UNCHANGED <<pipelineVars, uses, script, was>>

-----------------------------------------------------------------------------
(* Operations on cells *)

\* A faulty swap that keeps one value in a cell it has written already.
SwapDirect(x, y, b) ==
  <<Get(x, U, b), Get(y, V, b), Set(x, V, b), Get(x, U, b), Set(y, U, b)>>

SwapScript(x, y, b) == <<Get(x, U, b), Get(y, V, b), Set(x, V, b), Set(y, U, b)>>

AssignScript(x, y, b) == <<Get(y, U, b), Set(x, U, b)>>

\* A test under CMP_TO does without the pipeline, whose accesses the reference
\* would not see.
Room == ~compared /\ Len(ongoing) < MaxOngoing

\* The bus a cell may have: under CMP_TO only the wrapped one is compared.
BusOf == IF compared THEN {"DBus"} ELSE {"DBus", "DBusPipeline"}

Begin(name, s, x, y) ==
  /\ Free /\ script = <<>>
  /\ script' = s
  /\ was' = [op |-> name, x |-> x, y |-> y, mem |-> ProgramMem]
  /\ UNCHANGED <<pipelineVars, uses, offset, cells>>

Swap(x, y, b) == x.size = y.size /\ Begin("swap", SwapScript(x, y, b), x, y)
Assign(x, y, b) == Begin("assign", AssignScript(x, y, b), x, y)

NoOp == [op |-> "none", x |-> [addr |-> 0, size |-> 1], y |-> [addr |-> 0, size |-> 1],
         mem |-> [w \in Line |-> ZeroData]]

\* The locals of an operation end with it.
OutOfScope == [dests EXCEPT ![U] = ZeroData, ![V] = ZeroData]

\* The next access of an operation, over the bus of its cells: a read of a
\* pipelined cell is a load and a fence.
CellAccess ==
  /\ script # <<>>
  /\ script' = Tail(script)
  /\ was' = IF Len(script) = 1 THEN NoOp ELSE was
  /\ LET s == Head(script)
         t == IF s.get THEN LoadTask(s.cell.size, s.cell.addr, s.reg)
                       ELSE StoreTask(s.cell.size, s.cell.addr, dests[s.reg])
     IN  IF s.bus = "DBus"
         THEN ongoing = <<>> /\ Call(t) /\ UNCHANGED ongoing
         ELSE Submit(t, IF s.get THEN Called("fence", t) ELSE NoCall)
  /\ dests' = IF Len(script) = 1 THEN OutOfScope ELSE dests
  /\ UNCHANGED <<uses, offset, cells>>

\* A value assigned to a cell.
Put(x, w, b) ==
  /\ script = <<>>
  /\ LET t == StoreTask(x.size, x.addr, w) IN
       \/ b = "DBus" /\ ongoing = <<>> /\ Call(t) /\ UNCHANGED ongoing
       \/ b = "DBusPipeline" /\ Room /\ Submit(t, NoCall)
  /\ UNCHANGED <<dests, cellVars>>

\* GenericBusInterface::load puts the value in a variable of 32 bits; a plain
\* fence leaves the destinations alone.
AsRead ==
  LET t == call.task IN
  IF t.dest \notin Dest THEN dests
  ELSE [dests EXCEPT ![t.dest] = Truncate(IF t.size < 4 THEN t.size ELSE 4, @)]

-----------------------------------------------------------------------------
(* The test *)

\* Accesses of the pipeline assert their alignment; those of DBus do not.
PipelineCall(k) ==
  /\ Room /\ script = <<>>
  /\ k.addr % k.size = 0
  /\ UNCHANGED dests
  /\ \/ Submit(LoadTask(k.size, k.addr, R), NoCall)
     \/ Submit(DiscardTask(k.size, k.addr), NoCall)
     \/ \E w \in Values : \/ Submit(StoreTask(k.size, k.addr, w), NoCall)
                          \/ Submit(ExpectTask(k.size, k.addr, w), NoCall)

DBusCall(k) ==
  /\ script = <<>> /\ ongoing = <<>>
  /\ \/ Call(LoadTask(k.size, k.addr, R))
     \/ \E w \in Values : Call(StoreTask(k.size, k.addr, w))
  /\ UNCHANGED <<ongoing, dests>>

PipelineStep ==
  \/ \E k \in Accesses : uses = "accesses" /\ PipelineCall(k)
  \/ ~compared /\ script = <<>> /\ CallFence
  \/ \E ok \in BOOLEAN : (~compared /\ script = <<>> /\ Tick(ok)) \/ FenceTick(ok)
  \/ FenceReturn(AsRead)
  \/ FenceTimeout

DBusStep ==
  \/ \E k \in Accesses : uses = "accesses" /\ DBusCall(k)
  \/ (\E ok \in BOOLEAN : Await(ok)) /\ UNCHANGED ongoing
  \/ AwaitTimeout /\ UNCHANGED ongoing

\* A test uses cells of the plain driver when the queue of the other is empty.
CellStep ==
  /\ uses = "cells"
  /\ \/ \E n \in Sizes : Allocate(n)
     \/ FactoryReset
     \/ \E x, y \in cells, b \in BusOf :
          /\ Len(ongoing) < MaxOngoing
          /\ b = "DBus" => ongoing = <<>>
          /\ \/ Swap(x, y, b) \/ Assign(x, y, b)
             \/ \E w \in Values : Put(x, w, b)
     \/ CellAccess

\* Memory is not zero at first, so that no lost write goes unnoticed.
Ones == [l \in Lane |-> CHOOSE b \in Byte : b # 0]

DriverInit ==
  /\ req = Clear
  /\ mem = [w \in Line |-> Ones]
  /\ refmem = mem
  /\ call = NoCall
  /\ dests = [d \in Dest |-> ZeroData]
  /\ compared \in BOOLEAN
  /\ failed = "no"
  /\ ongoing = <<>>
  /\ uses \in {"accesses", "cells"}
  /\ offset = 0 /\ cells = {}
  /\ script = <<>> /\ was = NoOp

DriverNext == ((PipelineStep \/ DBusStep) /\ UNCHANGED cellVars) \/ CellStep

DriverSpec == DriverInit /\ [][DriverNext]_vars

\* The test is a program: a call it has made runs on until it returns.
Running == DriverNext /\ (call.op # "none" \/ script # <<>>)
FairDriver == DriverSpec /\ WF_vars(Running)

-----------------------------------------------------------------------------
\* The drivers are a memory that sees the accesses of the test in the order of
\* the calls, whatever the design's delays: what a load delivers, when and
\* where, what an expectation is compared with, and that a fence returns when
\* all is delivered (bus.h, tick, await, fence and Task).
OwedAnswers ==
  [i \in 1 .. Len(Unanswered) |->
     LET t == Unanswered[i]
     IN  [task |-> t, data |-> After(mem, Unanswered, i - 1)[LineOf(t.addr)]]]

Sequential == INSTANCE SequentialMemory
                WITH ram <- ProgramMem, owed <- OwedAnswers, call <- call.op,
                     failed <- IF failed \in {"unaligned"} THEN "no" ELSE failed
ImplementsMemory == Sequential!Spec

\* A test under CMP_TO whose design is a memory is never told that it differs
\* from the reference, through reads and writes of every size (testbench.h).
WrapperAgrees == failed # "different outputs"

\* Cells behave as variables do: after x.swap(y) each has the other's value,
\* after x = y the first has the second's, cut to its own size, and no byte
\* around them has changed.  (A pipelined cell of eight bytes does not: it is
\* read through a variable of four.)
CellsAreVariables ==
  [][ Len(script) = 1 /\ script' = <<>>
      /\ (script[1].bus = "DBus" \/ (was.x.size <= 4 /\ was.y.size <= 4))
      => LET vx == ValueIn(was.mem, was.x)
             vy == ValueIn(was.mem, was.y)
             m  == Done(StoreTask(was.x.size, was.x.addr, vy), was.mem)
         IN  ProgramMem' = IF was.op = "assign" THEN m
                           ELSE Done(StoreTask(was.y.size, was.y.addr, vx), m) ]_vars

\* The factory never hands out a byte twice before it is reset.
CellsDisjoint ==
  \A c, d \in cells : c # d => c.addr + c.size <= d.addr \/ d.addr + d.size <= c.addr

\* No call waits for ever: it returns, or gives up on a design that is silent;
\* and an operation on cells, of up to four accesses, comes to its end.
CallsReturn ==
  /\ call.op # "none" ~> call.op = "none" \/ failed # "no"
  /\ script # <<>> ~> script = <<>> \/ failed # "no"
=============================================================================
