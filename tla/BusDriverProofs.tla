--------------------------- MODULE BusDriverProofs --------------------------
(***************************************************************************)
(* What the bus drivers and the tests on them promise, for every set of    *)
(* accesses, values and sizes of cells, and any bounds: that an answer is  *)
(* matched to its access, that a comparison with a reference is right,     *)
(* that cells do not overlap, that the drivers are a memory that sees the  *)
(* accesses in the order of the calls, and that cells of that memory       *)
(* behave as variables do.  What is under way is never stuck, and has a    *)
(* bounded number of steps left.                                           *)
(***************************************************************************)
EXTENDS MemoryCell, WellFoundedInduction, TLAPS

IsSeq(s)  == \E S : s \in Seq(S)
IsCall(c) == c = [op |-> c.op, task |-> c.task, count |-> c.count]

\* The front of a queue after Append and Tail.
LEMMA QueueFacts ==
  ASSUME NEW s, IsSeq(s)
  PROVE  /\ \A t : /\ IsSeq(Append(s, t)) /\ Append(s, t) # <<>>
                   /\ Head(Append(s, t)) = IF s = <<>> THEN t ELSE Head(s)
         /\ s # <<>> => IsSeq(Tail(s))
<1>1. PICK S : s \in Seq(S)
  BY DEF IsSeq
<1>2. ASSUME NEW t
      PROVE  /\ IsSeq(Append(s, t)) /\ Append(s, t) # <<>>
             /\ Head(Append(s, t)) = IF s = <<>> THEN t ELSE Head(s)
  <2> DEFINE T == S \cup {t}
  <2>1. s \in Seq(T) /\ t \in T
    BY <1>1
  <2> HIDE DEF T
  <2>2. Append(s, t) \in Seq(T) /\ Len(Append(s, t)) = Len(s) + 1 /\ Len(s) \in Nat
    BY <2>1
  <2>3. Append(s, t) # <<>>
    <3>1. Len(<<>>) = 0 OBVIOUS
    <3> QED BY <2>2, <3>1
  <2>4. Head(Append(s, t)) = Append(s, t)[1]
    BY <2>2, <2>3
  <2>5. IsSeq(Append(s, t))
    BY <2>2 DEF IsSeq
  <2>6. s = <<>> => Append(s, t)[1] = t
    BY <2>1
  <2>7. s # <<>> => Head(s) = s[1] /\ Append(s, t)[1] = s[1]
    <3> SUFFICES ASSUME s # <<>> PROVE Head(s) = s[1] /\ Append(s, t)[1] = s[1]
      OBVIOUS
    <3>1. Len(s) > 0 /\ Head(s) = s[1]
      BY <2>1
    <3> QED BY <2>1, <3>1
  <2> QED BY <2>3, <2>4, <2>5, <2>6, <2>7
<1>3. s # <<>> => Tail(s) \in Seq(S)
  BY <1>1
<1> QED BY <1>2, <1>3 DEF IsSeq

LEMMA TailFacts ==
  ASSUME NEW s, IsSeq(s), s # <<>>
  PROVE  /\ IsSeq(Tail(s)) /\ Head(s) = s[1] /\ 1 \in 1 .. Len(s)
         /\ \A i \in 1 .. Len(Tail(s)) : Tail(s)[i] = s[i + 1] /\ i + 1 \in 1 .. Len(s)
<1>1. PICK S : s \in Seq(S)
  BY DEF IsSeq
<1>2. Len(s) \in Nat /\ Len(s) > 0 /\ Len(Tail(s)) = Len(s) - 1
  BY <1>1
<1>3. \A i \in 1 .. Len(Tail(s)) : Tail(s)[i] = s[i + 1]
  BY <1>1, <1>2
<1>4. Head(s) = s[1]
  BY <1>1, <1>2
<1> QED BY <1>2, <1>3, <1>4, QueueFacts

LEMMA ScriptFacts ==
  ASSUME NEW a, NEW b, NEW c, NEW d
  PROVE  /\ IsSeq(<<a, b, c, d>>) /\ IsSeq(<<a, b>>)
         /\ \A i \in 1 .. Len(<<a, b, c, d>>) : <<a, b, c, d>>[i] \in {a, b, c, d}
         /\ \A i \in 1 .. Len(<<a, b>>) : <<a, b>>[i] \in {a, b}
<1>1. <<a, b, c, d>> \in Seq({a, b, c, d}) /\ <<a, b>> \in Seq({a, b})
  OBVIOUS
<1>2. Len(<<a, b, c, d>>) = 4 /\ Len(<<a, b>>) = 2
  OBVIOUS
<1>3. \A i \in 1 .. 4 : <<a, b, c, d>>[i] \in {a, b, c, d}
  OBVIOUS
<1>4. \A i \in 1 .. 2 : <<a, b>>[i] \in {a, b}
  OBVIOUS
<1> QED BY <1>1, <1>2, <1>3, <1>4 DEF IsSeq

LEMMA FourOn ==
  ASSUME NEW bus, NEW a, NEW b, NEW c, NEW d, NEW s, s = <<a, b, c, d>>,
         a.bus = bus, b.bus = bus, c.bus = bus, d.bus = bus
  PROVE  \A i \in 1 .. Len(s) : s[i].bus = bus
  OBVIOUS

LEMMA TwoOn ==
  ASSUME NEW bus, NEW a, NEW b, NEW s, s = <<a, b>>, a.bus = bus, b.bus = bus
  PROVE  \A i \in 1 .. Len(s) : s[i].bus = bus
  OBVIOUS

\* What one step of the drivers is, whoever takes it.
BusStep ==
  \/ \E t : Call(t) /\ ongoing = <<>> /\ UNCHANGED ongoing
  \/ \E t, c : c.op \in {"none", "fence"} /\ IsCall(c) /\ Submit(t, c)
  \/ \E ok \in BOOLEAN : Tick(ok) \/ FenceTick(ok) \/ (Await(ok) /\ UNCHANGED ongoing)
  \/ CallFence
  \/ \E read : FenceReturn(read)
  \/ UNCHANGED <<req, call, ongoing>> /\ failed' \in {failed, "timeout", "unaligned"}

LEMMA IsCalls ==
  /\ IsCall(NoCall) /\ NoCall.op = "none"
  /\ \A op, t : IsCall(Called(op, t)) /\ Called(op, t).op = op /\ Called(op, t).task = t
BY DEF IsCall, NoCall, Called

LEMMA NextIsBusStep == [DriverNext]_vars => BusStep
<1> SUFFICES ASSUME [DriverNext]_vars PROVE BusStep
  OBVIOUS
<1> USE DEF BusStep
<1>1. CASE PipelineStep
  <2>1. CASE \E k \in Accesses : PipelineCall(k)
    BY <2>1, IsCalls DEF PipelineCall
  <2>2. CASE CallFence \/ \E ok \in BOOLEAN : Tick(ok) \/ FenceTick(ok)
    BY <2>2
  <2>3. CASE FenceReturn(AsRead)
    BY <2>3
  <2>4. CASE FenceTimeout
    BY <2>4 DEF FenceTimeout
  <2> QED BY <1>1, <2>1, <2>2, <2>3, <2>4 DEF PipelineStep
<1>2. CASE DBusStep
  BY <1>2 DEF DBusStep, DBusCall, AwaitTimeout
<1>3. CASE CellStep
  <2>1. CASE \E n \in Sizes : Allocate(n)
    BY <2>1 DEF Allocate
  <2>2. CASE FactoryReset
    BY <2>2 DEF FactoryReset, pipelineVars, dbusVars
  <2>3. CASE \E x, y \in cells, b \in BusOf : Swap(x, y, b) \/ Assign(x, y, b)
    BY <2>3 DEF Swap, Assign, Begin, pipelineVars, dbusVars
  <2>4. CASE \E x, y \in cells, b \in BusOf : \E w \in Values : Put(x, w, b)
    BY <2>4, IsCalls DEF Put
  <2>5. CASE CellAccess
    <3> DEFINE s == Head(script)
               t == IF s.get THEN LoadTask(s.cell.size, s.cell.addr, s.reg)
                             ELSE StoreTask(s.cell.size, s.cell.addr, dests[s.reg])
               c == IF s.get THEN Called("fence", t) ELSE NoCall
    <3>1. (Call(t) /\ ongoing = <<>> /\ UNCHANGED ongoing) \/ Submit(t, c)
      BY <2>5 DEF CellAccess
    <3>2. IsCall(c) /\ c.op \in {"none", "fence"}
      BY IsCalls
    <3> HIDE DEF t, c
    <3> QED BY <3>1, <3>2
  <2> QED BY <1>3, <2>1, <2>2, <2>3, <2>4, <2>5 DEF CellStep
<1>4. CASE UNCHANGED vars
  BY <1>4 DEF vars, pipelineVars, dbusVars
<1> QED BY <1>1, <1>2, <1>3, <1>4 DEF DriverNext

-----------------------------------------------------------------------------
\* The request on the bus is the front of the queue's.
QueueInv == IsSeq(ongoing) /\ IsCall(call) /\ QueueOnBus

LEMMA IssueValid == (\A t : Issue(t).valid) /\ ~Clear.valid
BY DEF Issue, Clear

LEMMA InitQueueInv == DriverInit => QueueInv
<1> SUFFICES ASSUME DriverInit PROVE QueueInv
  OBVIOUS
<1>1. <<>> \in Seq({})
  OBVIOUS
<1>2. IsSeq(ongoing)
  BY <1>1 DEF IsSeq, DriverInit
<1> QED BY <1>2, IsCalls, IssueValid DEF QueueInv, QueueOnBus, DriverInit

\* A cycle of the pipeline, with a call under way or without.
LEMMA TickQueue ==
  ASSUME QueueInv, call.op # "await", failed = "no", NEW ok \in BOOLEAN, TickDriver(ok)
  PROVE  /\ IsSeq(ongoing')
         /\ req'.valid <=> ongoing' # <<>>
         /\ ongoing' # <<>> => req' = Issue(Head(ongoing'))
         /\ failed' # "empty queue"
<1> USE IssueValid DEF QueueInv, QueueOnBus
<1>1. CASE Taken(ok)
  <2>1. ongoing # <<>>
    BY <1>1 DEF Taken, Busy
  <2>2. ongoing' = Tail(ongoing) /\ req' = NextRequest(Tail(ongoing)) /\ failed' # "empty queue"
    BY <1>1, <2>1 DEF TickDriver, TakeAnswer, Answered
  <2>3. IsSeq(Tail(ongoing))
    BY <2>1, QueueFacts
  <2> QED BY <2>2, <2>3 DEF NextRequest
<1>2. CASE ~Taken(ok)
  BY <1>2 DEF TickDriver, NoAnswer, NextRequest
<1> QED BY <1>1, <1>2

LEMMA NextQueueInv == QueueInv /\ [DriverNext]_vars => QueueInv'
<1> SUFFICES ASSUME QueueInv, BusStep PROVE QueueInv'
  BY NextIsBusStep
<1> USE IssueValid DEF QueueInv, QueueOnBus
<1>1. CASE \E t : Call(t) /\ ongoing = <<>> /\ UNCHANGED ongoing
  <2>1. PICK t : Call(t) /\ ongoing = <<>> /\ UNCHANGED ongoing
    BY <1>1
  <2>2. call' = Called("await", t) /\ req' = Issue(t) /\ failed' # "empty queue"
    BY <2>1 DEF Call
  <2> QED BY <2>1, <2>2, IsCalls
<1>2. CASE \E t, c : c.op \in {"none", "fence"} /\ IsCall(c) /\ Submit(t, c)
  <2>1. PICK t, c : c.op \in {"none", "fence"} /\ IsCall(c) /\ Submit(t, c)
    BY <1>2
  <2>2. /\ ongoing' = Append(ongoing, t) /\ call' = c /\ failed' # "empty queue"
        /\ req' = IF ongoing = <<>> THEN Issue(t) ELSE req
    BY <2>1 DEF Submit, Submitted, Busy, Free
  <2>3. /\ IsSeq(ongoing') /\ ongoing' # <<>>
        /\ Head(ongoing') = IF ongoing = <<>> THEN t ELSE Head(ongoing)
    BY <2>2, QueueFacts
  <2>4. req' = Issue(Head(ongoing'))
    BY <2>1, <2>2, <2>3 DEF Submit, Free
  <2> QED BY <2>1, <2>2, <2>3, <2>4
<1>3. ASSUME NEW ok \in BOOLEAN, Tick(ok) \/ FenceTick(ok)
      PROVE  QueueInv'
  <2>1. call.op \in {"none", "fence"} /\ failed = "no" /\ TickDriver(ok)
    BY <1>3 DEF Tick, FenceTick, Free
  <2>2. IsCall(call') /\ call'.op = call.op
    BY <1>3 DEF Tick, FenceTick, Waited, IsCall
  <2> QED BY <2>1, <2>2, TickQueue
<1>4. ASSUME NEW ok \in BOOLEAN, Await(ok), UNCHANGED ongoing
      PROVE  QueueInv'
  <2>1. CASE Return
    BY <1>4, <2>1, IsCalls DEF Await, Return
  <2>2. CASE call' = Waited /\ UNCHANGED <<req, failed>>
    <3>1. IsCall(call') /\ call'.op = call.op /\ call'.task = call.task
      BY <2>2 DEF Waited, IsCall
    <3> QED BY <1>4, <2>2, <3>1 DEF Await
  <2> QED BY <1>4, <2>1, <2>2 DEF Await
<1>5. CASE CallFence
  BY <1>5, IsCalls DEF CallFence, Free
<1>6. ASSUME NEW read, FenceReturn(read)
      PROVE  QueueInv'
  BY <1>6, IsCalls DEF FenceReturn
<1>7. CASE UNCHANGED <<req, call, ongoing>> /\ failed' \in {failed, "timeout", "unaligned"}
  BY <1>7
<1> QED BY <1>1, <1>2, <1>3, <1>4, <1>5, <1>6, <1>7 DEF BusStep

\* An answer is matched to an access by order alone (bus.h:664-686); it is the
\* answer to that access because its request is the one on the bus.
THEOREM AnswersMatch == DriverSpec => []QueueOnBus
<1>1. QueueInv => QueueOnBus
  BY DEF QueueInv
<1> QED BY InitQueueInv, NextQueueInv, <1>1, PTL DEF DriverSpec

-----------------------------------------------------------------------------
\* Under CMP_TO the reference memory is that of the design between any two
\* calls, since nothing goes round the wrapper.
CompareInv ==
  /\ IsSeq(script)
  /\ failed # "different outputs"
  /\ compared =>
       /\ refmem = mem
       /\ ongoing = <<>> /\ call.op # "fence"
       /\ \A i \in 1 .. Len(script) : script[i].bus = "DBus"

LEMMA InitCompareInv == DriverInit => CompareInv
<1> SUFFICES ASSUME DriverInit PROVE CompareInv
  OBVIOUS
<1>1. <<>> \in Seq({}) /\ Len(<<>>) = 0
  OBVIOUS
<1>2. IsSeq(script)
  BY <1>1 DEF IsSeq, DriverInit
<1> QED BY <1>1, <1>2, IsCalls DEF CompareInv, DriverInit

\* A call of DBus, by the test or for a cell.
LEMMA CallCompare ==
  ASSUME CompareInv, NEW t, Call(t), UNCHANGED ongoing
  PROVE  /\ failed' # "different outputs"
         /\ UNCHANGED compared
         /\ compared => refmem' = mem' /\ ongoing' = <<>> /\ call'.op # "fence"
BY IsCalls DEF CompareInv, Call, Free

LEMMA NextCompareInv == QueueInv /\ CompareInv /\ [DriverNext]_vars => CompareInv'
<1> SUFFICES ASSUME QueueInv, CompareInv, [DriverNext]_vars PROVE CompareInv'
  OBVIOUS
<1> USE DEF CompareInv
<1>1. CASE PipelineStep /\ UNCHANGED cellVars
  <2> UNCHANGED script
    BY <1>1 DEF cellVars
  <2>1. ASSUME NEW k \in Accesses, PipelineCall(k) PROVE CompareInv'
    <3>1. ~compared /\ UNCHANGED <<compared, failed>>
      BY <2>1 DEF PipelineCall, Room, Submit
    <3> QED BY <3>1
  <2>2. CASE ~compared /\ CallFence
    BY <2>2 DEF CallFence
  <2>3. ASSUME NEW ok \in BOOLEAN, (~compared /\ Tick(ok)) \/ FenceTick(ok) PROVE CompareInv'
    <3>1. ~compared /\ TickDriver(ok)
      BY <2>3 DEF FenceTick, Tick
    <3>2. ~compared' /\ failed' # "different outputs"
      BY <3>1 DEF TickDriver, TakeAnswer, NoAnswer, Answered
    <3> QED BY <3>2
  <2>4. CASE FenceReturn(AsRead)
    BY <2>4 DEF FenceReturn
  <2>5. CASE FenceTimeout
    BY <2>5 DEF FenceTimeout
  <2> QED BY <1>1, <2>1, <2>2, <2>3, <2>4, <2>5 DEF PipelineStep
<1>2. CASE DBusStep /\ UNCHANGED cellVars
  <2> UNCHANGED script
    BY <1>2 DEF cellVars
  <2>1. ASSUME NEW k \in Accesses, DBusCall(k) PROVE CompareInv'
    <3>1. PICK t : Call(t) /\ UNCHANGED ongoing
      BY <2>1 DEF DBusCall
    <3> QED BY <3>1, CallCompare
  <2>2. ASSUME NEW ok \in BOOLEAN, Await(ok), UNCHANGED ongoing PROVE CompareInv'
    <3>1. CASE ok /\ Return
      <4>1. req = Issue(call.task)
        BY <2>2 DEF QueueInv, QueueOnBus, Await
      <4>2. mem' = [mem EXCEPT ![LineOf(call.task.addr)] =
                     Strobed(@, call.task.strobe, call.task.data)]
        BY <2>2, <3>1, <4>1 DEF Await, Clock, Issue
      <4>3. compared => refmem' = mem'
        BY <3>1, <4>2 DEF Return, RefStore
      <4>4. compared => Rdata = refmem[LineOf(call.task.addr)]
        BY <4>1 DEF Rdata, Issue
      <4>5. failed' # "different outputs"
        BY <3>1, <4>4 DEF Return
      <4> QED BY <2>2, <3>1, <4>3, <4>5, IsCalls DEF Return
    <3>2. CASE ~ok /\ call' = Waited /\ UNCHANGED <<compared, refmem, failed>>
      <4>1. mem' = mem
        BY <2>2, <3>2 DEF Await, Clock
      <4>2. call'.op = call.op
        BY <3>2 DEF Waited, QueueInv, IsCall
      <4> QED BY <2>2, <3>2, <4>1, <4>2
    <3> QED BY <2>2, <3>1, <3>2 DEF Await
  <2>3. CASE AwaitTimeout /\ UNCHANGED ongoing
    BY <2>3 DEF AwaitTimeout
  <2> QED BY <1>2, <2>1, <2>2, <2>3 DEF DBusStep
<1>3. CASE CellStep
  <2>1. ASSUME NEW n \in Sizes, Allocate(n) PROVE CompareInv'
    <3>1. UNCHANGED <<mem, call, compared, refmem, ongoing, script>>
      BY <2>1 DEF Allocate
    <3>2. failed' # "different outputs"
      BY <2>1 DEF Allocate
    <3> QED BY <3>1, <3>2
  <2>2. CASE FactoryReset
    BY <2>2 DEF FactoryReset, pipelineVars, dbusVars
  <2>3. ASSUME NEW x \in cells, NEW y \in cells, NEW b \in BusOf,
               Swap(x, y, b) \/ Assign(x, y, b)
        PROVE  CompareInv'
    <3>1. script' \in {SwapScript(x, y, b), AssignScript(x, y, b)} /\ UNCHANGED pipelineVars
      BY <2>3 DEF Swap, Assign, Begin
    <3>2. compared => b = "DBus"
      BY DEF BusOf
    <3>3. /\ Get(x, U, b).bus = b /\ Get(y, V, b).bus = b /\ Get(y, U, b).bus = b
          /\ Set(x, U, b).bus = b /\ Set(x, V, b).bus = b /\ Set(y, U, b).bus = b
      BY DEF Get, Set
    <3>4. IsSeq(script') /\ \A i \in 1 .. Len(script') : script'[i].bus = b
      <4>1. CASE script' = SwapScript(x, y, b)
        <5>1. script' = <<Get(x, U, b), Get(y, V, b), Set(x, V, b), Set(y, U, b)>>
          BY <4>1 DEF SwapScript
        <5>2. \A i \in 1 .. Len(script') : script'[i].bus = b
          BY ONLY <3>3, <5>1, FourOn
        <5> QED BY ONLY <5>1, <5>2, ScriptFacts
      <4>2. CASE script' = AssignScript(x, y, b)
        <5>1. script' = <<Get(y, U, b), Set(x, U, b)>>
          BY <4>2 DEF AssignScript
        <5>2. \A i \in 1 .. Len(script') : script'[i].bus = b
          BY ONLY <3>3, <5>1, TwoOn
        <5> QED BY ONLY <5>1, <5>2, ScriptFacts
      <4> QED BY <3>1, <4>1, <4>2
    <3> QED BY <3>1, <3>2, <3>4 DEF pipelineVars, dbusVars
  <2>4. ASSUME NEW x \in cells, NEW y \in cells, NEW b \in BusOf, NEW w \in Values, Put(x, w, b)
        PROVE  CompareInv'
    <3> UNCHANGED script
      BY <2>4 DEF Put, cellVars
    <3> DEFINE t == StoreTask(x.size, x.addr, w)
    <3>1. CASE Call(t) /\ UNCHANGED ongoing
      BY <3>1, CallCompare
    <3>2. CASE Room /\ Submit(t, NoCall)
      BY <3>2 DEF Room, Submit
    <3> QED BY <2>4, <3>1, <3>2 DEF Put
  <2>5. CASE CellAccess
    <3> DEFINE s == Head(script)
               t == IF s.get THEN LoadTask(s.cell.size, s.cell.addr, s.reg)
                             ELSE StoreTask(s.cell.size, s.cell.addr, dests[s.reg])
               c == IF s.get THEN Called("fence", t) ELSE NoCall
    <3>1. script # <<>> /\ script' = Tail(script)
      BY <2>5 DEF CellAccess
    <3>2. IsSeq(script')
      BY <3>1, TailFacts
    <3>5. compared => s.bus = "DBus" /\ \A i \in 1 .. Len(script') : script'[i].bus = "DBus"
      BY <3>1, TailFacts
    <3>6. CASE s.bus = "DBus" /\ Call(t) /\ UNCHANGED ongoing
      BY <3>2, <3>5, <3>6, CallCompare
    <3>7. CASE s.bus # "DBus" /\ Submit(t, c)
      BY <3>2, <3>5, <3>7 DEF Submit
    <3> QED BY <2>5, <3>6, <3>7 DEF CellAccess
  <2> QED BY <1>3, <2>1, <2>2, <2>3, <2>4, <2>5 DEF CellStep
<1>4. CASE UNCHANGED vars
  BY <1>4 DEF vars, pipelineVars, dbusVars, cellVars
<1> QED BY <1>1, <1>2, <1>3, <1>4 DEF DriverNext

\* A test that compares a design with its reference (CMP_TO) is never told that
\* they differ when they do not.
THEOREM ComparisonIsRight == DriverSpec => []WrapperAgrees
<1>1. DriverInit => QueueInv /\ CompareInv
  BY InitQueueInv, InitCompareInv
<1>2. QueueInv /\ CompareInv /\ [DriverNext]_vars => (QueueInv /\ CompareInv)'
  BY NextQueueInv, NextCompareInv
<1>3. CompareInv => WrapperAgrees
  BY DEF CompareInv, WrapperAgrees
<1> QED BY <1>1, <1>2, <1>3, PTL DEF DriverSpec

-----------------------------------------------------------------------------
\* Every cell ends where the factory goes on, or before.
CellInv ==
  /\ offset \in Nat
  /\ \A c \in cells : c.addr \in Nat /\ c.size \in Nat \ {0} /\ c.addr + c.size <= offset
  /\ CellsDisjoint

LEMMA NextCellInv == CellInv /\ [DriverNext]_vars => CellInv'
<1> SUFFICES ASSUME CellInv, [DriverNext]_vars PROVE CellInv'
  OBVIOUS
<1> USE DEF CellInv, CellsDisjoint
<1>1. ASSUME NEW n \in Sizes, Allocate(n) PROVE CellInv'
  <2>1. n \in Nat \ {0}
    BY CellAssumption DEF Width
  <2>2. offset' = offset + n /\ cells' \in {cells, cells \cup {[addr |-> offset, size |-> n]}}
    BY <1>1 DEF Allocate, OffsetAfter
  <2> QED BY <2>1, <2>2
<1>2. CASE FactoryReset
  BY <1>2 DEF FactoryReset
<1>3. CASE UNCHANGED <<offset, cells>>
  BY <1>3
<1>4. (\E n \in Sizes : Allocate(n)) \/ FactoryReset \/ UNCHANGED <<offset, cells>>
  BY DEF DriverNext, CellStep, Swap, Assign, Begin, Put, CellAccess, cellVars, vars
<1> QED BY <1>1, <1>2, <1>3, <1>4

\* The cells of one factory never share a byte (cell.h:274-280).
THEOREM CellsApart == DriverSpec => []CellsDisjoint
<1>1. DriverInit => CellInv
  BY DEF DriverInit, CellInv, CellsDisjoint
<1>2. CellInv => CellsDisjoint
  BY DEF CellInv
<1> QED BY <1>1, <1>2, NextCellInv, PTL DEF DriverSpec

-----------------------------------------------------------------------------
(* Memory after a queue of tasks.  A byte is what the last task that writes *)
(* it has put there, so there must be a last one: a set of naturals has a   *)
(* least element since "<" is well-founded, a set of indices a greatest.    *)

LEMMA LastIndex ==
  ASSUME NEW n \in Nat, NEW T \in SUBSET (1 .. n), T # {}
  PROVE  Max(T) \in T /\ \A i \in T : i <= Max(T)
<1> DEFINE D == {n - i : i \in T}
           less == {p \in Nat \X Nat : p[1] < p[2]}
<1>0. \A i \in T : i \in Int /\ i <= n /\ n - i \in Nat
  OBVIOUS
<1>1. D \in SUBSET Nat /\ D # {}
  BY <1>0
<1>2. IsWellFoundedOn(less, Nat)
  BY NatLessThanWellFounded DEF OpToRel
<1>3. PICK d \in D : \A e \in D : ~(<<e, d>> \in less)
  BY <1>1, <1>2, WFMin
<1>4. \A e \in D : ~(e < d)
  BY <1>1, <1>3
<1>5. PICK k \in T : d = n - k
  OBVIOUS
<1>6. \A j \in T : k >= j
  <2> SUFFICES ASSUME NEW j \in T PROVE k >= j
    OBVIOUS
  <2>1. n - j \in D
    OBVIOUS
  <2> HIDE DEF D
  <2>2. ~(n - j < n - k)
    BY <1>4, <1>5, <2>1
  <2> QED BY <1>0, <2>2
<1> QED BY <1>0, <1>6 DEF Max

LEMMA IsLast ==
  ASSUME NEW n \in Nat, NEW T \in SUBSET (1 .. n), NEW k \in T, \A i \in T : i <= k
  PROVE  Max(T) = k
<1>1. Max(T) \in T /\ \A i \in T : i <= Max(T)
  BY LastIndex
<1>2. \A i \in T : i \in Int
  OBVIOUS
<1>3. k <= Max(T) /\ Max(T) <= k /\ Max(T) \in Int /\ k \in Int
  BY <1>1, <1>2
<1>4. \A x, y \in Int : x <= y /\ y <= x => x = y
  OBVIOUS
<1> QED BY ONLY <1>3, <1>4

Memory == [Line -> BusData]

LEMMA MemoryEqual ==
  ASSUME NEW f \in Memory, NEW g \in Memory, \A w \in Line, l \in Lane : f[w][l] = g[w][l]
  PROVE  f = g
<1>1. ASSUME NEW w \in Line PROVE f[w] = g[w]
  <2>1. f[w] \in [Lane -> Byte] /\ g[w] \in [Lane -> Byte] /\ \A l \in Lane : f[w][l] = g[w][l]
    BY DEF Memory, BusData
  <2> QED BY <2>1
<1> QED BY <1>1 DEF Memory

LEMMA LineOfIn == \A x \in Word : LineOf(x) \in Line
<1> SUFFICES ASSUME NEW x \in Word PROVE LineOf(x) \in Line
  OBVIOUS
<1>1. x \div 8 \in Int /\ LineCount \in Nat \ {0}
  BY SizeAssumption DEF Word
<1> DEFINE q == x \div 8
<1> HIDE DEF q
<1>2. q \in Int => q % LineCount \in 0 .. LineCount - 1
  BY <1>1
<1> QED BY <1>1, <1>2 DEF q, LineOf, Line

LEMMA StrobedIn ==
  ASSUME NEW line \in BusData, NEW strobe \in SUBSET Lane, NEW data \in BusData
  PROVE  Strobed(line, strobe, data) \in BusData
BY DEF Strobed, BusData

LEMMA DoneIs ==
  ASSUME NEW m \in Memory, NEW t \in Task
  PROVE  /\ Done(t, m) \in Memory
         /\ \A w \in Line, l \in Lane :
              Done(t, m)[w][l] = IF w = LineOf(t.addr) /\ l \in t.strobe THEN t.data[l] ELSE m[w][l]
<1>1. LineOf(t.addr) \in Line /\ t.strobe \in SUBSET Lane /\ t.data \in BusData
  BY LineOfIn DEF Task
<1>2. m[LineOf(t.addr)] \in BusData
  BY <1>1 DEF Memory
<1>3. Done(t, m) = [m EXCEPT ![LineOf(t.addr)] = Strobed(m[LineOf(t.addr)], t.strobe, t.data)]
  BY DEF Done
<1>4. Done(t, m) \in Memory
  BY <1>1, <1>2, <1>3, StrobedIn DEF Memory
<1>5. ASSUME NEW w \in Line, NEW l \in Lane
      PROVE  Done(t, m)[w][l] = IF w = LineOf(t.addr) /\ l \in t.strobe THEN t.data[l] ELSE m[w][l]
  <2>1. CASE w = LineOf(t.addr)
    <3>1. Done(t, m)[w] = Strobed(m[w], t.strobe, t.data)
      BY <1>1, <1>3, <2>1 DEF Memory
    <3> QED BY <2>1, <3>1 DEF Strobed
  <2>2. CASE w # LineOf(t.addr)
    BY <1>3, <2>2 DEF Memory
  <2> QED BY <2>1, <2>2
<1> QED BY <1>4, <1>5

LEMMA StoringIn ==
  ASSUME NEW q, NEW n \in Nat, NEW w, NEW l
  PROVE  Storing(q, n, w, l) \in SUBSET (1 .. n)
BY DEF Storing

LEMMA AfterAt ==
  ASSUME NEW m, NEW q, NEW n, NEW w \in Line, NEW l \in Lane
  PROVE  After(m, q, n)[w][l] = IF Storing(q, n, w, l) = {} THEN m[w][l]
                                ELSE q[Max(Storing(q, n, w, l))].data[l]
BY DEF After

LEMMA AfterIn ==
  ASSUME NEW m \in Memory, NEW q \in Seq(Task), NEW n \in 0 .. Len(q)
  PROVE  After(m, q, n) \in Memory
<1>1. ASSUME NEW w \in Line, NEW l \in Lane
      PROVE  (IF Storing(q, n, w, l) = {} THEN m[w][l]
              ELSE q[Max(Storing(q, n, w, l))].data[l]) \in Byte
  <2> DEFINE S == Storing(q, n, w, l)
  <2>1. S \in SUBSET (1 .. n)
    BY StoringIn
  <2>2. m[w][l] \in Byte
    BY DEF Memory, BusData
  <2>3. ASSUME S # {} PROVE q[Max(S)].data[l] \in Byte
    <3>1. Max(S) \in S
      <4> n \in Nat
        OBVIOUS
      <4> HIDE DEF S
      <4> QED BY <2>1, <2>3, LastIndex
    <3>2. Max(S) \in 1 .. Len(q)
      BY <2>1, <3>1
    <3>3. q[Max(S)] \in Task
      BY <3>2
    <3> QED BY <3>3 DEF Task, BusData
  <2> QED BY <2>2, <2>3
<1> QED BY <1>1 DEF After, Memory, BusData

LEMMA AfterNone ==
  ASSUME NEW m \in Memory, NEW q
  PROVE  After(m, q, 0) = m
<1>1. \A w, l : Storing(q, 0, w, l) = {}
  BY DEF Storing
<1>2. After(m, q, 0) = [w \in Line |-> [l \in Lane |-> m[w][l]]]
  BY <1>1 DEF After
<1>3. After(m, q, 0) \in Memory
  BY <1>2 DEF Memory, BusData
<1> QED BY <1>2, <1>3, MemoryEqual

\* One task more, at the end of the queue.
LEMMA AfterAppend ==
  ASSUME NEW m \in Memory, NEW q \in Seq(Task), NEW t \in Task
  PROVE  /\ \A n \in 0 .. Len(q) : After(m, Append(q, t), n) = After(m, q, n)
         /\ After(m, Append(q, t), Len(q) + 1) = Done(t, After(m, q, Len(q)))
<1> DEFINE r == Append(q, t)
           k == Len(q) + 1
<1>1. /\ r \in Seq(Task) /\ Len(r) = k /\ k \in Nat /\ Len(q) \in Nat /\ r[k] = t
      /\ \A i \in 1 .. Len(q) : r[i] = q[i]
  OBVIOUS
<1> HIDE DEF r
<1>2. ASSUME NEW n \in 0 .. Len(q), NEW w, NEW l
      PROVE  /\ Storing(r, n, w, l) = Storing(q, n, w, l)
             /\ Storing(q, n, w, l) \in SUBSET (1 .. Len(q))
  <2>1. \A i \in 1 .. n : i \in 1 .. Len(q) /\ r[i] = q[i]
    BY <1>1
  <2> QED BY <2>1 DEF Storing
<1>3. ASSUME NEW n \in 0 .. Len(q) PROVE After(m, r, n) = After(m, q, n)
  <2>1. After(m, r, n) \in Memory /\ After(m, q, n) \in Memory
    <3> n \in 0 .. Len(r)
      BY <1>1
    <3> QED BY <1>1, AfterIn
  <2>2. ASSUME NEW w \in Line, NEW l \in Lane PROVE After(m, r, n)[w][l] = After(m, q, n)[w][l]
    <3> DEFINE S == Storing(q, n, w, l)
    <3>1. Storing(r, n, w, l) = S
      BY <1>2
    <3>2. CASE S = {}
      BY <3>1, <3>2, AfterAt
    <3>3. CASE S # {}
      <4>1. Max(S) \in S
        <5> n \in Nat /\ S \in SUBSET (1 .. n)
          BY StoringIn
        <5> HIDE DEF S
        <5> QED BY <3>3, LastIndex
      <4>2. r[Max(S)] = q[Max(S)]
        BY <1>1, <1>2, <4>1
      <4> QED BY <3>1, <3>3, <4>2, AfterAt
    <3> QED BY <3>2, <3>3
  <2> QED BY <2>1, <2>2, MemoryEqual
<1>4. After(m, r, k) = Done(t, After(m, q, Len(q)))
  <2> DEFINE f == After(m, q, Len(q))
             g == After(m, r, k)
  <2>1. f \in Memory /\ g \in Memory
    <3> k \in 0 .. Len(r) /\ Len(q) \in 0 .. Len(q)
      BY <1>1
    <3> QED BY <1>1, AfterIn
  <2>2. ASSUME NEW w \in Line, NEW l \in Lane PROVE g[w][l] = Done(t, f)[w][l]
    <3> DEFINE S == Storing(q, Len(q), w, l)
               T == Storing(r, k, w, l)
    <3>1. Done(t, f)[w][l] = IF w = LineOf(t.addr) /\ l \in t.strobe THEN t.data[l] ELSE f[w][l]
      <4> HIDE DEF f
      <4> QED BY <2>1, DoneIs
    <3>2. T \in SUBSET (1 .. k)
      BY <1>1, StoringIn
    <3>3. CASE w = LineOf(t.addr) /\ l \in t.strobe
      <4>1. k \in T
        BY <1>1, <3>3 DEF Storing
      <4>2. Max(T) = k
        <5>1. \A i \in T : i <= k
          BY <3>2
        <5> HIDE DEF T
        <5> QED BY <1>1, <3>2, <4>1, <5>1, IsLast
      <4>3. g[w][l] = r[Max(T)].data[l]
        BY <4>1, AfterAt
      <4> QED BY <1>1, <3>1, <3>3, <4>2, <4>3
    <3>4. CASE ~(w = LineOf(t.addr) /\ l \in t.strobe)
      <4>1. k \notin T
        BY <1>1, <3>4 DEF Storing
      <4>2. T = Storing(r, Len(q), w, l)
        <5>1. \A i \in 1 .. k : i \in 1 .. Len(q) \/ i = k
          BY <1>1
        <5>2. \A i \in 1 .. Len(q) : i \in 1 .. k
          BY <1>1
        <5> QED BY <4>1, <5>1, <5>2 DEF Storing
      <4>3. g[w][l] = After(m, r, Len(q))[w][l]
        BY <4>2, AfterAt
      <4>4. After(m, r, Len(q)) = f
        BY <1>1, <1>3
      <4> QED BY <3>1, <3>4, <4>3, <4>4
    <3> QED BY <3>3, <3>4
  <2>3. Done(t, f) \in Memory
    <3> HIDE DEF f
    <3> QED BY <2>1, DoneIs
  <2> HIDE DEF f, g
  <2>4. g = Done(t, f)
    BY <2>1, <2>2, <2>3, MemoryEqual
  <2> QED BY <2>4 DEF f, g
<1> QED BY <1>3, <1>4 DEF r

\* The first task done, and taken off the queue.
LEMMA AfterTail ==
  ASSUME NEW m \in Memory, NEW q \in Seq(Task), q # <<>>, NEW n \in 0 .. Len(q) - 1
  PROVE  After(Done(Head(q), m), Tail(q), n) = After(m, q, n + 1)
<1> DEFINE t == Head(q)
           r == Tail(q)
           f == Done(t, m)
<1>1. /\ t \in Task /\ t = q[1] /\ r \in Seq(Task)
      /\ Len(q) \in Nat /\ Len(r) = Len(q) - 1 /\ Len(q) >= 1
      /\ \A i \in 1 .. Len(r) : r[i] = q[i + 1]
  OBVIOUS
<1> HIDE DEF t, r
<1>2. f \in Memory
  BY <1>1, DoneIs
<1>3. n \in Nat /\ n \in 0 .. Len(r) /\ n + 1 \in 0 .. Len(q) /\ n + 1 \in Nat
  BY <1>1
<1>4. ASSUME NEW w \in Line, NEW l \in Lane PROVE After(f, r, n)[w][l] = After(m, q, n + 1)[w][l]
  <2> DEFINE S == Storing(r, n, w, l)
             T == Storing(q, n + 1, w, l)
  <2>1. S \in SUBSET (1 .. n) /\ T \in SUBSET (1 .. n + 1)
    BY <1>3, StoringIn
  <2>2. \A i \in 1 .. n : i \in S <=> i + 1 \in T
    <3>1. \A i \in 1 .. n : r[i] = q[i + 1] /\ i + 1 \in 1 .. n + 1
      BY <1>1, <1>3
    <3> QED BY <3>1 DEF Storing
  <2>3. 1 \in T <=> w = LineOf(t.addr) /\ l \in t.strobe
    BY <1>1, <1>3 DEF Storing
  <2>4. f[w][l] = IF 1 \in T THEN t.data[l] ELSE m[w][l]
    <3>1. f[w][l] = IF w = LineOf(t.addr) /\ l \in t.strobe THEN t.data[l] ELSE m[w][l]
      <4> t \in Task
        BY <1>1
      <4> HIDE DEF S, T
      <4> QED BY DoneIs
    <3> HIDE DEF T, f
    <3> QED BY <2>3, <3>1
  <2>5. After(f, r, n)[w][l] = IF S = {} THEN f[w][l] ELSE r[Max(S)].data[l]
    BY AfterAt
  <2>6. After(m, q, n + 1)[w][l] = IF T = {} THEN m[w][l] ELSE q[Max(T)].data[l]
    BY AfterAt
  <2> HIDE DEF S, T
  <2>7. \A i \in T : i = 1 \/ (i - 1 \in 1 .. n /\ i - 1 \in S)
    <3> SUFFICES ASSUME NEW i \in T, i # 1 PROVE i - 1 \in 1 .. n /\ i - 1 \in S
      OBVIOUS
    <3>1. i \in 1 .. n + 1 /\ i - 1 \in 1 .. n /\ (i - 1) + 1 = i
      BY <1>3, <2>1
    <3>2. i - 1 \in S <=> (i - 1) + 1 \in T
      BY <2>2, <3>1
    <3> QED BY <3>1, <3>2
  <2>8. CASE S # {}
    <3> DEFINE k == Max(S)
    <3>1. k \in S /\ \A i \in S : i <= k
      BY <1>3, <2>1, <2>8, LastIndex
    <3> HIDE DEF k
    <3>2. k \in 1 .. n /\ k + 1 \in T
      BY <2>1, <2>2, <3>1
    <3>3. \A i \in T : i <= k + 1
      <4> SUFFICES ASSUME NEW i \in T PROVE i <= k + 1
        OBVIOUS
      <4>1. i \in Int /\ k \in Int /\ k >= 1 /\ (i = 1 \/ (i - 1 \in S /\ i - 1 <= k))
        BY <1>3, <2>1, <2>7, <3>1, <3>2
      <4> QED BY <4>1
    <3>4. Max(T) = k + 1
      BY <1>3, <2>1, <3>2, <3>3, IsLast
    <3>5. r[k] = q[k + 1]
      BY <1>1, <1>3, <3>2
    <3> QED BY <2>5, <2>6, <2>8, <3>2, <3>4, <3>5 DEF k
  <2>9. CASE S = {} /\ T # {}
    <3>1. \A i \in T : i = 1
      BY <2>7, <2>9
    <3>2. 1 \in T /\ Max(T) = 1
      <4>1. 1 \in T /\ \A i \in T : i <= 1
        BY <2>9, <3>1
      <4> QED BY <1>3, <2>1, <4>1, IsLast
    <3> QED BY <1>1, <2>4, <2>5, <2>6, <2>9, <3>2
  <2>10. CASE S = {} /\ T = {}
    BY <2>4, <2>5, <2>6, <2>10
  <2> QED BY <2>8, <2>9, <2>10
<1>5. After(f, r, n) \in Memory /\ After(m, q, n + 1) \in Memory
  <2> HIDE DEF f
  <2> QED BY <1>1, <1>2, <1>3, AfterIn
<1>6. After(f, r, n) = After(m, q, n + 1)
  <2> HIDE DEF f
  <2> QED BY <1>4, <1>5, MemoryEqual
<1> QED BY <1>6 DEF t, r

-----------------------------------------------------------------------------
(* The answers owed to a queue of tasks. *)

Answer == [task : Task, data : BusData]

Owed(m, q) ==
  [i \in 1 .. Len(q) |-> [task |-> q[i], data |-> After(m, q, i - 1)[LineOf(q[i].addr)]]]

LEMMA SeqEqual ==
  ASSUME NEW S, NEW s \in Seq(S), NEW t \in Seq(S), Len(s) = Len(t),
         \A i \in 1 .. Len(s) : s[i] = t[i]
  PROVE  s = t
OBVIOUS

LEMMA OwedIn ==
  ASSUME NEW m \in Memory, NEW q \in Seq(Task)
  PROVE  /\ Owed(m, q) \in Seq(Answer) /\ Len(Owed(m, q)) = Len(q)
         /\ \A i \in 1 .. Len(q) :
              Owed(m, q)[i] = [task |-> q[i], data |-> After(m, q, i - 1)[LineOf(q[i].addr)]]
<1>1. Len(q) \in Nat
  OBVIOUS
<1>2. ASSUME NEW i \in 1 .. Len(q)
      PROVE  [task |-> q[i], data |-> After(m, q, i - 1)[LineOf(q[i].addr)]] \in Answer
  <2>1. q[i] \in Task /\ i - 1 \in 0 .. Len(q)
    BY <1>1
  <2>2. After(m, q, i - 1) \in Memory
    BY <2>1, AfterIn
  <2>3. LineOf(q[i].addr) \in Line
    BY <2>1, LineOfIn DEF Task
  <2>4. After(m, q, i - 1)[LineOf(q[i].addr)] \in BusData
    BY <2>2, <2>3 DEF Memory
  <2> QED BY <2>1, <2>4 DEF Answer
<1>3. Owed(m, q) \in [1 .. Len(q) -> Answer]
  BY <1>2 DEF Owed
<1>4. Owed(m, q) \in Seq(Answer) /\ Len(Owed(m, q)) = Len(q)
  BY <1>1, <1>3
<1> QED BY <1>4 DEF Owed

LEMMA OwedAppend ==
  ASSUME NEW m \in Memory, NEW q \in Seq(Task), NEW t \in Task
  PROVE  Owed(m, Append(q, t)) =
           Append(Owed(m, q), [task |-> t, data |-> After(m, q, Len(q))[LineOf(t.addr)]])
<1> DEFINE r == Append(q, t)
           a == [task |-> t, data |-> After(m, q, Len(q))[LineOf(t.addr)]]
           o == Append(Owed(m, q), a)
<1>1. /\ r \in Seq(Task) /\ Len(r) = Len(q) + 1 /\ Len(q) \in Nat /\ r[Len(q) + 1] = t
      /\ \A i \in 1 .. Len(q) : r[i] = q[i]
  OBVIOUS
<1>2. \A n \in 0 .. Len(q) : After(m, r, n) = After(m, q, n)
  BY AfterAppend
<1> HIDE DEF r
<1>3. /\ Owed(m, r) \in Seq(Answer) /\ Len(Owed(m, r)) = Len(q) + 1
      /\ \A i \in 1 .. Len(q) + 1 :
           Owed(m, r)[i] = [task |-> r[i], data |-> After(m, r, i - 1)[LineOf(r[i].addr)]]
  BY <1>1, OwedIn
<1>4. /\ Owed(m, q) \in Seq(Answer) /\ Len(Owed(m, q)) = Len(q)
      /\ \A i \in 1 .. Len(q) :
           Owed(m, q)[i] = [task |-> q[i], data |-> After(m, q, i - 1)[LineOf(q[i].addr)]]
  BY OwedIn
<1>5. Owed(m, r)[Len(q) + 1] = a
  <2>1. (Len(q) + 1) - 1 = Len(q) /\ Len(q) + 1 \in 1 .. Len(q) + 1 /\ Len(q) \in 0 .. Len(q)
    BY <1>1
  <2> QED BY <1>1, <1>2, <1>3, <2>1
<1>6. ASSUME NEW i \in 1 .. Len(q) PROVE Owed(m, r)[i] = Owed(m, q)[i]
  <2>1. i - 1 \in 0 .. Len(q) /\ i \in 1 .. Len(q) + 1
    BY <1>1
  <2> QED BY <1>1, <1>2, <1>3, <1>4, <2>1
<1>7. a \in Answer
  <2> Len(q) + 1 \in 1 .. Len(q) + 1
    BY <1>1
  <2> HIDE DEF a
  <2> QED BY <1>3, <1>5
<1> HIDE DEF a
<1>8. /\ o \in Seq(Answer) /\ Len(o) = Len(q) + 1 /\ o[Len(q) + 1] = a
      /\ \A i \in 1 .. Len(q) : o[i] = Owed(m, q)[i]
  BY <1>4, <1>7
<1>9. \A i \in 1 .. Len(q) + 1 : Owed(m, r)[i] = o[i]
  <2>1. \A i \in 1 .. Len(q) + 1 : i \in 1 .. Len(q) \/ i = Len(q) + 1
    BY <1>1
  <2> QED BY <1>5, <1>6, <1>8, <2>1
<1> HIDE DEF o
<1>10. Owed(m, r) = o
  BY <1>3, <1>8, <1>9, SeqEqual
<1> QED BY <1>10 DEF o, r, a

LEMMA OwedTail ==
  ASSUME NEW m \in Memory, NEW q \in Seq(Task), q # <<>>
  PROVE  /\ Owed(m, q) # <<>>
         /\ Head(Owed(m, q)) = [task |-> Head(q), data |-> m[LineOf(Head(q).addr)]]
         /\ Owed(Done(Head(q), m), Tail(q)) = Tail(Owed(m, q))
<1> DEFINE t == Head(q)
           r == Tail(q)
           f == Done(t, m)
           o == Owed(m, q)
<1>1. /\ t \in Task /\ t = q[1] /\ r \in Seq(Task)
      /\ Len(q) \in Nat /\ Len(r) = Len(q) - 1 /\ Len(q) >= 1 /\ 1 \in 1 .. Len(q)
      /\ \A i \in 1 .. Len(r) : r[i] = q[i + 1]
  OBVIOUS
<1>2. \A n \in 0 .. Len(q) - 1 : After(f, r, n) = After(m, q, n + 1)
  BY AfterTail
<1> HIDE DEF t, r
<1>3. f \in Memory
  BY <1>1, DoneIs
<1> HIDE DEF f
<1>4. /\ o \in Seq(Answer) /\ Len(o) = Len(q)
      /\ \A i \in 1 .. Len(q) :
           o[i] = [task |-> q[i], data |-> After(m, q, i - 1)[LineOf(q[i].addr)]]
  BY OwedIn
<1>5. /\ Owed(f, r) \in Seq(Answer) /\ Len(Owed(f, r)) = Len(r)
      /\ \A i \in 1 .. Len(r) :
           Owed(f, r)[i] = [task |-> r[i], data |-> After(f, r, i - 1)[LineOf(r[i].addr)]]
  BY <1>1, <1>3, OwedIn
<1> HIDE DEF o
<1>6. /\ o # <<>> /\ Head(o) = o[1] /\ Tail(o) \in Seq(Answer) /\ Len(Tail(o)) = Len(q) - 1
      /\ \A i \in 1 .. Len(q) - 1 : Tail(o)[i] = o[i + 1]
  BY <1>1, <1>4
<1>7. Head(o) = [task |-> t, data |-> m[LineOf(t.addr)]]
  <2>1. After(m, q, 1 - 1) = m
    BY AfterNone
  <2> QED BY <1>1, <1>4, <1>6, <2>1
<1>8. \A i \in 1 .. Len(q) - 1 : Owed(f, r)[i] = Tail(o)[i]
  <2> SUFFICES ASSUME NEW i \in 1 .. Len(q) - 1 PROVE Owed(f, r)[i] = o[i + 1]
    BY <1>6
  <2>1. i - 1 \in 0 .. Len(q) - 1 /\ (i - 1) + 1 = i /\ (i + 1) - 1 = i /\ i + 1 \in 1 .. Len(q)
        /\ i \in 1 .. Len(r)
    BY <1>1
  <2>2. Owed(f, r)[i] = [task |-> r[i], data |-> After(f, r, i - 1)[LineOf(r[i].addr)]]
    BY <1>5, <2>1
  <2>3. After(f, r, i - 1) = After(m, q, i)
    BY <1>2, <2>1
  <2>4. o[i + 1] = [task |-> q[i + 1], data |-> After(m, q, i)[LineOf(q[i + 1].addr)]]
    BY <1>4, <2>1
  <2>5. r[i] = q[i + 1]
    BY <1>1, <2>1
  <2> QED BY <2>2, <2>3, <2>4, <2>5
<1>9. Owed(f, r) = Tail(o)
  BY <1>1, <1>5, <1>6, <1>8, SeqEqual
<1> QED BY <1>6, <1>7, <1>9 DEF o, f, t, r

-----------------------------------------------------------------------------
(* The tasks a test makes. *)

\* An access of any size, at any address, is within its doubleword.
LEMMA ParseIn ==
  ASSUME NEW n \in Width, NEW x \in Word
  PROVE  /\ Parse(n, x) \in LoadOp /\ Parse(n, x) # DISCARD /\ Parse(n, x).size = n
         /\ StrobeOf(Parse(n, x)) \in SUBSET Lane /\ StrobeOf(Parse(n, x)) # {}
<1> DEFINE low == AddrLow(x)
           sht == (low \div n) * n
<1>1. low \in 0 .. 7
  BY DEF AddrLow, Word
<1> HIDE DEF low
<1>2. sht \in 0 .. 7 /\ sht + n - 1 \in 0 .. 7
  <2>1. CASE n = 1
    BY <1>1, <2>1
  <2>2. CASE n = 2
    BY <1>1, <2>2
  <2>3. CASE n = 4
    BY <1>1, <2>3
  <2>4. CASE n = 8
    BY <1>1, <2>4
  <2> QED BY <2>1, <2>2, <2>3, <2>4 DEF Width
<1> HIDE DEF sht
<1>3. Parse(n, x) = [size |-> n, sht |-> sht]
  BY DEF Parse, sht, low
<1>4. n \in {1, 2, 4, 8}
  BY DEF Width
<1>5. Parse(n, x) \in LoadOp /\ Parse(n, x) # DISCARD /\ Parse(n, x).size = n
  BY <1>2, <1>3, <1>4 DEF LoadOp, Width, Lane, DISCARD
<1>6. StrobeOf(Parse(n, x)) = sht .. sht + n - 1
  BY <1>3 DEF StrobeOf
<1>7. \A i \in sht .. sht + n - 1 : i \in 0 .. 7
  BY <1>2, <1>4
<1>8. sht \in sht .. sht + n - 1
  BY <1>2, <1>4
<1> QED BY <1>5, <1>6, <1>7, <1>8 DEF Lane

LEMMA PlaceIn ==
  ASSUME NEW op \in LoadOp, NEW w \in BusData
  PROVE  Place(op, w) \in BusData
<1>1. ASSUME NEW l \in Lane PROVE (IF l < op.sht THEN 0 ELSE w[l - op.sht]) \in Byte
  <2>1. 0 \in Byte /\ op.sht \in 0 .. 7
    BY SizeAssumption DEF LoadOp, Lane
  <2>2. ASSUME ~(l < op.sht) PROVE l - op.sht \in Lane
    BY <2>1, <2>2 DEF Lane
  <2> QED BY <2>1, <2>2 DEF BusData
<1> QED BY <1>1 DEF Place, BusData

LEMMA ZeroIn == ZeroData \in BusData /\ DISCARD \in LoadOp
BY SizeAssumption DEF ZeroData, BusData, DISCARD, LoadOp, Lane

\* What await returns to its caller is right for any of these.
Awaitable(t) ==
  /\ t.strobe # {} \/ t.dest \in Dest
  /\ t.dest \in Dest => t.op.size = t.size

LEMMA TasksIn ==
  ASSUME NEW n \in Width, NEW x \in Word, NEW w \in BusData, NEW d \in Dest
  PROVE  /\ LoadTask(n, x, d) \in Task /\ Awaitable(LoadTask(n, x, d))
         /\ StoreTask(n, x, w) \in Task /\ Awaitable(StoreTask(n, x, w))
         /\ DiscardTask(n, x) \in Task /\ ExpectTask(n, x, w) \in Task
<1>1. Parse(n, x) \in LoadOp /\ Parse(n, x).size = n
      /\ StrobeOf(Parse(n, x)) \in SUBSET Lane /\ StrobeOf(Parse(n, x)) # {}
  BY ParseIn
<1>2. Parse(8, x) \in LoadOp
  BY ParseIn DEF Width
<1>3. Place(Parse(n, x), w) \in BusData
  BY <1>1, PlaceIn
<1>4. LoadTask(n, x, d) \in Task /\ Awaitable(LoadTask(n, x, d))
  BY <1>1, ZeroIn DEF LoadTask, Task, Awaitable
<1>5. StoreTask(n, x, w) \in Task /\ Awaitable(StoreTask(n, x, w))
  BY <1>1, <1>2, <1>3, DriverAssumption DEF StoreTask, Task, Awaitable
<1>6. DiscardTask(n, x) \in Task
  BY ZeroIn DEF DiscardTask, LoadTask, Task
<1>7. ExpectTask(n, x, w) \in Task
  BY <1>1, <1>3 DEF ExpectTask, Task
<1> QED BY <1>4, <1>5, <1>6, <1>7

-----------------------------------------------------------------------------
(* Types, and what one step is to the memory, whoever takes it. *)

MemoryInv ==
  /\ mem \in Memory
  /\ dests \in [Dest -> BusData]
  /\ ongoing \in Seq(Task)
  /\ call.task \in Task
  /\ call.op \in {"none", "await", "fence"}
  /\ call.op = "await" => Awaitable(call.task)

CellsInv ==
  /\ offset \in Nat
  /\ cells \in SUBSET Cell
  /\ script \in Seq(Step)

\* Variables of the test that are gone.
Forgets ==
  \E gone \in SUBSET Dest :
    dests' = [d \in Dest |-> IF d \in gone THEN ZeroData ELSE dests[d]]

Misaligned == failed = "no" /\ failed' = "unaligned"

MemoryStep ==
  \/ \E t \in Task : Awaitable(t) /\ Call(t) /\ ongoing = <<>> /\ UNCHANGED ongoing /\ Forgets
  \/ \E t \in Task : \E c :
       /\ IsCall(c) /\ c.op \in {"none", "fence"} /\ c.task \in Task
       /\ Submit(t, c) /\ Forgets
  \/ \E ok \in BOOLEAN : Tick(ok) \/ FenceTick(ok) \/ (Await(ok) /\ UNCHANGED ongoing)
  \/ CallFence
  \/ FenceReturn(AsRead)
  \/ FenceTimeout \/ (AwaitTimeout /\ UNCHANGED ongoing)
  \/ UNCHANGED <<req, mem, call, dests, ongoing>> /\ (UNCHANGED failed \/ Misaligned)

LEMMA NoTaskIn == NoCall.task \in Task /\ NoTask \in Task
<1>1. 0 \in Word /\ 8 \in Width
  BY SizeAssumption DEF Word, Width
<1>2. NoTask \in Task
  BY <1>1, ParseIn, ZeroIn DEF NoTask, LoadTask, Task
<1> QED BY <1>2 DEF NoCall

LEMMA KeepsNone == MemoryInv /\ UNCHANGED dests => Forgets
<1> SUFFICES ASSUME MemoryInv, UNCHANGED dests PROVE Forgets
  OBVIOUS
<1>1. dests' = [d \in Dest |-> IF d \in {} THEN ZeroData ELSE dests[d]]
  BY DEF MemoryInv
<1> USE DEF Forgets
<1> WITNESS {} \in SUBSET Dest
<1> QED BY <1>1

LEMMA LocalsGone == MemoryInv /\ dests' = OutOfScope => Forgets
<1> SUFFICES ASSUME MemoryInv, dests' = OutOfScope PROVE Forgets
  OBVIOUS
<1>1. U \in Dest /\ V \in Dest /\ dests \in [Dest -> BusData]
  BY CellAssumption DEF MemoryInv
<1> DEFINE f == [d \in Dest |-> IF d \in {U, V} THEN ZeroData ELSE dests[d]]
<1>2. \A d \in Dest : OutOfScope[d] = f[d]
  BY <1>1 DEF OutOfScope
<1>3. OutOfScope = f
  <2>1. OutOfScope = [d \in Dest |-> OutOfScope[d]]
    BY <1>1 DEF OutOfScope
  <2> QED BY <1>2, <2>1
<1> QED BY <1>1, <1>3 DEF Forgets

LEMMA CellIn ==
  ASSUME NEW c \in Cell
  PROVE  c.size \in Width /\ c.addr \in Word
BY DEF Cell

LEMMA NextIsMemoryStep == MemoryInv /\ CellsInv /\ [DriverNext]_vars => MemoryStep
<1> SUFFICES ASSUME MemoryInv, CellsInv, [DriverNext]_vars PROVE MemoryStep
  OBVIOUS
<1>1. CASE PipelineStep
  <2>1. ASSUME NEW k \in Accesses, PipelineCall(k) PROVE MemoryStep
    <3>1. k.size \in Width /\ k.addr \in Word /\ R \in Dest /\ Values \subseteq BusData
      BY CellAssumption
    <3>2. \E t \in Task : Submit(t, NoCall)
      <4>1. CASE Submit(LoadTask(k.size, k.addr, R), NoCall)
        BY <3>1, <4>1, ZeroIn, TasksIn
      <4>2. CASE Submit(DiscardTask(k.size, k.addr), NoCall)
        BY <3>1, <4>2, ZeroIn, TasksIn
      <4>3. ASSUME NEW w \in Values,
                   Submit(StoreTask(k.size, k.addr, w), NoCall)
                     \/ Submit(ExpectTask(k.size, k.addr, w), NoCall)
            PROVE  \E t \in Task : Submit(t, NoCall)
        BY <3>1, <4>3, TasksIn
      <4> QED BY <2>1, <4>1, <4>2, <4>3 DEF PipelineCall
    <3>3. Forgets
      BY <2>1, KeepsNone DEF PipelineCall
    <3> QED BY <3>2, <3>3, IsCalls, NoTaskIn DEF MemoryStep
  <2>2. CASE CallFence \/ \E ok \in BOOLEAN : Tick(ok) \/ FenceTick(ok)
    BY <2>2 DEF MemoryStep
  <2>3. CASE FenceReturn(AsRead) \/ FenceTimeout
    BY <2>3 DEF MemoryStep
  <2> QED BY <1>1, <2>1, <2>2, <2>3 DEF PipelineStep
<1>2. CASE DBusStep
  <2>1. ASSUME NEW k \in Accesses, DBusCall(k) PROVE MemoryStep
    <3>1. k.size \in Width /\ k.addr \in Word /\ R \in Dest /\ Values \subseteq BusData
      BY CellAssumption
    <3>2. \E t \in Task : Awaitable(t) /\ Call(t)
      <4>1. CASE Call(LoadTask(k.size, k.addr, R))
        BY <3>1, <4>1, ZeroIn, TasksIn
      <4>2. ASSUME NEW w \in Values, Call(StoreTask(k.size, k.addr, w))
            PROVE  \E t \in Task : Awaitable(t) /\ Call(t)
        BY <3>1, <4>2, TasksIn
      <4> QED BY <2>1, <4>1, <4>2 DEF DBusCall
    <3>3. Forgets /\ ongoing = <<>> /\ UNCHANGED ongoing
      BY <2>1, KeepsNone DEF DBusCall
    <3> QED BY <3>2, <3>3 DEF MemoryStep
  <2>2. CASE ((\E ok \in BOOLEAN : Await(ok)) \/ AwaitTimeout) /\ UNCHANGED ongoing
    BY <2>2 DEF MemoryStep
  <2> QED BY <1>2, <2>1, <2>2 DEF DBusStep
<1>3. CASE CellStep
  <2>1. CASE \E n \in Sizes : Allocate(n)
    <3>1. UNCHANGED <<req, mem, call, dests, ongoing>> /\ (UNCHANGED failed \/ Misaligned)
      BY <2>1 DEF Allocate, Free, Misaligned
    <3> QED BY <3>1 DEF MemoryStep
  <2>2. CASE FactoryReset \/ \E x, y \in cells, b \in BusOf : Swap(x, y, b) \/ Assign(x, y, b)
    <3>1. UNCHANGED <<req, mem, call, dests, ongoing, failed>>
      BY <2>2 DEF FactoryReset, Swap, Assign, Begin, pipelineVars, dbusVars
    <3> QED BY <3>1 DEF MemoryStep
  <2>3. ASSUME NEW x \in cells, NEW y \in cells, NEW b \in BusOf, NEW w \in Values, Put(x, w, b)
        PROVE  MemoryStep
    <3> DEFINE t == StoreTask(x.size, x.addr, w)
    <3>1. x.size \in Width /\ x.addr \in Word /\ R \in Dest /\ w \in BusData
      BY CellAssumption, CellIn DEF CellsInv
    <3>2. t \in Task /\ Awaitable(t)
      BY <3>1, TasksIn
    <3>3. Forgets
      BY <2>3, KeepsNone DEF Put
    <3>4. (ongoing = <<>> /\ Call(t) /\ UNCHANGED ongoing) \/ Submit(t, NoCall)
      BY <2>3 DEF Put
    <3> HIDE DEF t
    <3> QED BY <3>2, <3>3, <3>4, IsCalls, NoTaskIn DEF MemoryStep
  <2>4. CASE CellAccess
    <3> DEFINE s == Head(script)
               t == IF s.get THEN LoadTask(s.cell.size, s.cell.addr, s.reg)
                             ELSE StoreTask(s.cell.size, s.cell.addr, dests[s.reg])
               c == IF s.get THEN Called("fence", t) ELSE NoCall
    <3>1. /\ (ongoing = <<>> /\ Call(t) /\ UNCHANGED ongoing) \/ Submit(t, c)
          /\ dests' \in {dests, OutOfScope}
          /\ script # <<>>
      BY <2>4 DEF CellAccess
    <3>2. s \in Step
      BY <3>1 DEF CellsInv
    <3>3. /\ s.cell.size \in Width /\ s.cell.addr \in Word /\ s.reg \in Dest
          /\ dests[s.reg] \in BusData
      BY <3>2, CellIn DEF Step, MemoryInv
    <3> HIDE DEF s
    <3>4. t \in Task /\ Awaitable(t)
      BY <3>3, TasksIn
    <3> HIDE DEF t
    <3>5. IsCall(c) /\ c.op \in {"none", "fence"} /\ c.task \in Task
      BY <3>4, IsCalls, NoTaskIn
    <3>6. Forgets
      BY <3>1, KeepsNone, LocalsGone
    <3> HIDE DEF c
    <3> QED BY <3>1, <3>4, <3>5, <3>6 DEF MemoryStep
  <2> QED BY <1>3, <2>1, <2>2, <2>3, <2>4 DEF CellStep
<1>4. CASE UNCHANGED vars
  BY <1>4 DEF vars, pipelineVars, dbusVars, MemoryStep
<1> QED BY <1>1, <1>2, <1>3, <1>4 DEF DriverNext

LEMMA CellsInvInit == DriverInit => CellsInv
BY DEF DriverInit, CellsInv

LEMMA StepsIn ==
  ASSUME NEW x \in Cell, NEW y \in Cell, NEW b \in {"DBus", "DBusPipeline"}
  PROVE  SwapScript(x, y, b) \in Seq(Step) /\ AssignScript(x, y, b) \in Seq(Step)
<1>1. \A z \in Cell, r \in Dest : Get(z, r, b) \in Step /\ Set(z, r, b) \in Step
  BY DEF Get, Set, Step
<1>2. U \in Dest /\ V \in Dest
  BY CellAssumption
<1>3. /\ Get(x, U, b) \in Step /\ Get(y, V, b) \in Step /\ Get(y, U, b) \in Step
      /\ Set(x, V, b) \in Step /\ Set(x, U, b) \in Step /\ Set(y, U, b) \in Step
  BY <1>1, <1>2
<1> QED BY <1>3 DEF SwapScript, AssignScript

LEMMA CellsInvNext == CellsInv /\ [DriverNext]_vars => CellsInv'
<1> SUFFICES ASSUME CellsInv, [DriverNext]_vars PROVE CellsInv'
  OBVIOUS
<1> USE DEF CellsInv
<1>1. ASSUME NEW n \in Sizes, Allocate(n) PROVE CellsInv'
  <2>1. n \in Width /\ n \in Nat \ {0} /\ ArenaSize \in 0 .. WordCount /\ WordCount \in Nat
    BY CellAssumption, SizeAssumption DEF Width
  <2>2. /\ offset' = offset + n /\ offset + n <= ArenaSize /\ UNCHANGED script
        /\ cells' \in {cells, cells \cup {[addr |-> offset, size |-> n]}}
    BY <1>1 DEF Allocate, OffsetAfter
  <2>3. offset \in Word
    BY <2>1, <2>2 DEF Word
  <2>4. [addr |-> offset, size |-> n] \in Cell
    BY <2>1, <2>3 DEF Cell
  <2> QED BY <2>1, <2>2, <2>4
<1>2. CASE FactoryReset
  BY <1>2 DEF FactoryReset
<1>3. ASSUME NEW x \in cells, NEW y \in cells, NEW b \in BusOf, Swap(x, y, b) \/ Assign(x, y, b)
      PROVE  CellsInv'
  <2>1. x \in Cell /\ y \in Cell /\ b \in {"DBus", "DBusPipeline"}
    BY DEF BusOf
  <2>2. script' \in {SwapScript(x, y, b), AssignScript(x, y, b)} /\ UNCHANGED <<offset, cells>>
    BY <1>3 DEF Swap, Assign, Begin
  <2> QED BY <2>1, <2>2, StepsIn
<1>4. CASE CellAccess
  BY <1>4 DEF CellAccess
<1>5. CASE UNCHANGED <<offset, cells, script>>
  BY <1>5
<1>6. \/ \E n \in Sizes : Allocate(n)
      \/ FactoryReset
      \/ \E x, y \in cells, b \in BusOf : Swap(x, y, b) \/ Assign(x, y, b)
      \/ CellAccess
      \/ UNCHANGED <<offset, cells, script>>
  BY DEF DriverNext, CellStep, Put, cellVars, vars
<1> QED BY <1>1, <1>2, <1>3, <1>4, <1>5, <1>6

-----------------------------------------------------------------------------
(* How the memory the test sees follows: one task put on the queue of what *)
(* is unanswered, or the first of it done and taken off.                    *)

AsksStep(t) ==
  /\ Unanswered' = Append(Unanswered, t)
  /\ mem' = mem

DeliversStep ==
  /\ Unanswered # <<>>
  /\ Unanswered' = Tail(Unanswered)
  /\ mem' = Done(Head(Unanswered), mem)

LEMMA UnansweredIn ==
  ASSUME MemoryInv
  PROVE  Unanswered \in Seq(Task)
BY DEF MemoryInv, Unanswered

\* ProgramMem and OwedAnswers, of this state and of the next.
LEMMA SeenIs ==
  /\ ProgramMem = After(mem, Unanswered, Len(Unanswered))
  /\ OwedAnswers = Owed(mem, Unanswered)
  /\ ProgramMem' = After(mem', Unanswered', Len(Unanswered'))
  /\ OwedAnswers' = Owed(mem', Unanswered')
BY DEF ProgramMem, OwedAnswers, Owed

LEMMA AsksSeen ==
  ASSUME MemoryInv, NEW t \in Task, AsksStep(t)
  PROVE  /\ ProgramMem' = Done(t, ProgramMem)
         /\ OwedAnswers' = Append(OwedAnswers, [task |-> t, data |-> ProgramMem[LineOf(t.addr)]])
         /\ OwedAnswers \in Seq(Answer)
         /\ [task |-> t, data |-> ProgramMem[LineOf(t.addr)]] \in Answer
<1> DEFINE q == Unanswered
<1>1. q \in Seq(Task) /\ mem \in Memory /\ Len(q) \in Nat /\ Len(q) \in 0 .. Len(q)
  BY UnansweredIn DEF MemoryInv
<1>2. Unanswered' = Append(q, t) /\ mem' = mem
  BY DEF AsksStep
<1> HIDE DEF q
<1>3. Len(Append(q, t)) = Len(q) + 1
  BY <1>1
<1>4. ProgramMem = After(mem, q, Len(q)) /\ OwedAnswers = Owed(mem, q)
  BY SeenIs DEF q
<1>5. ProgramMem' = After(mem, Append(q, t), Len(q) + 1) /\ OwedAnswers' = Owed(mem, Append(q, t))
  BY <1>2, <1>3, SeenIs
<1>6. ProgramMem' = Done(t, ProgramMem)
  BY <1>1, <1>4, <1>5, AfterAppend
<1>7. OwedAnswers' = Append(OwedAnswers, [task |-> t, data |-> ProgramMem[LineOf(t.addr)]])
  BY <1>1, <1>4, <1>5, OwedAppend
<1>8. ProgramMem \in Memory
  BY <1>1, <1>4, AfterIn
<1>9. LineOf(t.addr) \in Line
  BY LineOfIn DEF Task
<1>10. ProgramMem[LineOf(t.addr)] \in BusData
  BY <1>8, <1>9 DEF Memory
<1>11. OwedAnswers \in Seq(Answer)
  BY <1>1, <1>4, OwedIn
<1> QED BY <1>6, <1>7, <1>10, <1>11 DEF Answer

LEMMA DeliversSeen ==
  ASSUME MemoryInv, DeliversStep
  PROVE  /\ ProgramMem' = ProgramMem
         /\ OwedAnswers # <<>> /\ OwedAnswers' = Tail(OwedAnswers)
         /\ Head(Unanswered) \in Task
         /\ Head(OwedAnswers) =
              [task |-> Head(Unanswered), data |-> mem[LineOf(Head(Unanswered).addr)]]
<1> DEFINE q == Unanswered
<1>1. q \in Seq(Task) /\ mem \in Memory
  BY UnansweredIn DEF MemoryInv
<1>2. q # <<>> /\ Unanswered' = Tail(q) /\ mem' = Done(Head(q), mem)
  BY DEF DeliversStep
<1>3. ProgramMem = After(mem, q, Len(q)) /\ OwedAnswers = Owed(mem, q)
  BY SeenIs DEF q
<1> HIDE DEF q
<1>4. Len(Tail(q)) = Len(q) - 1 /\ Len(q) \in Nat /\ Len(q) >= 1 /\ Head(q) \in Task
  BY <1>1, <1>2
<1>5. /\ ProgramMem' = After(Done(Head(q), mem), Tail(q), Len(q) - 1)
      /\ OwedAnswers' = Owed(Done(Head(q), mem), Tail(q))
  BY <1>2, <1>4, SeenIs
<1>6. ProgramMem' = ProgramMem
  <2>1. Len(q) - 1 \in 0 .. Len(q) - 1 /\ (Len(q) - 1) + 1 = Len(q)
    BY <1>4
  <2>2. After(Done(Head(q), mem), Tail(q), Len(q) - 1) = After(mem, q, (Len(q) - 1) + 1)
    BY <1>1, <1>2, <2>1, AfterTail
  <2> QED BY <1>3, <1>5, <2>1, <2>2
<1> QED BY <1>1, <1>2, <1>3, <1>4, <1>5, <1>6, OwedTail DEF q

LEMMA SameSeen ==
  ASSUME UNCHANGED <<mem, Unanswered>>
  PROVE  UNCHANGED <<ProgramMem, OwedAnswers>>
BY SeenIs

\* A cycle of the pipeline: nothing happens, or the first access is answered.
LEMMA TickSeen ==
  ASSUME MemoryInv, QueueInv, call.op # "await", failed = "no",
         NEW ok \in BOOLEAN, TickDriver(ok), call'.op = call.op
  PROVE  \/ UNCHANGED <<mem, Unanswered, dests, failed, ongoing>>
         \/ DeliversStep /\ Answered(Head(Unanswered)) /\ ongoing' = Tail(ongoing)
            /\ ongoing # <<>> /\ Rdata = mem[LineOf(Head(Unanswered).addr)]
<1>1. Unanswered = ongoing /\ Unanswered' = ongoing'
  BY DEF Unanswered
<1>2. CASE Taken(ok)
  <2>1. ok /\ req.valid /\ ongoing # <<>> /\ req = Issue(Head(ongoing))
    BY <1>2 DEF Taken, Busy, QueueInv, QueueOnBus
  <2>2. Answered(Head(ongoing)) /\ ongoing' = Tail(ongoing)
    BY <1>2, <2>1 DEF TickDriver, TakeAnswer
  <2>3. mem' = Done(Head(ongoing), mem)
    BY <2>1 DEF TickDriver, Clock, Issue, Done
  <2>4. Rdata = mem[LineOf(Head(ongoing).addr)]
    BY <2>1 DEF Rdata, Issue
  <2> QED BY <1>1, <2>1, <2>2, <2>3, <2>4 DEF DeliversStep
<1>3. CASE ~Taken(ok)
  <2>1. mem' = mem
    BY <1>3 DEF TickDriver, Clock, Taken, Busy
  <2> QED BY <1>1, <1>3, <2>1 DEF TickDriver, NoAnswer
<1> QED BY <1>2, <1>3

\* A cycle of await.
LEMMA AwaitSeen ==
  ASSUME MemoryInv, QueueInv, NEW ok \in BOOLEAN, Await(ok), UNCHANGED ongoing
  PROVE  \/ UNCHANGED <<mem, Unanswered, dests, failed>> /\ call'.op = "await" /\ call' = Waited
         \/ /\ DeliversStep /\ Return /\ Unanswered = <<call.task>>
            /\ Rdata = mem[LineOf(call.task.addr)]
<1>1. call.op = "await" /\ ongoing = <<>> /\ req = Issue(call.task) /\ req.valid
  BY IssueValid DEF Await, QueueInv, QueueOnBus
<1>2. Unanswered = <<call.task>>
  BY <1>1 DEF Unanswered
<1>3. CASE ok /\ Return
  <2>1. mem' = Done(call.task, mem)
    BY <1>1, <1>3 DEF Await, Clock, Issue, Done
  <2>2. Unanswered' = <<>>
    BY <1>1, <1>3, IsCalls DEF Return, Unanswered
  <2>3. Tail(<<call.task>>) = <<>> /\ Head(<<call.task>>) = call.task /\ <<call.task>> # <<>>
    OBVIOUS
  <2>4. Rdata = mem[LineOf(call.task.addr)]
    BY <1>1 DEF Rdata, Issue
  <2> QED BY <1>2, <1>3, <2>1, <2>2, <2>3, <2>4 DEF DeliversStep
<1>4. CASE ~ok /\ call' = Waited /\ UNCHANGED <<dests, failed>>
  <2>1. mem' = mem
    BY <1>4 DEF Await, Clock
  <2>2. call'.op = call.op /\ call'.task = call.task
    BY <1>4 DEF Waited, QueueInv, IsCall
  <2>3. Unanswered' = Unanswered
    BY <1>1, <2>2 DEF Unanswered
  <2> QED BY <1>1, <1>4, <2>1, <2>2, <2>3
<1> QED BY <1>3, <1>4 DEF Await

-----------------------------------------------------------------------------
LEMMA ValuesIn ==
  ASSUME NEW op \in LoadOp, NEW data \in BusData, NEW old \in BusData, NEW n
  PROVE  /\ Apply(op, data) \in BusData
         /\ ApplyTo(op, data, old) \in BusData
         /\ Truncate(n, data) \in BusData
<1>1. Apply(op, data) \in BusData
  <2>1. ASSUME NEW l \in Lane
        PROVE  (IF op # DISCARD /\ l + op.sht \in Lane THEN data[l + op.sht] ELSE 0) \in Byte
    BY SizeAssumption DEF BusData
  <2> QED BY <2>1 DEF Apply, BusData
<1>2. ApplyTo(op, data, old) \in BusData
  BY <1>1 DEF ApplyTo, BusData
<1>3. Truncate(n, data) \in BusData
  BY SizeAssumption DEF Truncate, BusData
<1> QED BY <1>1, <1>2, <1>3

LEMMA MemoryInvInit == DriverInit => MemoryInv
<1> SUFFICES ASSUME DriverInit PROVE MemoryInv
  OBVIOUS
<1>1. Ones \in BusData
  BY CellAssumption DEF Ones, BusData
<1>2. mem \in Memory
  BY <1>1 DEF DriverInit, Memory
<1>3. dests \in [Dest -> BusData]
  BY ZeroIn DEF DriverInit
<1>4. call = NoCall /\ ongoing = <<>>
  BY DEF DriverInit
<1>5. ongoing \in Seq(Task)
  BY <1>4
<1> QED BY <1>2, <1>3, <1>4, <1>5, IsCalls, NoTaskIn DEF MemoryInv

\* An answer leaves the destinations and the memory values of their types.
LEMMA DeliversIn ==
  ASSUME MemoryInv, DeliversStep, Head(Unanswered) \in Task,
         Rdata = mem[LineOf(Head(Unanswered).addr)],
         \/ Answered(Head(Unanswered))
         \/ Return /\ Head(Unanswered) = call.task
  PROVE  mem' \in Memory /\ dests' \in [Dest -> BusData]
<1> DEFINE t == Head(Unanswered)
<1>1. t \in Task /\ mem' = Done(t, mem) /\ mem \in Memory /\ dests \in [Dest -> BusData]
  BY DEF DeliversStep, MemoryInv
<1>2. Rdata = mem[LineOf(t.addr)]
  OBVIOUS
<1>3. Answered(t) \/ (Return /\ t = call.task)
  OBVIOUS
<1> HIDE DEF t
<1>4. mem' \in Memory
  BY <1>1, DoneIs
<1>5. t.op \in LoadOp /\ t.addr \in Word
  BY <1>1 DEF Task
<1>6. Rdata \in BusData
  BY <1>1, <1>2, <1>5, LineOfIn DEF Memory
<1>7. CASE Answered(t)
  <2>1. CASE t.dest \in Dest
    <3>1. dests' = [dests EXCEPT ![t.dest] = ApplyTo(t.op, Rdata, dests[t.dest])]
      BY <1>7, <2>1 DEF Answered
    <3>2. dests[t.dest] \in BusData
      BY <1>1, <2>1
    <3>3. ApplyTo(t.op, Rdata, dests[t.dest]) \in BusData
      BY <1>5, <1>6, <3>2, ValuesIn
    <3> QED BY <1>1, <1>4, <3>1, <3>3
  <2>2. CASE t.dest \notin Dest
    BY <1>1, <1>4, <1>7, <2>2 DEF Answered
  <2> QED BY <2>1, <2>2
<1>8. CASE Return /\ t = call.task
  <2>1. Apply(t.op, Rdata) \in BusData
    BY <1>5, <1>6, ValuesIn
  <2>2. Loaded \in BusData
    BY <1>5, <1>8, <2>1, ValuesIn DEF Loaded
  <2>3. dests' \in {dests, [dests EXCEPT ![call.task.dest] = Loaded]}
    BY <1>8 DEF Return
  <2> QED BY <1>1, <1>4, <2>2, <2>3
<1> QED BY <1>3, <1>7, <1>8

LEMMA HeadIn ==
  ASSUME MemoryInv, Unanswered # <<>>
  PROVE  Head(Unanswered) \in Task
BY UnansweredIn

LEMMA AsReadIn ==
  ASSUME MemoryInv
  PROVE  /\ AsRead \in [Dest -> BusData]
         /\ \/ AsRead = dests
            \/ \E d \in Dest, n \in {1, 2, 4} : AsRead = [dests EXCEPT ![d] = Truncate(n, @)]
<1> DEFINE t == call.task
           n == IF t.size < 4 THEN t.size ELSE 4
<1>1. n \in {1, 2, 4}
  BY DEF MemoryInv, Task, Width
<1>2. dests \in [Dest -> BusData]
  BY DEF MemoryInv
<1>3. CASE t.dest \notin Dest
  BY <1>2, <1>3 DEF AsRead
<1>4. CASE t.dest \in Dest
  <2>1. AsRead = [dests EXCEPT ![t.dest] = Truncate(n, dests[t.dest])]
    BY <1>4 DEF AsRead
  <2> HIDE DEF n
  <2>2. dests[t.dest] \in BusData
    BY <1>2, <1>4
  <2>3. Truncate(n, dests[t.dest]) \in BusData
    BY <2>2, SizeAssumption DEF Truncate, BusData
  <2>4. AsRead \in [Dest -> BusData]
    BY <1>2, <2>1, <2>3
  <2>5. \E d \in Dest, k \in {1, 2, 4} : AsRead = [dests EXCEPT ![d] = Truncate(k, @)]
    BY <1>1, <1>4, <2>1
  <2> QED BY <2>4, <2>5
<1> QED BY <1>3, <1>4

LEMMA MemoryInvNext ==
  ASSUME MemoryInv, QueueInv, MemoryStep
  PROVE  MemoryInv'
<1> USE DEF MemoryInv
<1>1. ASSUME NEW t \in Task, Awaitable(t), Call(t), UNCHANGED ongoing, Forgets
      PROVE  MemoryInv'
  <2>1. dests' \in [Dest -> BusData]
    BY <1>1, ZeroIn DEF Forgets
  <2>2. call'.op = "await" /\ call'.task = t /\ mem' = mem
    BY <1>1, IsCalls DEF Call
  <2>3. Awaitable(call'.task)
    BY <1>1, <2>2
  <2>4. call'.op = "await" => Awaitable(call.task)'
    BY <2>3 DEF Awaitable
  <2> QED BY <1>1, <2>1, <2>2, <2>4
<1>2. ASSUME NEW t \in Task, NEW c, c.op \in {"none", "fence"}, c.task \in Task,
             Submit(t, c), Forgets
      PROVE  MemoryInv'
  <2>1. dests' \in [Dest -> BusData]
    BY <1>2, ZeroIn DEF Forgets
  <2>2. call' = c /\ mem' = mem /\ ongoing' \in Seq(Task)
    BY <1>2 DEF Submit
  <2> QED BY <1>2, <2>1, <2>2
<1>3. ASSUME NEW ok \in BOOLEAN, Tick(ok) \/ FenceTick(ok)
      PROVE  MemoryInv'
  <2>1. call.op \in {"none", "fence"} /\ failed = "no" /\ TickDriver(ok)
    BY <1>3 DEF Tick, FenceTick, Free
  <2>2. call'.op = call.op /\ call'.task = call.task
    BY <1>3 DEF Tick, FenceTick, Waited, QueueInv, IsCall
  <2>3. CASE UNCHANGED <<mem, dests, ongoing>>
    BY <2>1, <2>2, <2>3
  <2>4. CASE /\ DeliversStep /\ Answered(Head(Unanswered)) /\ ongoing' = Tail(ongoing)
             /\ ongoing # <<>> /\ Rdata = mem[LineOf(Head(Unanswered).addr)]
    <3>1. mem' \in Memory /\ dests' \in [Dest -> BusData]
      BY <2>4, DeliversIn, HeadIn DEF DeliversStep
    <3>2. ongoing' \in Seq(Task)
      BY <2>4
    <3> QED BY <2>1, <2>2, <3>1, <3>2
  <2> QED BY <2>1, <2>2, <2>3, <2>4, TickSeen
<1>4. ASSUME NEW ok \in BOOLEAN, Await(ok), UNCHANGED ongoing
      PROVE  MemoryInv'
  <2>1. CASE UNCHANGED <<mem, dests>> /\ call'.op = "await" /\ call' = Waited
    <3>1. call'.task = call.task /\ call.op = "await"
      BY <1>4, <2>1 DEF Waited, QueueInv, IsCall, Await
    <3> QED BY <1>4, <2>1, <3>1 DEF Awaitable
  <2>2. CASE DeliversStep /\ Return /\ Unanswered = <<call.task>>
             /\ Rdata = mem[LineOf(call.task.addr)]
    <3>1. Head(Unanswered) = call.task
      BY <2>2
    <3>2. mem' \in Memory /\ dests' \in [Dest -> BusData]
      BY <2>2, <3>1, DeliversIn
    <3>3. call'.op = "none" /\ call'.task \in Task
      BY <2>2, IsCalls, NoTaskIn DEF Return
    <3> QED BY <1>4, <3>2, <3>3
  <2> QED BY <1>4, <2>1, <2>2, AwaitSeen
<1>5. CASE CallFence
  BY <1>5, IsCalls, NoTaskIn DEF CallFence
<1>6. CASE FenceReturn(AsRead)
  BY <1>6, IsCalls, NoTaskIn, AsReadIn DEF FenceReturn
<1>7. CASE UNCHANGED <<mem, call, dests, ongoing>>
  BY <1>7 DEF Awaitable
<1> QED BY <1>1, <1>2, <1>3, <1>4, <1>5, <1>6, <1>7 DEF MemoryStep, FenceTimeout, AwaitTimeout

-----------------------------------------------------------------------------
(* Every step of the drivers is a step of the memory, or none. *)

\* The two specifications mean the same by the words they share.
LEMMA SameWords ==
  /\ Sequential!Task = Task /\ Sequential!ZeroData = ZeroData
  /\ \A x : Sequential!LineOf(x) = LineOf(x)
  /\ \A x : Sequential!StrobeOf(x) = StrobeOf(x)
  /\ \A x, y : Sequential!Apply(x, y) = Apply(x, y)
  /\ \A x, y : Sequential!Truncate(x, y) = Truncate(x, y)
  /\ \A x, y, z : Sequential!ApplyTo(x, y, z) = ApplyTo(x, y, z)
  /\ \A x, y, z : Sequential!Strobed(x, y, z) = Strobed(x, y, z)
<1> USE DEF Lane, Sequential!Lane, Width, Sequential!Width
<1>1. \A x, y : Sequential!Apply(x, y) = Apply(x, y)
  BY DEF Apply, Sequential!Apply, DISCARD, Sequential!DISCARD
<1>2. Sequential!Task = Task
  BY DEF Task, Sequential!Task, Word, Sequential!Word, BusData, Sequential!BusData,
         LoadOp, Sequential!LoadOp
<1>3. Sequential!ZeroData = ZeroData
  BY DEF ZeroData, Sequential!ZeroData
<1>4. \A x : Sequential!LineOf(x) = LineOf(x)
  BY DEF LineOf, Sequential!LineOf
<1>5. \A x : Sequential!StrobeOf(x) = StrobeOf(x)
  BY DEF StrobeOf, Sequential!StrobeOf
<1>6. \A x, y : Sequential!Truncate(x, y) = Truncate(x, y)
  BY DEF Truncate, Sequential!Truncate
<1>7. \A x, y, z : Sequential!ApplyTo(x, y, z) = ApplyTo(x, y, z)
  BY <1>1 DEF ApplyTo, Sequential!ApplyTo
<1>8. \A x, y, z : Sequential!Strobed(x, y, z) = Strobed(x, y, z)
  BY DEF Strobed, Sequential!Strobed
<1> QED BY <1>1, <1>2, <1>3, <1>4, <1>5, <1>6, <1>7, <1>8

LEMMA AskSeen ==
  ASSUME MemoryInv, NEW t \in Task, AsksStep(t), Forgets,
         call.op = "none", failed = "no", UNCHANGED failed,
         call'.op \in {"none", "await", "fence"}
  PROVE  Sequential!Next
<1> DEFINE a == [task |-> t, data |-> ProgramMem[LineOf(t.addr)]]
<1>1. /\ ProgramMem' = Done(t, ProgramMem)
      /\ OwedAnswers' = Append(OwedAnswers, a)
      /\ OwedAnswers \in Seq(Answer) /\ a \in Answer
  BY AsksSeen
<1>2. a.task = t /\ a = Sequential!AnswerTo(t, ProgramMem)
  BY SameWords DEF Sequential!AnswerTo
<1>3. Done(t, ProgramMem) = Sequential!Effect(t, ProgramMem)
  BY SameWords DEF Done, Sequential!Effect
<1> HIDE DEF a
<1>4. /\ Len(OwedAnswers') = Len(OwedAnswers) + 1
      /\ Sequential!Last(OwedAnswers') = a
  <2>1. Len(Append(OwedAnswers, a)) = Len(OwedAnswers) + 1
    BY <1>1
  <2>2. Append(OwedAnswers, a)[Len(OwedAnswers) + 1] = a
    BY <1>1
  <2> QED BY <1>1, <2>1, <2>2 DEF Sequential!Last
<1>5. t \in Sequential!Task
  BY SameWords
<1>6. Sequential!Ask
  BY <1>1, <1>2, <1>3, <1>4, <1>5, SameWords DEF Sequential!Ask, Forgets
<1> QED BY <1>6 DEF Sequential!Next

LEMMA DeliverSeen ==
  ASSUME MemoryInv, DeliversStep, failed = "no",
         LET t == Head(Unanswered)
             d == mem[LineOf(t.addr)]
         IN  /\ dests' = IF t.dest \in Dest
                         THEN [dests EXCEPT ![t.dest] =
                                 IF call.op = "await" THEN Truncate(t.op.size, Apply(t.op, d))
                                                      ELSE ApplyTo(t.op, d, @)]
                         ELSE dests
             /\ failed' = IF t.dest \notin Dest /\ IsLoad(t) /\ ~AsExpected(t, d)
                          THEN "unexpected data" ELSE failed,
         call'.op = IF call.op = "await" THEN "none" ELSE call.op
  PROVE  Sequential!Next
<1> DEFINE t == Head(Unanswered)
           d == mem[LineOf(t.addr)]
           a == [task |-> t, data |-> d]
<1>1. /\ ProgramMem' = ProgramMem
      /\ OwedAnswers # <<>> /\ OwedAnswers' = Tail(OwedAnswers)
      /\ t \in Task /\ Head(OwedAnswers) = a
  BY DeliversSeen
<1>2. dests' = IF t.dest \in Dest
               THEN [dests EXCEPT ![t.dest] = Sequential!Left(a, @)] ELSE dests
  BY SameWords DEF Sequential!Left
<1>3. t.dest \in Dest \cup {NullPtr} /\ NullPtr \notin Dest
  BY <1>1, DriverAssumption DEF Task
<1>4. failed' = IF Sequential!AsExpected(a) THEN failed ELSE "unexpected data"
  BY <1>3, SameWords DEF Sequential!AsExpected, IsLoad, AsExpected
<1>5. Sequential!Deliver
  <2>1. failed' \in {"no", "unexpected data"}
    BY <1>4
  <2>2. a.task = t
    OBVIOUS
  <2> HIDE DEF t, d, a
  <2> QED BY <1>1, <1>2, <1>4, <2>1, <2>2 DEF Sequential!Deliver
<1> QED BY <1>5 DEF Sequential!Next

LEMMA StepIsSeen ==
  ASSUME MemoryInv, QueueInv, CompareInv, MemoryStep
  PROVE  [Sequential!Next]_(Sequential!memoryVars)
<1>1. ASSUME NEW t \in Task, Call(t), ongoing = <<>>, UNCHANGED ongoing, Forgets
      PROVE  Sequential!Next
  <2>1. call.op = "none" /\ failed = "no" /\ UNCHANGED <<mem, failed>> /\ call' = Called("await", t)
    BY <1>1 DEF Call, Free
  <2>2. call'.op = "await" /\ call'.task = t
    BY <2>1, IsCalls
  <2>3. Unanswered = <<>> /\ Unanswered' = <<t>>
    BY <1>1, <2>1, <2>2 DEF Unanswered
  <2>4. <<t>> = Append(<<>>, t)
    OBVIOUS
  <2>5. AsksStep(t)
    BY <2>1, <2>3, <2>4 DEF AsksStep
  <2> QED BY <1>1, <2>1, <2>2, <2>5, AskSeen
<1>2. ASSUME NEW t \in Task, NEW c, c.op \in {"none", "fence"}, Submit(t, c), Forgets
      PROVE  Sequential!Next
  <2>1. /\ call.op = "none" /\ failed = "no" /\ UNCHANGED <<mem, failed>> /\ call' = c
        /\ ongoing' = Append(ongoing, t)
    BY <1>2 DEF Submit, Free
  <2>2. AsksStep(t)
    BY <1>2, <2>1 DEF AsksStep, Unanswered
  <2> QED BY <1>2, <2>1, <2>2, AskSeen
<1>3. ASSUME NEW ok \in BOOLEAN, Tick(ok) \/ FenceTick(ok)
      PROVE  [Sequential!Next]_(Sequential!memoryVars)
  <2>1. call.op \in {"none", "fence"} /\ failed = "no" /\ TickDriver(ok)
    BY <1>3 DEF Tick, FenceTick, Free
  <2>2. call'.op = call.op
    BY <1>3 DEF Tick, FenceTick, Waited, QueueInv, IsCall
  <2>3. CASE UNCHANGED <<mem, Unanswered, dests, failed>>
    BY <2>2, <2>3, SameSeen DEF Sequential!memoryVars
  <2>4. CASE DeliversStep /\ Answered(Head(Unanswered))
             /\ Rdata = mem[LineOf(Head(Unanswered).addr)]
    <3>1. Sequential!Next
      BY <2>1, <2>2, <2>4, DeliverSeen DEF Answered
    <3> QED BY <3>1
  <2> QED BY <2>1, <2>2, <2>3, <2>4, TickSeen
<1>4. ASSUME NEW ok \in BOOLEAN, Await(ok), UNCHANGED ongoing
      PROVE  [Sequential!Next]_(Sequential!memoryVars)
  <2>1. call.op = "await" /\ failed = "no"
    BY <1>4 DEF Await
  <2>2. CASE UNCHANGED <<mem, Unanswered, dests, failed>> /\ call'.op = "await"
    BY <2>1, <2>2, SameSeen DEF Sequential!memoryVars
  <2>3. CASE /\ DeliversStep /\ Return /\ Unanswered = <<call.task>>
             /\ Rdata = mem[LineOf(call.task.addr)]
    <3> DEFINE t == call.task
    <3>1. Head(Unanswered) = t
      BY <2>3
    <3>2. Awaitable(t)
      BY <2>1 DEF MemoryInv
    <3>3. t.dest \in Dest => Loaded = Truncate(t.op.size, Apply(t.op, Rdata))
      BY <3>2 DEF Awaitable, Loaded
    <3>4. failed' = failed
      BY <2>3 DEF Return, CompareInv
    <3>5. ~(t.dest \notin Dest /\ IsLoad(t))
      BY <3>2 DEF Awaitable, IsLoad
    <3>6. call'.op = "none"
      BY <2>3, IsCalls DEF Return
    <3>7. dests' = IF t.dest \in Dest THEN [dests EXCEPT ![t.dest] = Loaded] ELSE dests
      BY <2>3 DEF Return
    <3>8. Sequential!Next
      BY <2>1, <2>3, <3>1, <3>3, <3>4, <3>5, <3>6, <3>7, DeliverSeen
    <3> QED BY <3>8
  <2> QED BY <1>4, <2>2, <2>3, AwaitSeen
<1>5. CASE CallFence
  <2>1. /\ call.op = "none" /\ failed = "no" /\ UNCHANGED <<mem, dests, failed, ongoing>>
        /\ call'.op = "fence"
    BY <1>5, IsCalls DEF CallFence, Free
  <2>2. UNCHANGED <<mem, Unanswered>>
    BY <2>1 DEF Unanswered
  <2>3. Sequential!CallFence
    BY <2>1, <2>2, SameSeen DEF Sequential!CallFence
  <2> QED BY <2>1, <2>3 DEF Sequential!Next
<1>6. CASE FenceReturn(AsRead)
  <2>1. /\ call.op = "fence" /\ failed = "no" /\ ongoing = <<>> /\ call'.op = "none"
        /\ dests' = AsRead /\ UNCHANGED <<mem, failed, ongoing>>
    BY <1>6, IsCalls DEF FenceReturn
  <2>2. Unanswered = <<>> /\ UNCHANGED <<mem, Unanswered>>
    BY <2>1 DEF Unanswered
  <2>3. OwedAnswers = <<>>
    <3>1. Len(OwedAnswers) = 0 /\ OwedAnswers \in Seq(Answer)
      <4>1. mem \in Memory /\ Unanswered \in Seq(Task) /\ Len(Unanswered) = 0
        BY <2>2, UnansweredIn DEF MemoryInv
      <4> QED BY <4>1, OwedIn, SeenIs
    <3> QED BY <3>1
  <2>4. \/ UNCHANGED dests
        \/ \E d \in Dest, n \in {1, 2, 4} :
             dests' = [dests EXCEPT ![d] = Sequential!Truncate(n, @)]
    BY <2>1, AsReadIn, SameWords
  <2>5. Sequential!FenceReturn
    BY <2>1, <2>2, <2>3, <2>4, SameSeen DEF Sequential!FenceReturn
  <2> QED BY <2>1, <2>5 DEF Sequential!Next
<1>7. CASE FenceTimeout \/ (AwaitTimeout /\ UNCHANGED ongoing)
  <2>1. /\ call.op \in {"await", "fence"} /\ failed = "no" /\ failed' = "timeout"
        /\ UNCHANGED <<mem, call, dests, ongoing>>
        /\ call.op = "fence" => ongoing # <<>>
    BY <1>7 DEF FenceTimeout, AwaitTimeout
  <2>2. Unanswered # <<>> /\ UNCHANGED Unanswered
    <3>1. <<call.task>> # <<>>
      OBVIOUS
    <3> QED BY <2>1, <3>1 DEF Unanswered
  <2>3. OwedAnswers # <<>>
    <3>1. mem \in Memory /\ Unanswered \in Seq(Task)
      BY UnansweredIn DEF MemoryInv
    <3> QED BY <2>2, <3>1, OwedTail, SeenIs
  <2>4. Sequential!Timeout
    BY <2>1, <2>2, <2>3, SameSeen DEF Sequential!Timeout
  <2> QED BY <2>1, <2>4 DEF Sequential!Next
<1>8. CASE UNCHANGED <<req, mem, call, dests, ongoing>> /\ (UNCHANGED failed \/ Misaligned)
  <2>1. UNCHANGED <<mem, Unanswered>>
    BY <1>8 DEF Unanswered
  <2>2. CASE failed' = failed
    BY <1>8, <2>1, <2>2, SameSeen DEF Sequential!memoryVars
  <2>3. CASE Misaligned
    BY <1>8, <2>1, <2>3, SameSeen DEF Misaligned, Sequential!memoryVars
  <2> QED BY <1>8, <2>2, <2>3
<1> QED BY <1>1, <1>2, <1>3, <1>4, <1>5, <1>6, <1>7, <1>8 DEF MemoryStep

LEMMA InitIsSeen == DriverInit => Sequential!Init
<1> SUFFICES ASSUME DriverInit PROVE Sequential!Init
  OBVIOUS
<1>1. mem \in Memory /\ dests \in [Dest -> BusData] /\ Unanswered \in Seq(Task)
  BY MemoryInvInit, UnansweredIn DEF MemoryInv
<1>2. Unanswered = <<>> /\ call.op = "none" /\ failed = "no"
  BY IsCalls DEF DriverInit, Unanswered
<1>3. Len(Unanswered) = 0
  BY <1>2
<1>4. ProgramMem = mem
  BY <1>1, <1>3, AfterNone, SeenIs
<1>5. OwedAnswers = <<>>
  <2>1. OwedAnswers \in Seq(Answer) /\ Len(OwedAnswers) = 0
    BY <1>1, <1>3, OwedIn, SeenIs
  <2> QED BY <2>1
<1>6. Sequential!Line = Line /\ Sequential!BusData = BusData
  BY DEF Line, Sequential!Line, BusData, Sequential!BusData, Lane, Sequential!Lane
<1> QED BY <1>1, <1>2, <1>4, <1>5, <1>6 DEF Sequential!Init, Memory

\* The drivers of the harness are the memory a test takes them for: accesses
\* happen in the order of the calls, a load delivers what the calls before it
\* have left, an expectation is compared with that, and a fence returns when
\* all is delivered, whatever the design's delays (bus.h:575-605, 647-802).
THEOREM DriversAreMemory == DriverSpec => ImplementsMemory
<1> DEFINE Inv == QueueInv /\ CompareInv /\ MemoryInv /\ CellsInv
<1>1. DriverInit => Inv
  BY InitQueueInv, InitCompareInv, MemoryInvInit, CellsInvInit
<1>2. Inv /\ [DriverNext]_vars => Inv'
  BY NextQueueInv, NextCompareInv, MemoryInvNext, CellsInvNext, NextIsMemoryStep
<1>3. Inv /\ [DriverNext]_vars => [Sequential!Next]_(Sequential!memoryVars)
  BY StepIsSeen, NextIsMemoryStep
<1> HIDE DEF Inv
<1> QED BY <1>1, <1>2, <1>3, InitIsSeen, PTL DEF DriverSpec, ImplementsMemory, Sequential!Spec

-----------------------------------------------------------------------------
(* Cells are variables.  While an operation on two cells runs nothing else *)
(* does, and after each of its accesses it is known what memory holds, and *)
(* what its locals hold or will hold when the access has returned.         *)

Right(x, y, b) == b = "DBus" \/ (x.size <= 4 /\ y.size <= 4)

\* The local d holds v, or will when its load of cell c returns.
Fetched(d, c, v) ==
  \/ call.op = "none" /\ ongoing = <<>> /\ dests[d] = v
  \/ call.op = "await" /\ call.task = LoadTask(c.size, c.addr, d)
  \/ /\ call.op = "fence" /\ call.task = LoadTask(c.size, c.addr, d) /\ c.size <= 4
     /\ \/ ongoing # <<>> /\ ongoing[Len(ongoing)] = call.task
        \/ ongoing = <<>> /\ Truncate(c.size, dests[d]) = v

\* The local d holds v, and no access under way will change it.
Kept(d, v) ==
  /\ dests[d] = v
  /\ call.op # "none" => call.task.dest # d
  /\ call.op = "fence" => ongoing \in {<<>>, <<call.task>>}

\* How far a swap or an assignment of cells x and y in memory m has come.
Swapping(x, y, b, m) ==
  LET vx == ValueIn(m, x)
      vy == ValueIn(m, y)
  IN
  \/ /\ script = SwapScript(x, y, b)
     /\ Right(x, y, b) => ProgramMem = m
  \/ /\ script = <<Get(y, V, b), Set(x, V, b), Set(y, U, b)>>
     /\ Right(x, y, b) => ProgramMem = m /\ Fetched(U, x, vx)
  \/ /\ script = <<Set(x, V, b), Set(y, U, b)>>
     /\ Right(x, y, b) => ProgramMem = m /\ Kept(U, vx) /\ Fetched(V, y, vy)
  \/ /\ script = <<Set(y, U, b)>>
     /\ Right(x, y, b) => /\ ProgramMem = Done(StoreTask(x.size, x.addr, vy), m)
                          /\ Kept(U, vx) /\ call.op # "fence"

Assigning(x, y, b, m) ==
  \/ /\ script = AssignScript(x, y, b)
     /\ Right(x, y, b) => ProgramMem = m
  \/ /\ script = <<Set(x, U, b)>>
     /\ Right(x, y, b) => ProgramMem = m /\ Fetched(U, y, ValueIn(m, y))

Under(name, x, y, m) == was = [op |-> name, x |-> x, y |-> y, mem |-> m]

OperationInv ==
  script # <<>> =>
    \E x \in Cell, y \in Cell, b \in {"DBus", "DBusPipeline"}, m \in Memory :
      \/ Under("swap", x, y, m) /\ Swapping(x, y, b, m)
      \/ Under("assign", x, y, m) /\ Assigning(x, y, b, m)

\* What may happen while an operation is under way, besides its next access.
WaitStep ==
  \/ \E ok \in BOOLEAN : FenceTick(ok) \/ (Await(ok) /\ UNCHANGED ongoing)
  \/ FenceReturn(AsRead)
  \/ UNCHANGED <<mem, call, dests, ongoing>>

LEMMA OperationSteps ==
  ASSUME [DriverNext]_vars
  PROVE  \/ CellAccess
         \/ \E x, y \in cells, b \in BusOf : Swap(x, y, b) \/ Assign(x, y, b)
         \/ UNCHANGED <<script, was>> /\ (script = <<>> \/ WaitStep)
<1> USE DEF WaitStep
<1>1. CASE PipelineStep /\ UNCHANGED cellVars
  <2>1. script = <<>> \/ WaitStep
    BY <1>1 DEF PipelineStep, PipelineCall, FenceTimeout
  <2> QED BY <1>1, <2>1 DEF cellVars
<1>2. CASE DBusStep /\ UNCHANGED cellVars
  <2>1. script = <<>> \/ WaitStep
    BY <1>2 DEF DBusStep, DBusCall, AwaitTimeout
  <2> QED BY <1>2, <2>1 DEF cellVars
<1>3. CASE CellStep
  BY <1>3 DEF CellStep, Allocate, FactoryReset, Put, cellVars
<1>4. CASE UNCHANGED vars
  BY <1>4 DEF vars, pipelineVars, dbusVars, cellVars
<1> QED BY <1>1, <1>2, <1>3, <1>4 DEF DriverNext

-----------------------------------------------------------------------------
\* Loads leave memory as it is.
LEMMA LoadKeeps ==
  ASSUME NEW m \in Memory, NEW t \in Task, t.strobe = {}
  PROVE  Done(t, m) = m /\ After(m, <<t>>, 1) = m
<1>1. Done(t, m) = m
  <2>1. Done(t, m) \in Memory
    BY DoneIs
  <2>2. \A w \in Line, l \in Lane : Done(t, m)[w][l] = m[w][l]
    BY DoneIs
  <2> QED BY <2>1, <2>2, MemoryEqual
<1>2. After(m, <<t>>, 1) = m
  <2>1. <<t>> = Append(<<>>, t) /\ <<>> \in Seq(Task) /\ Len(<<>>) = 0
    OBVIOUS
  <2>2. After(m, Append(<<>>, t), 0 + 1) = Done(t, After(m, <<>>, 0))
    BY <2>1, AfterAppend
  <2> QED BY <1>1, <2>1, <2>2, AfterNone
<1> QED BY <1>1, <1>2

LEMMA WaitSeen ==
  ASSUME MemoryInv, QueueInv, WaitStep
  PROVE  ProgramMem' = ProgramMem
<1>1. ASSUME NEW ok \in BOOLEAN, FenceTick(ok) PROVE ProgramMem' = ProgramMem
  <2>1. call.op # "await" /\ failed = "no" /\ TickDriver(ok) /\ call'.op = call.op
    BY <1>1 DEF FenceTick, Waited, QueueInv, IsCall
  <2> QED BY <2>1, TickSeen, SameSeen, DeliversSeen
<1>2. ASSUME NEW ok \in BOOLEAN, Await(ok), UNCHANGED ongoing PROVE ProgramMem' = ProgramMem
  BY <1>2, AwaitSeen, SameSeen, DeliversSeen
<1>3. CASE FenceReturn(AsRead)
  <2>1. UNCHANGED <<mem, Unanswered>>
    BY <1>3, IsCalls DEF FenceReturn, Unanswered
  <2> QED BY <2>1, SameSeen
<1>4. CASE UNCHANGED <<mem, call, dests, ongoing>>
  BY <1>4, SameSeen DEF Unanswered
<1> QED BY <1>1, <1>2, <1>3, <1>4 DEF WaitStep

\* What a load finds when it is the only access unanswered.
LEMMA FoundIs ==
  ASSUME MemoryInv, NEW c \in Cell, NEW d \in Dest, NEW t, t = LoadTask(c.size, c.addr, d),
         Unanswered = <<t>>
  PROVE  /\ t \in Task /\ t.dest = d /\ t.size = c.size /\ t.op.size = c.size
         /\ ValueIn(ProgramMem, c) = Truncate(c.size, Apply(t.op, mem[LineOf(t.addr)]))
<1>1. c.size \in Width /\ c.addr \in Word
  BY CellIn
<1>2. t \in Task /\ t.strobe = {} /\ t.dest = d /\ t.size = c.size
      /\ t.op = Parse(c.size, c.addr) /\ t.addr = c.addr
  BY <1>1, TasksIn, ZeroIn DEF LoadTask
<1>3. t.op.size = c.size
  BY <1>2 DEF Parse
<1>4. ProgramMem = mem
  <2>1. Len(<<t>>) = 1
    OBVIOUS
  <2>2. mem \in Memory
    BY DEF MemoryInv
  <2> QED BY <1>2, <2>1, <2>2, SeenIs, LoadKeeps
<1> QED BY <1>2, <1>3, <1>4 DEF ValueIn

LEMMA OnlyOne ==
  ASSUME NEW S, NEW s \in Seq(S), s # <<>>, Tail(s) = <<>>
  PROVE  Len(s) = 1 /\ s = <<s[1]>>
<1> DEFINE r == Tail(s)
<1>1. Len(s) \in Nat /\ Len(s) >= 1 /\ Len(r) = Len(s) - 1 /\ r = <<>>
  OBVIOUS
<1> HIDE DEF r
<1>2. Len(r) = 0
  BY <1>1
<1>3. Len(s) = 1
  BY <1>1, <1>2
<1> QED BY <1>3

LEMMA TruncateApplied ==
  ASSUME NEW op, NEW data, NEW old
  PROVE  Truncate(op.size, ApplyTo(op, data, old)) = Truncate(op.size, Apply(op, data))
BY DEF Truncate, ApplyTo

LEMMA FetchedWait ==
  ASSUME MemoryInv, QueueInv, NEW c \in Cell, NEW d \in Dest, NEW v,
         v = ValueIn(ProgramMem, c), Fetched(d, c, v), WaitStep
  PROVE  Fetched(d, c, v)'
<1> DEFINE t == LoadTask(c.size, c.addr, d)
<1>0. t.dest = d /\ t.size = c.size
  BY DEF LoadTask
<1> HIDE DEF t
<1> USE DEF t
<1>1. CASE UNCHANGED <<mem, call, dests, ongoing>>
  BY <1>1 DEF Fetched
<1>2. ASSUME NEW ok \in BOOLEAN, Await(ok), UNCHANGED ongoing PROVE Fetched(d, c, v)'
  <2>1. call.op = "await" /\ call.task = t /\ ongoing = <<>>
    BY <1>2 DEF Await, Fetched, QueueInv, QueueOnBus
  <2>2. CASE call' = Waited
    <3>1. call'.op = call.op /\ call'.task = call.task
      BY <2>2 DEF Waited, QueueInv, IsCall
    <3> QED BY <2>1, <3>1 DEF Fetched
  <2>3. CASE Return /\ Unanswered = <<call.task>> /\ Rdata = mem[LineOf(call.task.addr)]
    <3>1. v = Loaded /\ call.task.dest = d
      BY <2>1, <2>3, FoundIs DEF Loaded
    <3>2. dests' = [dests EXCEPT ![d] = v] /\ dests \in [Dest -> BusData]
      BY <2>3, <3>1 DEF Return, MemoryInv
    <3>3. dests'[d] = v
      BY <3>2
    <3>4. call'.op = "none"
      BY <2>3, IsCalls DEF Return
    <3> QED BY <1>2, <2>1, <3>3, <3>4 DEF Fetched
  <2> QED BY <1>2, <2>2, <2>3, AwaitSeen
<1>3. ASSUME NEW ok \in BOOLEAN, FenceTick(ok) PROVE Fetched(d, c, v)'
  <2>1. /\ call.op = "fence" /\ failed = "no" /\ TickDriver(ok) /\ ongoing # <<>>
        /\ call'.op = call.op /\ call'.task = call.task
    BY <1>3 DEF FenceTick, Waited, QueueInv, IsCall
  <2>2. call.task = t /\ c.size <= 4 /\ ongoing[Len(ongoing)] = t
    BY <2>1 DEF Fetched
  <2>3. CASE UNCHANGED <<dests, ongoing>>
    BY <2>1, <2>2, <2>3 DEF Fetched
  <2>4. CASE /\ DeliversStep /\ Answered(Head(Unanswered)) /\ ongoing' = Tail(ongoing)
             /\ Rdata = mem[LineOf(Head(Unanswered).addr)]
    <3>1. Unanswered = ongoing /\ ongoing \in Seq(Task)
      BY <2>1 DEF Unanswered, MemoryInv
    <3>2. CASE Tail(ongoing) = <<>>
      <4>1. Len(ongoing) = 1 /\ ongoing = <<ongoing[1]>>
        BY <2>1, <3>1, <3>2, OnlyOne
      <4>2. ongoing = <<t>> /\ Head(ongoing) = t
        BY <2>2, <4>1
      <4>3. /\ t \in Task /\ t.dest = d /\ t.op.size = c.size
            /\ v = Truncate(c.size, Apply(t.op, mem[LineOf(t.addr)]))
        BY <3>1, <4>2, FoundIs
      <4>4. dests' = [dests EXCEPT ![d] = ApplyTo(t.op, Rdata, dests[d])]
        BY <2>4, <3>1, <4>2, <4>3 DEF Answered
      <4>5. dests'[d] = ApplyTo(t.op, Rdata, dests[d])
        BY <4>4 DEF MemoryInv
      <4>6. Truncate(c.size, dests'[d]) = v
        BY <2>4, <3>1, <4>2, <4>3, <4>5, TruncateApplied
      <4> QED BY <2>1, <2>2, <2>4, <3>2, <4>6 DEF Fetched
    <3>3. CASE Tail(ongoing) # <<>>
      <4>1. Tail(ongoing)[Len(Tail(ongoing))] = ongoing[Len(ongoing)]
        <5> DEFINE r == Tail(ongoing)
        <5>1. /\ r \in Seq(Task) /\ Len(ongoing) \in Nat /\ Len(r) = Len(ongoing) - 1
              /\ \A i \in 1 .. Len(r) : r[i] = ongoing[i + 1]
          BY <2>1, <3>1
        <5> HIDE DEF r
        <5>2. Len(r) \in 1 .. Len(r)
          <6>1. Len(r) # 0
            BY <3>3, <5>1 DEF r
          <6> QED BY <5>1, <6>1
        <5>3. Len(r) + 1 = Len(ongoing)
          BY <5>1
        <5> QED BY <5>1, <5>2, <5>3 DEF r
      <4> QED BY <2>1, <2>2, <2>4, <3>3, <4>1 DEF Fetched
    <3> QED BY <3>2, <3>3
  <2> QED BY <2>1, <2>3, <2>4, TickSeen
<1>4. CASE FenceReturn(AsRead)
  <2>1. call.op = "fence" /\ ongoing = <<>> /\ dests' = AsRead /\ call'.op = "none" /\ UNCHANGED ongoing
    BY <1>4, IsCalls DEF FenceReturn
  <2>2. call.task = t /\ c.size <= 4 /\ Truncate(c.size, dests[d]) = v
    BY <2>1 DEF Fetched
  <2>3. c.size \in {1, 2, 4}
    BY <2>2, CellIn DEF Width
  <2>4. (IF c.size < 4 THEN c.size ELSE 4) = c.size
    BY <2>3
  <2>5. AsRead = [dests EXCEPT ![d] = Truncate(c.size, dests[d])]
    BY <1>0, <2>2, <2>4 DEF AsRead
  <2>6. dests'[d] = v
    BY <2>1, <2>2, <2>5 DEF MemoryInv
  <2> QED BY <2>1, <2>6 DEF Fetched
<1> QED BY <1>1, <1>2, <1>3, <1>4 DEF WaitStep

LEMMA KeptWait ==
  ASSUME MemoryInv, QueueInv, NEW d \in Dest, NEW v, Kept(d, v), WaitStep
  PROVE  Kept(d, v)' /\ (call.op # "fence" => call'.op # "fence")
<1> USE DEF Kept
<1>1. CASE UNCHANGED <<mem, call, dests, ongoing>>
  BY <1>1
<1>2. ASSUME NEW ok \in BOOLEAN, Await(ok), UNCHANGED ongoing
      PROVE  Kept(d, v)' /\ (call.op # "fence" => call'.op # "fence")
  <2>1. call.op = "await" /\ call.task.dest # d
    BY <1>2 DEF Await
  <2>2. CASE call' = Waited /\ UNCHANGED dests
    <3>1. call'.op = call.op /\ call'.task = call.task
      BY <2>2 DEF Waited, QueueInv, IsCall
    <3> QED BY <2>1, <2>2, <3>1
  <2>3. CASE Return
    <3>1. call'.op = "none"
      BY <2>3, IsCalls DEF Return
    <3>2. dests'[d] = dests[d]
      BY <2>1, <2>3 DEF Return, MemoryInv
    <3> QED BY <3>1, <3>2
  <2> QED BY <1>2, <2>2, <2>3, AwaitSeen
<1>3. ASSUME NEW ok \in BOOLEAN, FenceTick(ok)
      PROVE  Kept(d, v)' /\ (call.op # "fence" => call'.op # "fence")
  <2>1. /\ call.op = "fence" /\ failed = "no" /\ TickDriver(ok) /\ ongoing # <<>>
        /\ call'.op = call.op /\ call'.task = call.task
    BY <1>3 DEF FenceTick, Waited, QueueInv, IsCall
  <2>2. ongoing = <<call.task>> /\ call.task.dest # d
    BY <2>1
  <2>3. CASE UNCHANGED <<dests, ongoing>>
    BY <2>1, <2>2, <2>3
  <2>4. CASE Answered(Head(Unanswered)) /\ ongoing' = Tail(ongoing)
    <3>1. Unanswered = ongoing
      BY <2>1 DEF Unanswered
    <3>2. Head(<<call.task>>) = call.task /\ Tail(<<call.task>>) = <<>>
      OBVIOUS
    <3>3. dests'[d] = dests[d]
      BY <2>2, <2>4, <3>1, <3>2 DEF Answered, MemoryInv
    <3> QED BY <2>1, <2>2, <2>4, <3>2, <3>3
  <2> QED BY <2>1, <2>3, <2>4, TickSeen
<1>4. CASE FenceReturn(AsRead)
  <2>1. call.op = "fence" /\ dests' = AsRead /\ call'.op = "none" /\ call.task.dest # d
    BY <1>4, IsCalls DEF FenceReturn
  <2>2. dests'[d] = dests[d]
    BY <2>1 DEF AsRead, MemoryInv
  <2> QED BY <2>1, <2>2
<1> QED BY <1>1, <1>2, <1>3, <1>4 DEF WaitStep

-----------------------------------------------------------------------------
(* The accesses of an operation. *)

LEMMA GetStarts ==
  ASSUME MemoryInv, CellAccess, NEW c \in Cell, NEW d \in Dest, NEW b \in {"DBus", "DBusPipeline"},
         Head(script) = Get(c, d, b), Len(script) # 1, b = "DBus" \/ c.size <= 4, NEW v
  PROVE  /\ ProgramMem' = ProgramMem /\ Fetched(d, c, v)' /\ UNCHANGED dests
         /\ call.op = "none" /\ call'.op # "none" /\ call'.task.dest = d
         /\ ongoing = <<>> /\ call'.op = "fence" => ongoing' = <<call'.task>>
<1> DEFINE t == LoadTask(c.size, c.addr, d)
<1>1. t \in Task /\ t.dest = d /\ t.strobe = {}
  BY CellIn, TasksIn, ZeroIn DEF LoadTask
<1>2. Head(script).get /\ Head(script).cell = c /\ Head(script).reg = d /\ Head(script).bus = b
  BY DEF Get
<1>3. \/ b = "DBus" /\ ongoing = <<>> /\ Call(t) /\ UNCHANGED ongoing
      \/ b # "DBus" /\ Submit(t, Called("fence", t))
  BY <1>2 DEF CellAccess
<1>4. UNCHANGED dests
  BY DEF CellAccess
<1> HIDE DEF t
<1>5. call.op = "none" /\ call'.op \in {"await", "fence"} /\ call'.task = t /\ UNCHANGED mem
  BY <1>3, IsCalls DEF Call, Submit, Free
<1>6. AsksStep(t)
  <2>1. CASE b = "DBus" /\ ongoing = <<>> /\ Call(t) /\ UNCHANGED ongoing
    <3>1. call'.op = "await"
      BY <2>1, IsCalls DEF Call
    <3>2. Append(<<>>, t) = <<t>>
      OBVIOUS
    <3> QED BY <1>5, <2>1, <3>1, <3>2 DEF AsksStep, Unanswered
  <2>2. CASE b # "DBus" /\ Submit(t, Called("fence", t))
    <3>1. call'.op = "fence" /\ ongoing' = Append(ongoing, t)
      BY <2>2, IsCalls DEF Submit
    <3> QED BY <1>5, <3>1 DEF AsksStep, Unanswered
  <2> QED BY <1>3, <2>1, <2>2
<1>7. ProgramMem' = ProgramMem
  <2>1. ProgramMem \in Memory
    <3>1. mem \in Memory /\ Unanswered \in Seq(Task) /\ Len(Unanswered) \in 0 .. Len(Unanswered)
      BY UnansweredIn DEF MemoryInv
    <3> QED BY <3>1, AfterIn, SeenIs
  <2>2. ProgramMem' = Done(t, ProgramMem)
    BY <1>1, <1>6, AsksSeen
  <2> QED BY <1>1, <2>1, <2>2, LoadKeeps
<1>8. CASE Call(t)
  <2>1. call'.op = "await"
    BY <1>8, IsCalls DEF Call
  <2> QED BY <1>1, <1>4, <1>5, <1>7, <2>1 DEF Fetched, t
<1>9. CASE b # "DBus" /\ Submit(t, Called("fence", t))
  <2>1. call'.op = "fence" /\ ongoing' = Append(ongoing, t)
    BY <1>9, IsCalls DEF Submit
  <2>2. ongoing' # <<>> /\ ongoing'[Len(ongoing')] = t
    <3>1. ongoing \in Seq(Task) /\ Len(ongoing) \in Nat
      BY DEF MemoryInv
    <3>2. Append(ongoing, t) \in Seq(Task) /\ Len(Append(ongoing, t)) = Len(ongoing) + 1
          /\ Append(ongoing, t)[Len(ongoing) + 1] = t
      BY <1>1, <3>1
    <3>3. Append(ongoing, t) # <<>>
      BY <1>1, <3>1, QueueFacts DEF IsSeq
    <3> QED BY <2>1, <3>2, <3>3
  <2>3. ongoing = <<>> => ongoing' = <<t>>
    <3>1. Append(<<>>, t) = <<t>>
      OBVIOUS
    <3> QED BY <2>1, <3>1
  <2> QED BY <1>1, <1>4, <1>5, <1>7, <1>9, <2>1, <2>2, <2>3 DEF Fetched, t
<1> QED BY <1>3, <1>8, <1>9

LEMMA SetStarts ==
  ASSUME MemoryInv, CellAccess, NEW c \in Cell, NEW d \in Dest, NEW b \in {"DBus", "DBusPipeline"},
         Head(script) = Set(c, d, b)
  PROVE  /\ ProgramMem' = Done(StoreTask(c.size, c.addr, dests[d]), ProgramMem)
         /\ call.op = "none" /\ call'.op # "fence"
         /\ call'.op # "none" => call'.task.dest = NullPtr
         /\ Len(script) # 1 => UNCHANGED dests
<1> DEFINE t == StoreTask(c.size, c.addr, dests[d])
<1>1. t \in Task /\ t.dest = NullPtr
  <2>1. dests[d] \in BusData
    BY DEF MemoryInv
  <2> QED BY <2>1, CellIn, TasksIn DEF StoreTask
<1>2. ~Head(script).get /\ Head(script).cell = c /\ Head(script).reg = d /\ Head(script).bus = b
  BY DEF Set
<1>3. \/ ongoing = <<>> /\ Call(t) /\ UNCHANGED ongoing
      \/ Submit(t, NoCall)
  BY <1>2 DEF CellAccess
<1>4. Len(script) # 1 => UNCHANGED dests
  BY DEF CellAccess
<1> HIDE DEF t
<1>5. CASE ongoing = <<>> /\ Call(t) /\ UNCHANGED ongoing
  <2>1. call.op = "none" /\ call'.op = "await" /\ call'.task = t /\ UNCHANGED mem
    BY <1>5, IsCalls DEF Call, Free
  <2>2. Append(<<>>, t) = <<t>>
    OBVIOUS
  <2>3. AsksStep(t)
    BY <1>5, <2>1, <2>2 DEF AsksStep, Unanswered
  <2> QED BY <1>1, <1>4, <2>1, <2>3, AsksSeen DEF t
<1>6. CASE Submit(t, NoCall)
  <2>1. call.op = "none" /\ call'.op = "none" /\ UNCHANGED mem /\ ongoing' = Append(ongoing, t)
    BY <1>6, IsCalls DEF Submit, Free
  <2>2. AsksStep(t)
    BY <2>1 DEF AsksStep, Unanswered
  <2> QED BY <1>1, <1>4, <2>1, <2>2, AsksSeen DEF t
<1> QED BY <1>3, <1>5, <1>6

LEMMA ScriptEnds ==
  ASSUME NEW a, NEW b, NEW c, NEW d
  PROVE  /\ Head(<<a, b, c, d>>) = a /\ Tail(<<a, b, c, d>>) = <<b, c, d>> /\ Len(<<a, b, c, d>>) = 4
         /\ Head(<<b, c, d>>) = b /\ Tail(<<b, c, d>>) = <<c, d>> /\ Len(<<b, c, d>>) = 3
         /\ Head(<<c, d>>) = c /\ Tail(<<c, d>>) = <<d>> /\ Len(<<c, d>>) = 2
         /\ Head(<<d>>) = d /\ Tail(<<d>>) = <<>> /\ Len(<<d>>) = 1 /\ <<d>>[1] = d
  OBVIOUS

LEMMA LocalsIn == U \in Dest /\ V \in Dest /\ U # V /\ NullPtr \notin Dest
BY CellAssumption, DriverAssumption

LEMMA SwappingWait ==
  ASSUME MemoryInv, QueueInv, NEW x \in Cell, NEW y \in Cell,
         NEW b \in {"DBus", "DBusPipeline"}, NEW m \in Memory,
         Swapping(x, y, b, m), WaitStep, UNCHANGED script
  PROVE  Swapping(x, y, b, m)'
<1> DEFINE vx == ValueIn(m, x)
           vy == ValueIn(m, y)
<1>1. ProgramMem' = ProgramMem
  BY WaitSeen
<1>2. ProgramMem = m /\ Fetched(U, x, vx) => Fetched(U, x, vx)'
  BY LocalsIn, FetchedWait
<1>3. ProgramMem = m /\ Fetched(V, y, vy) => Fetched(V, y, vy)'
  BY LocalsIn, FetchedWait
<1>4. Kept(U, vx) => Kept(U, vx)' /\ (call.op # "fence" => call'.op # "fence")
  BY LocalsIn, KeptWait
<1> HIDE DEF vx, vy
<1>5. CASE Right(x, y, b)
  BY <1>1, <1>2, <1>3, <1>4, <1>5 DEF Swapping, vx, vy
<1>6. CASE ~Right(x, y, b)
  BY <1>6 DEF Swapping, Right
<1> QED BY <1>5, <1>6

LEMMA SwappingNext ==
  ASSUME MemoryInv, QueueInv, NEW x \in Cell, NEW y \in Cell,
         NEW b \in {"DBus", "DBusPipeline"}, NEW m \in Memory,
         Swapping(x, y, b, m), CellAccess
  PROVE  script' = <<>> \/ Swapping(x, y, b, m)'
<1> DEFINE vx == ValueIn(m, x)
           vy == ValueIn(m, y)
           g1 == Get(x, U, b)
           g2 == Get(y, V, b)
           s1 == Set(x, V, b)
           s2 == Set(y, U, b)
<1>1. script' = Tail(script)
  BY DEF CellAccess
<1>2. Right(x, y, b) => (b = "DBus" \/ x.size <= 4) /\ (b = "DBus" \/ y.size <= 4)
  BY DEF Right
<1>3. CASE script = SwapScript(x, y, b) /\ (Right(x, y, b) => ProgramMem = m)
  <2>1. script = <<g1, g2, s1, s2>>
    BY <1>3 DEF SwapScript
  <2>2. Head(script) = g1 /\ Len(script) # 1 /\ script' = <<g2, s1, s2>>
    BY <1>1, <2>1, ScriptEnds
  <2>3. Right(x, y, b) => ProgramMem' = m /\ Fetched(U, x, vx)'
    BY <1>2, <1>3, <2>2, LocalsIn, GetStarts
  <2> QED BY <2>2, <2>3 DEF Swapping, Right
<1>4. CASE /\ script = <<g2, s1, s2>>
           /\ Right(x, y, b) => ProgramMem = m /\ Fetched(U, x, vx)
  <2>2. Head(script) = g2 /\ Len(script) # 1 /\ script' = <<s1, s2>>
    BY <1>1, <1>4, ScriptEnds
  <2>3. ASSUME Right(x, y, b) PROVE ProgramMem' = m /\ Kept(U, vx)' /\ Fetched(V, y, vy)'
    <3>1. /\ ProgramMem' = ProgramMem /\ Fetched(V, y, vy)' /\ UNCHANGED dests
          /\ call.op = "none" /\ call'.op # "none" /\ call'.task.dest = V
          /\ ongoing = <<>> /\ call'.op = "fence" => ongoing' = <<call'.task>>
      BY <1>2, <2>2, <2>3, LocalsIn, GetStarts
    <3>2. ProgramMem = m /\ dests[U] = vx /\ ongoing = <<>>
      BY <1>4, <2>3, <3>1 DEF Fetched
    <3> QED BY <3>1, <3>2, LocalsIn DEF Kept
  <2> QED BY <2>2, <2>3 DEF Swapping, Right
<1>5. CASE /\ script = <<s1, s2>>
           /\ Right(x, y, b) => ProgramMem = m /\ Kept(U, vx) /\ Fetched(V, y, vy)
  <2>2. Head(script) = s1 /\ Len(script) # 1 /\ script' = <<s2>>
    BY <1>1, <1>5, ScriptEnds
  <2>3. ASSUME Right(x, y, b)
        PROVE  /\ ProgramMem' = Done(StoreTask(x.size, x.addr, vy), m)
               /\ Kept(U, vx)' /\ call'.op # "fence"
    <3>1. /\ ProgramMem' = Done(StoreTask(x.size, x.addr, dests[V]), ProgramMem)
          /\ call.op = "none" /\ call'.op # "fence" /\ UNCHANGED dests
          /\ call'.op # "none" => call'.task.dest = NullPtr
      BY <2>2, LocalsIn, SetStarts
    <3>2. ProgramMem = m /\ dests[U] = vx /\ dests[V] = vy
      BY <1>5, <2>3, <3>1 DEF Kept, Fetched
    <3> QED BY <3>1, <3>2, LocalsIn DEF Kept
  <2> QED BY <2>2, <2>3 DEF Swapping, Right
<1>6. CASE script = <<s2>>
  BY <1>1, <1>6, ScriptEnds
<1> QED BY <1>3, <1>4, <1>5, <1>6 DEF Swapping

LEMMA AssigningWait ==
  ASSUME MemoryInv, QueueInv, NEW x \in Cell, NEW y \in Cell,
         NEW b \in {"DBus", "DBusPipeline"}, NEW m \in Memory,
         Assigning(x, y, b, m), WaitStep, UNCHANGED script
  PROVE  Assigning(x, y, b, m)'
<1> DEFINE vy == ValueIn(m, y)
<1>1. ProgramMem' = ProgramMem
  BY WaitSeen
<1>2. ProgramMem = m /\ Fetched(U, y, vy) => Fetched(U, y, vy)'
  BY LocalsIn, FetchedWait
<1> HIDE DEF vy
<1>3. CASE Right(x, y, b)
  BY <1>1, <1>2, <1>3 DEF Assigning, vy
<1>4. CASE ~Right(x, y, b)
  BY <1>4 DEF Assigning, Right
<1> QED BY <1>3, <1>4

LEMMA AssigningNext ==
  ASSUME MemoryInv, QueueInv, NEW x \in Cell, NEW y \in Cell,
         NEW b \in {"DBus", "DBusPipeline"}, NEW m \in Memory,
         Assigning(x, y, b, m), CellAccess
  PROVE  script' = <<>> \/ Assigning(x, y, b, m)'
<1> DEFINE vy == ValueIn(m, y)
           g1 == Get(y, U, b)
           s1 == Set(x, U, b)
<1>1. script' = Tail(script)
  BY DEF CellAccess
<1>2. Right(x, y, b) => b = "DBus" \/ y.size <= 4
  BY DEF Right
<1>3. CASE script = AssignScript(x, y, b) /\ (Right(x, y, b) => ProgramMem = m)
  <2>1. script = <<g1, s1>>
    BY <1>3 DEF AssignScript
  <2>2. Head(script) = g1 /\ Len(script) # 1 /\ script' = <<s1>>
    BY <1>1, <2>1, ScriptEnds
  <2>3. Right(x, y, b) => ProgramMem' = m /\ Fetched(U, y, vy)'
    BY <1>2, <1>3, <2>2, LocalsIn, GetStarts
  <2> QED BY <2>2, <2>3 DEF Assigning, Right
<1>4. CASE script = <<s1>>
  BY <1>1, <1>4, ScriptEnds
<1> QED BY <1>3, <1>4 DEF Assigning

LEMMA AfterOne ==
  ASSUME NEW S, NEW s \in Seq(S), Len(s) = 1
  PROVE  Tail(s) = <<>>
<1> DEFINE r == Tail(s)
<1>1. r \in Seq(S) /\ Len(r) = 0
  <2>1. s # <<>>
    <3>1. Len(<<>>) = 0
      OBVIOUS
    <3> QED BY <3>1
  <2> QED BY <2>1
<1> HIDE DEF r
<1>2. r = <<>>
  BY <1>1
<1> QED BY <1>2 DEF r

LEMMA OperationInvInit == DriverInit => OperationInv
BY DEF DriverInit, OperationInv

LEMMA OperationInvNext ==
  ASSUME MemoryInv, QueueInv, CellsInv, OperationInv, [DriverNext]_vars
  PROVE  OperationInv'
<1>1. ASSUME NEW x0 \in cells, NEW y0 \in cells, NEW b \in BusOf, Swap(x0, y0, b) \/ Assign(x0, y0, b)
      PROVE  OperationInv'
  <2>1. x0 \in Cell /\ y0 \in Cell /\ b \in {"DBus", "DBusPipeline"}
    BY DEF CellsInv, BusOf
  <2>2. ProgramMem \in Memory
    <3>1. mem \in Memory /\ Unanswered \in Seq(Task) /\ Len(Unanswered) \in 0 .. Len(Unanswered)
      BY UnansweredIn DEF MemoryInv
    <3> QED BY <3>1, AfterIn, SeenIs
  <2>3. PICK m \in Memory : m = ProgramMem
    BY <2>2
  <2>4. ProgramMem' = m
    <3>1. UNCHANGED <<mem, Unanswered>>
      BY <1>1 DEF Swap, Assign, Begin, pipelineVars, dbusVars, Unanswered
    <3> QED BY <2>3, <3>1, SameSeen
  <2>5. CASE Swap(x0, y0, b)
    <3>1. was' = [op |-> "swap", x |-> x0, y |-> y0, mem |-> m] /\ script' = SwapScript(x0, y0, b)
      BY <2>3, <2>5 DEF Swap, Begin
    <3>2. Under("swap", x0, y0, m)' /\ Swapping(x0, y0, b, m)'
      BY <2>4, <3>1 DEF Under, Swapping, SwapScript
    <3> QED BY <2>1, <3>2 DEF OperationInv
  <2>6. CASE Assign(x0, y0, b)
    <3>1. was' = [op |-> "assign", x |-> x0, y |-> y0, mem |-> m] /\ script' = AssignScript(x0, y0, b)
      BY <2>3, <2>6 DEF Assign, Begin
    <3>2. Under("assign", x0, y0, m)' /\ Assigning(x0, y0, b, m)'
      BY <2>4, <3>1 DEF Under, Assigning, AssignScript
    <3> QED BY <2>1, <3>2 DEF OperationInv
  <2> QED BY <1>1, <2>5, <2>6
<1>2. CASE CellAccess
  <2>1. SUFFICES ASSUME script' # <<>> PROVE OperationInv'
    BY DEF OperationInv
  <2>2. script # <<>>
    BY <1>2 DEF CellAccess
  <2>3. PICK x \in Cell, y \in Cell, b \in {"DBus", "DBusPipeline"}, m \in Memory :
          \/ Under("swap", x, y, m) /\ Swapping(x, y, b, m)
          \/ Under("assign", x, y, m) /\ Assigning(x, y, b, m)
    BY <2>2 DEF OperationInv
  <2>4. was' = was
    <3>1. script' = Tail(script) /\ script \in Seq(Step) /\ (Len(script) # 1 => was' = was)
      BY <1>2 DEF CellAccess, CellsInv
    <3>2. Len(script) # 1
      BY <2>1, <3>1, AfterOne
    <3> QED BY <3>1, <3>2
  <2>5. CASE Under("swap", x, y, m) /\ Swapping(x, y, b, m)
    BY <1>2, <2>1, <2>4, <2>5, SwappingNext DEF OperationInv, Under
  <2>6. CASE Under("assign", x, y, m) /\ Assigning(x, y, b, m)
    BY <1>2, <2>1, <2>4, <2>6, AssigningNext DEF OperationInv, Under
  <2> QED BY <2>3, <2>5, <2>6
<1>3. CASE UNCHANGED <<script, was>> /\ WaitStep /\ script # <<>>
  <2>3. PICK x \in Cell, y \in Cell, b \in {"DBus", "DBusPipeline"}, m \in Memory :
          \/ Under("swap", x, y, m) /\ Swapping(x, y, b, m)
          \/ Under("assign", x, y, m) /\ Assigning(x, y, b, m)
    BY <1>3 DEF OperationInv
  <2>5. CASE Under("swap", x, y, m) /\ Swapping(x, y, b, m)
    BY <1>3, <2>5, SwappingWait DEF OperationInv, Under
  <2>6. CASE Under("assign", x, y, m) /\ Assigning(x, y, b, m)
    BY <1>3, <2>6, AssigningWait DEF OperationInv, Under
  <2> QED BY <2>3, <2>5, <2>6
<1>4. CASE UNCHANGED <<script, was>> /\ script = <<>>
  BY <1>4 DEF OperationInv
<1> QED BY <1>1, <1>2, <1>3, <1>4, OperationSteps

\* The last access of an operation on two cells.
LEMMA OperationEnds ==
  ASSUME MemoryInv, QueueInv, OperationInv, [DriverNext]_vars,
         Len(script) = 1, script' = <<>>,
         script[1].bus = "DBus" \/ (was.x.size <= 4 /\ was.y.size <= 4)
  PROVE  LET vx == ValueIn(was.mem, was.x)
             vy == ValueIn(was.mem, was.y)
             n  == Done(StoreTask(was.x.size, was.x.addr, vy), was.mem)
         IN  ProgramMem' = IF was.op = "assign" THEN n
                           ELSE Done(StoreTask(was.y.size, was.y.addr, vx), n)
<1>1. script # <<>>
  <2>1. Len(<<>>) = 0
    OBVIOUS
  <2> QED BY <2>1
<1>2. CellAccess
  <2>1. ASSUME NEW x \in cells, NEW y \in cells, NEW b \in BusOf, Swap(x, y, b) \/ Assign(x, y, b)
        PROVE  FALSE
    BY <1>1, <2>1 DEF Swap, Assign, Begin
  <2> QED BY <1>1, <2>1, OperationSteps
<1>3. PICK x \in Cell, y \in Cell, b \in {"DBus", "DBusPipeline"}, m \in Memory :
        \/ Under("swap", x, y, m) /\ Swapping(x, y, b, m)
        \/ Under("assign", x, y, m) /\ Assigning(x, y, b, m)
  BY <1>1 DEF OperationInv
<1>4. was.x = x /\ was.y = y /\ was.mem = m
  BY <1>3 DEF Under
<1> DEFINE vx == ValueIn(m, x)
           vy == ValueIn(m, y)
           n  == Done(StoreTask(x.size, x.addr, vy), m)
<1>5. CASE Under("swap", x, y, m) /\ Swapping(x, y, b, m)
  <2>1. script = <<Set(y, U, b)>> /\ (Right(x, y, b) => ProgramMem = n /\ dests[U] = vx)
    <3>1. /\ Len(SwapScript(x, y, b)) = 4
          /\ Len(<<Get(y, V, b), Set(x, V, b), Set(y, U, b)>>) = 3
          /\ Len(<<Set(x, V, b), Set(y, U, b)>>) = 2
      BY ScriptEnds DEF SwapScript
    <3>2. /\ script # SwapScript(x, y, b)
          /\ script # <<Get(y, V, b), Set(x, V, b), Set(y, U, b)>>
          /\ script # <<Set(x, V, b), Set(y, U, b)>>
      BY ONLY <3>1, Len(script) = 1
    <3> QED BY <1>5, <3>2 DEF Swapping, Kept
  <2>2. Head(script) = Set(y, U, b) /\ script[1] = Set(y, U, b)
    BY <2>1, ScriptEnds
  <2>3. Right(x, y, b)
    BY <1>4, <2>2 DEF Set, Right
  <2>4. ProgramMem = n /\ dests[U] = vx
    BY <2>1, <2>3
  <2>5. ProgramMem' = Done(StoreTask(y.size, y.addr, dests[U]), ProgramMem)
    BY <1>2, <2>2, LocalsIn, SetStarts
  <2>6. was.op = "swap"
    BY <1>5 DEF Under
  <2> QED BY <1>4, <2>4, <2>5, <2>6
<1>6. CASE Under("assign", x, y, m) /\ Assigning(x, y, b, m)
  <2>1. Len(AssignScript(x, y, b)) = 2
    BY ScriptEnds DEF AssignScript
  <2>2. /\ script = <<Set(x, U, b)>>
        /\ Right(x, y, b) => ProgramMem = m /\ Fetched(U, y, vy)
    <3>1. Assigning(x, y, b, m)
      BY <1>6
    <3>2. script # AssignScript(x, y, b)
      BY ONLY <2>1, Len(script) = 1
    <3> QED BY ONLY <3>1, <3>2 DEF Assigning
  <2>3. Head(script) = Set(x, U, b) /\ script[1] = Set(x, U, b)
    BY <2>2, ScriptEnds
  <2>4. Right(x, y, b)
    BY <1>4, <2>3 DEF Set, Right
  <2>5. ProgramMem = m /\ Fetched(U, y, vy)
    BY ONLY <2>2, <2>4
  <2>6. /\ ProgramMem' = Done(StoreTask(x.size, x.addr, dests[U]), ProgramMem)
        /\ call.op = "none"
    BY <1>2, <2>3, LocalsIn, SetStarts
  <2>7. dests[U] = vy
    BY <2>5, <2>6 DEF Fetched
  <2>8. was.op = "assign"
    BY <1>6 DEF Under
  <2> QED BY <1>4, <2>5, <2>6, <2>7, <2>8
<1> QED BY <1>3, <1>5, <1>6

\* Cells behave as variables do: swapped or assigned, through either driver,
\* whatever else is on the way, they have the values of the other and no byte
\* around them has changed (cell.h:174-224).
THEOREM CellsBehave == DriverSpec => CellsAreVariables
<1> DEFINE Inv == QueueInv /\ MemoryInv /\ CellsInv /\ OperationInv
<1>1. DriverInit => Inv
  BY InitQueueInv, MemoryInvInit, CellsInvInit, OperationInvInit
<1>2. Inv /\ [DriverNext]_vars => Inv'
  BY NextQueueInv, MemoryInvNext, CellsInvNext, OperationInvNext, NextIsMemoryStep
<1>3. Inv /\ [DriverNext]_vars =>
        [ Len(script) = 1 /\ script' = <<>>
          /\ (script[1].bus = "DBus" \/ (was.x.size <= 4 /\ was.y.size <= 4))
          => LET vx == ValueIn(was.mem, was.x)
                 vy == ValueIn(was.mem, was.y)
                 m  == Done(StoreTask(was.x.size, was.x.addr, vy), was.mem)
             IN  ProgramMem' = IF was.op = "assign" THEN m
                               ELSE Done(StoreTask(was.y.size, was.y.addr, vx), m) ]_vars
  BY OperationEnds
<1> HIDE DEF Inv
<1> QED BY <1>1, <1>2, <1>3, PTL DEF DriverSpec, CellsAreVariables

-----------------------------------------------------------------------------
(* Calls and operations end.                                               *)

\* A call, or an operation on cells, is under way.
AtWork == call.op # "none" \/ script # <<>>

\* The steps until it is over, at most: the cycles a call may wait, its end, and
\* for an operation as many again for each access still to be made.
CallLeft == IF call.op = "none" THEN 0 ELSE MaxWait + 1 - call.count
OperationLeft == Len(script) * (MaxWait + 2) + CallLeft

\* What is under way comes nearer to its end with every step, unless the step ends
\* the test.
OperationsShorten ==
  [][AtWork => OperationLeft' < OperationLeft \/ failed' # "no"]_vars

\* What is under way can go on: a call can wait or give up, and the next access of
\* an operation is never kept from the plain driver by the queue of the other.
OperationCanGo ==
  AtWork /\ failed = "no" =>
    \/ call.op \in {"await", "fence"} /\ call.count \in 0 .. MaxWait
    \/ call.op = "none" /\ (Head(script).bus = "DBus" => ongoing = <<>>)

CountInv ==
  /\ call.op \in {"none", "await", "fence"}
  /\ call.count \in 0 .. MaxWait

\* An operation is on one bus, and on the plain one only while nothing is queued.
OneBusInv ==
  /\ IsSeq(script)
  /\ \A i, j \in 1 .. Len(script) : script[i].bus = script[j].bus
  /\ \A i \in 1 .. Len(script) : script[i].bus = "DBus" => ongoing = <<>>

LEMMA EmptyIsZero ==
  ASSUME NEW s, IsSeq(s)
  PROVE  /\ Len(s) \in Nat /\ (s = <<>> <=> Len(s) = 0)
         /\ s # <<>> => Len(Tail(s)) = Len(s) - 1
<1>1. PICK S : s \in Seq(S)
  BY DEF IsSeq
<1>2. s # <<>> => Len(s) > 0
  BY <1>1
<1>3. Len(<<>>) = 0
  OBVIOUS
<1> QED BY <1>1, <1>2, <1>3

\* What a step is to a call and to an operation.
WorkStep ==
  \/ /\ call.op # "none" /\ script' = script
     /\ ongoing # <<>> \/ UNCHANGED ongoing
     /\ \/ call' = Waited /\ call.count < MaxWait
        \/ call' = NoCall
        \/ UNCHANGED call /\ failed' # "no"
  \/ CellAccess
  \/ ~AtWork /\ script' = <<>> /\ call' \in {call, NoCall}
  \/ ~AtWork /\ script' = <<>> /\ \E op \in {"await", "fence"} : \E t : call' = Called(op, t)
  \/ /\ ~AtWork /\ call' = call /\ ongoing' = ongoing
     /\ \E x, y \in cells, b \in BusOf :
          /\ b = "DBus" => ongoing = <<>>
          /\ script' \in {SwapScript(x, y, b), AssignScript(x, y, b)}

LEMMA NextIsWorkStep ==
  ASSUME DriverNext, CountInv
  PROVE  WorkStep
<1> USE DEF WorkStep, AtWork
<1>1. CASE PipelineStep /\ UNCHANGED cellVars
  <2>0. script' = script
    BY <1>1 DEF cellVars
  <2>1. CASE \E k \in Accesses : PipelineCall(k)
    BY <2>0, <2>1 DEF PipelineCall, Submit, Free
  <2>2. CASE script = <<>> /\ CallFence
    BY <2>0, <2>2 DEF CallFence, Free
  <2>3. CASE script = <<>> /\ \E ok \in BOOLEAN : Tick(ok)
    BY <2>0, <2>3 DEF Tick, Free
  <2>4. CASE \E ok \in BOOLEAN : FenceTick(ok)
    BY <2>0, <2>4 DEF FenceTick
  <2>5. CASE FenceReturn(AsRead)
    BY <2>0, <2>5 DEF FenceReturn
  <2>6. CASE FenceTimeout
    BY <2>0, <2>6 DEF FenceTimeout
  <2> QED BY <1>1, <2>1, <2>2, <2>3, <2>4, <2>5, <2>6 DEF PipelineStep
<1>2. CASE DBusStep /\ UNCHANGED cellVars
  <2>0. script' = script
    BY <1>2 DEF cellVars
  <2>1. CASE \E k \in Accesses : DBusCall(k)
    BY <2>0, <2>1 DEF DBusCall, Call, Free
  <2>2. CASE (\E ok \in BOOLEAN : Await(ok)) /\ UNCHANGED ongoing
    BY <2>0, <2>2 DEF Await, Return
  <2>3. CASE AwaitTimeout /\ UNCHANGED ongoing
    BY <2>0, <2>3 DEF AwaitTimeout
  <2> QED BY <1>2, <2>1, <2>2, <2>3 DEF DBusStep
<1>3. CASE CellStep
  <2>1. CASE \E n \in Sizes : Allocate(n)
    BY <2>1 DEF Allocate, Free
  <2>2. CASE FactoryReset
    BY <2>2 DEF FactoryReset, Free, pipelineVars, dbusVars
  <2>3. ASSUME NEW x \in cells, NEW y \in cells, NEW b \in BusOf,
               b = "DBus" => ongoing = <<>>, Swap(x, y, b) \/ Assign(x, y, b)
        PROVE  WorkStep
    BY <2>3 DEF Swap, Assign, Begin, Free, pipelineVars, dbusVars
  <2>4. ASSUME NEW x \in cells, NEW b \in BusOf, NEW w \in Values, Put(x, w, b)
        PROVE  WorkStep
    BY <2>4 DEF Put, Call, Submit, Free, cellVars
  <2> QED BY <1>3, <2>1, <2>2, <2>3, <2>4 DEF CellStep
<1> QED BY <1>1, <1>2, <1>3 DEF DriverNext

WorkInv == CountInv /\ OneBusInv

LEMMA CallCounts ==
  /\ NoCall.op = "none" /\ NoCall.count = 0
  /\ \A op, t : Called(op, t).op = op /\ Called(op, t).count = 0
  /\ IsCall(call) => Waited.op = call.op /\ Waited.count = call.count + 1
  BY DEF NoCall, Called, Waited, IsCall

LEMMA ScriptLengths ==
  ASSUME NEW x, NEW y, NEW b, NEW s, s \in {SwapScript(x, y, b), AssignScript(x, y, b)}
  PROVE  /\ IsSeq(s) /\ Len(s) \in {2, 4} /\ s # <<>>
         /\ \A i \in 1 .. Len(s) : s[i].bus = b
<1>1. \A z, r : Get(z, r, b).bus = b /\ Set(z, r, b).bus = b
  BY DEF Get, Set
<1>2. CASE s = SwapScript(x, y, b)
  <2>1. s = <<Get(x, U, b), Get(y, V, b), Set(x, V, b), Set(y, U, b)>>
    BY <1>2 DEF SwapScript
  <2>2. IsSeq(s) /\ Len(s) = 4
    BY <2>1, ScriptFacts
  <2>3. \A i \in 1 .. Len(s) : s[i].bus = b
    BY <1>1, <2>1, FourOn
  <2> QED BY <2>2, <2>3, EmptyIsZero
<1>3. CASE s = AssignScript(x, y, b)
  <2>1. s = <<Get(y, U, b), Set(x, U, b)>>
    BY <1>3 DEF AssignScript
  <2>2. IsSeq(s) /\ Len(s) = 2
    BY <2>1, ScriptFacts
  <2>3. \A i \in 1 .. Len(s) : s[i].bus = b
    BY <1>1, <2>1, TwoOn
  <2> QED BY <2>2, <2>3, EmptyIsZero
<1> QED BY <1>2, <1>3

\* The next access of an operation: one less to be made, and a call begins or not.
LEMMA AccessWork ==
  ASSUME WorkInv, CellAccess
  PROVE  /\ call.op = "none" /\ script # <<>> /\ script' = Tail(script)
         /\ call'.op \in {"none", "await", "fence"} /\ call'.count = 0
         /\ script[1].bus = "DBus" => ongoing = <<>> /\ ongoing' = ongoing
<1> DEFINE s == Head(script)
           t == IF s.get THEN LoadTask(s.cell.size, s.cell.addr, s.reg)
                         ELSE StoreTask(s.cell.size, s.cell.addr, dests[s.reg])
           c == IF s.get THEN Called("fence", t) ELSE NoCall
<1>1. /\ script # <<>> /\ script' = Tail(script)
      /\ IF s.bus = "DBus" THEN ongoing = <<>> /\ Call(t) /\ UNCHANGED ongoing
                          ELSE Submit(t, c)
  BY DEF CellAccess
<1>2. Head(script) = script[1]
  BY <1>1, TailFacts DEF WorkInv, OneBusInv
<1>3. c.op \in {"none", "fence"} /\ c.count = 0
  BY CallCounts
<1> HIDE DEF c, t
<1>4. CASE s.bus = "DBus"
  BY <1>1, <1>2, <1>4, CallCounts DEF Call, Free
<1>5. CASE s.bus # "DBus"
  BY <1>1, <1>2, <1>3, <1>5 DEF Submit, Free
<1> QED BY <1>4, <1>5

LEMMA WorkInvInit == DriverInit => WorkInv
<1> SUFFICES ASSUME DriverInit PROVE WorkInv
  OBVIOUS
<1>1. script = <<>> /\ Len(script) = 0 /\ IsSeq(script)
  <2>1. <<>> \in Seq({}) /\ Len(<<>>) = 0
    OBVIOUS
  <2> QED BY <2>1 DEF DriverInit, IsSeq
<1> QED BY <1>1, CallCounts, DriverAssumption DEF DriverInit, WorkInv, CountInv, OneBusInv

LEMMA CountNext ==
  ASSUME WorkInv, QueueInv, WorkStep
  PROVE  CountInv'
<1> USE DEF WorkInv
<1>1. CASE CellAccess
  BY <1>1, AccessWork, DriverAssumption DEF CountInv
<1>2. CASE call' = Waited /\ call.count < MaxWait
  <2>1. call'.op = call.op /\ call'.count = call.count + 1
    BY <1>2, CallCounts DEF QueueInv
  <2> QED BY <1>2, <2>1, DriverAssumption DEF CountInv
<1>3. CASE call' \in {call, NoCall} \/ \E op \in {"await", "fence"} : \E t : call' = Called(op, t)
  BY <1>3, CallCounts, DriverAssumption DEF CountInv
<1> QED BY <1>1, <1>2, <1>3 DEF WorkStep

LEMMA OneBusNext ==
  ASSUME WorkInv, WorkStep
  PROVE  OneBusInv'
<1> USE DEF WorkInv
<1>1. CASE CellAccess
  <2>1. script # <<>> /\ script' = Tail(script) /\ IsSeq(script)
    BY <1>1, AccessWork DEF OneBusInv
  <2>2. /\ IsSeq(script')
        /\ \A i \in 1 .. Len(script') : script'[i] = script[i + 1] /\ i + 1 \in 1 .. Len(script)
        /\ 1 \in 1 .. Len(script)
    BY <2>1, TailFacts
  <2>3. \A i \in 1 .. Len(script') : script'[i].bus = script[1].bus
    BY <2>2 DEF OneBusInv
  <2> QED BY <1>1, <2>2, <2>3, AccessWork DEF OneBusInv
<1>2. ASSUME NEW x \in cells, NEW y \in cells, NEW b \in BusOf,
             b = "DBus" => ongoing = <<>>, ongoing' = ongoing,
             script' \in {SwapScript(x, y, b), AssignScript(x, y, b)}
      PROVE  OneBusInv'
  <2>1. \A s \in {SwapScript(x, y, b), AssignScript(x, y, b)} :
          IsSeq(s) /\ \A i \in 1 .. Len(s) : s[i].bus = b
    BY ScriptLengths
  <2>2. IsSeq(script') /\ \A i \in 1 .. Len(script') : script'[i].bus = b
    BY ONLY <1>2, <2>1
  <2> QED BY <1>2, <2>2 DEF OneBusInv
<1>3. CASE script' = <<>>
  <2>1. IsSeq(<<>>)
    <3>1. <<>> \in Seq({})
      OBVIOUS
    <3> QED BY <3>1 DEF IsSeq
  <2>2. Len(script') = 0
    BY <1>3, <2>1, EmptyIsZero
  <2> QED BY <1>3, <2>1, <2>2 DEF OneBusInv
<1>4. CASE script' = script /\ (ongoing # <<>> \/ UNCHANGED ongoing)
  BY <1>4 DEF OneBusInv
<1> QED BY <1>1, <1>2, <1>3, <1>4 DEF WorkStep

LEMMA WorkInvNext == WorkInv /\ QueueInv /\ [DriverNext]_vars => WorkInv'
<1>1. WorkInv /\ UNCHANGED vars => WorkInv'
  BY DEF vars, pipelineVars, dbusVars, cellVars, WorkInv, CountInv, OneBusInv
<1> QED BY <1>1, NextIsWorkStep, CountNext, OneBusNext DEF WorkInv

LEMMA SmallMultiple ==
  ASSUME NEW n \in {0, 2, 4}, NEW m \in Nat
  PROVE  n * m \in 0 .. 4 * m /\ (n = 0 => n * m = 0)
<1>1. CASE n = 0
  BY <1>1
<1>2. CASE n = 2
  BY <1>2
<1>3. CASE n = 4
  BY <1>3
<1> QED BY <1>1, <1>2, <1>3

LEMMA LeftIsNat == WorkInv => OperationLeft \in Nat
<1> SUFFICES ASSUME WorkInv PROVE OperationLeft \in Nat
  OBVIOUS
<1>1. Len(script) \in Nat /\ MaxWait + 2 \in Nat
  BY EmptyIsZero, DriverAssumption DEF WorkInv, OneBusInv
<1>2. CallLeft \in Nat
  BY DriverAssumption DEF WorkInv, CountInv, CallLeft
<1>3. Len(script) * (MaxWait + 2) \in Nat
  BY <1>1
<1> QED BY <1>2, <1>3 DEF OperationLeft

\* The steps left, step by step.
LEMMA StepShortens ==
  ASSUME WorkInv, QueueInv, WorkStep
  PROVE  /\ OperationLeft \in Nat
         /\ AtWork => \/ OperationLeft' < OperationLeft
                      \/ OperationLeft' = OperationLeft /\ failed' # "no"
         /\ ~AtWork => OperationLeft' \in 0 .. 4 * (MaxWait + 2)
<1> DEFINE L == Len(script)
           M == MaxWait + 2
<1> USE DEF WorkInv
<1>1. L \in Nat /\ (script = <<>> <=> L = 0) /\ M \in Nat /\ MaxWait \in Nat
  BY EmptyIsZero, DriverAssumption DEF OneBusInv
<1>2. CallLeft \in 0 .. MaxWait + 1 /\ (call.op # "none" => CallLeft > 0)
  BY <1>1 DEF CallLeft, CountInv
<1>3. L * M \in Nat /\ (L = 0 => L * M = 0)
  BY <1>1
<1>4. OperationLeft = L * M + CallLeft /\ OperationLeft \in Nat
  BY <1>2, <1>3 DEF OperationLeft
<1>5. CASE CellAccess
  <2>1. L \in Nat \ {0} /\ L' = L - 1 /\ call.op = "none"
    BY <1>1, <1>5, AccessWork, EmptyIsZero DEF OneBusInv
  <2>2. CallLeft = 0 /\ CallLeft' <= MaxWait + 1 /\ CallLeft' \in Nat
    BY <1>1, <1>5, <2>1, AccessWork DEF CallLeft
  <2>3. (L - 1) * M = L * M - M
    BY <1>1, <2>1
  <2>4. OperationLeft' = L * M - M + CallLeft'
    BY <2>1, <2>3 DEF OperationLeft
  <2>5. OperationLeft' < OperationLeft
    BY ONLY <1>1, <1>3, <1>4, <2>2, <2>4
  <2>6. AtWork
    BY <1>1, <2>1 DEF AtWork
  <2> QED BY <1>4, <2>5, <2>6
<1>6. CASE script' = script /\ call.op # "none" /\ (call' = NoCall \/ call' = Waited)
  <2>1. CallLeft' < CallLeft /\ CallLeft' \in Int
    BY <1>1, <1>2, <1>6, CallCounts DEF CallLeft, CountInv, QueueInv
  <2> QED BY <1>2, <1>3, <1>4, <1>6, <2>1 DEF OperationLeft, AtWork
<1>7. CASE UNCHANGED <<script, call>> /\ AtWork /\ failed' # "no"
  BY <1>4, <1>7 DEF OperationLeft, CallLeft
<1>8. CASE ~AtWork
  <2>1. call.op = "none" /\ script = <<>>
    BY <1>8 DEF AtWork
  <2>2. CASE script' = <<>>
    <3>1. L' = 0
      BY <1>1, <2>1, <2>2
    <3>2. CallLeft' \in 0 .. MaxWait + 1
      <4>1. call'.op # "none" => call'.count = 0
        BY <1>5, <1>8, <2>1, CallCounts DEF WorkStep, AtWork, CellAccess
      <4> QED BY <1>1, <4>1 DEF CallLeft
    <3>3. OperationLeft' = L' * M + CallLeft'
      BY DEF OperationLeft
    <3>4. OperationLeft' = CallLeft'
      <4>1. L' * M = 0
        BY <1>1, <3>1, SmallMultiple
      <4> HIDE DEF L, M
      <4> QED BY <1>1, <3>2, <3>3, <4>1
    <3>5. OperationLeft' \in 0 .. 4 * (MaxWait + 2)
      BY ONLY <1>1, <3>2, <3>4
    <3> QED BY ONLY <1>4, <1>8, <3>5
  <2>3. CASE script' # <<>>
    <3>1. L' \in {2, 4} /\ call' = call
      BY <1>8, <2>1, <2>3, ScriptLengths DEF WorkStep, CellAccess
    <3>2. CallLeft' = 0
      BY <2>1, <3>1 DEF CallLeft
    <3>3. OperationLeft' = L' * M + CallLeft'
      BY DEF OperationLeft
    <3>4. OperationLeft' = L' * M
      <4>1. L' * M \in Nat
        BY <1>1, <3>1, SmallMultiple
      <4> HIDE DEF L, M
      <4> QED BY ONLY <3>2, <3>3, <4>1
    <3>5. L' * M \in 0 .. 4 * M
      BY <1>1, <3>1, SmallMultiple
    <3> QED BY ONLY <1>4, <1>8, <3>4, <3>5
  <2> QED BY <2>2, <2>3
<1> QED BY <1>5, <1>6, <1>7, <1>8 DEF WorkStep, AtWork

\* Calls and operations end: whatever is under way has at most 4 * (MaxWait + 2)
\* steps left, and each step takes at least one of them off unless it ends the
\* test (bus.h:575-612, 784-802; cell.h:84-128, 174-210).
THEOREM OperationsEnd ==
  DriverSpec => OperationsShorten /\ [](OperationLeft \in 0 .. 4 * (MaxWait + 2))
<1> DEFINE Inv == QueueInv /\ WorkInv
           Bound == OperationLeft \in 0 .. 4 * (MaxWait + 2)
<1>1. DriverInit => Inv
  BY InitQueueInv, WorkInvInit
<1>2. Inv /\ [DriverNext]_vars => Inv'
  BY NextQueueInv, WorkInvNext
<1>3. ASSUME Inv, DriverNext
      PROVE  /\ AtWork => OperationLeft' < OperationLeft \/ failed' # "no"
             /\ Bound => Bound'
  <2>1. WorkStep
    BY <1>3, NextIsWorkStep DEF WorkInv
  <2>2. OperationLeft \in Nat
    BY <1>3, LeftIsNat
  <2>3. OperationLeft' \in Nat
    <3>1. WorkInv'
      BY <1>2, <1>3
    <3>2. (WorkInv => OperationLeft \in Nat)'
      BY LeftIsNat, PTL
    <3> QED BY <3>1, <3>2
  <2>4. /\ AtWork => \/ OperationLeft' < OperationLeft
                     \/ OperationLeft' = OperationLeft /\ failed' # "no"
        /\ ~AtWork => OperationLeft' \in 0 .. 4 * (MaxWait + 2)
    BY <1>3, <2>1, StepShortens
  <2> QED BY <2>2, <2>3, <2>4, DriverAssumption
<1>4. ASSUME Inv, Bound, [DriverNext]_vars PROVE Bound'
  <2>1. CASE UNCHANGED vars
    BY <1>4, <2>1 DEF vars, pipelineVars, dbusVars, cellVars, OperationLeft, CallLeft
  <2> QED BY <1>3, <1>4, <2>1
<1>5. DriverInit => Bound
  <2>1. ASSUME DriverInit PROVE OperationLeft = 0
    <3>1. Len(script) = 0
      BY <2>1 DEF DriverInit
    <3>2. CallLeft = 0
      BY <2>1, CallCounts DEF DriverInit, CallLeft
    <3> QED BY <3>1, <3>2, DriverAssumption DEF OperationLeft
  <2> QED BY <2>1, DriverAssumption
<1>6. Inv /\ [DriverNext]_vars =>
        [AtWork => OperationLeft' < OperationLeft \/ failed' # "no"]_vars
  BY <1>3
<1> HIDE DEF Inv
<1> QED BY <1>1, <1>2, <1>4, <1>5, <1>6, PTL DEF DriverSpec, OperationsShorten

\* Nothing under way is ever stuck: a call can wait or give up, and an operation
\* makes its next access whatever was queued before it (bus.h:575-612, 784-802;
\* cell.h:84-128, 174-210).
THEOREM OperationsNeverStuck == DriverSpec => []OperationCanGo
<1> DEFINE Inv == QueueInv /\ WorkInv
<1>1. DriverInit => Inv
  BY InitQueueInv, WorkInvInit
<1>2. Inv /\ [DriverNext]_vars => Inv'
  BY NextQueueInv, WorkInvNext
<1>3. Inv => OperationCanGo
  <2> SUFFICES ASSUME WorkInv, call.op = "none", script # <<>>, Head(script).bus = "DBus"
               PROVE  ongoing = <<>>
    BY DEF WorkInv, CountInv, OperationCanGo, AtWork
  <2>1. IsSeq(script)
    BY DEF WorkInv, OneBusInv
  <2>2. Head(script) = script[1] /\ 1 \in 1 .. Len(script)
    BY <2>1, TailFacts
  <2> QED BY <2>2 DEF WorkInv, OneBusInv
<1> HIDE DEF Inv
<1> QED BY <1>1, <1>2, <1>3, PTL DEF DriverSpec
=============================================================================
