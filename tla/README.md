# The RISC-V pipeline in TLA+

A verification project for the processor of this repository (`src/vsrc`), the
buses around it, the board it runs on (`src/vivado`: block RAM, UART) and the
harness that tests it (`src/verilate`: simulated devices, bus drivers, memory
cells, test runner).  The modules model the code cycle by cycle, and the threads
and processes of the harness step by step; TLC checks them on small instances and
TLAPS proves the main results for every value of the constants.

1. The system
2. The modules and the code they model
3. What the runs check, their bounds
4. Fairness
5. What is proved, and why it holds
6. Where the code and its documents disagree
7. What is not modelled
8. What comes next

## 1. The system

| part | state | operations | talks to |
|---|---|---|---|
| pipelined core (`vsrc/src/*.sv`) | pc, four pipeline registers, `wb_fired`, register file | one clock edge of seven `always_ff` blocks; reset | two buses: `ireq/iresp`, `dreq/dresp` |
| bus converters (`DBusToCBus`, `IBusToCBus`) | none | combinational | core and arbiter |
| arbiter (`CBusArbiter`) | `busy`, `index`, `saved_req` | grant, hold, release; reset | two masters, one bus |
| tops (`VTop`, `SimTop`) | none | wiring | a RAM outside the repository |
| Difftest ports (`core.sv` 464-576) | none (three report counters) | one commit per cycle at most | a reference machine outside the repository |
| AXI bridge (`CBusToAXI`) | `in_issue`, `saved_req`, `count` | open the channels of a request, close each, answer beats | a cache bus master, an AXI slave |
| board RAM and tops (`vivado/src/with_delay`) | RAM delay counter and answer registers | clock edges; reset | core, device |
| board device (`device.sv`) | UART transmitter, greeting, `putchar`, `finish` | edges of a clock four times the CPU's | the CPU's device accesses, a serial line |
| simulated device (`cbus_device.cpp`, `axi.h`) | transaction, `enable` | `eval_resp`, `eval_req`, `sync`, `reset` | the design's cache bus, a memory |
| simulated memory (`memory.cpp`) | words, the image to reset to | load, store, map, reset; the router in front | `CBusDevice`, files |
| Confreg (`confreg.cpp`) | registers, the context of the cycle, queue of the serial port | load, store, sync, reset, and a thread that reads a terminal | the router; `checkout_confreg` |
| bus drivers (`bus.h`) | the request on the bus, a queue of accesses | load, store, expect, fence, tick, await, submit | the design under test, the test |
| memory cells (`cell.h`) | an address each; the factory's offset | read, write, assign, swap, allocate | a bus driver |
| test runner (`testbench.cpp`, `testbench.h`) | worker processes, two pipes each, four counters; defer lists, plugins | fork, select, dispatch, dismiss, kill, wait; serial loop, hooks, abort | the tests |

What makes each correct, and what makes that hard:

- **Core.**  A program must not be able to tell the pipeline from a machine that
  executes one instruction at a time.  Everything that can go wrong is a matter of
  the order of events: a branch decided while a fetch is on the bus, a load
  whose user is one behind it, a result that is not in the register file yet, a
  memory access that stops fetch, a reset in the middle of a store.
- **Arbiter.**  Two masters that stall each other share a bus.  The arbiter
  drives its *input*, not the request it saved (`CBusArbiter.sv:32`), so a
  transaction is stable only if the core freezes what it asks for.
- **Difftest.**  Each instruction commits exactly once although WB may be
  stalled for any number of cycles; skipped device accesses must not let the
  reference drift.
- **Bridge.**  Five channels close in any order.  A write is answered before it
  is done, and nothing may notice.
- **Device.**  It pauses at random in the middle of a burst and asserts that its
  master does not move.
- **Board.**  The answer of the RAM is delayed by registers that do not know
  which request they answer.
- **Test runner.**  A worker tells the parent that a test passed by asking for the
  next one, and that it failed by dying.  Every worker inherits the pipes of the
  workers forked before it.  The count, the verdict and the end of the run must
  be right whatever the tests do, hanging included.
  In one process, what a plugin switched on must be switched off whatever fails.
- **UART.**  It takes a character only when idle, its clock is four times the
  CPU's, the answer is a level, and reset does not stop it.  Each character must
  go out once.
- **Confreg.**  A read of the serial port takes effect in three places of a cycle,
  and a thread fills the queue under a lock that two readers do not take.
- **Drivers.**  Answers carry no name; they are matched to requests by order, from
  signals sampled before the edge.  A test must see one memory, whichever of the
  interfaces it mixes, and no call may hang.

## 2. The modules and the code they model

```
Common            widths, bus records, the helpers every module uses
  CpuDecode       cpu_decode.sv
    Core          core.sv, cpu_forwarding_unit, cpu_hazard_unit, cpu_regfile
  CBusArbiter     CBusArbiter.sv
  Isa             the abstract machine: one instruction a step
VTop = Core + CBusArbiter + converters + a RAM      VTop.sv, SimTop.sv, DBusToCBus.sv,
                                                     IBusToCBus.sv; its inductive
                                                     invariant; VTopProofs
  Difftest        VTop + commit ports + reference    core.sv 464-576
  SocTop          VTop + BramWrapper                 vsrc/mycpu_top.sv, soc_top.sv
  TopProofs       theorems of Difftest and SocTop
BoardTop = Core + BramWrapper                        with_delay/mycpu_top.sv
Device            UART transmitter and greeting      device.sv
  BoardProofs     theorems of BoardTop and Device
Datapath          cpu_alu, branch comparison and byte lanes, for TLC

CBusMaster        a master of the cache bus          common.sv 226-241
  CBusMemory      the abstract memory behind a cache bus
  CBusToAXI       the bridge and an AXI slave        CBusToAXI.sv; CBusToAXIProofs
  CBusDevice      the simulated device               cbus_device.cpp, axi.h;
                                                     CBusDeviceProofs

LoadOp            byte lanes of the drivers          bus.h 26-264
  DBus            the plain driver, the wrapper      bus.h 379-613, testbench.h 164
    DBusPipeline  the pipelined driver               bus.h 615-868
      MemoryCell  cells and their factory            cell.h; BusDriverProofs
  SequentialMemory  the abstract memory a test sees

Confreg           registers, serial port, thread     confreg.cpp, confreg.h
  SimSoc          router, memory, checkout_confreg   model.cpp, memory.cpp
                                                     SimSocProofs
Peripherals       the abstract board: accesses happen at once
ImageLoading      parse and map a memory file        common.cpp, memory.cpp

Testbench         run_parallel and its workers       testbench.cpp; TestbenchProofs
SerialTests       run_serial, plugins, hooks, abort  testbench.cpp, testbench.h;
                                                     TestbenchProofs
```

The modules named MC... only give constants their values for TLC, put two
independent parts side by side in one run, or, in `MCBusDriver`, state what the
units of `Datapath` and `LoadOp` compute.

**A step is a clock edge.**  Every register of the RTL is a variable (a pipeline
register is one record, and the decoded controls that travel with an instruction
are its field `d`); every wire is an operator; a wire that depends on a bus
response takes the response as a parameter, because the response depends on the
request in the same cycle.  An `always_ff` block is an action with one disjunct
per branch, and `CoreClock` is the conjunction of all of them.  Names are the
RTL's, in camel case.

**Instructions** are records of the fields the decoder slices out of a word:
opcode group, rd, rs1, rs2, funct3, `alt` (funct7[5]) and the sign-extended
immediate of its format.  Which bits of the word an immediate comes from is not
modelled.  An opcode the decoder does not know is `OTHER`, and does nothing.

**The datapath is a parameter.**  `Alu`, `BranchTaken`, `StoreStrobe`,
`AlignStore` and `ExtendLoad` are CONSTANT operators of `Common` with weak
assumptions (result types; `Alu("ADD", a, b)` is addition, which addresses
need).  The proofs hold for every such datapath; `Datapath` gives the RTL's, at
any width, and TLC uses it.

**Data is abstract.**  A word is a number below `WordCount`, addition wraps.  A
doubleword is a function from byte lanes to `Byte`.  `LineCount` doublewords of
memory are enough for any program a run can build; higher addresses alias.

**Program text and data are separate memories** that see the same bus: a read is
answered with both the text and the data at its address, fetch takes the one and
loads take the other.  The core has no `fence.i` (it decodes to nothing) and no
cache, but a store to text that is already in the pipeline would not be seen,
which the abstract machine would have to know; programs that modify themselves
are outside the model.

**The RAM** of `VTop` answers any request after any number of cycles, a read with
what memory holds, a write with any data in `WriteAnswers`, and a write is done
when it is answered.  **Reset** can come at any edge; a write on the bus at that
moment may or may not get through.  `addr_ok`, `len` and `burst` are constants
or copies of other wires in this design, and left out.

**`Isa`** is what the core promises: registers, memory and a pc; `Step` executes
the instruction at the pc, `Reset` restarts the program.  `VTop` implements it
under the mapping `pc <- ArchPc` (the oldest instruction that has not left MEM,
or where fetch is when there is none), `gpr <- GprDt` (the register view the RTL
itself hands to Difftest) and `ram <- dmem`.  The instruction executes, for the
abstract machine, at the edge at which it leaves MEM.

**`CBusMemory`** is what a cache bus promises: one memory, one transaction at a
time, the beats of a wrapping burst, each atomic when it is answered, and a
memory `kept` that a reset goes back to.  The bridge implements it with `ram <-`
the slave's memory with the write data it has taken applied to it, and `kept <-`
the slave's memory: so a reset can take back the last write, answered or not,
and no more.  The device implements it with `kept <-` the image it was made
with.  Both share `CBusMaster`, the other end of the bus, which is as free as the
protocol allows: any request at any time, held until its last beat, write data
changing after every beat.

**`BramWrapper`** has the two counters and the two answer registers of the
wrapper and the RAM's output register.  `SocTop` puts it behind `VTop` and
claims that it is one of the RAMs `VTop` allows: `ImplementsVTop == Spec`, with
the RAM's own registers as the only difference.  What is proved of `VTop` then
holds of the board.  `BoardTop` is the other `mycpu_top` of the repository, which
has no arbiter.  Programs in these two use RAM addresses only.

**`Testbench`** has one action per system call that another process can tell from
the next: the parent forks, selects, reads a request and answers it, kills and
waits; a worker writes a request, reads a number, ends a test, exits.  A pipe is
the count of characters, or the sequence of numbers, in it; that a pipe has ended
is read off the processes that hold its other end.  For the pipe to a worker
these are the parent, until it closes it, and *every worker forked later*, which
inherited it and does not close it.  A test passes, fails (`abort()`, which ends the
worker) or, if it is in `hangs`, never returns; `outcome` is what became of it, which
no process can see and the properties compare with what the parent believes.

**`SerialTests`** is the same runner with one worker, which runs the tests itself.  A
plugin is switched on, then defers switching itself off (`halfway` is a failure
between the two, as TRACE has when the reset of the model asserts); `SKIP`
returns early, what was deferred being run; an assertion can fail at any point, in a hook included.
`abort_testbench`, which the handler of the signal is meant to call, then runs
whatever is left in the list of the test *and* of the program, last first.

**`Device`** steps with the fast clock; the CPU samples `ready` at every fourth
edge, and edges line up (`clk_wiz_0.xci`: 25 of 100 MHz, phase 0).  At the CPU's
end an access is held until it is answered and then withdrawn for at least one
cycle of the CPU, which is what the arbiter does, and what the fetch between two
data accesses does for the other top.  FINISH is the last thing a program writes.
At the other end a receiver samples the middle of each bit of the line and knows
nothing of the registers.  The ghost `due` is what was written and not yet heard.
Reset is a button held until the CPU has seen it; it does not reach the UART, so
it may spoil what is on its way (`upset`, until the line is quiet).

**`DBus`, `DBusPipeline`, `MemoryCell`** are the test's side of a bus whose design
answers when it likes, in the cycle of the request included.  A call is begun,
waits cycle by cycle (`await` and `fence` count, up to `MaxWait`), and returns;
`submit` may put a request up between two ticks.  Values are bytes in lanes,
placed, strobed and taken out by `LoadOp` as the header does.  An operation on
cells is a script of accesses: assigning one cell to another is a load and a
store, a swap four accesses with two locals.  A test uses cells of the plain driver
when the queue of the pipelined one is empty, as two drivers of one bus need.  `SequentialMemory` is what all of
them are to the test: one memory, accesses in the order of the calls, answers in
that order, a fence that returns when all have come.  The mapping gives
the memory the test has been promised: each byte is what the last task of the queue
that writes it has put there, or else what memory holds.

**`Confreg` and `SimSoc`.**  A cycle of the simulated board: at most one access,
through the router, which takes the first window that matches; then `sync`, in
its parts (the queue of the serial port, the rest); then `checkout_confreg`, whose
two assertions are apart: a number that is in order is `shown` as completed, and only
then its acknowledgement looked at (`NotAcked`).  The
thread (`fgetc`, lock, push, unlock) steps between any two of them.  The
registers that do nothing but keep a value are one, and a register is found by
name, not by its lane.  `Peripherals` has no cycles, phases or threads: an access
happens all at once, and the serial port is a queue.

**`ImageLoading`** is `feed`, line by line, and `map`, byte by byte, with the
32-bit mask the code computes.

## 3. What the runs check, their bounds

| run | module, cfg | states | shows |
|---|---|---|---|
| `vtop_reset` | MCVTop, VTop_reset | 33,898 | `IInv`, `ImplementsIsa`, `CommitsInTime`, `KeepsCommitting` with reset at any edge |
| `difftest` | MCDifftest, Difftest | 327,279 | `RequestHeld`, `LockStep`, `TrapReportsLowA0`, `NoSpeculativeAccess`, `SameRam` with a reference machine beside the pipeline, for all three menus of programs |
| `cbus_to_axi` | MCBusToAXI, CBusToAXI | 90,388 | `BridgeInv`, `AxiStable`, `ImplementsCBus`, `AlwaysAnswered` with any AXI slave and resets |
| `cbus_device` | MCBusDevice, CBusDevice | 4,626 | `SanityChecks` (the asserts of the code), `ImplementsCBus`, `AlwaysAnswered` |
| `soc_top` | MCSocTop, SocTop | 16,408 | `AnswerIsCurrent`, `ImplementsVTop`, `SocKeepsCommitting` with reset at any edge |
| `board_top` | MCBoardTop, BoardTop | 100,780 | `BusSteady` of the other top; beside it the device: `WrittenIsHeard`, `AccessAnswered` |
| `testbench` | MCTestbench, Testbench | 30,632 | `IInv`, `PassedIsSound`, `VerdictIsRight`, `NoProcessLeft`, `StartedOnce`, `Finishes` for three workers and three tests that pass, fail or hang; `HooksUndo`, `Finishes` of the serial runner |
| `bus_driver` | MCBusDriver, BusDriver | 246,265 | `UnitsAgree` on every pair of eight-bit operands; then the drivers: `ImplementsMemory`, `QueueOnBus`, `WrapperAgrees`, `CellsDisjoint`, `CellsAreVariables`, `CallsReturn` |
| `sim_soc` | MCSimSoc, SimSoc | 389,935 | `FetchHasChar`, `CompletedInOrder`, `ImplementsPeripherals`, `TypedIsOffered` with the thread and resets in between |
| `board_answers`, `board_fetch`, `image_loading` | | | a counterexample each: section 6 |

**Programs.**  TLC starts from *every* program of three or four instructions over
the run's menu; the text after it is an endless loop (`halt`).  Hazards between
instructions reach no further than the three stages between ID and WB, so four
instructions cover every combination of producer, user and branch, and the
latency of every request is chosen afresh, so every alignment of stalls with
them is covered too.  Menus (`MCProgram`) keep to two registers so that almost
every pair of instructions depends on each other.  The runs with resets, fairness
or a RAM with registers of its own multiply the states of each program, and take
programs of three from shorter menus.

**Widths.**  `LaneBits = 1`, bytes of one bit, makes a doubleword eight bits and
`WordCount` 256: wide enough for sign extension, for every access size and for
addresses to wrap.  There are four doublewords of memory, all ones at first, so
that no load returns zero by accident and no missing write goes unnoticed.
Registers 0, 1 and 2: the zero register, and two that carry dependences.

**Resets** cannot be bounded by a count and need not be: they lead back to states
already seen.

**Bus runs.**  Words of two bytes, two words of memory, bursts of one, two and
four beats, byte and half-word beats, an aligned start, one in the middle of its
window and one off its slot: each of the three branches of the address
computation is taken.  `Signals` lets the slave take each channel at each edge or
not.  Longer bursts repeat what a burst of four does.

**Test runner.**  With three workers and three tests a worker is first, middle or
last in the order of inheritance, gets no test, one or all of them, and a failure
finds others in every phase.  The theorems (section 5) are for any number.

**Serial runner.**  Lists of up to three tests with up to three plugins each, every
plugin that differs in what it defers, skips before and after a plugin, a
failure at any point.

**Units.**  The core and `Isa` share the units of `Datapath`, so their agreement
says nothing of what the units compute.  `UnitsAgree` holds stores against
loads, the comparator against the ALU, shifts against their bits, and the lanes
of the harness against the lanes of the core.

**Drivers.**  Two doublewords, accesses of a doubleword, of its last halfword, of the
same one by an address that is not aligned, and of the upper word of the other;
one value that is not zero; up to two accesses in the queue, waits of up to two
cycles, an arena of six bytes for cells of two and four.  Two accesses are enough
for every order of request, answer and `submit`; a third repeats them.

**Simulated board.**  Bytes of four values, of which two are above 0x7f; two
characters typed; a memory of two cells that appears twice; addresses that differ
only above 32 bits.  Four kinds of program, each any sequence of its accesses.

**UART.**  Two data bits and three cycles a bit: a frame with its idle cycle is 13
cycles, one more than a multiple of the CPU's four, so that the two clocks meet
in every phase, as they do with the 104,171 cycles of the board.  A greeting of
two characters and the zero that is never sent.  Nothing bounds the number of
characters written: only those not yet heard are kept.

**`BRAM_DELAY = 2`** is the value the wrapper itself uses in simulation; 32 on the
board differs only in how long the counter counts.

**Mutants.**  Each property is shown to fail when one definition is replaced by a
faulty version, kept just before it: a hazard unit that forgets rs2, a
forwarding unit that prefers the older producer, a redirect that does not wait
for the bus, a reset that leaves MEM alone, a bridge that is free before the
write response, an arbiter that keeps its grant, a `putchar` that does not hold, a
`submit()` that does not look whether the bus is busy, a swap that keeps a value in the
cell it has just written, a router in the wrong order.

## 4. Fairness

- `VTop!FairSpec`: weak fairness of `IdleEdge` is the clock ticking while nothing
  is on the bus; weak fairness of `AnswerEdge` is a RAM that answers every request
  in the end.  The first is how hardware runs, the second is what any RAM of a
  working system does; nothing is assumed of the arbiter or the core.
- `SocTop!FairSocSpec`: weak fairness of `Tick` alone, the clock.  That the RAM
  answers is then a consequence of `BramWrapper`, not an assumption.
- `CBusToAXI!FairSpec`: the clock while idle, and weak fairness for each channel
  and for the slave's store: a slave leaves no handshake due for ever.  AXI
  demands this of a slave.
- `CBusDevice!FairSpec`: cycles go on, and again and again one leaves the device
  enabled: `p_disable` is a probability below 1 (at 1 the device is off).
- `MCTestbench!MCFairSpec`: weak fairness of the parent, of each worker and of the
  serial runner: the operating system runs every process that can go on.  A test in
  `hangs` never can.  `Finishes` assumes of the serial runner that all its tests
  return; with one that does not, it would hang with it.
- `MCBusDriver!Spec`: weak fairness of `Running`, the program that has made a call.
  Nothing is assumed of the design: if it never answers, the calls time out.
- `SimSoc!FairSpec`: weak fairness of `Ticking` (the simulation calls `tick`) and of
  `Typing` (a thread that has a character goes on).  Nothing is assumed of the
  keyboard.
- `MCBoardTop!MCSpec`: weak fairness of the clock.

No fairness holds resets back.  The liveness properties allow for them instead: a
machine that is reset again and again need not commit, and a reset withdraws the
request of a master.

## 5. What is proved, and why it holds

Eight modules of proofs are checked by TLAPS, for every value of the constants:
word sizes, register files, memories, programs, datapaths and resets or none for
the core and the board; the length of a frame, the greeting and the ratio of the
clocks for the UART; bus widths, bursts and images for the bridge and the device;
workers, tests and plugins for the runners; accesses, sizes and bounds for the
drivers; programs, layout and typed characters for the simulated board.

| module | theorem | says |
|---|---|---|
| `VTopProofs` | `Invariant`, `TypeCorrect` | `Spec => []IInv`, `Spec => []TypeOK` |
| | `RequestsHeld`, `CommitsBeforeAnswer` | `Spec => []RequestHeld`, `Spec => []CommitBeforeAnswer` |
| | `Refinement` | `Spec => ImplementsIsa`: the pipeline implements the one-instruction-at-a-time machine |
| | `CommitWithinEight` | `Spec => CommitsInTime`: a commit within eight edges and the waits of the RAM |
| | `CommitsForEver` | `FairSpec /\ []EdgePossible => KeepsCommitting` |
| `TopProofs` | `ReferenceInStep` | the invariant of co-simulation |
| | `CommitsInLockStep`, `RamInStep`, `TrapCodeIsLowA0`, `NothingSpeculative` | four properties of the run `difftest` |
| | `AnswersAreCurrent` | `SocSpec => []AnswerIsCurrent` |
| | `BoardIsVTop`, `BoardImplementsIsa` | `SocSpec => ImplementsVTop`, `SocSpec => ImplementsIsa` |
| | `BoardCommitsInTime` | a commit within `8 * (BRAM_DELAY + 3)` cycles of the board |
| `BoardProofs` | `RequestIsSteady` | `Spec => BusSteady` of the arbiter-free top |
| | `DeviceInvariant`, `WritesAreHeard` | `DeviceSpec => []DeviceInv`, `DeviceSpec => []WrittenIsHeard`: each character written to the UART goes out once, in order |
| | `AnsweredWithinGreeting` | an access is answered within the time of the greeting, a frame and a cycle of the CPU |
| `CBusDeviceProofs` | `AssertionsHold`, `DeviceIsMemory` | `Spec => []SanityChecks`, `Spec => ImplementsCBus` |
| | `AnswerComesNearer` | the last beat within `MaxLen + 2` cycles that leave the device enabled |
| `CBusToAXIProofs` | `BridgeInvariant` | `Spec => []BridgeInv` |
| | `BridgeTypes`, `FreeIsDone`, `LastIsAnnounced` | its readable consequences: types, a free bridge has nothing under way, wlast is on the announced beat |
| | `ChannelsStable`, `BridgeIsMemory` | `Spec => AxiStable`, `Spec => ImplementsCBus` |
| | `AnswerComesNearer`, `BridgeNeverStuck` | the last beat within `MaxLen + 8` handshakes; bridge and slave never wait for each other |
| `TestbenchProofs` | `Invariant`, `TypeCorrect` | `Spec => []IInv`, `Spec => []TypeOK` of the test runner |
| | `NeverStartedTwice`, `VerdictCorrect`, `CountCorrect`, `AllReaped` | no test is started twice; the verdict is right; no test counts as passed that did not pass; no process is left |
| | `RunIsBounded`, `RunnerNeverStuck` | at most `7 * NumWorkers + 5 * NumTests + 3` steps; parent and workers never wait for each other |
| | `SerialRunIsBounded` | the serial runner takes finitely many steps, whatever fails |
| | `HooksUndone` | `HooksUndo` of the serial runner: what a test switched on is switched off, and exactly once |
| `BusDriverProofs` | `AnswersMatch`, `ComparisonIsRight`, `CellsApart` | `[]QueueOnBus`, `[]WrapperAgrees`, `[]CellsDisjoint` |
| | `DriversAreMemory` | `DriverSpec => ImplementsMemory`: both drivers together are a memory that sees the accesses in the order of the calls |
| | `CellsBehave` | `DriverSpec => CellsAreVariables`: swap and assignment of cells |
| | `OperationsEnd`, `OperationsNeverStuck` | what is under way has at most `4 * (MaxWait + 2)` steps left, and can take the next |
| `SimSocProofs` | `CharacterIsThere`, `MonitorIsSound` | `[]FetchHasChar`, `[]CompletedInOrder` |
| | `OfferedInTheEnd` | `FairSpec /\ []StepPossible => TypedIsOffered` |
| | `SimulationIsBoard` | `Spec => ImplementsPeripherals`: accesses through the simulated bus are accesses of a board where they happen at once |

**Assumptions.**  Sizes are positive, 0 is a byte and a register
(`SizeAssumption`); the ALU returns words and adds when asked to
(`AluAssumption`); the other datapath operators return values of their type
(`BranchAssumption`, `LaneAssumption`); the reset vector is a word; the arbiter
has two inputs; texts and images are well typed (`TextAssumption`,
`RamAssumption`); no doubleword is both RAM and device (`RamBaseAssumption`); a0
is a register other than x0.  The masters of the cache bus ask for no beat that
leaves the memory (`BurstAssumption`, for the bridge and for the device); the
drivers assume that `NullPtr` is not a destination and that the arena of cells lies
within the words; `SocTop`, that `VTop` admits any data with the answer to a write;
the simulated board, that its devices are aligned to their sizes and do
not overlap (`LayoutAssumption`); the
serial runner, that the plugins of a test are those of `testbench.h`
(`SuitesAssumption`).  The AXI slave keeps the rules of AXI.  TLC evaluates all of
them on the instances it runs.

One assumption was found by its proof.  The UART's clock is `Ratio` times the
CPU's, and `WrittenIsHeard` needs `Ratio >= 2`: with one clock for both, the cycle
that starts a character is taken for its answer by the access that is already
waiting with the next one, and that one is lost.  The board has 100 and 25 MHz.

**The argument.**  `ImplementsIsa` is not inductive; `IInv` is.  Its parts
(at the end of `VTop`) say why a pipeline works:

- `ControlsMatch`: controls in a stage are those of the instruction in it, and
  an empty stage holds the zero word, which does nothing.  The forwarding and
  hazard units look at controls without a valid bit, so this is needed.
- `FetchedFromText`, `InOrder`: a stage holds the instruction at its pc, and
  behind it come those that follow it in the text, because a redirect empties
  both younger stages.
- `BusInv`: the granted request is still up and unchanged, and WB has nothing
  left to commit.
- `FiredInv`, `OperandsInv`, `NoLoadUse`: where the current value of a register
  is.  An operand read in ID is right unless MEM or WB is about to change it,
  and then the forwarding unit sees it; what it cannot forward, a load's result
  in MEM, is never wanted.
- `ExecutedInv`: the instruction in MEM has been executed as the architecture
  says.  The refinement step then reads the abstract `Step` off this conjunct.

A clock edge has four outcomes, which the proof names and treats once
(`EdgeOutcomes`): everything holds (`Hold`), the fetch is answered and all stages
move (`Flow`), the data access is answered (`MemDone`), or a load-use bubble is
inserted with no bus involved (`LoadUse`).

**The test runner.**  Its `IInv` says who holds what.  A number is in one pipe or in
one worker's hands, and nowhere else (`HeldInv`, `OutcomeInv`); a worker in the
parent's set that has asked before holds exactly one test the parent has not
counted, so `dispatched = passed + |open \ first|` (`CountInv`); a dead worker
the parent still reads from is a test that failed, and conversely (`FailureInv`).
When nothing has failed, all are sent away, `open` is empty and the count is the
number of tests: the verdict.  `CountCorrect` needs one thing more: a test that
failed or was killed has taken a worker with it, a different one for each test,
which the parent still has down as running a test (`LostInv`).

**The bridge.**  `BridgeInv` ties five channels to one request.  While a read is
due, the slave's burst is the saved request at beat `len - count` (`ReadInv`);
while a write is due, the slave has `len - count` beats of it, all of them once W is
closed, and it stores only when B alone is left (`WriteInv`); while R or W is due
the master still drives what was saved (`RequestInv`), which is why the data
channel may follow the live request and the address channels the saved one.  The
refinement then has one step for each thing an edge can do to what the master
sees: a beat read is `Serve` on the memory as it is; a beat of a write is `Serve`
by the lemma that storing a burst and one more beat is storing the burst and then
merging the beat; a slave that moves the burst to its memory changes `kept` and
nothing the master sees; a reset goes back to the slave's memory.

**The board.**  `AnswerIsCurrent` says that the RAM is enabled only while a request
is up, and that when the delayed answer meets a request the output register holds
what it asks for; the answer that is repeated meets the one cycle in which nobody
has the bus.  With it each edge of
the board is an edge of `VTop` whose RAM answers or waits, and `BoardImplementsIsa`
is `Refinement` carried over.

**The other top and the UART.**  `BusSteady` rests on the core alone: a request of
either port stays as it is until its answer, whoever is chosen.  `WrittenIsHeard`
compares what the CPU has written with what the line has said, and between the two
are a level answer, an edge detector, a frame being shifted out and a receiver
sampling it, on a clock `Ratio` times as fast.  `DeviceInv` has a conjunct for each:
what the registers may hold in each state of the transmitter (`RegistersInv`); what
that a character is started before the CPU looks for an answer, and held by the CPU
until it is out (`AccessInv`); that line and data register belong to the character in
flight, at the bit the counters say (`FrameInv`); and that the receiver is at the same bit of the same frame, as
many cycles behind as its counter says (`ReceiverInv`).

**The simulated device.**  The device steps its own transaction from beat to
beat and never looks back at the request.  `TxInv` says that what it holds is always
the request's own wrapping burst, some beats on, and the request still on the bus:
the asserts cannot fail, and each beat is a `Serve` of the abstract memory.

**The serial runner.**  `SerialInv` says that within a test the list is `post` and the
plugins run so far, in their order, that the hooks run so far are its end in
reverse, and that all that is switched on has a hook still to be run (`Covered`).
Every way out of a test, by return, skip, failure or abort, runs the list; only a
plugin that failed before it could defer is left on (`halfway`).

**Drivers.**  `QueueOnBus` is inductive once the queue is a sequence and its front is
known after `Append` and `Tail`.  `WrapperAgrees` needs that under `CMP_TO` the two
memories are equal and nothing pipelined is under way; `CellsDisjoint`, that every
cell lies below the offset.

`ImplementsMemory` maps the drivers to a memory in which every call has already
happened, and the answers still owed follow from the queue.  That memory is defined
byte by byte (`After`): a byte is what the last task in the queue that writes it has
put there.  Two lemmas carry the refinement.  `AfterAppend`: with one task more the
memory is the old one with that task done, and the answers owed are the old ones
and one more.  `AfterTail`: doing the first task and taking it off the queue changes
neither; it needs that a set of indices that is not empty has a last one, which
follows from the well-founded order of the naturals.  A call is then `Ask`, an
answer `Deliver`, and the design's delays are stuttering.

For `CellsAreVariables`, `OperationInv` says for each of the four accesses of a swap,
and the two of an assignment, what memory is by then and what the locals hold, or
will hold when the load under way is delivered (`Fetched`) and read back
(`AsRead`), while nothing that is still on its way touches the other one (`Kept`).

**The simulated board.**  `FetchHasChar`
rests on `FetchInv`, which says in which part of a cycle the queue must have the
character that is offered; only `sync` pops and only the thread pushes, so a test
of the queue without the lock can be late, never wrong.  `CompletedInOrder` rests
on `AckInv`: what NUM holds has been stored by the program (`nums` records that), and
the numbers up to `_current_num` have been shown, with one more exactly if its
acknowledgement has failed and ended the run.
`ImplementsPeripherals` maps the bytes the program has stored, in memory or still
on the bus, to a memory in which they are there at once; `QuietInv` says that
between two cycles nothing is under way, in one cycle there is one store at most,
and only a character typed on a terminal is on its way to the queue.

**What the proof found to be load-bearing.**  The register file has no
write-through and the core has no path from MEM/WB to ID.  An instruction that
reads its operands in ID one edge after its producer left MEM would read the old
value, and by the time it is in EX the producer is gone from WB.  It does not happen
only because the arbiter spends one cycle between a request and its grant: the
producer commits in that cycle, before any answer can let ID move
(`CommitBeforeAnswer`).  A bus that answered in the cycle of the request would
break the core.  The `wb_fired` bit is what lets that early commit not be
repeated for as long as the pipeline then waits.

The same cycle of the arbiter is what makes the board work: `bram_wrapper` raises
ready a second time in the cycle after it has answered a read, and that is
exactly the cycle in which the arbiter listens to nobody (`soc_top`).  The
arbiter-free top does not have it (section 6).

**Progress.**  Something happens in the end because it cannot be put off for ever,
and the second half of that is safety.  For each component whose liveness a run
checks there is a number that says how much is left to be done, and a proof that
each step lowers it, does what is waited for, is a reset, or is a wait that leaves
it as it was and that fairness (section 4) ends:

- Core: the stages the oldest instruction has still to leave, at most four, each
  at the price of a grant and an answer (`EdgesToCommit`).  It is enough to look at
  the oldest: a redirect empties only what is younger, and a load-use bubble goes
  in behind it.  On the board each edge is one cycle and at most `BRAM_DELAY + 2` of
  waiting (`TicksToAnswer`).
- UART: what is left of the frame on the line, and the characters that go before
  the access is answered (`UntilQuiet`).  The transmitter may be idle for a single
  cycle between two characters, and whether the CPU sees it depends on the phase
  of the clocks; so the greeting has to be counted as a whole.
- Bridge: handshakes due, those of the write before included, since a master may
  ask again before B (`ToAnswer`).  That one of them can be had rests on `BridgeInv`:
  a slave that takes W before AW still owes AW, and when only B is left it has the
  burst and can store it.
- Simulated device: beats left, and the cycle that starts them (`CyclesToAnswer`).
- Test runner: what each phase of the parent, each worker and each test not yet
  handed out can still cost (`StepsLeft`).  `NeverStuck` follows from `WorkerInv` and
  `OpenInv`: a worker that waits for an answer has its request in the pipe, or the
  answer, and one the parent waits for at the end has been told to leave.
  Workers inherit pipes from each other, so that none can rely on the end of a file
  while others live; the proof shows that none has to.
  After a failure the parent waits for nobody that it has not killed.
- Drivers: accesses left to the operation, and waits left to the call
  (`OperationLeft`).  An access of a cell on the plain driver is made only while the
  other queue is empty, and `OperationsNeverStuck` shows that an operation begun then
  finds it so at each of its accesses.
- Simulated board: the phases of a cycle until it looks at the queue again
  (`PhasesLeft`).  A character that is not yet offered cannot be taken either, so the
  simulation needs no lock before it has offered it, and the thread needs none but
  its own; a reset that comes in between clears the queue, and must wait for a push
  under way.

For the core and the simulated board, where these numbers do not depend on the
constants, the whole of the liveness follows.  `CommitsForEver` has weak fairness of
clock and RAM as `FairSpec` states it and one hypothesis, `EdgePossible`: that
`IdleEdge` is enabled while the bus is idle and `AnswerEdge` while it is not.
`OfferedInTheEnd` has that of the two threads, and `StepPossible`: each can step when no
lock is in its way.  The prover does not reach ENABLED.  Given to the runs `vtop_reset`
and `sim_soc` as one more invariant, TLC finds these two true in every state.

**Only model-checked.**  The temporal conclusion of `SocKeepsCommitting`,
`AlwaysAnswered` (twice), `AccessAnswered`, `Finishes` and `CallsReturn`: the bounds are
proved, but that a bounded number that keeps falling ends takes an induction over
it, whose theorem has an operator for its parameter, where the core's eight steps
could be written out; and that the actions are enabled is ENABLED again.
And `UnitsAgree`, the concrete `Datapath` against `LoadOp`, on eight-bit words: it
uses `Bitwise`, and its sums over lanes are recursive.  Every other property of a
run that passes is stated by a theorem.

## 6. Where the code and its documents disagree

- **An answer to the request before** (`board_answers`).  `real_valid` is still up in
  the cycle in which `bram_wrapper` answers a read, so `ready_read` is up once more
  in the next (`bram_wrapper.sv:60-68`); it also rises in the cycle after a write.
  `with_delay/mycpu_top.sv` puts the next request on the bus in that cycle and
  takes the old answer for it.
- **Half of the fetches** (`board_fetch`).  `with_delay/mycpu_top.sv:95` always
  takes bits 31:0; an instruction at an address with bit 2 set is never fetched.
  `DRESP_TO_IRESP` in `common.sv` selects the half.

- **The image in memory** (`image_loading`).  `BlockMemory::map` clears a byte with
  `~(0xffu << shamt)`, 32 bits widened to the 64 of the word (`memory.cpp:102`): each
  byte mapped clears bytes 4 to 7 of its word, so that of those only the last one
  written is left.  For bytes 4 to 7 the shift itself is undefined; the run takes
  both outcomes a build can have, and the image is lost with either.  `runner.h:71`
  calls the file a memory initialization file.

Neither of the first two concerns `vsrc/mycpu_top.sv`, which wraps `VTop`.  That
both tops have the same module name, and `soc_top` instantiates it by name with
`.*`, means the list of files decides which one a bitstream has.

Met while modelling, and not runs, since no document or test says otherwise or
since the model leaves them out:

- The note on strobe at `vsrc/include/common.sv:167-173` says data is placed as if
  the address were aligned to four bytes; `core.sv:41-43` uses all three low bits
  and the eight lanes of the bus.  The code is right; the note is older.
- `device.sv`: the last character of the greeting goes out twice (`txData` is not
  loaded again once `idx` is 0), and after a reset the greeting goes on where it
  was, since neither `idx` nor the UART is reset.  A character written while the UART
  still sends one from before the reset is lost: `putchar` drops it.  `WrittenIsHeard`
  says exactly this.
- `confreg.h:23`: registers are keyed by byte address in a 64-bit word; those at an
  odd multiple of four answer in the low half, where a 64-bit core does not look.
- `model.cpp:142`: `_current_num` is part of no reset.  After a reset of Confreg the
  first look at NUM ends the run, if a number had been passed.
- `model.cpp:149`: `#N completed` is printed before the acknowledgement is asserted at
  line 150, so a number that was never acknowledged can be shown, as the last thing
  before the run ends.  `CompletedInOrder` says exactly this.
- `core.sv:468, 572`: eight bits of a0 are kept for a trap and three reach its port, so
  that 8 in a0 is reported as 0.  `TrapReportsLowA0` says what is reported.
- `testbench.h:137`: a plugin is switched off, not back.  After a test that names LOG
  the logging the runner had enabled stays off, results included.
- `testbench.h:132`: a plugin that fails between switching on and deferring, as TRACE
  does when the reset of the model asserts, is not switched off (`halfway`).
- `testbench.cpp:239`: `abort_testbench`, meant for a signal handler, takes the log
  lock, which is not recursive.  The handler is not in the repository.
- `testbench.cpp:108`: workers are forked while the thread of the serial port may
  hold its lock, which nobody then releases in the worker.
- `confreg.cpp:169`: `~Confreg` stops the thread by a flag it looks at after `fgetc`;
  until then the detached thread uses a queue that is gone.
- `cell.h:115`: a pipelined cell of eight bytes is read through a variable of four.
  `CellsAreVariables` leaves these cells out.

## 7. What is not modelled

- The cycle and instruction counters of `core.sv` (481-491): they are only
  printed.  Interrupt inputs and CSRs: no module uses them.
- Misaligned accesses are modelled as the RTL does them (lanes are cut off at the
  doubleword), not as an exception, which the core does not have.
- Self-modifying programs, see section 2.
- `CBusMultiplexer` and `SimpleArbiter`: no top instantiates them.  (None
  instantiates `CBusToAXI` either; it is modelled because `CBusDevice` claims to
  behave like it, and the two are held to the same specification.)
- INCR bursts of `bram_wrapper`, which the CPU does not ask for; the cycle counter,
  switches and LEDs of `device.sv`; clock generation and pins.  The crossbar is
  modelled one side at a time, RAM programs in `SocTop`, device accesses in `Device`:
  the CPU has one request on the bus, so the sides share nothing but its wires.
- `device.sv` built with SIMULATION, where ready is always up and characters are
  printed, not sent.
- Confreg: the lanes of its registers, and the life of the object.  Of the system it
  is part of, one access in a cycle, which is what its device makes.
- `BlockMemory::dump`; text-trace comparison (`diff.h`), tracing, the clock phases of
  the generated model, the command line, logging and the status line: input, output
  and formatting.
- Of the test runner: the failure of a system call, which aborts the parent, and a
  hook that fails a second time while `abort_testbench` runs it.
- `vsrc_reference`, an earlier copy of the design; generated IP; test programs.
- Vendored headers.  Of the 12,918 lines of C and C++ in the repository 9,274 are
  `CLI11.hpp` and `nameof.hpp`, so most lines of the repository in those languages
  are nobody's model to write; the design itself is SystemVerilog.

## 8. What would come next

1. Core: the immediates as `cpu_decode` slices them; the arbiter with any number of
   masters, and who can starve; what `vsrc_reference` does differently.
2. Board: RAM and device behind one crossbar, and a program that polls TX_READY.
3. Proofs: the arbiter's mutual exclusion for every `NUM_INPUTS`; the byte lanes of
   `LoadOp` against those of the core for any width of a lane.
