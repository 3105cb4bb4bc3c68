-------------------------------- MODULE SimSoc ------------------------------
(***************************************************************************)
(* The simulated board as ModelBase::install_soc builds it: a router that  *)
(* sends an access to the memory, under two addresses, or to Confreg; and  *)
(* the cycle of a model on it.  In a cycle the bus makes at most one       *)
(* access; then Confreg synchronises and checkout_confreg looks at what    *)
(* the program announced.  The thread of the serial port runs beside that. *)
(***************************************************************************)
EXTENDS Confreg

CONSTANTS
  Programs,          \* sets of accesses: store, addr, data, byte
  MemSize,           \* cells of the memory
  Span,              \* the addresses that 32 bits tell apart
  BootBase, BootSize, ConBase, ConSize,
  Register           \* the register at an offset of Confreg

ASSUME SimSocAssumption ==
  /\ {MemSize, Span, BootBase, BootSize, ConBase, ConSize} \subseteq Nat \ {0}
  /\ Programs \subseteq SUBSET [store : BOOLEAN, addr : Nat, data : Word, byte : BOOLEAN]
  /\ Register \in [0 .. ConSize - 1 -> Registers \cup {"UART_LSR", "UART_DATA", "unknown"}]

\* The windows are aligned to their sizes and apart; the memory is no larger
\* than its window, and lies below.
ASSUME LayoutAssumption ==
  /\ BootBase % BootSize = 0 /\ ConBase % ConSize = 0 /\ Span % ConSize = 0
  /\ BootBase + BootSize <= Span /\ ConBase + ConSize <= Span
  /\ (BootBase .. BootBase + BootSize - 1) \cap (ConBase .. ConBase + ConSize - 1) = {}
  /\ MemSize <= BootSize /\ MemSize <= BootBase

VARIABLES
  acc,          \* the access of this cycle, None if there is none
  rdata,        \* what the load of this cycle returned
  mem, saved_mem,
  program,      \* the accesses made in this run
  phase,        \* what the cycle does next: "access", "uart", "rest" or "check"
  current,      \* _current_num
  console,      \* how many characters it showed, modulo two, and the last
  shown,        \* the numbers it showed as completed, in their order
  nums,         \* history: the words stored to NUM
  failed        \* the assertion that ended the run, "no" until then

busVars == <<acc, rdata, mem, saved_mem>>
vars    == <<confregVars, busVars, program, phase, current, console, shown, nums,
             failed>>

None == [store |-> FALSE, addr |-> 0, data |-> 0, byte |-> FALSE]

\* The masks have 32 bits, so that an address is compared by its low half; it
\* is translated whole.
LayoutMemFirst ==
  <<[size |-> Span,     prefix |-> 0,        con |-> FALSE, base |-> 0],
    [size |-> BootSize, prefix |-> BootBase, con |-> FALSE, base |-> BootBase],
    [size |-> ConSize,  prefix |-> ConBase,  con |-> TRUE,  base |-> 0]>>

Layout ==
  <<[size |-> BootSize, prefix |-> BootBase, con |-> FALSE, base |-> BootBase],
    [size |-> ConSize,  prefix |-> ConBase,  con |-> TRUE,  base |-> 0],
    [size |-> Span,     prefix |-> 0,        con |-> FALSE, base |-> 0]>>

Matches(e, addr) == ((addr % Span) \div e.size) * e.size = e.prefix
Search(addr) == Min({i \in DOMAIN Layout : Matches(Layout[i], addr)})

\* The device of an access, and where in it: a register, or a cell of memory.
Entry(a)  == Layout[Search(a.addr)]
Port(a)   == Register[a.addr % ConSize]
CellOf(a) == a.addr - Entry(a).base

Refused(a) == Entry(a).con /\ a.store /\ StoreRefused(Port(a), a.byte)
OutOfRange(a) == ~Entry(a).con /\ CellOf(a) >= MemSize

-----------------------------------------------------------------------------
(* The access of a cycle *)

ConLoad(a) ==
  /\ Entry(a).con /\ ~a.store
  /\ rdata' = LoadValue(Port(a))
  /\ ctx' = CtxAfterLoad(Port(a))
  /\ UNCHANGED <<mem, changes, nums>>

ConStore(a) ==
  /\ Entry(a).con /\ a.store
  /\ ConfregStore(Port(a), a.data)
  /\ nums' = IF Port(a) = "NUM" THEN nums \cup {a.data} ELSE nums
  /\ UNCHANGED <<rdata, mem>>

MemLoad(a) ==
  /\ ~Entry(a).con /\ ~a.store
  /\ rdata' = mem[CellOf(a)]
  /\ UNCHANGED <<mem, ctx, changes, nums>>

MemStore(a) ==
  /\ ~Entry(a).con /\ a.store
  /\ mem' = [mem EXCEPT ![CellOf(a)] = a.data]
  /\ UNCHANGED <<rdata, ctx, changes, nums>>

Idle ==
  /\ phase = "access"
  /\ phase' = "uart"
  /\ UNCHANGED <<confregVars, busVars, current, console, shown, nums, failed>>

Access ==
  /\ phase = "access"
  /\ \E a \in program :
       /\ ~Refused(a) /\ ~OutOfRange(a)
       /\ acc' = a
       /\ ConLoad(a) \/ ConStore(a) \/ MemLoad(a) \/ MemStore(a)
  /\ phase' = "uart"
  /\ UNCHANGED <<ctx0, regs, opty, tty, threadVars, saved_mem, current, console, shown,
                 failed>>

\* An assertion ends the run in the middle of its cycle.
Fail(why) ==
  /\ failed' = why
  /\ UNCHANGED <<confregVars, rdata, mem, saved_mem, phase, current, console, nums>>

AccessFails ==
  /\ phase = "access"
  /\ acc' \in program /\ UNCHANGED shown
  /\ \/ Refused(acc') /\ Fail("refused")
     \/ OutOfRange(acc') /\ Fail("out of range")

-----------------------------------------------------------------------------
(* Confreg::sync and checkout_confreg *)

SyncTty ==
  /\ phase = "uart" /\ ~FifoUnderrun
  /\ SyncUart
  /\ phase' = "rest"
  /\ UNCHANGED <<busVars, current, console, shown, nums, failed>>

SyncFails ==
  phase = "uart" /\ FifoUnderrun /\ Fail("fifo empty") /\ UNCHANGED <<acc, shown>>

SyncCommit ==
  /\ phase = "rest"
  /\ SyncRest
  /\ acc' = None /\ rdata' = 0
  /\ phase' = "check"
  /\ UNCHANGED <<mem, saved_mem, current, console, shown, nums, failed>>

Num == High(ctx0.v_num)
Ack == Low(ctx0.v_num)

NumberChanged == ctx0.v_num_monitor /\ current # Num

\* The two assertions of checkout_confreg; between them the number is shown.
IsNext == current + 1 = Num

\* A faulty one that is content with an older acknowledgement.
AckedBefore == Ack <= Num
Acked       == Ack = Num

NotInOrder ==
  /\ NumberChanged /\ ~IsNext
  /\ Fail("not in order") /\ UNCHANGED <<acc, shown>>

NotAcked ==
  /\ NumberChanged /\ IsNext /\ ~Acked
  /\ shown' = Append(shown, Num)
  /\ Fail("not acked") /\ UNCHANGED acc

CheckoutFails == phase = "check" /\ (NotInOrder \/ NotAcked)

\* Characters above 0x7f are not shown.
HasChar(c) == c.vuart_written /\ 2 * c.vuart_data < Base
Show(c) == IF HasChar(c) THEN <<1 - console[1], c.vuart_data>> ELSE console

Checkout ==
  /\ phase = "check"
  /\ IF NumberChanged
     THEN IsNext /\ Acked /\ shown' = Append(shown, Num) /\ current' = Num
     ELSE UNCHANGED <<shown, current>>
  /\ console' = Show(ctx0)
  /\ phase' = "access"
  /\ UNCHANGED <<confregVars, busVars, nums, failed>>

-----------------------------------------------------------------------------
(* CBusDevice::reset, through the router to the memory and to Confreg.  It *)
(* comes between two cycles; _current_num is not reset.                    *)

Reset ==
  /\ phase = "access"
  /\ ConfregReset
  /\ mem' = saved_mem
  /\ UNCHANGED <<acc, rdata, saved_mem, phase, current, console, shown, nums, failed>>

ThreadStep ==
  /\ Fgetc \/ Lock \/ Push \/ Unlock
  /\ UNCHANGED <<ctx, ctx0, regs, changes, opty, tty, busVars, phase, current, console,
                 shown, nums, failed>>

CycleStep == Idle \/ Access \/ SyncTty \/ SyncCommit \/ Checkout
CycleFails == AccessFails \/ SyncFails \/ CheckoutFails

Init ==
  /\ ConfregInit
  /\ program \in Programs
  /\ acc = None /\ rdata = 0
  /\ mem = [c \in 0 .. MemSize - 1 |-> 0] /\ saved_mem = mem
  /\ phase = "access"
  /\ current = 0 /\ console = <<0, 0>> /\ failed = "no"
  /\ shown = <<>> /\ nums = {}

Running ==
  /\ failed = "no"
  /\ CycleStep \/ CycleFails \/ Reset \/ ThreadStep
  /\ UNCHANGED program

Ended   == failed # "no" /\ UNCHANGED vars
Next    == Running \/ Ended

Spec == Init /\ [][Next]_vars

\* The simulation calls tick for ever, and the thread that has a character goes
\* on.  Nothing is assumed of the keyboard, nor of resets.
Ticking  == Running /\ (CycleStep \/ CycleFails)
Typing   == Running /\ thread # "fgetc" /\ ThreadStep
FairSpec == Spec /\ WF_vars(Ticking) /\ WF_vars(Typing)
-----------------------------------------------------------------------------
\* The assertion of confreg.cpp:103, and the front() of confreg.cpp:198 before
\* it: a character that the status register offered is there when it is read
\* and until it is taken off the queue, whatever the thread and resets do.
FetchHasChar ==
  /\ failed # "fifo empty"
  /\ phase = "access" /\ ctx.uart_avail => ififo # <<>>

Announced(n)    == \E w \in nums : High(w) = n
Acknowledged(n) == \E w \in nums : High(w) = n /\ Low(w) = n

\* The monitor shows 1, 2, 3 and so on as completed, each once, and none that the
\* program has not announced, however often the monitor was switched off and on in
\* between.  All were acknowledged but for one: the last, which is shown before its
\* acknowledgement is looked at, and then ends the run (model.cpp:148-151).
CompletedInOrder ==
  \A n \in DOMAIN shown :
    /\ shown[n] = n /\ Announced(n)
    /\ Acknowledged(n) \/ (n = Len(shown) /\ failed = "not acked")

\* What is typed gets into the queue, and what gets there is offered to the program
\* or cleared by a reset: no cycle and no lock keeps the two threads from each other
\* (confreg.cpp:104, 118, 158, 185).
TypedIsOffered ==
  /\ thread = "lock" ~> thread = "push" \/ failed # "no"
  /\ thread = "push" ~>
       ctx.uart_avail \/ failed # "no" \/ (thread # "push" /\ ififo = <<>>)

\* What is on its way to the terminal and to the console is there: stores
\* happen, loads take effect, before the cycle has come to them.
MappedTty ==
  IF phase = "uart" /\ ctx.uart_written /\ opty
  THEN <<1 - tty[1], ctx.uart_data>> ELSE tty

MappedConsole ==
  CASE phase \in {"uart", "rest"} -> Show(ctx)
    [] phase = "check"            -> Show(ctx0)
    [] OTHER                      -> console

\* The inductive invariant behind FetchHasChar: a character is fetched only if it
\* was offered, and from the end of a cycle to the pop of the next the queue has
\* the character that is offered.
FetchInv ==
  /\ failed # "fifo empty"
  /\ ctx.uart_fetched => ctx.uart_avail
  /\ phase # "uart" => ~ctx.uart_fetched \/ phase = "rest"
  /\ phase # "rest" /\ ctx.uart_avail => ififo # <<>>

\* And behind CompletedInOrder: what NUM holds has been stored to it, and the
\* numbers up to _current_num were shown, with one more if that has ended the run.
InNums(w) == w = 0 \/ w \in nums
AckInv ==
  /\ InNums(ctx.v_num) /\ InNums(ctx0.v_num)
  /\ Len(shown) = IF failed = "not acked" THEN current + 1 ELSE current
  /\ CompletedInOrder

\* And behind ImplementsPeripherals: between two cycles nothing is under way, in
\* one there is one store at most, and only a character typed on a terminal is
\* on its way to the queue.
QuietInv ==
  /\ phase \in {"access", "uart", "rest", "check"}
  /\ regs = [r \in Registers |-> regs[r]]
  /\ phase \in {"access", "check"} =>
       /\ changes = <<>>
       /\ ~ctx.uart_written /\ ~ctx.vuart_written /\ ~ctx.uart_fetched
       /\ failed = "no" => acc = None
  /\ changes = <<>> \/ changes = <<changes[1]>>
  /\ thread # "fgetc" => opty /\ typed \in 1 .. MaxTyped

Board == INSTANCE Peripherals
  WITH ram <- mem, kept <- saved_mem, regs <- Committed,
       queue <- IF phase = "uart" THEN Popped ELSE ififo,
       ready <- ctx.uart_avail /\ ~ctx.uart_fetched,
       tty <- MappedTty, console <- MappedConsole

\* The two phases, the queue of changes, the context that is copied and
\* cleared, the router and the lock add up to the board of Peripherals: its
\* accesses are atomic, and no character is lost, repeated or overtaken.
ImplementsPeripherals == Board!Spec
=============================================================================
