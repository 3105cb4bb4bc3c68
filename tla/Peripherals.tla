----------------------------- MODULE Peripherals ----------------------------
(***************************************************************************)
(* What a program relies on from the simulated board: its memory, under    *)
(* two addresses, and its registers change when it stores to them; the     *)
(* serial port hands over what is typed, each character once and in order, *)
(* when it says that it has one; what is sent to the terminal and to the   *)
(* console appears there, once and in order.  There are no cycles, phases  *)
(* or threads in this: an access happens all at once.                      *)
(***************************************************************************)
EXTENDS Integers, Sequences

CONSTANTS
  Base,              \* the size of a byte
  TimerSize,         \* the values of the TIMER register
  MaxTyped,          \* characters typed in a run
  MemSize,           \* cells of memory, at address 0 and at BootBase
  BootBase,
  Span,              \* registers are found by addresses modulo Span
  ConBase, ConSize,  \* the window of the registers
  Register           \* the register at an offset of the window

VARIABLES
  program,  \* what the program does: store, addr, data, byte
  acc,     \* the access being made, None between two
  rdata,   \* what the access has loaded
  ram, kept,
  regs,
  queue,   \* typed and not yet read
  ready,   \* the serial port says that it has a character
  opty, tty, console,
  failed   \* what has ended the run, "no" until then

vars == <<program, acc, rdata, ram, kept, regs, queue, ready, opty, tty, console, failed>>

Word == 0 .. Base * Base - 1
None == [store |-> FALSE, addr |-> 0, data |-> 0, byte |-> FALSE]

Off == (acc'.addr % Span) - ConBase
Port == IF Off \in 0 .. ConSize - 1 THEN Register[Off] ELSE "none"
Cell == IF acc'.addr >= BootBase THEN acc'.addr - BootBase ELSE acc'.addr
InRam == Cell \in 0 .. MemSize - 1

Put(out, c) == <<1 - out[1], c>>

\* What a register holds after a store.
Kept(r, w) ==
  CASE r = "VIRTUAL_UART" -> w % Base
    [] r = "SIMU_FLAG"    -> Base * Base - 1
    [] r = "IO_SIMU"      -> (w % Base) * Base + w \div Base
    [] r = "OPEN_TRACE"   -> IF w = 0 THEN 0 ELSE 1
    [] r = "NUM_MONITOR"  -> w % 2
    [] OTHER              -> w

StoreReg ==
  /\ acc'.store /\ Port \in DOMAIN regs
  /\ regs' = [regs EXCEPT ![Port] = Kept(Port, acc'.data)]
  /\ console' = IF Port = "VIRTUAL_UART" /\ 2 * (acc'.data % Base) < Base
                THEN Put(console, acc'.data % Base) ELSE console
  /\ UNCHANGED <<rdata, ram, queue, ready, tty>>

LoadReg ==
  /\ ~acc'.store /\ Port \in DOMAIN regs
  /\ rdata' = regs[Port]
  /\ UNCHANGED <<ram, regs, queue, ready, tty, console>>

Send ==
  /\ acc'.store /\ Port = "UART_DATA" /\ acc'.byte
  /\ tty' = IF opty THEN Put(tty, acc'.data % Base) ELSE tty
  /\ UNCHANGED <<rdata, ram, regs, queue, ready, console>>

Status ==
  /\ ~acc'.store /\ Port = "UART_LSR"
  /\ rdata' = IF ready THEN 1 ELSE 0
  /\ UNCHANGED <<ram, regs, queue, ready, tty, console>>

Receive ==
  /\ ~acc'.store /\ Port = "UART_DATA"
  /\ rdata' = IF ready THEN Head(queue) ELSE 0
  /\ queue' = IF ready THEN Tail(queue) ELSE queue
  /\ ready' = FALSE
  /\ UNCHANGED <<ram, regs, tty, console>>

\* An unknown register reads as zero and takes no store.
Ignored ==
  /\ Port = "unknown"
  /\ rdata' = IF acc'.store THEN rdata ELSE 0
  /\ UNCHANGED <<ram, regs, queue, ready, tty, console>>

Memory ==
  /\ Port = "none" /\ InRam
  /\ ram' = IF acc'.store THEN [ram EXCEPT ![Cell] = acc'.data] ELSE ram
  /\ rdata' = IF acc'.store THEN rdata ELSE ram[Cell]
  /\ UNCHANGED <<regs, queue, ready, tty, console>>

Access ==
  /\ acc = None /\ acc' \in program
  /\ StoreReg \/ LoadReg \/ Send \/ Status \/ Receive \/ Ignored \/ Memory
  /\ UNCHANGED <<kept, opty, failed>>

\* A store to the status, or of more than a byte to the serial port, and an
\* address where there is nothing end the run.
Refuse ==
  /\ acc = None /\ acc' \in program
  /\ \/ /\ acc'.store /\ (Port = "UART_LSR" \/ (Port = "UART_DATA" /\ ~acc'.byte))
        /\ failed' = "refused"
     \/ /\ Port = "none" /\ ~InRam
        /\ failed' = "out of range"
  /\ UNCHANGED <<rdata, ram, kept, regs, queue, ready, opty, tty, console>>

\* The time between two accesses.
Finish ==
  /\ acc' = None
  /\ regs' = [regs EXCEPT !["TIMER"] = (@ + 1) % TimerSize]
  /\ rdata' = 0
  /\ ready' \in {ready, queue # <<>>}
  /\ UNCHANGED <<ram, kept, queue, opty, tty, console, failed>>

Type ==
  /\ opty
  /\ \E n \in 1 .. MaxTyped : queue' = Append(queue, n)
  /\ UNCHANGED <<acc, rdata, ram, kept, regs, ready, opty, tty, console, failed>>

\* The number monitor may end the run.
Monitor ==
  /\ failed' \in {"not in order", "not acked"}
  /\ UNCHANGED <<acc, rdata, ram, kept, regs, queue, ready, opty, tty, console>>

InitialRegs ==
  [r \in DOMAIN regs |-> CASE r = "SIMU_FLAG" -> Base * Base - 1
                           [] r \in {"OPEN_TRACE", "NUM_MONITOR"} -> 1
                           [] OTHER -> 0]

Reset ==
  /\ acc = None
  /\ ram' = kept /\ regs' = InitialRegs
  /\ queue' = <<>> /\ ready' = FALSE
  /\ UNCHANGED <<acc, rdata, kept, opty, tty, console, failed>>

Init ==
  /\ acc = None /\ rdata = 0
  /\ ram \in [0 .. MemSize - 1 -> Word] /\ kept = ram
  /\ regs = InitialRegs
  /\ queue = <<>> /\ ready = FALSE
  /\ opty \in BOOLEAN /\ tty = <<0, 0>> /\ console = <<0, 0>>
  /\ failed = "no"

Next ==
  /\ Access \/ Refuse \/ Finish \/ Type \/ Monitor \/ Reset
  /\ UNCHANGED program

Spec == Init /\ [][Next]_vars
=============================================================================
