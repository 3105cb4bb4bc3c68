------------------------------- MODULE Confreg ------------------------------
(***************************************************************************)
(* Confreg: the registers, serial port and virtual console of the board as *)
(* the simulation has them.  Loads and stores of a cycle see and fill ctx  *)
(* and changes; sync() makes ctx0 and the register file of them.  A thread *)
(* of its own moves the characters of a terminal into the input queue; the *)
(* simulation takes the lock to pop and to clear, but not to look.         *)
(*                                                                         *)
(* A word is two digits of base Base: the high one stands for the byte of  *)
(* NUM that holds the number, the low one for the byte that acknowledges   *)
(* it and for a character.  The n-th character typed is n.                 *)
(***************************************************************************)
EXTENDS Integers, SequencesExt

CONSTANTS
  Base,        \* the size of a byte
  TimerSize,   \* the values of the TIMER register
  MaxTyped     \* characters typed in a run

ASSUME ConfregAssumption ==
  /\ Base \in Nat \ {0, 1} /\ TimerSize \in Nat \ {0}
  /\ MaxTyped \in 0 .. Base - 1

Digit == 0 .. Base - 1
Word  == 0 .. Base * Base - 1
High(w) == w \div Base

Low(w) == w % Base

\* CR0 stands for all the registers that only keep what is stored to them.
Registers == {"CR0", "NUM", "TIMER", "IO_SIMU", "VIRTUAL_UART", "SIMU_FLAG",
              "OPEN_TRACE", "NUM_MONITOR"}

VARIABLES
  ctx, ctx0,   \* the cycle under way, and the one before
  regs,        \* Confreg::mem
  changes,     \* the stores of the cycle
  ififo,       \* uart.ififo
  opty,        \* a terminal is connected
  tty,         \* how many characters it was sent, modulo two, and the last
  thread,      \* where the thread is: "fgetc", "lock", "push" or "unlock"
  typed        \* characters typed so far

threadVars  == <<ififo, thread, typed>>
confregVars == <<ctx, ctx0, regs, changes, opty, tty, threadVars>>

CtxReset ==
  [uart_avail |-> FALSE, uart_written |-> FALSE, uart_fetched |-> FALSE,
   uart_data |-> 0, vuart_written |-> FALSE, vuart_data |-> 0,
   v_open_trace |-> TRUE, v_num_monitor |-> TRUE, v_num |-> 0]

RegsReset ==
  [r \in Registers |->
     CASE r = "SIMU_FLAG" -> Base * Base - 1
       [] r \in {"OPEN_TRACE", "NUM_MONITOR"} -> 1
       [] OTHER -> 0]

Context ==
  [uart_avail : BOOLEAN, uart_written : BOOLEAN, uart_fetched : BOOLEAN,
   uart_data : Digit, vuart_written : BOOLEAN, vuart_data : Digit,
   v_open_trace : BOOLEAN, v_num_monitor : BOOLEAN, v_num : Word]

-----------------------------------------------------------------------------
(* load and store *)

\* RXD and TXD are one address.
LoadValue(r) ==
  CASE r = "UART_LSR"  -> IF ctx.uart_avail THEN 1 ELSE 0
    [] r = "UART_DATA" -> IF ctx.uart_avail THEN Head(ififo) ELSE 0
    [] r \in Registers -> regs[r]
    [] OTHER           -> 0

CtxAfterLoad(r) ==
  IF r = "UART_DATA" /\ ctx.uart_avail THEN [ctx EXCEPT !.uart_fetched = TRUE] ELSE ctx

\* What a store leaves of its data in the register.
Stored(r, w) ==
  CASE r = "VIRTUAL_UART" -> Low(w)
    [] r = "SIMU_FLAG"    -> Base * Base - 1
    [] r = "IO_SIMU"      -> Low(w) * Base + High(w)
    [] r = "OPEN_TRACE"   -> IF w = 0 THEN 0 ELSE 1
    [] r = "NUM_MONITOR"  -> w % 2
    [] OTHER              -> w

\* The panic and the assertion of store().
StoreRefused(r, byte) == r = "UART_LSR" \/ (r = "UART_DATA" /\ ~byte)

CtxAfterStore(r, w) ==
  CASE r = "UART_DATA"    -> [ctx EXCEPT !.uart_written = TRUE, !.uart_data = Low(w)]
    [] r = "VIRTUAL_UART" -> [ctx EXCEPT !.vuart_written = TRUE, !.vuart_data = Low(w)]
    [] r = "NUM"          -> [ctx EXCEPT !.v_num = w]
    [] r = "OPEN_TRACE"   -> [ctx EXCEPT !.v_open_trace = w # 0]
    [] r = "NUM_MONITOR"  -> [ctx EXCEPT !.v_num_monitor = w % 2 = 1]
    [] OTHER              -> ctx

ConfregStore(r, w) ==
  /\ ctx' = CtxAfterStore(r, w)
  /\ changes' = IF r = "UART_DATA" THEN changes ELSE Append(changes, <<r, Stored(r, w)>>)

-----------------------------------------------------------------------------
(* sync() up to the terminal, and from there on *)

\* The thread does not hold the lock.
Unlocked == thread \notin {"push", "unlock"}

\* The assertion of sync().
FifoUnderrun == ctx.uart_fetched /\ ififo = <<>>

Popped == IF ctx.uart_fetched THEN Tail(ififo) ELSE ififo

SyncUart ==
  /\ ctx.uart_fetched => Unlocked
  /\ ififo' = Popped
  /\ tty' = IF ctx.uart_written /\ opty THEN <<1 - tty[1], ctx.uart_data>> ELSE tty
  /\ UNCHANGED <<ctx, ctx0, regs, changes, opty, thread, typed>>

\* A faulty reset of ctx that leaves a character fetched.
CtxFetched ==
  [ctx EXCEPT !.uart_avail = ififo # <<>>, !.uart_written = FALSE, !.vuart_written = FALSE]

\* One that does not look at the queue again.
CtxStale ==
  [ctx EXCEPT !.uart_written = FALSE, !.uart_fetched = FALSE, !.vuart_written = FALSE]

\* empty() is called without the lock: it sees the queue before a push under
\* way or after it.
CtxNext ==
  [ctx EXCEPT !.uart_avail = ififo # <<>>, !.uart_written = FALSE,
              !.uart_fetched = FALSE, !.vuart_written = FALSE]

\* The register file with the stores of the cycle: of each register, the last.
Committed ==
  [r \in Registers |-> LET of == {i \in DOMAIN changes : changes[i][1] = r}
                       IN  IF of = {} THEN regs[r] ELSE changes[Max(of)][2]]

SyncRest ==
  /\ ctx0' = ctx
  /\ ctx' = CtxNext
  /\ regs' = [Committed EXCEPT !["TIMER"] = (@ + 1) % TimerSize]
  /\ changes' = <<>>
  /\ UNCHANGED <<opty, tty, threadVars>>

\* reset(); stores not yet committed stay in changes.
ConfregReset ==
  /\ Unlocked
  /\ ctx' = CtxReset /\ ctx0' = CtxReset
  /\ regs' = RegsReset
  /\ ififo' = <<>>
  /\ UNCHANGED <<changes, opty, tty, thread, typed>>

-----------------------------------------------------------------------------
(* The thread of uart_open_pty *)

\* fgetc() returns a character.
Fgetc ==
  /\ opty /\ thread = "fgetc" /\ typed < MaxTyped
  /\ typed' = typed + 1
  /\ thread' = "lock"
  /\ UNCHANGED ififo

Lock ==
  /\ thread = "lock"
  /\ thread' = "push"
  /\ UNCHANGED <<ififo, typed>>

Push ==
  /\ thread = "push"
  /\ ififo' = Append(ififo, typed)
  /\ thread' = "unlock"
  /\ UNCHANGED typed

Unlock ==
  /\ thread = "unlock"
  /\ thread' = "fgetc"
  /\ UNCHANGED <<ififo, typed>>

ConfregInit ==
  /\ ctx = CtxReset /\ ctx0 = CtxReset
  /\ regs = RegsReset
  /\ changes = <<>>
  /\ ififo = <<>>
  /\ opty \in BOOLEAN
  /\ tty = <<0, 0>>
  /\ thread = "fgetc"
  /\ typed = 0
=============================================================================
