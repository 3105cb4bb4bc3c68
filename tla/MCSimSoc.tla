------------------------------ MODULE MCSimSoc ------------------------------
(***************************************************************************)
(* A board of 32 addresses: memory of two cells at 0 and again at 8, the   *)
(* registers at 16.  A byte is one of four digits; 2 and 3 are above 0x7f. *)
(***************************************************************************)
EXTENDS SimSoc

MCRegister ==
  [o \in 0 .. ConSize - 1 |->
     CASE o = 0 -> "UART_DATA"
       [] o = 1 -> "UART_LSR"
       [] o = 2 -> "NUM"
       [] o = 3 -> "VIRTUAL_UART"
       [] o = 4 -> "NUM_MONITOR"
       [] o = 5 -> "TIMER"
       [] o = 6 -> "IO_SIMU"
       [] o = 7 -> "SIMU_FLAG"
       [] o = 8 -> "OPEN_TRACE"
       [] OTHER -> "unknown"]

Load(addr)     == [store |-> FALSE, addr |-> addr, data |-> 0, byte |-> FALSE]
Store(addr, w) == [store |-> TRUE, addr |-> addr, data |-> w, byte |-> FALSE]
Con(o) == ConBase + o

Byte(a) == [a EXCEPT !.byte = TRUE]

\* Programs that use the serial port; that number their tests and write to the
\* console, and switch the monitor off and on; that use the memory and the
\* other registers, past their ends and by addresses that differ in the high
\* half only; and one that does a little of each.
Serial  == {Load(Con(0)), Load(Con(1)), Load(Span + Con(1)), Store(Con(0), 1),
            Byte(Store(Con(0), 1)), Store(Con(1), 1)}
Tests   == {Store(Con(2), 5), Store(Con(2), 9), Store(Con(2), 10), Store(Con(3), 6),
            Store(Con(4), 2), Store(Con(4), 3)}
Storage == {Load(0), Load(BootBase), Store(BootBase, 1), Store(2, 1), Load(Span),
            Load(Con(5)), Store(Con(5), 1), Store(Con(6), 1), Store(Con(7), 1),
            Store(Con(8), 2), Load(Con(6)), Load(Con(9)), Store(Con(9), 1)}
Mixed   == {Load(Con(0)), Load(Con(1)), Load(Con(2)), Store(Con(2), 5),
            Byte(Store(Con(0), 2)), Store(Con(3), 1), Store(BootBase, 1)}

MCPrograms == {Serial, Tests, Storage, Mixed}
=============================================================================
