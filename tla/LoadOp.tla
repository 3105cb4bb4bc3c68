------------------------------- MODULE LoadOp -------------------------------
(***************************************************************************)
(* LoadOp of verilate/include/bus.h: where in a doubleword the bytes of an *)
(* access are, and how they get there and back.  A value of the enum is    *)
(* the size it names and its shift, in bytes; an address below its own     *)
(* alignment is rounded down.                                              *)
(***************************************************************************)
EXTENDS Common

Width   == {1, 2, 4, 8}
LoadOp  == [size : {0} \cup Width, sht : Lane]
DISCARD == [size |-> 0, sht |-> 0]

\* MemorySize of cell.h.
SizeName(n) ==
  CASE n = 1 -> "MSIZE1" [] n = 2 -> "MSIZE2" [] n = 4 -> "MSIZE4" [] n = 8 -> "MSIZE8"

Parse(n, addr) == [size |-> n, sht |-> (AddrLow(addr) \div n) * n]

\* strobe(), and the bytes of mask().
StrobeOf(op) == op.sht .. op.sht + op.size - 1

Place(op, data) == [l \in Lane |-> IF l < op.sht THEN 0 ELSE data[l - op.sht]]

Apply(op, data) ==
  [l \in Lane |-> IF op # DISCARD /\ l + op.sht \in Lane THEN data[l + op.sht] ELSE 0]

\* apply() to a destination writes as many bytes as the size says.
ApplyTo(op, data, dest) ==
  [l \in Lane |-> IF l < op.size THEN Apply(op, data)[l] ELSE dest[l]]

\* The low n bytes of a value, the others zero.
Truncate(n, data) == [l \in Lane |-> IF l < n THEN data[l] ELSE 0]

\* A doubleword with the strobed bytes of data (STROBE_TO_MASK).
Strobed(line, strobe, data) ==
  [l \in Lane |-> IF l \in strobe THEN data[l] ELSE line[l]]
=============================================================================
