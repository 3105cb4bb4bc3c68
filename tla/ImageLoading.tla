----------------------------- MODULE ImageLoading ---------------------------
(***************************************************************************)
(* From a memory initialization file to the memory a simulation starts     *)
(* with: feed() turns lines into bytes, BlockMemory::map puts the bytes,   *)
(* one after the other, into memory words of eight.                        *)
(***************************************************************************)
EXTENDS Integers, Sequences

CONSTANTS
  Byte,        \* the values of a byte
  MaxLines,    \* lines of a file
  LineBytes,   \* four, half a word of memory
  WordBytes,   \* eight
  Size         \* bytes of the memory, a multiple of WordBytes

VARIABLES
  file,     \* the lines still to be read
  seq,      \* the ByteSeq
  mem,      \* mem[index][k]: byte k of a word
  i,        \* bytes mapped
  phase     \* "feed", "map", "done" or "failed"

vars == <<file, seq, mem, i, phase>>

Lane == 0 .. WordBytes - 1

\* Lines of a file: the bytes of a number, low first, and whether it fits.
FileLine == [bytes : [1 .. LineBytes -> Byte], fits : BOOLEAN]
Files    == UNION {[1 .. n -> FileLine] : n \in 0 .. MaxLines}

Fail == phase' = "failed" /\ UNCHANGED <<file, seq, mem, i>>

\* An empty line is skipped.
Feed ==
  /\ phase = "feed" /\ file # <<>>
  /\ Head(file).fits
  /\ seq' = seq \o Head(file).bytes
  /\ file' = Tail(file)
  /\ UNCHANGED <<mem, i, phase>>

FeedFails == phase = "feed" /\ file # <<>> /\ ~Head(file).fits /\ Fail

\* The bytes go to the start of the memory, if it can hold them.
Constructed ==
  /\ phase = "feed" /\ file = <<>>
  /\ Len(seq) <= Size
  /\ phase' = "map"
  /\ UNCHANGED <<file, seq, mem, i>>

TooLarge == phase = "feed" /\ file = <<>> /\ Len(seq) > Size /\ Fail

\* ~(0xffu << shamt) for byte k, as the lanes it keeps.  It has 32 bits: widened
\* it keeps nothing of the upper half.  A shift of 32 or more is undefined: the
\* processor takes the amount modulo 32, the compiler may take the result as 0.
Masks(k) ==
  LET low == 0 .. LineBytes - 1
  IN  IF k \in low THEN {low \ {k}} ELSE {low \ {k - LineBytes}, low}

MapByte ==
  /\ phase = "map" /\ i < Len(seq)
  /\ LET index == i \div WordBytes
         k     == i % WordBytes
     IN  \E mask \in Masks(k) :
           mem' = [mem EXCEPT ![index] =
                     [l \in Lane |-> IF l = k THEN seq[i + 1]
                                     ELSE IF l \in mask THEN @[l] ELSE 0]]
  /\ i' = i + 1
  /\ UNCHANGED <<file, seq, phase>>

MapDone ==
  /\ phase = "map" /\ i = Len(seq)
  /\ phase' = "done"
  /\ UNCHANGED <<file, seq, mem, i>>

Init ==
  /\ file \in Files
  /\ seq = <<>>
  /\ mem = [w \in 0 .. (Size \div WordBytes) - 1 |-> [k \in Lane |-> 0]]
  /\ i = 0
  /\ phase = "feed"

Ended == phase \in {"done", "failed"} /\ UNCHANGED vars

Next == Feed \/ FeedFails \/ Constructed \/ TooLarge \/ MapByte \/ MapDone \/ Ended

Spec == Init /\ [][Next]_vars

\* runner.h:71 names the file a "memory initialization file": the memory a
\* simulation starts with holds its bytes.
ImageLoaded ==
  phase = "done" =>
    \A b \in 0 .. Len(seq) - 1 : mem[b \div WordBytes][b % WordBytes] = seq[b + 1]
=============================================================================
