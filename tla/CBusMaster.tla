----------------------------- MODULE CBusMaster -----------------------------
(***************************************************************************)
(* The master's end of a cache bus, as the notes in common.sv and the      *)
(* assertions of CBusDevice describe it: a request is held until its last  *)
(* beat is answered, and a write offers the next beat after each answer.   *)
(* The port VTop drives is such a master, with bursts of one beat.         *)
(***************************************************************************)
EXTENDS Integers

CONSTANTS
  BusBytes,    \* bytes of a data word, 8 in the RTL
  LineCount,   \* words of memory
  Byte,        \* the values of a byte
  Requests,    \* what may be asked: is_write, size, addr, len
  Payloads,    \* what a write beat may carry: strobe, data
  Images       \* what memory may hold at first

Lane     == 0 .. BusBytes - 1
Line     == 0 .. LineCount - 1
Word     == [Lane -> Byte]
ZeroWord == [l \in Lane |-> 0]
MaxLen   == 255            \* mlen_t is eight bits
MSize    == 0 .. 3         \* msize_t names no other
Request  == [is_write : BOOLEAN, size : MSize, addr : 0 .. LineCount * BusBytes - 1,
             len : 0 .. MaxLen]
Payload  == [strobe : SUBSET Lane, data : Word]

ASSUME BusAssumption ==
  /\ BusBytes \in Nat \ {0}
  /\ LineCount \in Nat \ {0}
  /\ 0 \in Byte
  /\ Requests \subseteq Request
  /\ Payloads \subseteq Payload
  /\ Images \subseteq [Line -> Word]

VARIABLES
  creq,    \* the request driven
  taken    \* the response the master took at the last clock edge

portVars == <<creq, taken>>

CReq  == [valid : BOOLEAN, is_write : BOOLEAN, size : Nat, addr : Nat, len : Nat,
          strobe : SUBSET Lane, data : Word]
CResp == [ready : BOOLEAN, last : BOOLEAN, data : Word]

NoReq  == [valid |-> FALSE, is_write |-> FALSE, size |-> 0, addr |-> 0,
           len |-> 0, strobe |-> {}, data |-> ZeroWord]
NoResp == [ready |-> FALSE, last |-> FALSE, data |-> ZeroWord]

Driven(r, p) ==
  [valid |-> TRUE, is_write |-> r.is_write, size |-> r.size, addr |-> r.addr,
   len |-> r.len, strobe |-> p.strobe, data |-> p.data]

NoPayload == [strobe |-> {}, data |-> ZeroWord]

\* What may be driven next when nothing is under way.
Offers ==
  {NoReq} \cup {Driven(r, NoPayload) : r \in {q \in Requests : ~q.is_write}}
          \cup {Driven(r, p) : r \in {q \in Requests : q.is_write}, p \in Payloads}

\* The master at a clock edge that answers it with resp.
MasterStep(resp) ==
  /\ taken' = resp
  /\ \/ /\ ~creq.valid \/ resp.last
        /\ creq' \in Offers
     \/ /\ creq.valid /\ creq.is_write
        /\ resp.ready /\ ~resp.last
        /\ \E p \in Payloads :
             creq' = [creq EXCEPT !.strobe = p.strobe, !.data = p.data]
     \/ /\ creq.valid
        /\ ~resp.last
        /\ resp.ready => ~creq.is_write
        /\ UNCHANGED creq

MasterInit  == creq = NoReq /\ taken = NoResp
MasterReset == creq' = NoReq /\ taken' = NoResp

\* Word w with the strobed bytes of a beat.
Merge(w, beat) == [l \in Lane |-> IF l \in beat.strobe THEN beat.data[l] ELSE w[l]]
WordAt(a)      == a \div BusBytes

\* AXI's WRAP burst in closed form.  The first beat is where the request says;
\* beat n is in slot n of the window, counted from the slot of the first.
BeatAddress(addr, size, len, n) ==
  LET bytes  == 2 ^ size
      window == bytes * (len + 1)
      lower  == (addr \div window) * window
      slot   == (addr - lower) \div bytes
  IN  IF n = 0 THEN addr ELSE lower + bytes * ((slot + n) % (len + 1))

\* No beat that is asked for leaves the memory.
ASSUME BurstAssumption ==
  \A r \in Requests : \A n \in 0 .. r.len :
    WordAt(BeatAddress(r.addr, r.size, r.len, n)) \in Line
=============================================================================
