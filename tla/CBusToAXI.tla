------------------------------ MODULE CBusToAXI -----------------------------
(***************************************************************************)
(* CBusToAXI: a cache bus on the five channels of AXI.  One set, in_issue, *)
(* holds the channels that still owe a handshake; the channels of a        *)
(* request are all opened at once and each is closed by its own last       *)
(* handshake, in whatever order the slave takes them.                      *)
(*                                                                         *)
(* The slave is outside src/.  It is an AXI memory as liberal as the       *)
(* protocol allows: it takes write data before the write address if it     *)
(* likes, stores a burst only when it has all of it, and then responds.    *)
(***************************************************************************)
EXTENDS CBusMaster, Sequences, FiniteSets

CONSTANT AllowReset     \* may areset be asserted in mid run?

VARIABLES
  in_issue,    \* the channels a handshake is still due on
  saved_req,   \* the request being served: the fields of it that are used
  count,       \* beats still to be answered, less one
  rd,          \* the slave: the read burst it is answering
  aw,          \*   the write address it has taken
  wbuf,        \*   the write data it has taken
  stored,      \*   the write is in memory, the response due
  dram         \*   its memory

bridgeVars == <<in_issue, saved_req, count>>
slaveVars  == <<rd, aw, wbuf, stored, dram>>
vars == <<creq, taken, bridgeVars, slaveVars>>

Channel  == {"AR", "R", "AW", "W", "B"}
MLenCount == MaxLen + 1
SavedReq == [addr : Nat, size : Nat, len : Nat]

\* What the slave drives at an edge: the ready of AR, AW and W, the valid of R
\* and B, and whether it moves a complete write burst to memory.
Signals == [AR : BOOLEAN, R : BOOLEAN, AW : BOOLEAN, W : BOOLEAN, B : BOOLEAN,
            store : BOOLEAN]

-----------------------------------------------------------------------------
(* Wires of the bridge *)

\* A faulty bridge that is free before the write response has come.
BusyButB == in_issue \ {"B"} # {}

Busy == in_issue # {}

NextIssue == IF creq.is_write THEN {"AW", "W", "B"} ELSE {"AR", "R"}

IsLast == count = 0

Handshake(s) == {c \in in_issue : s[c]}

\* A faulty bridge that closes W at its first handshake.
EndedAnyBeat(s, rlast) == Handshake(s)

Ended(s, rlast) ==
  {c \in Handshake(s) : /\ c = "R" => rlast
                        /\ c = "W" => IsLast}

Remain(s, rlast) ==
  (in_issue \cup Ended(s, rlast)) \ (in_issue \cap Ended(s, rlast))

\* A faulty answer that takes the first beat of a write for its last.
CrespNoCount(s, rlast, rdata) ==
  LET ready == {"R", "W"} \cap Handshake(s) # {}
  IN  [ready |-> ready,
       last  |-> ready /\ ("R" \in in_issue => rlast),
       data  |-> rdata]

Cresp(s, rlast, rdata) ==
  LET ready == {"R", "W"} \cap Handshake(s) # {}
  IN  [ready |-> ready,
       last  |-> ready /\ ("R" \in in_issue => rlast) /\ IsLast,
       data  |-> rdata]

CountStep(resp) ==
  IF resp.ready /\ ~resp.last THEN (count - 1) % MLenCount ELSE count

\* A faulty address channel that drives the request of the moment.
AxAddrLive == [addr |-> creq.addr, size |-> creq.size, len |-> creq.len]

\* The payload of AR or AW, and the beat on W.
AxAddr == saved_req
WBeat  == [strobe |-> creq.strobe, data |-> creq.data, last |-> IsLast]

-----------------------------------------------------------------------------
(* The slave *)

BurstAddress(tx, n) == BeatAddress(tx.addr, tx.size, tx.len, n)

\* Memory m after the beats of a write burst: a byte is that of the last beat
\* which writes it.
Stored(m, tx, beats) ==
  LET at == [n \in 1 .. Len(beats) |-> WordAt(BurstAddress(tx, n - 1))]
      writes(w, l) == {n \in 1 .. Len(beats) : at[n] = w /\ l \in beats[n].strobe}
      byte(old, l, ns) ==
        IF \E n \in ns : \A k \in ns : k <= n
        THEN beats[CHOOSE n \in ns : \A k \in ns : k <= n].data[l]
        ELSE old
  IN  [w \in Line |-> [l \in Lane |-> byte(m[w][l], l, writes(w, l))]]

WholeBurst == wbuf # <<>> /\ wbuf[Len(wbuf)].last

\* What the slave may drive in its present state; what it drives on a channel
\* that owes no handshake is not looked at.
Offered(s) ==
  /\ \A c \in Channel : s[c] => c \in in_issue
  /\ s.R => rd # <<>>
  /\ s.B => stored
  /\ s.store => aw # <<>> /\ WholeBurst /\ ~stored

\* rd is the address phase and the beats already sent; rdata and rlast are
\* zero when there is nothing to send.
RLast == rd # <<>> /\ rd[1].n = rd[1].ax.len
RData == IF rd # <<>> THEN dram[WordAt(BurstAddress(rd[1].ax, rd[1].n))]
                      ELSE ZeroWord

SlaveStep(s) ==
  LET shake == Handshake(s)
  IN  /\ rd' = CASE "AR" \in shake -> <<[ax |-> AxAddr, n |-> 0]>>
                 [] "R" \in shake /\ RLast -> <<>>
                 [] "R" \in shake /\ ~RLast -> <<[rd[1] EXCEPT !.n = @ + 1]>>
                 [] OTHER -> rd
      /\ aw' = CASE "AW" \in shake -> <<AxAddr>>
                 [] "B" \in shake -> <<>>
                 [] OTHER -> aw
      /\ wbuf' = CASE "W" \in shake -> Append(wbuf, WBeat)
                   [] "B" \in shake -> <<>>
                   [] OTHER -> wbuf
      /\ stored' = ((stored \/ s.store) /\ "B" \notin shake)
      /\ dram' = IF s.store THEN Stored(dram, aw[1], wbuf) ELSE dram

SlaveReset ==
  /\ rd' = <<>> /\ aw' = <<>> /\ wbuf' = <<>>
  /\ stored' = FALSE
  /\ UNCHANGED dram

-----------------------------------------------------------------------------
(* Clock edges *)

BusyEdge(s) ==
  LET resp == Cresp(s, RLast, IF "R" \in Handshake(s) THEN RData ELSE ZeroWord)
  IN  /\ Busy
      /\ Offered(s)
      /\ MasterStep(resp)
      /\ in_issue' = Remain(s, RLast)
      /\ count' = CountStep(resp)
      /\ UNCHANGED saved_req
      /\ SlaveStep(s)

IdleEdge ==
  /\ ~Busy
  /\ MasterStep(NoResp)
  /\ in_issue' = IF creq.valid THEN NextIssue ELSE in_issue
  /\ saved_req' = [addr |-> creq.addr, size |-> creq.size, len |-> creq.len]
  /\ count' = creq.len
  /\ UNCHANGED slaveVars

ResetEdge ==
  /\ AllowReset
  /\ MasterReset
  /\ in_issue' = {}
  /\ UNCHANGED <<saved_req, count>>
  /\ SlaveReset

Init ==
  /\ MasterInit
  /\ in_issue = {}
  /\ saved_req = [addr |-> 0, size |-> 0, len |-> 0]
  /\ count = 0
  /\ rd = <<>> /\ aw = <<>> /\ wbuf = <<>>
  /\ stored = FALSE
  /\ dram \in Images

Next == IdleEdge \/ ResetEdge \/ \E s \in Signals : BusyEdge(s)

Spec == Init /\ [][Next]_vars

\* The clock ticks, and the slave leaves no handshake due for ever.
FairSpec ==
  /\ Spec
  /\ WF_vars(IdleEdge)
  /\ \A c \in Channel \cup {"store"} :
       WF_vars(\E s \in Signals : s[c] /\ BusyEdge(s))

-----------------------------------------------------------------------------
\* Types; while a request is served its counter stays within its length, which
\* the slave's own count of the beats has to agree with.
TypeOK ==
  /\ creq \in CReq /\ taken \in CResp
  /\ in_issue \subseteq Channel
  /\ saved_req \in SavedReq
  /\ count \in 0 .. MLenCount - 1
  /\ Busy => count <= saved_req.len
  /\ stored \in BOOLEAN
  /\ dram \in [Line -> Word]

\* The bridge is free only when the slave owes and holds nothing: a write is
\* answered to the master before it has its response, even before its address
\* is taken, and the next request must not overtake it.
FreeMeansDone ==
  ~Busy => rd = <<>> /\ aw = <<>> /\ wbuf = <<>> /\ ~stored

\* wlast is driven on the beat that awlen announces and on no other, although
\* the beats follow the master's request and the address the saved one.
LastBeatIsLast ==
  \A n \in 1 .. Len(wbuf) : wbuf[n].last <=> n = saved_req.len + 1

\* AXI: a channel that is valid stays valid, its payload unchanged, until its
\* handshake; the other channels closing, or the master moving on to its next
\* request, must not disturb it.
AxiStable ==
  [][~ResetEdge =>
       /\ "AR" \in in_issue /\ rd' = rd => "AR" \in in_issue' /\ AxAddr' = AxAddr
       /\ "AW" \in in_issue /\ aw' = aw => "AW" \in in_issue' /\ AxAddr' = AxAddr
       /\ "W" \in in_issue /\ wbuf' = wbuf => "W" \in in_issue' /\ WBeat' = WBeat
    ]_vars

\* What the master sees: the slave's memory with the write data the slave has
\* been given and has not stored yet.
Visible == IF stored THEN dram ELSE Stored(dram, saved_req, wbuf)

Answered == IF {"R", "W"} \cap in_issue # {} THEN saved_req.len - count ELSE 0

\* The bridge and any AXI slave are one atomic memory to the master: every read
\* returns what was last written, early answers to writes notwithstanding, and a
\* reset takes back at most the last write.
CBus == INSTANCE CBusMemory WITH beat <- Answered, ram <- Visible, kept <- dram
ImplementsCBus == CBus!Spec

\* Every request is answered to its last beat, unless a reset withdraws it.
AlwaysAnswered == creq.valid ~> taken.last \/ ~creq.valid

-----------------------------------------------------------------------------
(* The inductive invariant *)

Beat == [strobe : SUBSET Lane, data : Word, last : BOOLEAN]

InMemory(r) == \A n \in 0 .. r.len : WordAt(BurstAddress(r, n)) \in Line

RequestInv ==
  /\ creq.len <= MaxLen /\ saved_req.len <= MaxLen
  /\ creq.valid => InMemory(creq)
  /\ Busy => InMemory(saved_req)
  /\ {"R", "W"} \cap in_issue # {} =>
       /\ creq.valid /\ creq.addr = saved_req.addr
       /\ creq.size = saved_req.size /\ creq.len = saved_req.len
       /\ creq.is_write = ("W" \in in_issue)

\* A read: its address, then its beats.
ReadInv ==
  /\ "R" \in in_issue => in_issue \subseteq {"AR", "R"}
  /\ "AR" \in in_issue => "R" \in in_issue /\ count = saved_req.len
  /\ rd = IF "R" \in in_issue /\ "AR" \notin in_issue
          THEN <<[ax |-> saved_req, n |-> saved_req.len - count]>> ELSE <<>>

\* A write: its address and its beats in either order, and the response at last.
WriteInv ==
  /\ wbuf \in Seq(Beat)
  /\ "B" \notin in_issue =>
       {"AW", "W"} \cap in_issue = {} /\ aw = <<>> /\ wbuf = <<>> /\ ~stored
  /\ "B" \in in_issue =>
       /\ in_issue \subseteq {"AW", "W", "B"}
       /\ aw = IF "AW" \in in_issue THEN <<>> ELSE <<saved_req>>
       /\ Len(wbuf) = saved_req.len + (IF "W" \in in_issue THEN -count ELSE 1)
       /\ "W" \notin in_issue => count = 0
       /\ stored => in_issue = {"B"}

BridgeInv == TypeOK /\ RequestInv /\ ReadInv /\ WriteInv /\ LastBeatIsLast
=============================================================================
