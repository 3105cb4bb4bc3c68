--------------------------- MODULE CBusToAXIProofs ---------------------------
(***************************************************************************)
(* Proofs about the bridge, for every width, memory and set of bursts and  *)
(* for every AXI slave: it keeps its channels stable, is free only when    *)
(* the slave is, and to its master is the atomic memory of CBusMemory.     *)
(* Bridge and slave never wait for each other, and a request comes nearer  *)
(* to its answer with every handshake.                                     *)
(***************************************************************************)
EXTENDS CBusToAXI, TLAPS

-----------------------------------------------------------------------------
(* The slave's memory                                                      *)

LEMMA MergeType ==
  ASSUME NEW w \in Word, NEW x, x.data \in Word
  PROVE  Merge(w, x) \in Word
  BY DEF Merge, Word

LEMMA ZeroWordType == ZeroWord \in Word
  BY BusAssumption DEF ZeroWord, Word

LEMMA StoredType ==
  ASSUME NEW m \in [Line -> Word], NEW tx, NEW b \in Seq(Beat)
  PROVE  Stored(m, tx, b) \in [Line -> Word]
<1> DEFINE at == [n \in 1 .. Len(b) |-> WordAt(BurstAddress(tx, n - 1))]
           writes(w, l) == {n \in 1 .. Len(b) : at[n] = w /\ l \in b[n].strobe}
           byte(old, l, ns) ==
             IF \E n \in ns : \A k \in ns : k <= n
             THEN b[CHOOSE n \in ns : \A k \in ns : k <= n].data[l]
             ELSE old
<1>1. \A n \in 1 .. Len(b) : b[n] \in Beat
  OBVIOUS
<1>2. ASSUME NEW ns \in SUBSET (1 .. Len(b)), NEW l \in Lane, NEW old \in Byte
      PROVE  byte(old, l, ns) \in Byte
  <2>1. CASE \E n \in ns : \A k \in ns : k <= n
    <3> DEFINE c == CHOOSE n \in ns : \A k \in ns : k <= n
    <3>1. c \in ns
      BY <2>1
    <3>2. b[c] \in Beat
      BY <1>1, <3>1
    <3> HIDE DEF c
    <3>3. b[c].data[l] \in Byte
      BY <3>2 DEF Beat, Word
    <3> QED
      BY <2>1, <3>3 DEF c
  <2> QED
    BY <2>1
<1>3. \A w \in Line, l \in Lane : m[w][l] \in Byte
  BY DEF Word
<1>4. \A w \in Line, l \in Lane : byte(m[w][l], l, writes(w, l)) \in Byte
  BY <1>2, <1>3
<1>5. Stored(m, tx, b) = [w \in Line |-> [l \in Lane |-> byte(m[w][l], l, writes(w, l))]]
  BY DEF Stored
<1> HIDE DEF byte, writes
<1> QED
  BY <1>4, <1>5 DEF Word

LEMMA StoredEmpty ==
  ASSUME NEW m \in [Line -> Word], NEW tx
  PROVE  Stored(m, tx, <<>>) = m
<1>1. Len(<<>>) = 0 /\ 1 .. 0 = {}
  OBVIOUS
<1>2. Stored(m, tx, <<>>) = [w \in Line |-> [l \in Lane |-> m[w][l]]]
  BY <1>1 DEF Stored
<1> QED
  BY <1>2 DEF Word

\* A beat more is one write more.
LEMMA StoredAppend ==
  ASSUME NEW m \in [Line -> Word], NEW tx, NEW b \in Seq(Beat), NEW x \in Beat
  PROVE  Stored(m, tx, Append(b, x)) =
           [Stored(m, tx, b) EXCEPT ![WordAt(BurstAddress(tx, Len(b)))] = Merge(@, x)]
<1> DEFINE c == Append(b, x)
           N == Len(b) + 1
           here == WordAt(BurstAddress(tx, Len(b)))
           atB == [n \in 1 .. Len(b) |-> WordAt(BurstAddress(tx, n - 1))]
           atC == [n \in 1 .. Len(c) |-> WordAt(BurstAddress(tx, n - 1))]
           inB(w, l) == {n \in 1 .. Len(b) : atB[n] = w /\ l \in b[n].strobe}
           inC(w, l) == {n \in 1 .. Len(c) : atC[n] = w /\ l \in c[n].strobe}
           byteB(old, l, ns) ==
             IF \E n \in ns : \A k \in ns : k <= n
             THEN b[CHOOSE n \in ns : \A k \in ns : k <= n].data[l] ELSE old
           byteC(old, l, ns) ==
             IF \E n \in ns : \A k \in ns : k <= n
             THEN c[CHOOSE n \in ns : \A k \in ns : k <= n].data[l] ELSE old
<1>1. /\ Len(c) = N /\ N \in Nat /\ c[N] = x /\ Len(b) \in Nat
      /\ \A n \in 1 .. Len(b) : c[n] = b[n]
  OBVIOUS
<1>2. atC[N] = here /\ \A n \in 1 .. Len(b) : atC[n] = atB[n]
  BY <1>1
<1> HIDE DEF c, atB, atC, here
<1>3. ASSUME NEW w \in Line, NEW l \in Lane
      PROVE  byteC(m[w][l], l, inC(w, l)) =
               IF w = here /\ l \in x.strobe THEN x.data[l]
               ELSE byteB(m[w][l], l, inB(w, l))
  <2>1. CASE w = here /\ l \in x.strobe
    <3>1. N \in inC(w, l) /\ \A k \in inC(w, l) : k <= N
      BY <1>1, <1>2, <2>1
    <3>2. (CHOOSE n \in inC(w, l) : \A k \in inC(w, l) : k <= n) = N
      BY <1>1, <3>1
    <3> QED
      BY <1>1, <2>1, <3>1, <3>2
  <2>2. CASE ~(w = here /\ l \in x.strobe)
    <3>1. inC(w, l) = inB(w, l)
      BY <1>1, <1>2, <2>2
    <3>2. inB(w, l) \subseteq 1 .. Len(b)
      OBVIOUS
    <3> HIDE DEF inB, inC
    <3>3. CASE \E n \in inB(w, l) : \A k \in inB(w, l) : k <= n
      <4>1. (CHOOSE n \in inB(w, l) : \A k \in inB(w, l) : k <= n) \in inB(w, l)
        BY <3>3
      <4> QED
        BY <1>1, <2>2, <3>1, <3>2, <3>3, <4>1
    <3>4. CASE ~\E n \in inB(w, l) : \A k \in inB(w, l) : k <= n
      BY <2>2, <3>1, <3>4
    <3> QED
      BY <3>3, <3>4
  <2> QED
    BY <2>1, <2>2
<1>4. /\ Stored(m, tx, b) = [w \in Line |-> [l \in Lane |-> byteB(m[w][l], l, inB(w, l))]]
      /\ Stored(m, tx, c) = [w \in Line |-> [l \in Lane |-> byteC(m[w][l], l, inC(w, l))]]
  BY DEF Stored, atB, atC
<1> HIDE DEF byteB, byteC, inB, inC
<1> DEFINE old == Stored(m, tx, b)
           new == [old EXCEPT ![here] = Merge(old[here], x)]
           want(w) == [l \in Lane |-> IF w = here /\ l \in x.strobe THEN x.data[l]
                                      ELSE byteB(m[w][l], l, inB(w, l))]
<1>5. old = [w \in Line |-> [l \in Lane |-> byteB(m[w][l], l, inB(w, l))]]
  BY <1>4
<1> HIDE DEF old
<1>6. ASSUME NEW w \in Line
      PROVE  new[w] = want(w)
  <2>1. old[w] = [l \in Lane |-> byteB(m[w][l], l, inB(w, l))]
    BY <1>5
  <2>2. CASE w = here
    <3>1. new[w] = Merge(old[w], x)
      BY <1>5, <2>2
    <3>2. Merge(old[w], x) = [l \in Lane |-> IF l \in x.strobe THEN x.data[l] ELSE old[w][l]]
      BY DEF Merge
    <3>3. \A l \in Lane : old[w][l] = byteB(m[w][l], l, inB(w, l))
      BY <2>1
    <3> QED
      BY <2>2, <3>1, <3>2, <3>3
  <2>3. CASE w # here
    <3>1. new[w] = old[w]
      BY <1>5, <2>3
    <3> QED
      BY <2>1, <2>3, <3>1
  <2> QED
    BY <2>2, <2>3
<1>7. new = [w \in Line |-> want(w)]
  <2>1. new = [w \in DOMAIN old |-> new[w]]
    OBVIOUS
  <2>2. DOMAIN old = Line
    BY <1>5
  <2> HIDE DEF new, want
  <2> QED
    BY <1>6, <2>1, <2>2
<1>8. Stored(m, tx, c) = [w \in Line |-> want(w)]
  <2>1. \A w \in Line : [l \in Lane |-> byteC(m[w][l], l, inC(w, l))] = want(w)
    BY <1>3
  <2> HIDE DEF want
  <2> QED
    BY <1>4, <2>1
<1>9. Stored(m, tx, c) = new
  BY <1>7, <1>8
<1> QED
  BY <1>9 DEF old, c, here

-----------------------------------------------------------------------------
(* The master                                                              *)

MasterInv ==
  /\ creq \in CReq /\ taken \in CResp
  /\ creq.len <= MaxLen
  /\ creq.valid => InMemory(creq)

LEMMA OffersType ==
  ASSUME NEW c \in Offers
  PROVE  c \in CReq /\ c.len <= MaxLen /\ (c.valid => InMemory(c))
<1>1. CASE c = NoReq
  BY <1>1, ZeroWordType DEF NoReq, CReq, MaxLen
<1>2. ASSUME NEW r \in Requests, NEW p, p.strobe \in SUBSET Lane, p.data \in Word,
             c = Driven(r, p)
      PROVE  c \in CReq /\ c.len <= MaxLen /\ InMemory(c)
  <2>1. r \in Request
    BY BusAssumption
  <2>2. /\ r.is_write \in BOOLEAN /\ r.size \in Nat /\ r.addr \in Nat
        /\ r.len \in Nat /\ r.len <= MaxLen
    BY <2>1, BusAssumption DEF Request, MaxLen, MSize
  <2>3. c \in CReq /\ c.len <= MaxLen
    BY <1>2, <2>2 DEF Driven, CReq
  <2>4. c.addr = r.addr /\ c.size = r.size /\ c.len = r.len
    BY <1>2 DEF Driven
  <2> QED
    BY <2>3, <2>4, BurstAssumption DEF InMemory, BurstAddress
<1>3. \A p \in Payloads : p.strobe \in SUBSET Lane /\ p.data \in Word
  BY BusAssumption DEF Payload
<1>4. NoPayload.strobe \in SUBSET Lane /\ NoPayload.data \in Word
  BY ZeroWordType DEF NoPayload
<1>5. \/ c = NoReq
      \/ \E r \in Requests : c = Driven(r, NoPayload)
      \/ \E r \in Requests, p \in Payloads : c = Driven(r, p)
  BY DEF Offers
<1> QED
  BY <1>1, <1>2, <1>3, <1>4, <1>5

\* What the master does to its request: it keeps all but the payload of one
\* that has beats left, and all of one that is not answered.
LEMMA MasterLemma ==
  ASSUME MasterInv, NEW resp \in CResp, MasterStep(resp)
  PROVE  /\ MasterInv'
         /\ creq.valid /\ ~resp.last =>
              /\ creq'.valid /\ creq'.is_write = creq.is_write
              /\ creq'.addr = creq.addr /\ creq'.size = creq.size
              /\ creq'.len = creq.len
         /\ creq.valid /\ ~resp.last /\ ~resp.ready => creq' = creq
<1>1. taken' \in CResp
  BY DEF MasterStep
<1>2. CASE (~creq.valid \/ resp.last) /\ creq' \in Offers
  BY <1>1, <1>2, OffersType DEF MasterInv, InMemory, BurstAddress
<1>3. ASSUME creq.valid, creq.is_write, resp.ready, ~resp.last, NEW p \in Payloads,
             creq' = [creq EXCEPT !.strobe = p.strobe, !.data = p.data]
      PROVE  /\ MasterInv'
             /\ creq'.valid /\ creq'.is_write = creq.is_write
             /\ creq'.addr = creq.addr /\ creq'.size = creq.size
             /\ creq'.len = creq.len
  <2>1. p.strobe \in SUBSET Lane /\ p.data \in Word
    BY BusAssumption DEF Payload
  <2>2. creq' \in CReq
    BY <1>3, <2>1 DEF MasterInv, CReq
  <2>3. /\ creq'.valid /\ creq'.is_write = creq.is_write
        /\ creq'.addr = creq.addr /\ creq'.size = creq.size
        /\ creq'.len = creq.len
    BY <1>3 DEF MasterInv, CReq
  <2> QED
    BY <1>1, <1>3, <2>2, <2>3 DEF MasterInv, InMemory, BurstAddress
<1>4. CASE creq.valid /\ ~resp.last /\ creq' = creq
  BY <1>1, <1>4 DEF MasterInv, InMemory, BurstAddress
<1>5. \/ (~creq.valid \/ resp.last) /\ creq' \in Offers
      \/ /\ creq.valid /\ creq.is_write /\ resp.ready /\ ~resp.last
         /\ \E p \in Payloads :
              creq' = [creq EXCEPT !.strobe = p.strobe, !.data = p.data]
      \/ creq.valid /\ ~resp.last /\ creq' = creq
  BY DEF MasterStep
<1>6. CASE (~creq.valid \/ resp.last) /\ creq' \in Offers
  BY <1>2, <1>6
<1>7. CASE /\ creq.valid /\ creq.is_write /\ resp.ready /\ ~resp.last
           /\ \E p \in Payloads :
                creq' = [creq EXCEPT !.strobe = p.strobe, !.data = p.data]
  BY <1>3, <1>7
<1> QED
  BY <1>4, <1>5, <1>6, <1>7

LEMMA NoRespType == NoResp \in CResp
  BY ZeroWordType DEF NoResp, CResp

-----------------------------------------------------------------------------
(* What a clock edge does while a request is served                        *)

Beats(last, data) == [ready |-> TRUE, last |-> last, data |-> data]

\* The edges of a read: the address taken, a beat, the last beat, or nothing.
ReadNext ==
  /\ UNCHANGED <<saved_req, aw, wbuf, stored, dram>>
  /\ \/ /\ MasterStep(NoResp)
        /\ UNCHANGED <<in_issue, count, rd>>
     \/ /\ MasterStep(NoResp)
        /\ "AR" \in in_issue /\ in_issue' = {"R"}
        /\ UNCHANGED count
        /\ rd' = <<[ax |-> saved_req, n |-> 0]>>
     \/ /\ "AR" \notin in_issue
        /\ MasterStep(Beats(count = 0, dram[WordAt(BurstAddress(saved_req, saved_req.len - count))]))
        /\ IF count = 0
           THEN in_issue' = {} /\ rd' = <<>> /\ UNCHANGED count
           ELSE /\ in_issue' = in_issue
                /\ count' = count - 1
                /\ rd' = <<[ax |-> saved_req, n |-> saved_req.len - count + 1]>>

\* The edges of a write.
StoreNext ==
  /\ MasterStep(NoResp)
  /\ in_issue = {"B"} /\ ~stored /\ stored' = TRUE
  /\ dram' = Stored(dram, saved_req, wbuf)
  /\ UNCHANGED <<in_issue, count, saved_req, rd, aw, wbuf>>

ResponseNext ==
  /\ MasterStep(NoResp)
  /\ stored /\ stored' = FALSE
  /\ in_issue' = {} /\ aw' = <<>> /\ wbuf' = <<>>
  /\ UNCHANGED <<count, saved_req, rd, dram>>

AddressNext ==
  /\ in_issue' \cap {"AR", "R", "B"} = in_issue \cap {"AR", "R", "B"}
  /\ in_issue' \subseteq in_issue
  /\ aw' = IF "AW" \in in_issue /\ "AW" \notin in_issue' THEN <<saved_req>> ELSE aw
  /\ UNCHANGED <<saved_req, rd, stored, dram>>

DataNext ==
  /\ "W" \in in_issue /\ ~stored
  /\ MasterStep(Beats(count = 0, ZeroWord))
  /\ AddressNext
  /\ "W" \in in_issue' <=> count # 0
  /\ count' = IF count = 0 THEN 0 ELSE count - 1
  /\ wbuf' = Append(wbuf, WBeat)

QuietNext ==
  /\ MasterStep(NoResp)
  /\ AddressNext
  /\ "W" \in in_issue' <=> "W" \in in_issue
  /\ UNCHANGED <<count, wbuf>>

LEMMA ReadEdge ==
  ASSUME BridgeInv, NEW s \in Signals, BusyEdge(s), "R" \in in_issue
  PROVE  ReadNext
<1> DEFINE H == Handshake(s)
           data == IF "R" \in H THEN RData ELSE ZeroWord
<1>1. /\ "B" \notin in_issue /\ "AW" \notin in_issue /\ "W" \notin in_issue
      /\ in_issue \subseteq {"AR", "R"}
      /\ aw = <<>> /\ wbuf = <<>> /\ stored = FALSE
      /\ count \in Nat /\ count <= 255 /\ saved_req.len \in Nat
      /\ count <= saved_req.len
  BY DEF BridgeInv, TypeOK, ReadInv, WriteInv, MLenCount, MaxLen, SavedReq, Busy
<1>2. ~s.store
  BY <1>1 DEF BusyEdge, Offered
<1>3. H = {c \in in_issue : s[c]}
  BY DEF Handshake
<1>4. "AW" \notin H /\ "W" \notin H /\ "B" \notin H /\ H \subseteq {"AR", "R"}
  BY <1>1, <1>3
<1>5. /\ UNCHANGED <<saved_req, aw, wbuf, stored, dram>>
      /\ rd' = CASE "AR" \in H -> <<[ax |-> saved_req, n |-> 0]>>
                 [] "R" \in H /\ RLast -> <<>>
                 [] "R" \in H /\ ~RLast -> <<[rd[1] EXCEPT !.n = @ + 1]>>
                 [] OTHER -> rd
  BY <1>1, <1>2, <1>4, BridgeInv DEF BusyEdge, SlaveStep, AxAddr
<1>6. /\ MasterStep(Cresp(s, RLast, data))
      /\ in_issue' = Remain(s, RLast)
      /\ count' = CountStep(Cresp(s, RLast, data))
      /\ s["R"] => rd # <<>>
  BY DEF BusyEdge, Offered
<1>7. CASE "AR" \in in_issue
  <2>1. rd = <<>> /\ "R" \notin H
    BY <1>3, <1>6, <1>7 DEF BridgeInv, ReadInv
  <2>2. Cresp(s, RLast, data) = NoResp
    BY <1>4, <2>1 DEF Cresp, NoResp
  <2>3. Ended(s, RLast) = H
    BY <1>4, <2>1 DEF Ended
  <2>4. in_issue' = in_issue \ H
    BY <1>3, <1>6, <2>3 DEF Remain
  <2>5. count' = count
    BY <1>6, <2>2 DEF CountStep, NoResp
  <2>6. CASE "AR" \in H
    <3>1. in_issue' = {"R"}
      BY <1>1, <1>7, <2>1, <2>4, <2>6
    <3>2. rd' = <<[ax |-> saved_req, n |-> 0]>>
      <4> DEFINE first == <<[ax |-> saved_req, n |-> 0]>>
                 next  == <<[rd[1] EXCEPT !.n = @ + 1]>>
      <4>1. rd' = CASE "AR" \in H -> first
                    [] "R" \in H /\ RLast -> <<>>
                    [] "R" \in H /\ ~RLast -> next
                    [] OTHER -> rd
        BY <1>5
      <4> HIDE DEF first, next, H
      <4>2. rd' = first
        BY <2>1, <2>6, <4>1
      <4> QED
        BY <4>2 DEF first
    <3> QED
      BY <1>5, <1>6, <1>7, <2>2, <2>5, <3>1, <3>2 DEF ReadNext
  <2>7. CASE "AR" \notin H
    <3>1. in_issue' = in_issue
      BY <1>4, <2>1, <2>4, <2>7
    <3>2. rd' = rd
      BY <1>5, <2>1, <2>7
    <3> QED
      BY <1>5, <1>6, <2>2, <2>5, <3>1, <3>2 DEF ReadNext
  <2> QED
    BY <2>6, <2>7
<1>8. CASE "AR" \notin in_issue
  <2>1. rd = <<[ax |-> saved_req, n |-> saved_req.len - count]>> /\ in_issue = {"R"}
    BY <1>1, <1>8 DEF BridgeInv, ReadInv
  <2>2. rd # <<>> /\ rd[1].n = saved_req.len - count /\ rd[1].ax = saved_req
    BY <2>1
  <2>3. RLast <=> count = 0
    BY <1>1, <2>2 DEF RLast
  <2>4. "AR" \notin H
    BY <1>3, <1>8
  <2>5. CASE "R" \notin H
    <3>1. H = {}
      BY <1>4, <2>4, <2>5
    <3>2. Cresp(s, RLast, data) = NoResp
      BY <2>5, <3>1 DEF Cresp, NoResp
    <3>3. in_issue' = in_issue
      BY <1>6, <3>1 DEF Remain, Ended
    <3>4. count' = count /\ rd' = rd
      BY <1>5, <1>6, <2>4, <2>5, <3>2 DEF CountStep, NoResp
    <3> QED
      BY <1>5, <1>6, <3>2, <3>3, <3>4 DEF ReadNext
  <2>6. CASE "R" \in H
    <3>1. data = dram[WordAt(BurstAddress(saved_req, saved_req.len - count))]
      BY <2>2, <2>6 DEF RData
    <3>2. Cresp(s, RLast, data) = Beats(count = 0, data)
      BY <2>3, <2>6 DEF Cresp, Beats, IsLast
    <3>3. Ended(s, RLast) = IF count = 0 THEN {"R"} ELSE {}
      BY <1>4, <2>3, <2>4, <2>6 DEF Ended
    <3>4. in_issue' = IF count = 0 THEN {} ELSE in_issue
      BY <1>6, <2>1, <3>3 DEF Remain
    <3>5. count' = IF count = 0 THEN count ELSE (count - 1) % 256
      <4>1. count' = CountStep(Beats(count = 0, data))
        BY <1>6, <3>2
      <4>2. MLenCount = 256
        BY DEF MLenCount, MaxLen
      <4> HIDE DEF data
      <4> QED
        BY <4>1, <4>2 DEF CountStep, Beats
    <3>6. count # 0 => (count - 1) % 256 = count - 1
      BY <1>1
    <3>7. rd' = IF count = 0 THEN <<>>
                ELSE <<[ax |-> saved_req, n |-> saved_req.len - count + 1]>>
      <4>1. [rd[1] EXCEPT !.n = @ + 1] = [ax |-> saved_req, n |-> saved_req.len - count + 1]
        BY <2>1
      <4> QED
        BY <1>5, <2>3, <2>4, <2>6, <4>1
    <3>8. MasterStep(Beats(count = 0, dram[WordAt(BurstAddress(saved_req, saved_req.len - count))]))
      BY <1>6, <3>1, <3>2
    <3> QED
      BY <1>5, <1>8, <3>4, <3>5, <3>6, <3>7, <3>8 DEF ReadNext
  <2> QED
    BY <2>5, <2>6
<1> QED
  BY <1>7, <1>8

LEMMA WriteEdge ==
  ASSUME BridgeInv, NEW s \in Signals, BusyEdge(s), "R" \notin in_issue
  PROVE  "B" \in in_issue /\ (StoreNext \/ ResponseNext \/ DataNext \/ QuietNext)
<1> DEFINE H == Handshake(s)
           resp == Cresp(s, RLast, ZeroWord)
<1>1. /\ "B" \in in_issue /\ "AR" \notin in_issue /\ in_issue \subseteq {"AW", "W", "B"}
      /\ rd = <<>> /\ stored \in BOOLEAN
      /\ aw = (IF "AW" \in in_issue THEN <<>> ELSE <<saved_req>>)
      /\ Len(wbuf) = saved_req.len + (IF "W" \in in_issue THEN -count ELSE 1)
      /\ stored => in_issue = {"B"}
      /\ wbuf \in Seq(Beat)
      /\ count \in Nat /\ count <= 255 /\ saved_req.len \in Nat
      /\ count <= saved_req.len
  <2>1. /\ "AR" \notin in_issue /\ rd = <<>> /\ in_issue \subseteq Channel
        /\ wbuf \in Seq(Beat) /\ stored \in BOOLEAN
    BY DEF BridgeInv, TypeOK, ReadInv, WriteInv
  <2>2. in_issue # {} /\ count <= saved_req.len
    BY DEF BusyEdge, BridgeInv, TypeOK, Busy
  <2>3. "B" \in in_issue
    BY <2>1, <2>2 DEF BridgeInv, WriteInv, Channel
  <2>4. count \in Nat /\ count <= 255 /\ saved_req.len \in Nat
    BY DEF BridgeInv, TypeOK, MLenCount, MaxLen, SavedReq
  <2> QED
    BY <2>1, <2>2, <2>3, <2>4 DEF BridgeInv, WriteInv
<1>2. H = {c \in in_issue : s[c]} /\ "R" \notin H /\ "AR" \notin H
  BY <1>1 DEF Handshake
<1>3. Cresp(s, RLast, IF "R" \in H THEN RData ELSE ZeroWord) = resp
  BY <1>2
<1>4. /\ MasterStep(resp)
      /\ in_issue' = Remain(s, RLast)
      /\ count' = CountStep(resp)
      /\ UNCHANGED saved_req
      /\ s["B"] => stored
      /\ s.store => aw # <<>> /\ WholeBurst /\ ~stored
  BY <1>3 DEF BusyEdge, Offered
<1>5. /\ rd' = CASE "AR" \in H -> <<[ax |-> AxAddr, n |-> 0]>>
                 [] "R" \in H /\ RLast -> <<>>
                 [] "R" \in H /\ ~RLast -> <<[rd[1] EXCEPT !.n = @ + 1]>>
                 [] OTHER -> rd
      /\ aw' = CASE "AW" \in H -> <<saved_req>>
                 [] "B" \in H -> <<>>
                 [] OTHER -> aw
      /\ wbuf' = CASE "W" \in H -> Append(wbuf, WBeat)
                   [] "B" \in H -> <<>>
                   [] OTHER -> wbuf
      /\ stored' = ((stored \/ s.store) /\ "B" \notin H)
      /\ dram' = IF s.store THEN Stored(dram, aw[1], wbuf) ELSE dram
  BY DEF BusyEdge, SlaveStep, AxAddr
<1>6. rd' = rd
  <2> HIDE DEF H
  <2> QED
    BY <1>2, <1>5
<1>7. "B" \in H => stored /\ in_issue = {"B"} /\ H = {"B"}
  BY <1>1, <1>2, <1>4
<1>8. s.store => ~stored /\ in_issue = {"B"} /\ H = {} /\ aw = <<saved_req>>
  <2> SUFFICES ASSUME s.store PROVE ~stored /\ in_issue = {"B"} /\ H = {} /\ aw = <<saved_req>>
    OBVIOUS
  <2>1. aw # <<>> /\ ~stored /\ wbuf # <<>> /\ wbuf[Len(wbuf)].last
    BY <1>4 DEF WholeBurst
  <2>2. "AW" \notin in_issue /\ aw = <<saved_req>>
    BY <1>1, <2>1
  <2>3. Len(wbuf) \in 1 .. Len(wbuf)
    BY <1>1, <2>1
  <2>4. Len(wbuf) = saved_req.len + 1
    BY <2>1, <2>3 DEF BridgeInv, LastBeatIsLast
  <2>5. "W" \notin in_issue
    BY <1>1, <2>4
  <2>6. in_issue = {"B"}
    BY <1>1, <2>2, <2>5
  <2> QED
    BY <1>2, <1>4, <2>1, <2>2, <2>6
<1>9. resp = IF "W" \in H THEN Beats(count = 0, ZeroWord) ELSE NoResp
  <2>1. {"R", "W"} \cap H # {} <=> "W" \in H
    BY <1>2
  <2>2. resp = [ready |-> {"R", "W"} \cap H # {},
                last  |-> {"R", "W"} \cap H # {} /\ count = 0,
                data  |-> ZeroWord]
    BY DEF Cresp, IsLast
  <2> HIDE DEF H
  <2>3. CASE "W" \in H
    BY <2>1, <2>2, <2>3 DEF Beats
  <2>4. CASE "W" \notin H
    BY <2>1, <2>2, <2>4 DEF NoResp
  <2> HIDE DEF resp
  <2> QED
    BY <2>3, <2>4
<1>10. Ended(s, RLast) = {c \in H : c = "W" => count = 0}
  BY <1>2 DEF Ended, IsLast
<1>11. in_issue' = in_issue \ {c \in H : c = "W" => count = 0}
  BY <1>2, <1>4, <1>10 DEF Remain
<1>12. count' = IF "W" \in H /\ count # 0 THEN count - 1 ELSE count
  <2>1. MLenCount = 256 /\ (count # 0 => (count - 1) % 256 = count - 1)
    BY <1>1 DEF MLenCount, MaxLen
  <2> HIDE DEF H, resp
  <2>2. CASE "W" \in H
    <3>1. count' = CountStep(Beats(count = 0, ZeroWord))
      BY <1>4, <1>9, <2>2
    <3> QED
      BY <2>1, <2>2, <3>1 DEF CountStep, Beats
  <2>3. CASE "W" \notin H
    <3>1. count' = CountStep(NoResp)
      BY <1>4, <1>9, <2>3
    <3> QED
      BY <2>3, <3>1 DEF CountStep, NoResp
  <2> QED
    BY <2>2, <2>3
<1> HIDE DEF H, resp
<1>13. CASE s.store
  <2>1. MasterStep(NoResp) /\ count' = count /\ in_issue' = in_issue
    BY <1>4, <1>8, <1>9, <1>11, <1>12, <1>13
  <2>2. aw' = aw /\ wbuf' = wbuf /\ stored' = TRUE
    BY <1>5, <1>8, <1>13
  <2>3. dram' = Stored(dram, saved_req, wbuf)
    BY <1>5, <1>8, <1>13
  <2> QED
    BY <1>1, <1>4, <1>6, <1>8, <1>13, <2>1, <2>2, <2>3 DEF StoreNext
<1>14. CASE ~s.store /\ "B" \in H
  <2>1. MasterStep(NoResp) /\ count' = count /\ in_issue' = {}
    BY <1>4, <1>7, <1>9, <1>11, <1>12, <1>14
  <2>2. aw' = <<>> /\ wbuf' = <<>> /\ stored' = FALSE /\ dram' = dram
    BY <1>5, <1>7, <1>14
  <2> QED
    BY <1>1, <1>4, <1>6, <1>7, <1>14, <2>1, <2>2 DEF ResponseNext
<1>15. CASE ~s.store /\ "B" \notin H
  <2>1. /\ in_issue' \cap {"AR", "R", "B"} = in_issue \cap {"AR", "R", "B"}
        /\ in_issue' \subseteq in_issue
    BY <1>2, <1>11, <1>15
  <2>2. H \subseteq in_issue /\ ("AW" \in H => "AW" \notin in_issue')
    BY <1>2, <1>11
  <2>3. aw' = IF "AW" \in H THEN <<saved_req>> ELSE aw
    BY <1>5, <1>15
  <2>4. "AW" \in in_issue /\ "AW" \notin in_issue' <=> "AW" \in H
    BY <1>11, <2>2
  <2>5. stored' = stored /\ dram' = dram
    BY <1>1, <1>5, <1>15
  <2>6. AddressNext
    BY <1>4, <1>6, <2>1, <2>3, <2>4, <2>5 DEF AddressNext
  <2>7. CASE "W" \in H
    <3>1. "W" \in in_issue /\ ~stored
      BY <1>1, <2>2, <2>7
    <3>2. wbuf' = Append(wbuf, WBeat)
      <4> DEFINE more == Append(wbuf, WBeat)
      <4>1. wbuf' = CASE "W" \in H -> more [] "B" \in H -> <<>> [] OTHER -> wbuf
        BY <1>5
      <4> HIDE DEF more
      <4>2. wbuf' = more
        BY <1>15, <2>7, <4>1
      <4> QED
        BY <4>2 DEF more
    <3>3. "W" \in in_issue' <=> count # 0
      BY <1>11, <2>7, <3>1
    <3>4. MasterStep(Beats(count = 0, ZeroWord))
      BY <1>4, <1>9, <2>7
    <3>5. count' = IF count = 0 THEN 0 ELSE count - 1
      BY <1>12, <2>7
    <3> QED
      BY <1>1, <2>6, <3>1, <3>2, <3>3, <3>4, <3>5 DEF DataNext
  <2>8. CASE "W" \notin H
    <3>1. wbuf' = wbuf /\ count' = count /\ MasterStep(NoResp)
      BY <1>4, <1>5, <1>9, <1>12, <1>15, <2>8
    <3>2. "W" \in in_issue' <=> "W" \in in_issue
      BY <1>11, <2>8
    <3> QED
      BY <1>1, <2>6, <3>1, <3>2 DEF QuietNext
  <2> QED
    BY <2>7, <2>8
<1> QED
  BY <1>13, <1>14, <1>15

-----------------------------------------------------------------------------
(* The invariant                                                           *)

LEMMA InitInv == Init => BridgeInv
<1> SUFFICES ASSUME Init PROVE BridgeInv
  OBVIOUS
<1>1. creq = NoReq /\ taken = NoResp /\ in_issue = {} /\ count = 0
      /\ saved_req = [addr |-> 0, size |-> 0, len |-> 0]
      /\ rd = <<>> /\ aw = <<>> /\ wbuf = <<>> /\ stored = FALSE /\ dram \in [Line -> Word]
  BY BusAssumption DEF Init, MasterInit
<1>2. NoReq \in CReq /\ NoReq.len = 0 /\ ~NoReq.valid
  BY ZeroWordType DEF NoReq, CReq
<1>3. TypeOK
  <2>1. creq \in CReq /\ taken \in CResp
    BY <1>1, <1>2, NoRespType
  <2>2. saved_req \in SavedReq
    BY <1>1 DEF SavedReq
  <2>3. count \in 0 .. MLenCount - 1
    BY <1>1 DEF MLenCount, MaxLen
  <2> QED
    BY <1>1, <2>1, <2>2, <2>3 DEF TypeOK, Busy
<1>4. RequestInv
  BY <1>1, <1>2 DEF RequestInv, MaxLen, Busy
<1>5. ReadInv /\ WriteInv /\ LastBeatIsLast
  BY <1>1 DEF ReadInv, WriteInv, LastBeatIsLast
<1> QED
  BY <1>3, <1>4, <1>5 DEF BridgeInv

LEMMA BridgeMaster ==
  ASSUME BridgeInv
  PROVE  MasterInv
  BY DEF BridgeInv, TypeOK, RequestInv, MasterInv

LEMMA ResetInv ==
  ASSUME BridgeInv, ResetEdge
  PROVE  BridgeInv'
<1>1. /\ creq' = NoReq /\ taken' = NoResp /\ in_issue' = {} /\ count' = count
      /\ saved_req' = saved_req /\ dram' = dram
      /\ rd' = <<>> /\ aw' = <<>> /\ wbuf' = <<>> /\ stored' = FALSE
  BY DEF ResetEdge, MasterReset, SlaveReset
<1>2. NoReq \in CReq /\ NoReq.len = 0 /\ ~NoReq.valid
  BY ZeroWordType DEF NoReq, CReq
<1>3. TypeOK'
  BY <1>1, <1>2, NoRespType DEF BridgeInv, TypeOK, Busy
<1>4. RequestInv'
  BY <1>1, <1>2 DEF BridgeInv, RequestInv, MaxLen, Busy
<1>5. ReadInv' /\ WriteInv' /\ LastBeatIsLast'
  BY <1>1 DEF ReadInv, WriteInv, LastBeatIsLast
<1> QED
  BY <1>3, <1>4, <1>5 DEF BridgeInv

LEMMA IdleInv ==
  ASSUME BridgeInv, IdleEdge
  PROVE  BridgeInv'
<1>1. /\ in_issue = {} /\ MasterStep(NoResp)
      /\ in_issue' = (IF creq.valid THEN NextIssue ELSE {})
      /\ saved_req' = [addr |-> creq.addr, size |-> creq.size, len |-> creq.len]
      /\ count' = creq.len
      /\ rd' = rd /\ aw' = aw /\ wbuf' = wbuf /\ stored' = stored /\ dram' = dram
  BY DEF IdleEdge, Busy, slaveVars
<1>2. rd = <<>> /\ aw = <<>> /\ wbuf = <<>> /\ ~stored
  BY <1>1 DEF BridgeInv, ReadInv, WriteInv
<1>3. MasterInv' /\ (creq.valid => creq' = creq)
  BY <1>1, BridgeMaster, MasterLemma, NoRespType DEF NoResp
<1>4. creq \in CReq /\ creq.len <= MaxLen
  BY DEF BridgeInv, TypeOK, RequestInv
<1>5. TypeOK'
  <2>1. creq' \in CReq /\ taken' \in CResp
    BY <1>3 DEF MasterInv
  <2>2. in_issue' \subseteq Channel
    BY <1>1 DEF NextIssue, Channel
  <2>3. saved_req' \in SavedReq
    BY <1>1, <1>4 DEF CReq, SavedReq
  <2>4. count' \in 0 .. MLenCount - 1 /\ count' <= saved_req'.len
    BY <1>1, <1>4 DEF CReq, MLenCount, MaxLen
  <2> QED
    BY <1>1, <1>2, <2>1, <2>2, <2>3, <2>4 DEF BridgeInv, TypeOK
<1>6. RequestInv'
  <2>1. creq'.len <= MaxLen /\ saved_req'.len <= MaxLen
        /\ (creq'.valid => InMemory(creq)')
    BY <1>1, <1>3, <1>4 DEF MasterInv
  <2>2. CASE ~creq.valid
    BY <1>1, <2>1, <2>2 DEF RequestInv, Busy
  <2>3. CASE creq.valid
    <3>1. creq' = creq /\ creq'.valid
      BY <1>3, <2>3
    <3>2. InMemory(saved_req)'
      BY <1>1, <2>1, <3>1 DEF InMemory, BurstAddress
    <3>3. creq'.is_write = ("W" \in in_issue')
      BY <1>1, <1>4, <2>3, <3>1 DEF NextIssue, CReq
    <3> QED
      BY <1>1, <2>1, <3>1, <3>2, <3>3 DEF RequestInv
  <2> QED
    BY <2>2, <2>3
<1>7. ReadInv'
  BY <1>1, <1>2 DEF ReadInv, NextIssue
<1>8. WriteInv'
  <2>1. Len(<<>>) = 0 /\ <<>> \in Seq(Beat)
    OBVIOUS
  <2>2. creq.len \in Nat
    BY <1>4 DEF CReq
  <2> QED
    BY <1>1, <1>2, <2>1, <2>2 DEF WriteInv, NextIssue
<1>9. LastBeatIsLast'
  BY <1>1, <1>2 DEF LastBeatIsLast
<1> QED
  BY <1>5, <1>6, <1>7, <1>8, <1>9 DEF BridgeInv

LEMMA BeatsType ==
  ASSUME NEW last \in BOOLEAN, NEW data \in Word
  PROVE  Beats(last, data) \in CResp
  BY DEF Beats, CResp

\* What holds while a request is served: its fields, and what its burst reaches.
LEMMA Serving ==
  ASSUME BridgeInv, Busy
  PROVE  /\ count \in Nat /\ count <= 255 /\ saved_req.len \in Nat
         /\ count <= saved_req.len
         /\ \A n \in 0 .. saved_req.len : WordAt(BurstAddress(saved_req, n)) \in Line
         /\ dram \in [Line -> Word] /\ wbuf \in Seq(Beat) /\ Len(wbuf) \in Nat
  BY DEF BridgeInv, TypeOK, RequestInv, WriteInv, InMemory, MLenCount, MaxLen, SavedReq

\* The request a beat belongs to stays that of the master until the last beat.
LEMMA RequestStep ==
  ASSUME BridgeInv, Busy, MasterInv', UNCHANGED saved_req,
         {"R", "W"} \cap in_issue' # {} =>
           /\ {"R", "W"} \cap in_issue # {}
           /\ creq'.valid /\ creq'.is_write = creq.is_write
           /\ creq'.addr = creq.addr /\ creq'.size = creq.size
           /\ creq'.len = creq.len
           /\ "W" \in in_issue' <=> "W" \in in_issue
  PROVE  RequestInv'
<1>1. creq'.len <= MaxLen /\ (creq'.valid => InMemory(creq)')
  BY DEF MasterInv
<1>2. InMemory(saved_req)' /\ saved_req'.len <= MaxLen
  BY DEF BridgeInv, RequestInv, InMemory, BurstAddress
<1>3. {"R", "W"} \cap in_issue' # {} =>
        /\ creq'.valid /\ creq'.addr = saved_req'.addr
        /\ creq'.size = saved_req'.size /\ creq'.len = saved_req'.len
        /\ creq'.is_write = ("W" \in in_issue')
  BY DEF BridgeInv, RequestInv
<1> QED
  BY <1>1, <1>2, <1>3 DEF RequestInv

LEMMA ReadStep ==
  ASSUME BridgeInv, Busy, "R" \in in_issue, ReadNext
  PROVE  BridgeInv'
<1> DEFINE here == WordAt(BurstAddress(saved_req, saved_req.len - count))
<1>1. /\ "B" \notin in_issue /\ "AW" \notin in_issue /\ "W" \notin in_issue
      /\ in_issue \subseteq {"AR", "R"}
      /\ aw = <<>> /\ wbuf = <<>> /\ ~stored
      /\ creq.valid /\ ~creq.is_write
  BY DEF BridgeInv, ReadInv, WriteInv, RequestInv, TypeOK, CReq
<1>2. UNCHANGED <<saved_req, aw, wbuf, stored, dram>>
  BY DEF ReadNext
<1>3. Beats(count = 0, dram[here]) \in CResp
  <2>1. here \in Line
    BY Serving
  <2>2. dram[here] \in Word
    BY <2>1, Serving
  <2> QED
    BY <2>2, BeatsType
<1>4. WriteInv' /\ LastBeatIsLast' /\ in_issue' \subseteq in_issue
  BY <1>1, <1>2 DEF ReadNext, WriteInv, LastBeatIsLast, BridgeInv
<1>5. ASSUME creq' \in CReq, taken' \in CResp, count' \in Nat, count' <= count
      PROVE  TypeOK'
  <2>1. count' \in 0 .. MLenCount - 1 /\ count' <= saved_req'.len
    BY <1>2, <1>5, Serving DEF MLenCount, MaxLen
  <2>2. in_issue' \subseteq Channel
    BY <1>4 DEF BridgeInv, TypeOK
  <2> QED
    BY <1>2, <1>5, <2>1, <2>2 DEF BridgeInv, TypeOK
<1>6. CASE MasterStep(NoResp) /\ UNCHANGED <<in_issue, count, rd>>
  <2>1. MasterInv' /\ creq' = creq
    BY <1>1, <1>6, BridgeMaster, MasterLemma, NoRespType DEF NoResp
  <2>2. TypeOK'
    BY <1>5, <1>6, <2>1, Serving DEF MasterInv
  <2>3. RequestInv'
    BY <1>1, <1>2, <1>6, <2>1, RequestStep
  <2>4. ReadInv'
    <3>1. /\ saved_req' = saved_req /\ in_issue' = in_issue
          /\ count' = count /\ rd' = rd
      BY <1>2, <1>6
    <3>2. ReadInv
      BY DEF BridgeInv
    <3> QED
      BY <3>1, <3>2 DEF ReadInv
  <2> QED
    BY <1>4, <2>2, <2>3, <2>4 DEF BridgeInv
<1>7. CASE /\ MasterStep(NoResp)
           /\ "AR" \in in_issue /\ in_issue' = {"R"}
           /\ UNCHANGED count
           /\ rd' = <<[ax |-> saved_req, n |-> 0]>>
  <2>1. MasterInv' /\ creq' = creq
    BY <1>1, <1>7, BridgeMaster, MasterLemma, NoRespType DEF NoResp
  <2>2. TypeOK'
    BY <1>5, <1>7, <2>1, Serving DEF MasterInv
  <2>3. RequestInv'
    BY <1>1, <1>2, <1>7, <2>1, RequestStep
  <2>4. saved_req.len - count = 0
    BY <1>7, Serving DEF BridgeInv, ReadInv
  <2>5. ReadInv'
    BY <1>2, <1>7, <2>4 DEF ReadInv
  <2> QED
    BY <1>4, <2>2, <2>3, <2>5 DEF BridgeInv
<1>8. CASE /\ "AR" \notin in_issue
           /\ MasterStep(Beats(count = 0, dram[here]))
           /\ IF count = 0
              THEN in_issue' = {} /\ rd' = <<>> /\ UNCHANGED count
              ELSE /\ in_issue' = in_issue
                   /\ count' = count - 1
                   /\ rd' = <<[ax |-> saved_req, n |-> saved_req.len - count + 1]>>
  <2> HIDE DEF here
  <2>1. MasterInv'
    BY <1>3, <1>8, BridgeMaster, MasterLemma
  <2>2. count # 0 =>
          /\ creq'.valid /\ creq'.is_write = creq.is_write
          /\ creq'.addr = creq.addr /\ creq'.size = creq.size
          /\ creq'.len = creq.len
    <3>1. Beats(count = 0, dram[here]).last = (count = 0)
      BY DEF Beats
    <3> QED
      BY <1>1, <1>3, <1>8, <3>1, BridgeMaster, MasterLemma
  <2>3. TypeOK'
    BY <1>5, <1>8, <2>1, Serving DEF MasterInv
  <2>4. RequestInv'
    BY <1>1, <1>2, <1>8, <2>1, <2>2, RequestStep
  <2>5. count # 0 => saved_req.len - count + 1 = saved_req.len - (count - 1)
    BY Serving
  <2>6. ReadInv'
    <3>1. CASE count = 0
      BY <1>8, <3>1 DEF ReadInv
    <3>2. CASE count # 0
      BY <1>1, <1>2, <1>8, <2>5, <3>2 DEF ReadInv
    <3> QED
      BY <3>1, <3>2
  <2> QED
    BY <1>4, <2>3, <2>4, <2>6 DEF BridgeInv
<1> QED
  BY <1>6, <1>7, <1>8 DEF ReadNext

LEMMA WriteStep ==
  ASSUME BridgeInv, Busy, "R" \notin in_issue, "B" \in in_issue,
         StoreNext \/ ResponseNext \/ DataNext \/ QuietNext
  PROVE  BridgeInv'
<1>1. /\ "AR" \notin in_issue /\ in_issue \subseteq {"AW", "W", "B"}
      /\ rd = <<>> /\ stored \in BOOLEAN
      /\ aw = (IF "AW" \in in_issue THEN <<>> ELSE <<saved_req>>)
      /\ Len(wbuf) = saved_req.len + (IF "W" \in in_issue THEN -count ELSE 1)
      /\ "W" \notin in_issue => count = 0
      /\ stored => in_issue = {"B"}
      /\ "W" \in in_issue => creq.valid /\ creq.is_write
  BY DEF BridgeInv, TypeOK, RequestInv, ReadInv, WriteInv
<1>2. LastBeatIsLast /\ creq \in CReq
  BY DEF BridgeInv, TypeOK
<1>3. ASSUME MasterInv', UNCHANGED saved_req, in_issue' \subseteq in_issue,
             count' \in Nat, count' <= count, stored' \in BOOLEAN,
             dram' \in [Line -> Word]
      PROVE  TypeOK'
  <2>1. count' \in 0 .. MLenCount - 1 /\ count' <= saved_req'.len
    BY <1>3, Serving DEF MLenCount, MaxLen
  <2>2. in_issue' \subseteq Channel /\ saved_req' \in SavedReq
    BY <1>3 DEF BridgeInv, TypeOK
  <2> QED
    BY <1>3, <2>1, <2>2 DEF MasterInv, TypeOK
<1>4. ASSUME MasterStep(NoResp)
      PROVE  MasterInv' /\ ("W" \in in_issue => creq' = creq /\ creq.valid)
  BY <1>1, <1>4, BridgeMaster, MasterLemma, NoRespType DEF NoResp
<1>5. ASSUME StoreNext
      PROVE  BridgeInv'
  <2>1. /\ MasterInv' /\ stored' = TRUE /\ in_issue = {"B"}
        /\ dram' = Stored(dram, saved_req, wbuf)
        /\ in_issue' = in_issue /\ count' = count /\ saved_req' = saved_req
        /\ rd' = rd /\ aw' = aw /\ wbuf' = wbuf
    BY <1>4, <1>5 DEF StoreNext
  <2>2. dram' \in [Line -> Word]
    BY <2>1, Serving, StoredType
  <2>3. TypeOK'
    BY <1>3, <2>1, <2>2, Serving
  <2>4. RequestInv'
    BY <2>1, RequestStep
  <2>5. ReadInv' /\ LastBeatIsLast'
    BY <1>1, <1>2, <2>1 DEF ReadInv, LastBeatIsLast
  <2>6. WriteInv'
    BY <1>1, <2>1, Serving DEF WriteInv
  <2> QED
    BY <2>3, <2>4, <2>5, <2>6 DEF BridgeInv
<1>6. ASSUME ResponseNext
      PROVE  BridgeInv'
  <2>1. /\ MasterInv' /\ stored' = FALSE /\ in_issue' = {} /\ dram' = dram
        /\ count' = count /\ saved_req' = saved_req
        /\ rd' = rd /\ aw' = <<>> /\ wbuf' = <<>>
    BY <1>4, <1>6 DEF ResponseNext
  <2>2. TypeOK'
    <3>1. in_issue' \subseteq in_issue
      BY <2>1
    <3>2. count' \in Nat /\ count' <= count
      BY <2>1, Serving
    <3>3. dram' \in [Line -> Word]
      BY <2>1, Serving
    <3> QED
      BY <1>3, <2>1, <3>1, <3>2, <3>3
  <2>3. RequestInv'
    BY <2>1, RequestStep
  <2>4. ReadInv' /\ LastBeatIsLast' /\ WriteInv'
    BY <1>1, <2>1 DEF ReadInv, WriteInv, LastBeatIsLast
  <2> QED
    BY <2>2, <2>3, <2>4 DEF BridgeInv
<1>7. ASSUME AddressNext
      PROVE  /\ UNCHANGED <<saved_req, rd, stored, dram>>
             /\ in_issue' \subseteq in_issue /\ "B" \in in_issue'
             /\ "R" \notin in_issue' /\ "AR" \notin in_issue'
             /\ aw' = (IF "AW" \in in_issue' THEN <<>> ELSE <<saved_req>>)
  BY <1>1, <1>7 DEF AddressNext
<1>8. ASSUME QuietNext
      PROVE  BridgeInv'
  <2>1. AddressNext /\ MasterInv' /\ ("W" \in in_issue => creq' = creq /\ creq.valid)
        /\ ("W" \in in_issue' <=> "W" \in in_issue)
        /\ count' = count /\ wbuf' = wbuf
    BY <1>4, <1>8 DEF QuietNext
  <2>2. TypeOK'
    BY <1>1, <1>3, <1>7, <2>1, Serving
  <2>3. RequestInv'
    BY <1>7, <2>1, RequestStep
  <2>4. ReadInv' /\ LastBeatIsLast'
    BY <1>1, <1>2, <1>7, <2>1 DEF ReadInv, LastBeatIsLast
  <2>5. WriteInv'
    <3>1. Len(wbuf') = saved_req'.len + (IF "W" \in in_issue' THEN -count' ELSE 1)
      BY <1>1, <1>7, <2>1
    <3>2. stored' => in_issue' = {"B"}
      BY <1>1, <1>7, <2>1
    <3>3. "W" \notin in_issue' => count' = 0
      BY <1>1, <2>1
    <3>4. in_issue' \subseteq {"AW", "W", "B"} /\ wbuf' \in Seq(Beat)
      BY <1>1, <1>7, <2>1, Serving
    <3> QED
      BY <1>7, <2>1, <3>1, <3>2, <3>3, <3>4 DEF WriteInv
  <2> QED
    BY <2>2, <2>3, <2>4, <2>5 DEF BridgeInv
<1>9. ASSUME DataNext
      PROVE  BridgeInv'
  <2>1. /\ "W" \in in_issue /\ ~stored /\ AddressNext
        /\ MasterStep(Beats(count = 0, ZeroWord))
        /\ "W" \in in_issue' <=> count # 0
        /\ count' = IF count = 0 THEN 0 ELSE count - 1
        /\ wbuf' = Append(wbuf, WBeat)
    BY <1>9 DEF DataNext
  <2>2. Beats(count = 0, ZeroWord) \in CResp
    BY BeatsType, ZeroWordType
  <2>3. Beats(count = 0, ZeroWord).last = (count = 0)
    BY DEF Beats
  <2>4. /\ MasterInv'
        /\ count # 0 =>
             /\ creq'.valid /\ creq'.is_write = creq.is_write
             /\ creq'.addr = creq.addr /\ creq'.size = creq.size
             /\ creq'.len = creq.len
    BY <1>1, <2>1, <2>2, <2>3, BridgeMaster, MasterLemma
  <2>5. TypeOK'
    BY <1>1, <1>3, <1>7, <2>1, <2>4, Serving
  <2>6. RequestInv'
    BY <1>7, <2>1, <2>4, RequestStep
  <2>7. WBeat \in Beat /\ WBeat.last = (count = 0)
    BY <1>2 DEF WBeat, Beat, CReq, IsLast
  <2>8. /\ wbuf' \in Seq(Beat) /\ Len(wbuf') = Len(wbuf) + 1
        /\ wbuf'[Len(wbuf) + 1] = WBeat
        /\ \A n \in 1 .. Len(wbuf) : wbuf'[n] = wbuf[n]
    BY <2>1, <2>7, Serving
  <2>9. Len(wbuf) = saved_req.len - count
    BY <1>1, <2>1, Serving
  <2>10. ReadInv'
    BY <1>1, <1>7, <2>1 DEF ReadInv
  <2>11. LastBeatIsLast'
    <3> SUFFICES ASSUME NEW n \in 1 .. Len(wbuf')
                 PROVE  wbuf'[n].last <=> n = saved_req.len + 1
      BY <1>7, <2>1 DEF LastBeatIsLast
    <3>1. CASE n = Len(wbuf) + 1
      <4>1. Len(wbuf) + 1 = saved_req.len + 1 <=> count = 0
        BY <2>9, Serving
      <4> QED
        BY <2>7, <2>8, <3>1, <4>1
    <3>2. CASE n # Len(wbuf) + 1
      <4>1. n \in 1 .. Len(wbuf)
        BY <2>8, <3>2, Serving
      <4> QED
        BY <1>2, <2>8, <4>1 DEF LastBeatIsLast
    <3> QED
      BY <3>1, <3>2
  <2>12. WriteInv'
    <3>1. Len(wbuf') = saved_req'.len + (IF "W" \in in_issue' THEN -count' ELSE 1)
      BY <1>7, <2>1, <2>8, <2>9, Serving
    <3> QED
      BY <1>1, <1>7, <2>1, <2>8, <3>1 DEF WriteInv
  <2> QED
    BY <2>5, <2>6, <2>10, <2>11, <2>12 DEF BridgeInv
<1> QED
  BY <1>5, <1>6, <1>8, <1>9

LEMMA NextInv ==
  ASSUME BridgeInv, [Next]_vars
  PROVE  BridgeInv'
<1>1. ASSUME NEW s \in Signals, BusyEdge(s)
      PROVE  BridgeInv'
  <2>1. Busy
    BY <1>1 DEF BusyEdge
  <2>2. CASE "R" \in in_issue
    BY <1>1, <2>1, <2>2, ReadEdge, ReadStep
  <2>3. CASE "R" \notin in_issue
    BY <1>1, <2>1, <2>3, WriteEdge, WriteStep
  <2> QED
    BY <2>2, <2>3
<1>2. CASE UNCHANGED vars
  <2>1. /\ creq' = creq /\ taken' = taken /\ in_issue' = in_issue
        /\ saved_req' = saved_req /\ count' = count /\ rd' = rd /\ aw' = aw
        /\ wbuf' = wbuf /\ stored' = stored /\ dram' = dram
    BY <1>2 DEF vars, bridgeVars, slaveVars
  <2>2. TypeOK' /\ LastBeatIsLast'
    BY <2>1 DEF BridgeInv, TypeOK, LastBeatIsLast, Busy
  <2>3. RequestInv'
    BY <2>1 DEF BridgeInv, RequestInv, InMemory, BurstAddress, Busy
  <2>4. ReadInv' /\ WriteInv'
    BY <2>1 DEF BridgeInv, ReadInv, WriteInv
  <2> QED
    BY <2>2, <2>3, <2>4 DEF BridgeInv
<1> QED
  BY <1>1, <1>2, IdleInv, ResetInv DEF Next

\* In every reachable state the channels still due, the beat counter and what the
\* slave holds are those of one request (CBusToAXI.sv 70-91, 148-164).
THEOREM BridgeInvariant == Spec => []BridgeInv
  BY InitInv, NextInv, PTL DEF Spec

\* The types, and the counter within the length of the request it counts.
THEOREM BridgeTypes == Spec => []TypeOK
<1>1. BridgeInv => TypeOK
  BY DEF BridgeInv
<1> QED
  BY <1>1, BridgeInvariant, PTL

\* The bridge is free only when the slave owes and holds nothing.
THEOREM FreeIsDone == Spec => []FreeMeansDone
<1>1. BridgeInv => FreeMeansDone
  BY DEF BridgeInv, ReadInv, WriteInv, FreeMeansDone, Busy
<1> QED
  BY <1>1, BridgeInvariant, PTL

\* wlast is driven on the beat that awlen announces and on no other.
THEOREM LastIsAnnounced == Spec => []LastBeatIsLast
<1>1. BridgeInv => LastBeatIsLast
  BY DEF BridgeInv
<1> QED
  BY <1>1, BridgeInvariant, PTL

-----------------------------------------------------------------------------
(* Every step, by its effect                                               *)

LEMMA Steps ==
  ASSUME BridgeInv, Next
  PROVE  \/ IdleEdge
         \/ ResetEdge
         \/ Busy /\ "R" \in in_issue /\ ReadNext
         \/ /\ Busy /\ "R" \notin in_issue /\ "B" \in in_issue
            /\ StoreNext \/ ResponseNext \/ DataNext \/ QuietNext
<1>1. ASSUME NEW s \in Signals, BusyEdge(s)
      PROVE  \/ Busy /\ "R" \in in_issue /\ ReadNext
             \/ /\ Busy /\ "R" \notin in_issue /\ "B" \in in_issue
                /\ StoreNext \/ ResponseNext \/ DataNext \/ QuietNext
  <2>1. Busy
    BY <1>1 DEF BusyEdge
  <2>2. CASE "R" \in in_issue
    BY <1>1, <2>1, <2>2, ReadEdge
  <2>3. CASE "R" \notin in_issue
    BY <1>1, <2>1, <2>3, WriteEdge
  <2> QED
    BY <2>2, <2>3
<1> QED
  BY <1>1 DEF Next

Stable ==
  /\ "AR" \in in_issue /\ rd' = rd => "AR" \in in_issue' /\ AxAddr' = AxAddr
  /\ "AW" \in in_issue /\ aw' = aw => "AW" \in in_issue' /\ AxAddr' = AxAddr
  /\ "W" \in in_issue /\ wbuf' = wbuf => "W" \in in_issue' /\ WBeat' = WBeat

LEMMA StableStep ==
  ASSUME BridgeInv, Next, ~ResetEdge
  PROVE  Stable
<1>1. CASE IdleEdge
  BY <1>1 DEF IdleEdge, Busy, Stable
<1>2. CASE Busy /\ "R" \in in_issue /\ ReadNext
  <2>1. "AW" \notin in_issue /\ "W" \notin in_issue
    BY <1>2 DEF BridgeInv, ReadInv
  <2>2. "AR" \in in_issue => rd = <<>>
    BY DEF BridgeInv, ReadInv
  <2>3. "AR" \in in_issue /\ rd' = rd => in_issue' = in_issue /\ saved_req' = saved_req
    BY <1>2, <2>2 DEF ReadNext
  <2> QED
    BY <2>1, <2>3 DEF Stable, AxAddr
<1>3. CASE "R" \notin in_issue /\ "B" \in in_issue /\ (StoreNext \/ ResponseNext)
  <2>1. in_issue = {"B"}
    BY <1>3 DEF StoreNext, ResponseNext, BridgeInv, WriteInv
  <2> QED
    BY <2>1 DEF Stable
<1>4. CASE "R" \notin in_issue /\ "B" \in in_issue /\ (DataNext \/ QuietNext)
  <2>1. AddressNext
    BY <1>4 DEF DataNext, QuietNext
  <2>2. "AR" \notin in_issue
    BY <1>4 DEF BridgeInv, ReadInv
  <2>3. "AW" \in in_issue => aw = <<>>
    BY <1>4 DEF BridgeInv, WriteInv
  <2>4. "AW" \in in_issue /\ aw' = aw => "AW" \in in_issue' /\ saved_req' = saved_req
    BY <2>1, <2>3 DEF AddressNext
  <2>5. "W" \in in_issue /\ wbuf' = wbuf => "W" \in in_issue' /\ WBeat' = WBeat
    <3>1. ASSUME DataNext PROVE wbuf' # wbuf
      <4>1. wbuf \in Seq(Beat) /\ wbuf' = Append(wbuf, WBeat)
        BY <3>1 DEF DataNext, BridgeInv, WriteInv
      <4>2. WBeat \in Beat
        BY DEF WBeat, Beat, IsLast, BridgeInv, TypeOK, CReq
      <4>3. Len(wbuf') = Len(wbuf) + 1 /\ Len(wbuf) \in Nat
        BY <4>1, <4>2
      <4> QED
        BY <4>3
    <3>2. ASSUME QuietNext, "W" \in in_issue
          PROVE  "W" \in in_issue' /\ WBeat' = WBeat
      <4>1. creq.valid
        BY <3>2 DEF BridgeInv, RequestInv
      <4>2. creq' = creq
        BY <3>2, <4>1, BridgeMaster, MasterLemma, NoRespType DEF QuietNext, NoResp
      <4> QED
        BY <3>2, <4>2 DEF QuietNext, WBeat, IsLast
    <3> QED
      BY <1>4, <3>1, <3>2
  <2> QED
    BY <2>2, <2>4, <2>5 DEF Stable, AxAddr
<1> QED
  BY <1>1, <1>2, <1>3, <1>4, Steps

\* AXI's rule for a master: a channel that is valid stays so, and its payload
\* with it, until the slave takes it.
THEOREM ChannelsStable == Spec => AxiStable
<1>1. BridgeInv /\ [Next]_vars => [~ResetEdge => Stable]_vars
  BY StableStep
<1> QED
  BY <1>1, BridgeInvariant, PTL DEF Spec, AxiStable, Stable

-----------------------------------------------------------------------------
(* The bridge and the slave are one memory                                 *)

LEMMA VisibleEmpty ==
  ASSUME dram \in [Line -> Word], wbuf = <<>>
  PROVE  Visible = dram
  BY StoredEmpty DEF Visible

\* The master of the abstract memory is that of the bridge.
LEMMA SameMaster ==
  /\ \A resp : MasterStep(resp) <=> CBus!MasterStep(resp)
  /\ NoResp = CBus!NoResp
  /\ MasterInit <=> CBus!MasterInit
  /\ MasterReset <=> CBus!MasterReset
<1>1. /\ ZeroWord = CBus!ZeroWord
  BY DEF ZeroWord, CBus!ZeroWord, Lane, CBus!Lane
<1>2. NoResp = CBus!NoResp /\ NoReq = CBus!NoReq /\ NoPayload = CBus!NoPayload
  BY <1>1 DEF NoResp, CBus!NoResp, NoReq, CBus!NoReq, NoPayload, CBus!NoPayload
<1>3. \A r, p : Driven(r, p) = CBus!Driven(r, p)
  BY DEF Driven, CBus!Driven
<1>4. Offers = CBus!Offers
  BY <1>2, <1>3 DEF Offers, CBus!Offers
<1>5. ASSUME NEW resp PROVE MasterStep(resp) <=> CBus!MasterStep(resp)
  BY <1>4 DEF MasterStep, CBus!MasterStep
<1> QED
  BY <1>2, <1>5 DEF MasterInit, CBus!MasterInit, MasterReset, CBus!MasterReset

Free(in) == {"R", "W"} \cap in = {}

LEMMA AnsweredFree ==
  ASSUME Free(in_issue)
  PROVE  Answered = 0
  BY DEF Free, Answered

\* A step without an answer that leaves the visible memory alone.
LEMMA WaitStep ==
  ASSUME MasterStep(NoResp), UNCHANGED <<Answered, Visible>>,
         \/ dram' = dram
         \/ Answered = 0 /\ dram' = Visible
  PROVE  CBus!Wait
<1>1. CBus!MasterStep(CBus!NoResp)
  BY SameMaster
<1> QED
  BY <1>1 DEF CBus!Wait

LEMMA RefineInit == Init => CBus!Init
<1> SUFFICES ASSUME Init PROVE CBus!Init
  OBVIOUS
<1>1. MasterInit /\ in_issue = {} /\ wbuf = <<>> /\ dram \in Images
  BY DEF Init
<1>2. CBus!MasterInit /\ Answered = 0
  BY <1>1, SameMaster, AnsweredFree DEF Free
<1>3. Visible = dram
  BY <1>1, InitInv, VisibleEmpty DEF BridgeInv, TypeOK
<1> QED
  BY <1>1, <1>2, <1>3 DEF CBus!Init

LEMMA RefineIdle ==
  ASSUME BridgeInv, BridgeInv', IdleEdge
  PROVE  CBus!Wait
<1>1. in_issue = {} /\ MasterStep(NoResp) /\ dram' = dram /\ wbuf' = wbuf
      /\ count' = creq.len /\ saved_req'.len = creq.len
  BY DEF IdleEdge, Busy, slaveVars
<1>2. wbuf = <<>> /\ dram \in [Line -> Word] /\ dram' \in [Line -> Word]
  BY <1>1 DEF BridgeInv, WriteInv, TypeOK
<1>3. Visible = dram /\ Visible' = dram'
  BY <1>1, <1>2, VisibleEmpty, StoredEmpty DEF Visible
<1>4. creq.len \in Nat
  BY DEF BridgeInv, TypeOK, CReq
<1>5. Answered = 0 /\ Answered' = 0
  BY <1>1, <1>4 DEF Answered
<1> QED
  BY <1>1, <1>3, <1>5, WaitStep

LEMMA RefineReset ==
  ASSUME BridgeInv, BridgeInv', ResetEdge
  PROVE  CBus!Reset
<1>1. MasterReset /\ in_issue' = {} /\ wbuf' = <<>> /\ dram' = dram
  BY DEF ResetEdge, SlaveReset
<1>2. Answered' = 0
  BY <1>1 DEF Answered
<1>3. dram \in [Line -> Word]
  BY DEF BridgeInv, TypeOK
<1>4. Visible' = dram
  BY <1>1, <1>3, StoredEmpty DEF Visible
<1> QED
  BY <1>1, <1>2, <1>4, SameMaster DEF CBus!Reset

\* A beat answered with data d is served when it reads what the memory holds, or
\* writes what the master sends.
LEMMA ServeStep ==
  ASSUME NEW d, creq.valid,
         MasterStep(Beats(Answered = creq.len, d)),
         Answered' = IF Answered = creq.len THEN 0 ELSE Answered + 1,
         dram' = dram,
         NEW here, here = WordAt(BeatAddress(creq.addr, creq.size, creq.len, Answered)),
         \/ ~creq.is_write /\ d = Visible[here] /\ Visible' = Visible
         \/ /\ creq.is_write /\ d = ZeroWord
            /\ Visible' = [Visible EXCEPT ![here] = Merge(@, creq)]
  PROVE  CBus!Serve
<1>1. ZeroWord = CBus!ZeroWord
  BY DEF ZeroWord, CBus!ZeroWord, Lane, CBus!Lane
<1>2. here = CBus!Here
  BY DEF CBus!Here, WordAt, CBus!WordAt, BeatAddress, CBus!BeatAddress
<1>3. \A w : Merge(w, creq) = CBus!Merge(w, creq)
  BY DEF Merge, CBus!Merge, Lane, CBus!Lane
<1>4. CBus!IsLast <=> Answered = creq.len
  BY DEF CBus!IsLast
<1>5. d = IF creq.is_write THEN CBus!ZeroWord ELSE Visible[CBus!Here]
  BY <1>1, <1>2
<1>6. CBus!MasterStep([ready |-> TRUE, last |-> CBus!IsLast, data |-> d])
  <2>1. Beats(Answered = creq.len, d) = [ready |-> TRUE, last |-> CBus!IsLast, data |-> d]
    BY <1>4 DEF Beats
  <2> QED
    BY <2>1, SameMaster
<1>7. Visible' = IF creq.is_write
                 THEN [Visible EXCEPT ![CBus!Here] = CBus!Merge(@, creq)] ELSE Visible
  BY <1>2, <1>3
<1>8. Answered' = IF CBus!IsLast THEN 0 ELSE Answered + 1
  BY <1>4
<1> QED
  BY <1>5, <1>6, <1>7, <1>8 DEF CBus!Serve

LEMMA RefineRead ==
  ASSUME BridgeInv, BridgeInv', Busy, "R" \in in_issue, ReadNext
  PROVE  CBus!Wait \/ CBus!Serve
<1> DEFINE here == WordAt(BurstAddress(saved_req, saved_req.len - count))
<1>1. /\ "W" \notin in_issue /\ wbuf = <<>> /\ ~stored
      /\ UNCHANGED <<saved_req, wbuf, stored, dram>>
      /\ creq.valid /\ creq.is_write = FALSE
      /\ creq.addr = saved_req.addr /\ creq.size = saved_req.size
      /\ creq.len = saved_req.len
  <2>1. "W" \notin in_issue /\ wbuf = <<>> /\ ~stored
    BY DEF BridgeInv, ReadInv, WriteInv
  <2>2. UNCHANGED <<saved_req, wbuf, stored, dram>>
    BY DEF ReadNext
  <2>3. /\ creq.valid /\ creq.is_write = FALSE
        /\ creq.addr = saved_req.addr /\ creq.size = saved_req.size
        /\ creq.len = saved_req.len
    <3>1. RequestInv /\ {"R", "W"} \cap in_issue # {} /\ creq.is_write \in BOOLEAN
      BY DEF BridgeInv, TypeOK, CReq
    <3> QED
      BY <2>1, <3>1 DEF RequestInv
  <2> QED
    BY <2>1, <2>2, <2>3
<1>2. dram \in [Line -> Word]
  BY DEF BridgeInv, TypeOK
<1>3. Visible = dram /\ Visible' = dram
  BY <1>1, <1>2, StoredEmpty DEF Visible
<1>4. Answered = saved_req.len - count
  BY DEF Answered
<1>5. CASE MasterStep(NoResp) /\ UNCHANGED <<in_issue, count, rd>>
  <2>1. Answered' = Answered
    BY <1>1, <1>5 DEF Answered
  <2> QED
    BY <1>1, <1>3, <1>5, <2>1, WaitStep
<1>6. CASE MasterStep(NoResp) /\ "AR" \in in_issue /\ in_issue' = {"R"} /\ UNCHANGED count
  <2>1. Answered' = Answered
    BY <1>1, <1>4, <1>6 DEF Answered
  <2> QED
    BY <1>1, <1>3, <1>6, <2>1, WaitStep
<1>7. CASE /\ MasterStep(Beats(count = 0, dram[here]))
           /\ IF count = 0
              THEN in_issue' = {} /\ UNCHANGED count
              ELSE in_issue' = in_issue /\ count' = count - 1
  <2>1. count \in Nat /\ saved_req.len \in Nat /\ count <= saved_req.len
    BY Serving
  <2>2. Answered = creq.len <=> count = 0
    BY <1>1, <1>4, <2>1
  <2>3. MasterStep(Beats(Answered = creq.len, dram[here]))
    BY <1>7, <2>2
  <2>4. Answered' = IF Answered = creq.len THEN 0 ELSE Answered + 1
    <3>1. CASE count = 0
      BY <1>7, <2>2, <3>1 DEF Answered
    <3>2. CASE count # 0
      <4>1. Answered' = saved_req.len - (count - 1)
        BY <1>1, <1>7, <3>2 DEF Answered
      <4> QED
        BY <1>4, <2>1, <2>2, <3>2, <4>1
    <3> QED
      BY <3>1, <3>2
  <2>5. here = WordAt(BeatAddress(creq.addr, creq.size, creq.len, Answered))
    BY <1>1, <1>4 DEF BurstAddress
  <2> HIDE DEF here
  <2> QED
    BY <1>1, <1>3, <2>3, <2>4, <2>5, ServeStep
<1> QED
  BY <1>5, <1>6, <1>7 DEF ReadNext

LEMMA RefineWrite ==
  ASSUME BridgeInv, BridgeInv', Busy, "R" \notin in_issue, "B" \in in_issue,
         StoreNext \/ ResponseNext \/ DataNext \/ QuietNext
  PROVE  CBus!Wait \/ CBus!Serve
<1>1. /\ dram \in [Line -> Word] /\ dram' \in [Line -> Word] /\ stored \in BOOLEAN
      /\ stored => in_issue = {"B"}
      /\ "W" \in in_issue => Len(wbuf) = saved_req.len - count
  BY DEF BridgeInv, TypeOK, WriteInv, SavedReq
<1>2. ASSUME StoreNext
      PROVE  CBus!Wait
  <2>1. /\ MasterStep(NoResp) /\ Answered = 0 /\ Answered' = 0
        /\ Visible = Stored(dram, saved_req, wbuf)
        /\ dram' = Visible /\ Visible' = dram'
    BY <1>2 DEF StoreNext, Answered, Visible
  <2> QED
    BY <2>1, WaitStep
<1>3. ASSUME ResponseNext
      PROVE  CBus!Wait
  <2>1. /\ MasterStep(NoResp) /\ in_issue = {"B"} /\ in_issue' = {} /\ dram' = dram
        /\ stored /\ ~stored' /\ wbuf' = <<>>
    BY <1>1, <1>3 DEF ResponseNext
  <2>2. Answered = 0 /\ Answered' = 0
    BY <2>1 DEF Answered
  <2>3. Visible = dram /\ Visible' = dram
    BY <1>1, <2>1, StoredEmpty DEF Visible
  <2> QED
    BY <2>1, <2>2, <2>3, WaitStep
<1>4. ASSUME QuietNext
      PROVE  CBus!Wait
  <2>1. /\ MasterStep(NoResp) /\ dram' = dram /\ wbuf' = wbuf /\ stored' = stored
        /\ saved_req' = saved_req /\ count' = count
        /\ "W" \in in_issue' <=> "W" \in in_issue
        /\ "R" \notin in_issue'
    BY <1>4 DEF QuietNext, AddressNext
  <2>2. Answered' = Answered /\ Visible' = Visible
    BY <2>1 DEF Answered, Visible
  <2> QED
    BY <2>1, <2>2, WaitStep
<1>5. ASSUME DataNext
      PROVE  CBus!Serve
  <2>1. /\ "W" \in in_issue /\ ~stored /\ ~stored' /\ dram' = dram
        /\ MasterStep(Beats(count = 0, ZeroWord))
        /\ saved_req' = saved_req /\ wbuf' = Append(wbuf, WBeat)
        /\ "W" \in in_issue' <=> count # 0
        /\ count' = IF count = 0 THEN 0 ELSE count - 1
        /\ "R" \notin in_issue'
    BY <1>5 DEF DataNext, AddressNext
  <2>2. /\ creq.valid /\ creq.is_write /\ creq.addr = saved_req.addr
        /\ creq.size = saved_req.size /\ creq.len = saved_req.len
    BY <2>1 DEF BridgeInv, RequestInv
  <2>3. count \in Nat /\ saved_req.len \in Nat /\ count <= saved_req.len
        /\ wbuf \in Seq(Beat)
    BY Serving
  <2>4. Answered = saved_req.len - count /\ Answered = Len(wbuf)
    BY <1>1, <2>1 DEF Answered
  <2>5. Answered = creq.len <=> count = 0
    BY <2>2, <2>3, <2>4
  <2>6. MasterStep(Beats(Answered = creq.len, ZeroWord))
    BY <2>1, <2>5
  <2>7. Answered' = IF Answered = creq.len THEN 0 ELSE Answered + 1
    <3>1. CASE count = 0
      BY <2>1, <2>5, <3>1 DEF Answered
    <3>2. CASE count # 0
      <4>1. Answered' = saved_req.len - (count - 1)
        BY <2>1, <3>2 DEF Answered
      <4> QED
        BY <2>3, <2>4, <2>5, <3>2, <4>1
    <3> QED
      BY <3>1, <3>2
  <2> DEFINE here == WordAt(BeatAddress(creq.addr, creq.size, creq.len, Answered))
  <2>8. here = WordAt(BurstAddress(saved_req, Len(wbuf)))
    BY <2>2, <2>4 DEF BurstAddress
  <2>9. WBeat \in Beat
    BY DEF WBeat, Beat, IsLast, BridgeInv, TypeOK, CReq
  <2>10. \A w : Merge(w, WBeat) = Merge(w, creq)
    BY DEF Merge, WBeat
  <2>11. Visible = Stored(dram, saved_req, wbuf)
         /\ Visible' = Stored(dram, saved_req, Append(wbuf, WBeat))
    BY <2>1 DEF Visible
  <2> HIDE DEF here
  <2>12. Visible' = [Visible EXCEPT ![here] = Merge(@, creq)]
    <3>1. Visible' = [Visible EXCEPT ![here] = Merge(Visible[here], WBeat)]
      BY <1>1, <2>3, <2>8, <2>9, <2>11, StoredAppend
    <3> QED
      BY <2>10, <3>1
  <2> QED
    BY <2>1, <2>2, <2>6, <2>7, <2>12, ServeStep DEF here
<1> QED
  BY <1>2, <1>3, <1>4, <1>5

\* To its master the bridge, with any AXI slave, is one atomic memory: each beat
\* is read or written when it is answered, and a reset leaves what was stored.
THEOREM BridgeIsMemory == Spec => ImplementsCBus
<1>1. BridgeInv /\ BridgeInv' /\ [Next]_vars => [CBus!Next]_(CBus!vars)
  <2> SUFFICES ASSUME BridgeInv, BridgeInv', [Next]_vars
               PROVE  CBus!Next \/ UNCHANGED CBus!vars
    OBVIOUS
  <2>1. CASE UNCHANGED vars
    <3>1. /\ creq' = creq /\ taken' = taken /\ in_issue' = in_issue
          /\ saved_req' = saved_req /\ count' = count
          /\ wbuf' = wbuf /\ stored' = stored /\ dram' = dram
      BY <2>1 DEF vars, bridgeVars, slaveVars
    <3>2. Answered' = Answered /\ Visible' = Visible
      BY <3>1 DEF Answered, Visible
    <3> QED
      BY <3>1, <3>2 DEF CBus!vars
  <2>2. CASE Next
    BY <2>2, Steps, RefineIdle, RefineReset, RefineRead, RefineWrite DEF CBus!Next
  <2> QED
    BY <2>1, <2>2
<1> QED
  BY <1>1, RefineInit, BridgeInvariant, PTL DEF Spec, ImplementsCBus, CBus!Spec

-----------------------------------------------------------------------------
(* Every request comes nearer to its answer.                               *)

\* The handshakes, and the store, still due for the request that is served.
Due ==
    (IF "AR" \in in_issue THEN 1 ELSE 0)
  + (IF "AW" \in in_issue THEN 1 ELSE 0)
  + (IF {"R", "W"} \cap in_issue # {} THEN count + 1 ELSE 0)
  + (CASE "B" \notin in_issue -> 0
       [] "B" \in in_issue /\ stored -> 1
       [] OTHER -> 2)

\* What is due before the last beat of the request driven is answered, at most.
\* While beats are due it is this request that is served; otherwise what is left
\* of the one before comes first, and then the edge that takes this one.
ToAnswer ==
  IF ~creq.valid THEN 0
  ELSE IF {"R", "W"} \cap in_issue # {} THEN Due ELSE Due + MaxLen + 5

NearerToAnswer ==
  [][creq.valid => \/ taken'.last \/ ~creq'.valid
                   \/ ToAnswer' < ToAnswer
                   \/ UNCHANGED <<creq, bridgeVars, slaveVars>> ]_vars

\* The bridge and the slave never wait for each other: some channel that owes a
\* handshake can have it, or the slave can store the burst it holds.
SlaveCanGo ==
  Busy => \E s \in Signals : Offered(s) /\ (Handshake(s) # {} \/ s.store)

LEMMA DueRange ==
  ASSUME BridgeInv
  PROVE  /\ Due \in 0 .. MaxLen + 4 /\ count \in 0 .. MaxLen
         /\ {"R", "W"} \cap in_issue = {} => Due <= 3
<1>1. /\ count \in 0 .. MaxLen /\ stored \in BOOLEAN
      /\ "R" \in in_issue => "AW" \notin in_issue /\ "B" \notin in_issue
      /\ "B" \in in_issue => "AR" \notin in_issue
  BY DEF BridgeInv, TypeOK, ReadInv, WriteInv, MLenCount, MaxLen
<1>2. "AR" \in in_issue => "R" \in in_issue
  BY DEF BridgeInv, ReadInv
<1>3. "AW" \in in_issue => "B" \in in_issue
  BY DEF BridgeInv, WriteInv
<1> QED BY <1>1, <1>2, <1>3 DEF Due, MaxLen

\* A step that keeps the request driven and lowers what is due.
LEMMA LowerDue ==
  ASSUME BridgeInv, BridgeInv', creq.valid, Due' < Due,
         {"R", "W"} \cap in_issue' # {} => {"R", "W"} \cap in_issue # {},
         {"R", "W"} \cap in_issue # {} => taken'.last \/ {"R", "W"} \cap in_issue' # {}
  PROVE  taken'.last \/ ~creq'.valid \/ ToAnswer' < ToAnswer
<1>1. Due \in Nat /\ Due' \in Nat
  <2>1. Due \in Nat
    BY DueRange DEF MaxLen
  <2>2. (BridgeInv => Due \in 0 .. MaxLen + 4)'
    BY DueRange, PTL
  <2> QED BY <2>1, <2>2 DEF MaxLen
<1> HIDE DEF Due
<1>2. ASSUME creq'.valid, ~taken'.last
      PROVE  ToAnswer' < ToAnswer
  <2>1. CASE {"R", "W"} \cap in_issue # {}
    <3>1. ToAnswer = Due
      BY <2>1 DEF ToAnswer
    <3>2. {"R", "W"} \cap in_issue' # {}
      BY <1>2, <2>1
    <3>3. ToAnswer' = Due'
      BY <1>2, <3>2 DEF ToAnswer
    <3> QED BY <3>1, <3>3
  <2>2. CASE {"R", "W"} \cap in_issue = {}
    <3>1. ToAnswer = Due + MaxLen + 5
      BY <2>2 DEF ToAnswer
    <3>2. {"R", "W"} \cap in_issue' = {}
      BY <2>2
    <3>3. ToAnswer' = Due' + MaxLen + 5
      BY <1>1, <1>2, <3>2 DEF ToAnswer
    <3>4. Due' + MaxLen + 5 < Due + MaxLen + 5
      <4>1. Due' < Due
        OBVIOUS
      <4>2. \A i, j \in Nat : i < j => i + MaxLen + 5 < j + MaxLen + 5
        BY DEF MaxLen
      <4> QED BY ONLY <1>1, <4>1, <4>2
    <3> QED BY ONLY <3>1, <3>3, <3>4
  <2> QED BY <2>1, <2>2
<1> QED BY <1>2

LEMMA NearerStep ==
  ASSUME BridgeInv, BridgeInv', Next, creq.valid
  PROVE  \/ taken'.last \/ ~creq'.valid
         \/ ToAnswer' < ToAnswer
         \/ UNCHANGED <<creq, bridgeVars, slaveVars>>
<1>0. /\ MasterInv /\ count \in Nat
      /\ \A resp : MasterStep(resp) => taken' = resp
  <2>1. MasterInv
    BY BridgeMaster
  <2>2. count \in Nat
    BY DEF BridgeInv, TypeOK
  <2>3. \A resp : MasterStep(resp) => taken' = resp
    BY DEF MasterStep
  <2> QED BY <2>1, <2>2, <2>3
<1>1. CASE IdleEdge
  <2>1. /\ in_issue = {} /\ in_issue' = NextIssue /\ count' = creq.len
        /\ MasterStep(NoResp) /\ stored' = stored
    BY <1>1 DEF IdleEdge, Busy, slaveVars
  <2>2. creq.len \in 0 .. MaxLen /\ ~stored
    <3>1. creq \in CReq /\ creq.len <= MaxLen
      BY DEF BridgeInv, RequestInv, TypeOK
    <3>2. ~stored
      BY <2>1 DEF BridgeInv, WriteInv
    <3> QED BY <3>1, <3>2 DEF CReq, MaxLen
  <2>3. creq' = creq
    BY <1>0, <2>1, NoRespType, MasterLemma DEF NoResp
  <2>4. Due = 0
    BY <2>1 DEF Due
  <2>5. Due' <= MaxLen + 4 /\ Due' \in Int
    BY <2>1, <2>2 DEF Due, NextIssue, MaxLen
  <2>6. {"R", "W"} \cap in_issue' # {}
    BY <2>1 DEF NextIssue
  <2> HIDE DEF Due
  <2> QED BY <2>1, <2>3, <2>4, <2>5, <2>6 DEF ToAnswer, MaxLen
<1>2. CASE ResetEdge
  BY <1>2 DEF ResetEdge, MasterReset, NoReq
<1>3. CASE "R" \in in_issue /\ ReadNext
  <2>1. {"AW", "W", "B"} \cap in_issue = {} /\ in_issue \subseteq {"AR", "R"}
    BY <1>3 DEF BridgeInv, ReadInv
  <2>2. CASE MasterStep(NoResp) /\ UNCHANGED <<in_issue, count, rd>>
    <3>1. creq' = creq
      BY <1>0, <2>2, NoRespType, MasterLemma DEF NoResp
    <3> QED BY <1>3, <2>2, <3>1 DEF ReadNext, bridgeVars, slaveVars
  <2>3. CASE "AR" \in in_issue /\ in_issue' = {"R"} /\ UNCHANGED count
    <3>1. Due' = Due - 1 /\ Due \in Int
      BY <1>0, <1>3, <2>1, <2>3 DEF Due
    <3> HIDE DEF Due
    <3>2. Due' < Due
      BY <3>1
    <3> QED BY <1>3, <2>3, <3>2, LowerDue
  <2>4. CASE /\ MasterStep(Beats(count = 0, dram[WordAt(BurstAddress(saved_req, saved_req.len - count))]))
             /\ IF count = 0
                THEN in_issue' = {} /\ rd' = <<>> /\ UNCHANGED count
                ELSE /\ in_issue' = in_issue
                     /\ count' = count - 1
                     /\ rd' = <<[ax |-> saved_req, n |-> saved_req.len - count + 1]>>
    <3>1. CASE count = 0
      <4>1. \A d : Beats(count = 0, d).last
        BY <3>1 DEF Beats
      <4> QED BY <1>0, <2>4, <4>1
    <3>2. CASE count # 0
      <4>1. Due' = Due - 1 /\ Due \in Int
        BY <1>0, <1>3, <2>1, <2>4, <3>2 DEF Due
      <4> HIDE DEF Due
      <4>2. Due' < Due
        BY <4>1
      <4> QED BY <1>3, <2>4, <3>2, <4>2, LowerDue
    <3> QED BY <3>1, <3>2
  <2> QED BY <1>3, <2>2, <2>3, <2>4 DEF ReadNext
<1>4. CASE "R" \notin in_issue /\ "B" \in in_issue /\ (StoreNext \/ ResponseNext \/ DataNext \/ QuietNext)
  <2>0. /\ {"AR", "R"} \cap in_issue = {} /\ in_issue \subseteq {"AW", "W", "B"}
        /\ stored => in_issue = {"B"}
        /\ stored \in BOOLEAN
    BY <1>4 DEF BridgeInv, WriteInv, TypeOK
  <2>1. CASE StoreNext
    <3>1. Due = 2 /\ Due' = 1 /\ in_issue = {"B"} /\ in_issue' = {"B"}
      BY <2>1 DEF StoreNext, Due
    <3> HIDE DEF Due
    <3> QED BY <3>1, LowerDue
  <2>2. CASE ResponseNext
    <3>1. Due = 1 /\ Due' = 0 /\ in_issue = {"B"} /\ in_issue' = {}
      BY <2>0, <2>2 DEF ResponseNext, Due
    <3> HIDE DEF Due
    <3> QED BY <3>1, LowerDue
  <2>3. ASSUME AddressNext
        PROVE  /\ "B" \in in_issue' /\ {"AR", "R"} \cap in_issue' = {} /\ stored' = stored
               /\ "AW" \in in_issue' => "AW" \in in_issue
    BY <1>4, <2>0, <2>3 DEF AddressNext
  <2>4. CASE DataNext
    <3>1. AddressNext /\ ~stored /\ "W" \in in_issue
      BY <2>4 DEF DataNext
    <3>2. CASE count = 0
      <4>1. \A d : Beats(count = 0, d).last
        BY <3>2 DEF Beats
      <4>2. taken' = Beats(count = 0, ZeroWord)
        BY <1>0, <2>4 DEF DataNext
      <4> QED BY <4>1, <4>2
    <3>3. CASE count # 0
      <4>1. "W" \in in_issue' /\ count' = count - 1
        BY <2>4, <3>3 DEF DataNext
      <4>2. Due' < Due
        BY <1>0, <1>4, <2>0, <2>3, <3>1, <4>1 DEF Due
      <4> HIDE DEF Due
      <4> QED BY <3>1, <4>1, <4>2, LowerDue
    <3> QED BY <3>2, <3>3
  <2>5. CASE QuietNext
    <3>1. AddressNext /\ MasterStep(NoResp) /\ count' = count /\ wbuf' = wbuf
          /\ ("W" \in in_issue' <=> "W" \in in_issue)
      BY <2>5 DEF QuietNext
    <3>2. CASE "AW" \in in_issue /\ "AW" \notin in_issue'
      <4>1. Due' < Due
        BY <1>0, <1>4, <2>0, <2>3, <3>1, <3>2 DEF Due
      <4>2. {"R", "W"} \cap in_issue' # {} <=> {"R", "W"} \cap in_issue # {}
        BY <1>4, <2>3, <3>1
      <4> HIDE DEF Due
      <4> QED BY <4>1, <4>2, LowerDue
    <3>3. CASE ~("AW" \in in_issue /\ "AW" \notin in_issue')
      <4>1. in_issue' = in_issue /\ aw' = aw
        BY <1>4, <2>0, <2>3, <3>1, <3>3 DEF AddressNext
      <4>2. creq' = creq
        BY <1>0, <3>1, NoRespType, MasterLemma DEF NoResp
      <4> QED BY <2>3, <3>1, <4>1, <4>2 DEF AddressNext, bridgeVars, slaveVars
    <3> QED BY <3>2, <3>3
  <2> QED BY <1>4, <2>1, <2>2, <2>4, <2>5
<1> QED BY <1>1, <1>2, <1>3, <1>4, Steps

\* A slave that takes part in all it can.
Willing ==
  [AR |-> "AR" \in in_issue, R |-> "R" \in in_issue /\ rd # <<>>,
   AW |-> "AW" \in in_issue, W |-> "W" \in in_issue, B |-> "B" \in in_issue /\ stored,
   store |-> aw # <<>> /\ WholeBurst /\ ~stored]

LEMMA WillingGoes ==
  ASSUME BridgeInv
  PROVE  SlaveCanGo
<1> SUFFICES ASSUME Busy
             PROVE  \E s \in Signals : Offered(s) /\ (Handshake(s) # {} \/ s.store)
  BY DEF SlaveCanGo
<1>1. stored \in BOOLEAN /\ in_issue \subseteq Channel /\ in_issue # {}
  BY DEF BridgeInv, TypeOK, Busy
<1>0. /\ Willing["AR"] = ("AR" \in in_issue)
      /\ Willing["R"] = ("R" \in in_issue /\ rd # <<>>)
      /\ Willing["AW"] = ("AW" \in in_issue)
      /\ Willing["W"] = ("W" \in in_issue)
      /\ Willing["B"] = ("B" \in in_issue /\ stored)
      /\ Willing.store = (aw # <<>> /\ WholeBurst /\ ~stored)
  BY DEF Willing
<1>2. Willing \in Signals /\ Offered(Willing)
  <2>1. Willing \in Signals
    BY DEF Willing, Signals
  <2>2. \A c \in Channel : Willing[c] => c \in in_issue
    BY <1>0 DEF Channel
  <2> QED BY <1>0, <2>1, <2>2 DEF Offered
<1>3. CASE {"AR", "AW", "W"} \cap in_issue # {}
  <2>1. Handshake(Willing) # {}
    BY <1>0, <1>3 DEF Handshake
  <2> QED BY <1>2, <2>1
<1>4. CASE in_issue = {"R"}
  <2>1. rd # <<>>
    BY <1>4 DEF BridgeInv, ReadInv
  <2>2. Handshake(Willing) # {}
    BY <1>0, <1>4, <2>1 DEF Handshake
  <2> QED BY <1>2, <2>2
<1>5. CASE in_issue = {"B"}
  <2>1. CASE stored
    <3>1. Handshake(Willing) # {}
      BY <1>0, <1>5, <2>1 DEF Handshake
    <3> QED BY <1>2, <3>1
  <2>2. CASE ~stored
    <3>1. aw # <<>> /\ wbuf \in Seq(Beat) /\ Len(wbuf) = saved_req.len + 1
      <4>1. /\ wbuf \in Seq(Beat) /\ aw = IF "AW" \in in_issue THEN <<>> ELSE <<saved_req>>
            /\ Len(wbuf) = saved_req.len + (IF "W" \in in_issue THEN -count ELSE 1)
        BY <1>5 DEF BridgeInv, WriteInv
      <4> QED BY <1>5, <4>1
    <3>2. saved_req.len \in Nat
      BY DEF BridgeInv, TypeOK, SavedReq
    <3>3. WholeBurst
      BY <3>1, <3>2 DEF WholeBurst, BridgeInv, LastBeatIsLast
    <3>4. Willing.store
      BY <2>2, <3>1, <3>3 DEF Willing
    <3> QED BY <1>2, <3>4
  <2> QED BY <2>1, <2>2
<1>6. \/ {"AR", "AW", "W"} \cap in_issue # {}
      \/ in_issue = {"R"} \/ in_issue = {"B"}
  <2>1. "R" \in in_issue => in_issue \subseteq {"AR", "R"}
    BY DEF BridgeInv, ReadInv
  <2> QED BY <1>1, <2>1 DEF Channel
<1> QED BY <1>3, <1>4, <1>5, <1>6

\* The half of AlwaysAnswered that holds step by step: from its first edge on a
\* request has at most MaxLen + 8 handshakes to wait for, its own and those the
\* write before it still owes, and each edge takes some of them off or changes
\* nothing but the answer last given (CBusToAXI.sv:61-164).
THEOREM AnswerComesNearer ==
  Spec => NearerToAnswer /\ [](ToAnswer \in 0 .. MaxLen + 8)
<1>1. BridgeInv => ToAnswer \in 0 .. MaxLen + 8
  BY DueRange DEF ToAnswer, MaxLen
<1>2. BridgeInv /\ BridgeInv' /\ [Next]_vars =>
        [creq.valid => \/ taken'.last \/ ~creq'.valid
                       \/ ToAnswer' < ToAnswer
                       \/ UNCHANGED <<creq, bridgeVars, slaveVars>> ]_vars
  BY NearerStep
<1> QED BY <1>1, <1>2, BridgeInvariant, PTL DEF Spec, NearerToAnswer

\* The other half: as long as the bridge owes a handshake, one can be had, whatever
\* order the slave took the channels in; a burst whose last beat were not marked
\* would never be stored (CBusToAXI.sv:61-164).
THEOREM BridgeNeverStuck == Spec => []SlaveCanGo
  BY WillingGoes, BridgeInvariant, PTL
=============================================================================
