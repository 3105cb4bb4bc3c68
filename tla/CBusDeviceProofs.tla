-------------------------- MODULE CBusDeviceProofs --------------------------
(***************************************************************************)
(* Proofs about the simulated memory, for every width, memory and set of   *)
(* bursts: its assertions hold, and to its master it is the atomic memory  *)
(* of CBusMemory.  What they rest on is the arithmetic of bursts: stepped  *)
(* from beat to beat and wrapped at the end of its window, the address is  *)
(* at every beat the one BeatAddress says.  Each enabled cycle brings a    *)
(* request nearer to its answer.                                           *)
(***************************************************************************)
EXTENDS CBusDevice, TLAPS

-----------------------------------------------------------------------------
(* The addresses of a burst                                                *)

LEMMA SizeIsPositive == \A s \in MSize : 2 ^ s \in Nat \ {0}
<1>1. 2 ^ 0 = 1 /\ 2 ^ 1 = 2 /\ 2 ^ 2 = 4 /\ 2 ^ 3 = 8
  OBVIOUS
<1>2. ASSUME NEW s \in MSize PROVE s = 0 \/ s = 1 \/ s = 2 \/ s = 3
  BY DEF MSize
<1>3. ASSUME NEW s \in MSize PROVE 2 ^ s \in {1, 2, 4, 8}
  BY <1>1, <1>2, Zenon
<1> QED
  BY <1>3

\* The next slot of a window of m.
LEMMA NextSlot ==
  ASSUME NEW k \in Nat, NEW m \in Nat \ {0}
  PROVE  /\ k % m \in 0 .. m - 1
         /\ (k + 1) % m = IF (k % m) + 1 = m THEN 0 ELSE (k % m) + 1
<1> DEFINE q == k \div m
           r == k % m
<1>1. q \in Nat /\ r \in 0 .. m - 1 /\ k = q * m + r
  OBVIOUS
<1> HIDE DEF q, r
<1>2. CASE r + 1 = m
  <2>1. k + 1 = (q + 1) * m
    BY <1>1, <1>2
  <2>2. (k + 1) % m = 0
    BY <2>1, <1>1
  <2> QED
    BY <1>1, <1>2, <2>2 DEF r
<1>3. CASE r + 1 # m
  <2>1. k + 1 = q * m + (r + 1) /\ r + 1 \in 0 .. m - 1
    BY <1>1, <1>3
  <2>2. (k + 1) % m = r + 1
    BY <2>1, <1>1
  <2> QED
    BY <1>1, <1>3, <2>2 DEF r
<1> QED
  BY <1>2, <1>3

\* A quotient and a remainder are those of the division.
LEMMA Division ==
  ASSUME NEW q \in Nat, NEW d \in Nat \ {0}, NEW r \in 0 .. d - 1
  PROVE  (q * d + r) \div d = q
OBVIOUS

LEMMA Monotone ==
  ASSUME NEW i \in Nat, NEW j \in Nat, NEW k \in Nat, i >= j
  PROVE  i * k >= j * k
<1>1. i - j \in Nat
  OBVIOUS
<1>2. (i - j) * k \in Nat
  BY <1>1
<1> QED
  BY <1>2

\* A window of m slots of b bytes, and the address a in it.
Lower(a, w) == (a \div w) * w

LEMMA Window ==
  ASSUME NEW a \in Nat, NEW b \in Nat \ {0}, NEW m \in Nat \ {0}
  PROVE  /\ Lower(a, b * m) \in Nat
         /\ (a - Lower(a, b * m)) \div b \in 0 .. m - 1
         /\ (a \div b) * b = Lower(a, b * m) + b * ((a - Lower(a, b * m)) \div b)
<1> DEFINE lower == (a \div (b * m)) * (b * m)
<1> DEFINE w == b * m
           q == a \div w
           r == a % w
<1>1. w \in Nat \ {0} /\ lower = q * w /\ lower = Lower(a, b * m)
  BY DEF Lower
<1> HIDE DEF w, lower
<1>2. q \in Nat /\ r \in 0 .. w - 1 /\ a = q * w + r /\ lower = q * w
  BY <1>1
<1>3. a - lower = r /\ lower \in Nat
  BY <1>1, <1>2
<1> DEFINE s == r \div b
           t == r % b
<1>4. s \in Nat /\ t \in 0 .. b - 1 /\ r = s * b + t
  BY <1>2
<1>5. s < m
  <2> SUFFICES ASSUME s >= m PROVE FALSE
    BY <1>4
  <2>1. s * b >= m * b
    BY <1>4, Monotone
  <2> QED
    <3>1. w = m * b
      BY DEF w
    <3> HIDE DEF q, r, s, t
    <3> QED
      BY <1>2, <1>4, <2>1, <3>1
<1>6. a \div b = q * m + s
  <2> HIDE DEF q, r, s, t, w
  <2>1. q * w = (q * m) * b
    BY <1>2 DEF w
  <2>3. (q * m) * b + s * b = (q * m + s) * b
    BY <1>2, <1>4
  <2>4. a = (q * m + s) * b + t
    BY <1>2, <1>4, <2>1, <2>3
  <2>2. q * m + s \in Nat
    <3>1. q \in Nat /\ m \in Nat /\ s \in Nat
      BY <1>2, <1>4
    <3>2. q * m \in Nat
      BY <3>1
    <3> QED
      BY <3>1, <3>2
  <2> QED
    BY <1>4, <2>4, <2>2, Division
<1>7. (q * m + s) * b = lower + b * s
  <2> HIDE DEF q, r, s, t, w
  <2>1. q * w = (q * m) * b
    BY <1>2 DEF w
  <2>2. (q * m + s) * b = (q * m) * b + b * s
    BY <1>2, <1>4
  <2> QED
    BY <1>2, <2>1, <2>2
<1>8. (a - lower) \div b = s
  BY <1>3
<1> HIDE DEF q, r, s, t
<1>9. s \in 0 .. m - 1 /\ (a \div b) * b = lower + b * s
  BY <1>4, <1>5, <1>6, <1>7
<1> QED
  BY <1>1, <1>3, <1>8, <1>9

\* One step of the burst: from any beat but the last sync comes to the next.
LEMMA NextBeat ==
  ASSUME creq.addr \in Nat, creq.len \in Nat, creq.size \in MSize,
         NEW n \in 0 .. creq.len, n # creq.len
  PROVE  SyncTx(TxAt(n)) = TxAt(n + 1)
<1> DEFINE b == 2 ^ creq.size
           m == creq.len + 1
           lower == Lower(creq.addr, b * m)
           slot == (creq.addr - lower) \div b
           here == IF n # 0 THEN BeatAddress(creq.addr, creq.size, creq.len, n)
                            ELSE (creq.addr \div b) * b
           next == b + here
           at(k) == lower + b * ((slot + k) % m)
<1>1. b \in Nat \ {0} /\ m \in Nat \ {0} /\ n \in Nat
  BY SizeIsPositive
<1> HIDE DEF b
<1> HIDE DEF m
<1>2. /\ lower \in Nat /\ slot \in 0 .. m - 1
      /\ (creq.addr \div b) * b = lower + b * slot
  BY <1>1, Window
<1> HIDE DEF lower, slot
<1>3. \A k \in Nat : BeatAddress(creq.addr, creq.size, creq.len, k) =
                       IF k = 0 THEN creq.addr ELSE at(k)
  BY DEF BeatAddress, b, m, lower, slot, Lower
<1>4. slot % m = slot
  BY <1>1, <1>2
<1>5. here = at(n)
  <2>1. CASE n = 0
    <3>1. slot + n = slot
      BY <1>2, <2>1
    <3> QED
      BY <1>2, <1>4, <2>1, <3>1
  <2>2. CASE n # 0
    BY <1>1, <1>3, <2>2
  <2> QED
    BY <2>1, <2>2
<1>6. /\ (slot + n) % m \in 0 .. m - 1
      /\ (slot + (n + 1)) % m =
           IF ((slot + n) % m) + 1 = m THEN 0 ELSE ((slot + n) % m) + 1
  <2>1. slot + n \in Nat /\ slot + (n + 1) = (slot + n) + 1
    BY <1>1, <1>2
  <2> DEFINE k == slot + n
  <2>2. k \in Nat /\ m \in Nat \ {0}
    BY <1>1, <2>1
  <2> HIDE DEF k
  <2>3. /\ k % m \in 0 .. m - 1
        /\ (k + 1) % m = IF (k % m) + 1 = m THEN 0 ELSE (k % m) + 1
    BY <2>2, NextSlot
  <2> QED
    BY <2>1, <2>3 DEF k
<1>7. (IF next >= lower + b * m THEN lower ELSE next) = at(n + 1)
  <2> DEFINE j == (slot + n) % m
  <2>1. next = lower + b * (j + 1)
    BY <1>1, <1>2, <1>5, <1>6
  <2>2. CASE j + 1 = m
    BY <1>1, <1>2, <1>6, <2>1, <2>2
  <2>3. CASE j + 1 # m
    <3>1. j + 1 < m
      BY <1>1, <1>6, <2>3
    <3>2. b * (j + 1) < b * m
      BY <1>1, <1>6, <3>1
    <3> QED
      BY <1>1, <1>2, <1>6, <2>1, <2>3, <3>2
  <2> QED
    BY <2>2, <2>3
<1> HIDE DEF at, here, next
<1>8. /\ TxAt(n).Number_Bytes = b /\ TxAt(n).N = n + 1 /\ (TxAt(n).aligned <=> n # 0)
      /\ TxAt(n).Aligned_Address = (creq.addr \div b) * b
      /\ TxAt(n).addr = BeatAddress(creq.addr, creq.size, creq.len, n)
      /\ TxAt(n).Lower_Wrap_Boundry = lower
      /\ TxAt(n).Upper_Wrap_Boundry = lower + b * m
  BY DEF TxAt, InitTx, b, m, lower, Lower
<1>9. SyncTx(TxAt(n)) = [TxAt(n) EXCEPT !.N = n + 2, !.aligned = TRUE, !.addr = at(n + 1)]
  <2>1. next = TxAt(n).Number_Bytes +
                 IF TxAt(n).aligned THEN TxAt(n).addr ELSE TxAt(n).Aligned_Address
    BY <1>8 DEF next, here
  <2>2. TxAt(n).N + 1 = n + 2
    BY <1>1, <1>8
  <2> HIDE DEF next
  <2> QED
    BY <1>7, <1>8, <2>1, <2>2 DEF SyncTx
<1>10. BeatAddress(creq.addr, creq.size, creq.len, n + 1) = at(n + 1)
  BY <1>1, <1>3
<1>11. n + 1 # 0 /\ (n + 1) + 1 = n + 2
  BY <1>1
<1>12. (n + 1 # 0) = TRUE
  BY <1>11
<1> DEFINE first == InitTx(creq.is_write, creq.addr, creq.size, creq.len)
<1>13. TxAt(n + 1) = [first EXCEPT !.N = n + 2, !.aligned = TRUE, !.addr = at(n + 1)]
  BY <1>10, <1>11, <1>12 DEF TxAt
<1>14. TxAt(n) = [first EXCEPT !.N = n + 1, !.aligned = n # 0, 
                               !.addr = BeatAddress(creq.addr, creq.size, creq.len, n)]
  BY DEF TxAt
<1>15. {"N", "aligned", "addr"} \subseteq DOMAIN first
  BY DEF InitTx
<1> HIDE DEF first
<1> QED
  BY <1>9, <1>13, <1>14, <1>15

-----------------------------------------------------------------------------
(* The inductive invariant                                                 *)

\* The request on the bus has the types of its ports, and no beat of it leaves
\* the memory.
RequestInv ==
  /\ creq \in CReq
  /\ creq.valid =>
       /\ creq.size \in MSize
       /\ \A n \in 0 .. creq.len :
            WordAt(BeatAddress(creq.addr, creq.size, creq.len, n)) \in Line

DeviceInv == RequestInv /\ TxInv

\* What the master may begin with satisfies it.
LEMMA OfferInv ==
  ASSUME creq' \in Offers
  PROVE  RequestInv'
<1>1. ZeroWord \in Word
  BY BusAssumption DEF ZeroWord, Word
<1>2. CASE creq' = NoReq
  BY <1>1, <1>2 DEF NoReq, RequestInv, CReq
<1>3. ASSUME NEW r \in Requests, NEW p, p.strobe \in SUBSET Lane, p.data \in Word,
             creq' = Driven(r, p)
      PROVE  RequestInv'
  <2>1. r \in Request
    BY BusAssumption
  <2>2. /\ r.is_write \in BOOLEAN /\ r.size \in MSize /\ r.size \in Nat
        /\ r.addr \in Nat /\ r.len \in Nat
    BY <2>1, BusAssumption DEF Request, MaxLen, MSize
  <2>3. creq' \in CReq
    BY <1>3, <2>2 DEF Driven, CReq
  <2>4. creq'.size = r.size /\ creq'.addr = r.addr /\ creq'.len = r.len
    BY <1>3 DEF Driven
  <2>5. \A n \in 0 .. r.len : WordAt(BeatAddress(r.addr, r.size, r.len, n)) \in Line
    BY BurstAssumption
  <2> QED
    BY <2>2, <2>3, <2>4, <2>5 DEF RequestInv
<1>4. \A p \in Payloads : p.strobe \in SUBSET Lane /\ p.data \in Word
  BY BusAssumption DEF Payload
<1>5. NoPayload.strobe \in SUBSET Lane /\ NoPayload.data \in Word
  BY <1>1 DEF NoPayload
<1>6. \/ creq' = NoReq
      \/ \E r \in Requests : creq' = Driven(r, NoPayload)
      \/ \E r \in Requests, p \in Payloads : creq' = Driven(r, p)
  BY DEF Offers
<1> QED
  BY <1>2, <1>3, <1>4, <1>5, <1>6

\* A request that has beats left stays, but for what a write offers next; one
\* that is not answered stays as it is.
LEMMA MasterHolds ==
  ASSUME RequestInv, NEW resp, MasterStep(resp), creq.valid, ~resp.last
  PROVE  /\ creq'.valid /\ creq'.is_write = creq.is_write /\ creq'.size = creq.size
         /\ creq'.addr = creq.addr /\ creq'.len = creq.len
         /\ RequestInv'
<1>1. ASSUME NEW p \in Payloads, creq' = [creq EXCEPT !.strobe = p.strobe, !.data = p.data]
      PROVE  /\ creq' \in CReq
             /\ creq'.valid = creq.valid /\ creq'.is_write = creq.is_write
             /\ creq'.size = creq.size /\ creq'.addr = creq.addr /\ creq'.len = creq.len
  <2>1. p.strobe \in SUBSET Lane /\ p.data \in Word
    BY BusAssumption DEF Payload
  <2> QED
    BY <1>1, <2>1 DEF RequestInv, CReq
<1>2. \/ creq' = creq
      \/ \E p \in Payloads : creq' = [creq EXCEPT !.strobe = p.strobe, !.data = p.data]
  BY DEF MasterStep
<1> QED
  BY <1>1, <1>2 DEF RequestInv

LEMMA TxAtFacts ==
  ASSUME RequestInv, NEW n \in 0 .. creq.len, tx = TxAt(n)
  PROVE  /\ tx.busy /\ tx.is_write = creq.is_write /\ tx.N = n + 1
         /\ tx.Start_Address = creq.addr /\ tx.Number_Bytes = 2 ^ creq.size
         /\ tx.Burst_Length = creq.len + 1
         /\ tx.addr = BeatAddress(creq.addr, creq.size, creq.len, n)
         /\ LastTx(tx) <=> n = creq.len
<1>1. creq.len \in Nat
  BY DEF RequestInv, CReq
<1>2. /\ tx.busy /\ tx.is_write = creq.is_write /\ tx.N = n + 1
      /\ tx.Start_Address = creq.addr /\ tx.Number_Bytes = 2 ^ creq.size
      /\ tx.Burst_Length = creq.len + 1
      /\ tx.addr = BeatAddress(creq.addr, creq.size, creq.len, n)
  BY DEF TxAt, InitTx
<1> QED
  BY <1>1, <1>2 DEF LastTx

LEMMA InitInv == Init => DeviceInv
<1>1. NoReq \in Offers
  BY DEF Offers
<1>2. ZeroWord \in Word
  BY BusAssumption DEF ZeroWord, Word
<1> QED
  BY <1>2 DEF Init, MasterInit, NoReq, DeviceInv, RequestInv, CReq, TxInv, ResetTx

\* The same transaction, seen from the request after the edge.
LEMMA SameTx ==
  ASSUME creq'.is_write = creq.is_write, creq'.size = creq.size,
         creq'.addr = creq.addr, creq'.len = creq.len, NEW n
  PROVE  TxAt(n)' = TxAt(n)
BY DEF TxAt, InitTx, BeatAddress

\* What eval_req does with a transaction under way.
LEMMA ReqSteps ==
  ASSUME Active
  PROVE  /\ LastTx(tx) => EvalReq = ResetTx
         /\ ~LastTx(tx) => EvalReq = SyncTx(tx)
<1>1. LastTx(tx) => EvalReq = ResetTx
  BY DEF EvalReq, Active, LastTx
<1>2. ~LastTx(tx) => EvalReq = SyncTx(tx)
  BY DEF EvalReq, Active, LastTx
<1> QED
  BY <1>1, <1>2

\* A transaction of n beats on, when the request is the same after the edge.
LEMMA StillAt ==
  ASSUME creq'.valid, creq'.is_write = creq.is_write, creq'.size = creq.size,
         creq'.addr = creq.addr, creq'.len = creq.len, RequestInv',
         NEW n \in 0 .. creq.len, tx' = TxAt(n)
  PROVE  DeviceInv'
<1>1. tx' = TxAt(n)' /\ n \in 0 .. creq'.len
  BY SameTx
<1>2. tx'.busy
  BY DEF TxAt, InitTx
<1>3. \E k \in 0 .. creq'.len : tx' = TxAt(k)'
  BY <1>1
<1>4. TxInv'
  BY <1>2, <1>3 DEF TxInv
<1> QED
  BY <1>4 DEF DeviceInv

LEMMA CycleInv ==
  ASSUME DeviceInv, Cycle
  PROVE  DeviceInv'
<1>1. MasterStep(EvalResp) /\ tx' = EvalReq
  BY DEF Cycle, Sync
<1>2. creq.len \in Nat /\ creq.addr \in Nat /\ creq.valid \in BOOLEAN
  BY DEF DeviceInv, RequestInv, CReq
<1>3. CASE Active
  <2>1. PICK n \in 0 .. creq.len : tx = TxAt(n)
    BY <1>3 DEF DeviceInv, TxInv, Active
  <2>2. creq.valid /\ (LastTx(tx) <=> n = creq.len)
    BY <1>3, <2>1, TxAtFacts DEF DeviceInv, TxInv, Active
  <2>3. EvalResp.last = LastTx(tx)
    BY <1>3 DEF EvalResp
  <2>4. CASE n = creq.len
    <3>1. tx' = ResetTx
      BY <1>1, <1>3, <2>2, <2>4, ReqSteps
    <3>2. creq' \in Offers
      BY <1>1, <2>2, <2>3, <2>4 DEF MasterStep
    <3> QED
      BY <3>1, <3>2, OfferInv DEF DeviceInv, TxInv, ResetTx
  <2>5. CASE n # creq.len
    <3>1. creq.size \in MSize
      BY <2>2 DEF DeviceInv, RequestInv
    <3>2. SyncTx(TxAt(n)) = TxAt(n + 1)
      BY <1>2, <2>5, <3>1, NextBeat
    <3>3. tx' = TxAt(n + 1)
      BY <1>1, <1>3, <2>1, <2>2, <2>5, <3>2, ReqSteps
    <3>4. /\ creq'.valid /\ creq'.is_write = creq.is_write /\ creq'.size = creq.size
          /\ creq'.addr = creq.addr /\ creq'.len = creq.len /\ RequestInv'
      BY <1>1, <2>2, <2>3, <2>5, MasterHolds DEF DeviceInv
    <3>5. n + 1 \in 0 .. creq.len
      BY <1>2, <2>5
    <3> QED
      BY <3>3, <3>4, <3>5, StillAt
  <2> QED
    BY <2>4, <2>5
<1>4. CASE ~Active
  <2>1. MasterStep(NoResp) /\ ~NoResp.last
    BY <1>1, <1>4 DEF EvalResp, NoResp
  <2>2. CASE creq.valid
    <3>1. /\ creq'.valid /\ creq'.is_write = creq.is_write /\ creq'.size = creq.size
          /\ creq'.addr = creq.addr /\ creq'.len = creq.len /\ RequestInv'
      BY <2>1, <2>2, MasterHolds DEF DeviceInv
    <3>2. tx' \in {tx, TxAt(0)}
      <4>1. BeatAddress(creq.addr, creq.size, creq.len, 0) = creq.addr
        BY DEF BeatAddress
      <4>2. InitTx(creq.is_write, creq.addr, creq.size, creq.len) = TxAt(0)
        <5> DEFINE first == InitTx(creq.is_write, creq.addr, creq.size, creq.len)
        <5>1. first.N = 0 + 1 /\ first.aligned = FALSE /\ first.addr = creq.addr
          BY DEF InitTx
        <5>3. (0 # 0) = FALSE
          OBVIOUS
        <5>2. [first EXCEPT !.N = first.N, !.aligned = first.aligned,
                            !.addr = first.addr] = first
          BY DEF InitTx
        <5> QED
          BY <4>1, <5>1, <5>2, <5>3 DEF TxAt
      <4> QED
        BY <1>1, <1>4, <4>2 DEF EvalReq
    <3>3. tx' = TxAt(0) => DeviceInv'
      BY <1>2, <3>1, StillAt
    <3>4. ASSUME tx' = tx PROVE DeviceInv'
      <4>1. CASE tx.busy
        <5>1. PICK n \in 0 .. creq.len : tx = TxAt(n)
          BY <4>1 DEF DeviceInv, TxInv
        <5> QED
          BY <3>1, <3>4, <5>1, StillAt
      <4>2. CASE ~tx.busy
        BY <3>1, <3>4, <4>2 DEF DeviceInv, TxInv, ResetTx
      <4> QED
        BY <4>1, <4>2
    <3> QED
      BY <3>2, <3>3, <3>4
  <2>3. CASE ~creq.valid
    <3>1. tx = ResetTx /\ tx' = ResetTx
      BY <1>1, <1>4, <2>3 DEF DeviceInv, TxInv, EvalReq
    <3>2. creq' \in Offers
      BY <2>1, <2>3 DEF MasterStep
    <3> QED
      BY <3>1, <3>2, OfferInv DEF DeviceInv, TxInv, ResetTx
  <2> QED
    BY <2>2, <2>3
<1> QED
  BY <1>3, <1>4

LEMMA ResetInv ==
  ASSUME DeviceInv, Reset
  PROVE  DeviceInv'
<1>1. creq' \in Offers /\ tx' = ResetTx
  BY DEF Reset, MasterReset, Offers
<1> QED
  BY <1>1, OfferInv DEF DeviceInv, TxInv, ResetTx

LEMMA NextInv ==
  ASSUME DeviceInv, [Next]_vars
  PROVE  DeviceInv'
<1>1. CASE UNCHANGED vars
  <2>1. creq' = creq /\ tx' = tx
    BY <1>1 DEF vars
  <2>2. RequestInv'
    BY <2>1 DEF DeviceInv, RequestInv
  <2>3. CASE tx.busy
    <3>1. PICK n \in 0 .. creq.len : tx = TxAt(n)
      BY <2>3 DEF DeviceInv, TxInv
    <3> QED
      BY <2>1, <2>2, <2>3, <3>1, StillAt DEF DeviceInv, TxInv
  <2>4. CASE ~tx.busy
    BY <2>1, <2>2, <2>4 DEF DeviceInv, TxInv, ResetTx
  <2> QED
    BY <2>3, <2>4
<1> QED
  BY <1>1, CycleInv, ResetInv DEF Next

LEMMA DeviceInvariant == Spec => []DeviceInv
BY InitInv, NextInv, PTL DEF Spec

-----------------------------------------------------------------------------
(* The assertions                                                          *)

LEMMA ActiveAt ==
  ASSUME DeviceInv, Active
  PROVE  creq.valid /\ \E n \in 0 .. creq.len : tx = TxAt(n)
BY DEF DeviceInv, TxInv, Active

LEMMA InvIsSane == ASSUME DeviceInv PROVE SanityChecks
<1> SUFFICES ASSUME Active PROVE SanityChecks
  BY DEF SanityChecks
<1>1. creq.valid
  BY ActiveAt
<1>2. PICK n \in 0 .. creq.len : tx = TxAt(n)
  BY ActiveAt
<1>3. /\ tx.is_write = creq.is_write /\ tx.Start_Address = creq.addr
      /\ tx.Number_Bytes = 2 ^ creq.size /\ tx.Burst_Length = creq.len + 1
      /\ tx.addr = BeatAddress(creq.addr, creq.size, creq.len, n)
  BY <1>2, TxAtFacts DEF DeviceInv
<1>4. WordAt(tx.addr) \in Line
  BY <1>1, <1>3 DEF DeviceInv, RequestInv
<1> QED
  BY <1>1, <1>3, <1>4 DEF SanityChecks

\* The assertions of eval_req and of the memory hold for every memory, every
\* burst that stays in it and any pauses and resets: the request the device
\* sees in the middle of a transaction is the one it was started with, and it
\* never computes an address outside.
THEOREM AssertionsHold == Spec => []SanityChecks
<1>1. Spec => []DeviceInv
  BY DeviceInvariant
<1>2. DeviceInv => SanityChecks
  BY InvIsSane
<1> QED
  BY <1>1, <1>2, PTL

-----------------------------------------------------------------------------
(* The device is the memory a cache bus promises                           *)

\* The master of the abstract memory is that of the device.
LEMMA SameMaster ==
  /\ \A resp : MasterStep(resp) <=> CBus!MasterStep(resp)
  /\ NoResp = CBus!NoResp
  /\ MasterInit <=> CBus!MasterInit
  /\ MasterReset <=> CBus!MasterReset
<1>1. /\ ZeroWord = CBus!ZeroWord
  BY DEF ZeroWord, CBus!ZeroWord, Lane, CBus!Lane
<1>2. NoResp = CBus!NoResp /\ NoReq = CBus!NoReq /\ NoPayload = CBus!NoPayload
  BY <1>1 DEF NoResp, CBus!NoResp, NoReq, CBus!NoReq, NoPayload, CBus!NoPayload
<1>3. \A r, p : Driven(r, p) = CBus!Driven(r, p)
  BY DEF Driven, CBus!Driven
<1>4. Offers = CBus!Offers
  BY <1>2, <1>3 DEF Offers, CBus!Offers
<1>5. ASSUME NEW resp PROVE MasterStep(resp) <=> CBus!MasterStep(resp)
  BY <1>4 DEF MasterStep, CBus!MasterStep
<1> QED
  BY <1>2, <1>5 DEF MasterInit, CBus!MasterInit, MasterReset, CBus!MasterReset

\* The beats of the transaction that are answered.
Answered == IF tx.busy THEN tx.N - 1 ELSE 0

LEMMA RefineInit == Init => CBus!Init
<1> SUFFICES ASSUME Init PROVE CBus!Init
  OBVIOUS
<1>1. CBus!MasterInit
  BY SameMaster DEF Init
<1>2. ~tx.busy
  BY DEF Init, ResetTx
<1> QED
  BY <1>1, <1>2 DEF Init, CBus!Init

\* A cycle without an answer.
LEMMA RefineIdle ==
  ASSUME DeviceInv, Cycle, ~Active
  PROVE  CBus!Wait
<1>1. CBus!MasterStep(CBus!NoResp)
  <2>1. MasterStep(NoResp)
    BY DEF Cycle, EvalResp
  <2> QED
    BY <2>1, SameMaster
<1>2. dmem' = dmem /\ saved_mem' = saved_mem
  BY DEF Cycle, Sync
<1>3. Answered' = Answered
  <2>1. tx' = tx \/ (~tx.busy /\ tx'.busy /\ tx'.N = 1)
    BY DEF Cycle, Sync, EvalReq, InitTx, Active
  <2> QED
    BY <2>1 DEF Answered
<1> QED
  BY <1>1, <1>2, <1>3 DEF CBus!Wait, Answered

\* A cycle with one: a beat.
LEMMA RefineActive ==
  ASSUME DeviceInv, Cycle, Active
  PROVE  CBus!Serve
<1>1. PICK n \in 0 .. creq.len : tx = TxAt(n)
  BY ActiveAt
<1>2. creq.valid /\ creq.len \in Nat /\ creq.addr \in Nat /\ creq.size \in MSize
  BY ActiveAt DEF DeviceInv, RequestInv, CReq
<1>3. /\ tx.busy /\ tx.is_write = creq.is_write /\ tx.N = n + 1
      /\ tx.addr = BeatAddress(creq.addr, creq.size, creq.len, n)
      /\ LastTx(tx) <=> n = creq.len
  BY <1>1, TxAtFacts DEF DeviceInv
<1>4. Answered = n
  BY <1>2, <1>3 DEF Answered
<1>5. CBus!IsLast <=> n = creq.len
  BY <1>4 DEF CBus!IsLast, Answered
<1>6. CBus!Here = WordAt(tx.addr)
  BY <1>3, <1>4 DEF CBus!Here, Answered, WordAt, CBus!WordAt, BeatAddress, CBus!BeatAddress
<1>7. ZeroWord = CBus!ZeroWord
  BY DEF ZeroWord, CBus!ZeroWord, Lane, CBus!Lane
<1>8. \A w : Merge(w, creq) = CBus!Merge(w, creq)
  BY DEF Merge, CBus!Merge, Lane, CBus!Lane
<1>9. CBus!MasterStep([ready |-> TRUE, last |-> CBus!IsLast,
                       data |-> IF creq.is_write THEN CBus!ZeroWord ELSE dmem[CBus!Here]])
  <2>1. EvalResp = [ready |-> TRUE, last |-> CBus!IsLast,
                    data |-> IF creq.is_write THEN CBus!ZeroWord ELSE dmem[CBus!Here]]
    <3>1. LastTx(tx) = CBus!IsLast
      <4>1. CASE n = creq.len
        <5>1. LastTx(tx) = TRUE /\ CBus!IsLast = TRUE
          BY <1>3, <1>5, <4>1 DEF LastTx, CBus!IsLast
        <5> QED
          BY <5>1
      <4>2. CASE n # creq.len
        <5>1. LastTx(tx) = FALSE /\ CBus!IsLast = FALSE
          BY <1>3, <1>5, <4>2 DEF LastTx, CBus!IsLast
        <5> QED
          BY <5>1
      <4> QED
        BY <4>1, <4>2
    <3> QED
      BY <1>3, <1>6, <1>7, <3>1 DEF EvalResp
  <2>2. MasterStep(EvalResp)
    BY DEF Cycle
  <2> QED
    BY <2>1, <2>2, SameMaster
<1>10. /\ saved_mem' = saved_mem
       /\ dmem' = IF creq.is_write
                   THEN [dmem EXCEPT ![CBus!Here] = CBus!Merge(@, creq)] ELSE dmem
  BY <1>3, <1>6, <1>8 DEF Cycle, Sync
<1>11. tx' = EvalReq
  BY DEF Cycle, Sync
<1>12. Answered' = IF CBus!IsLast THEN 0 ELSE Answered + 1
  <2>1. CASE n = creq.len
    <3>1. tx' = ResetTx
      BY <1>3, <1>11, <2>1, ReqSteps
    <3> QED
      BY <1>5, <2>1, <3>1 DEF Answered, ResetTx
  <2>2. CASE n # creq.len
    <3>1. tx' = SyncTx(tx)
      BY <1>3, <1>11, <2>2, ReqSteps
    <3>2. tx' = TxAt(n + 1)
      BY <1>1, <1>2, <2>2, <3>1, NextBeat
    <3>3. tx'.busy /\ tx'.N = (n + 1) + 1
      BY <3>2 DEF TxAt, InitTx
    <3> QED
      BY <1>2, <1>4, <1>5, <2>2, <3>3 DEF Answered
  <2> QED
    BY <2>1, <2>2
<1> QED
  BY <1>2, <1>9, <1>10, <1>12 DEF CBus!Serve, Answered

LEMMA RefineNext ==
  ASSUME DeviceInv, [Next]_vars
  PROVE  [CBus!Next]_CBus!vars
<1>1. ASSUME Reset PROVE CBus!Reset
  <2>1. tx' = ResetTx /\ dmem' = saved_mem /\ saved_mem' = saved_mem /\ MasterReset
    BY <1>1 DEF Reset
  <2>2. CBus!MasterReset
    BY <2>1, SameMaster
  <2>3. ~tx'.busy
    BY <2>1 DEF ResetTx
  <2> QED
    BY <2>1, <2>2, <2>3 DEF CBus!Reset
<1>2. ASSUME Cycle PROVE CBus!Wait \/ CBus!Serve
  BY <1>2, RefineIdle, RefineActive
<1>3. ASSUME UNCHANGED vars PROVE UNCHANGED CBus!vars
  BY <1>3 DEF vars, CBus!vars
<1> QED
  BY <1>1, <1>2, <1>3 DEF Next, CBus!Next

\* What the comment on the class claims, for every memory and every master: the
\* device, which counts beats and steps an address through an alignment and a
\* wrap boundary, is one memory answering a wrapping burst beat by beat, and
\* its pauses are only waits.  The bridge and the slave behind it are the same
\* memory (CBusToAXIProofs).
THEOREM DeviceIsMemory == Spec => ImplementsCBus
<1>1. Spec => []DeviceInv
  BY DeviceInvariant
<1>2. Init => CBus!Init
  BY RefineInit
<1>3. DeviceInv /\ [Next]_vars => [CBus!Next]_CBus!vars
  BY RefineNext
<1> QED
  BY <1>1, <1>2, <1>3, PTL DEF Spec, ImplementsCBus, CBus!Spec

-----------------------------------------------------------------------------
(* Every request comes nearer to its answer.                               *)

\* The cycles the device takes part in before the last beat of the request driven
\* is answered: one to see it, and one for each beat.
CyclesToAnswer ==
  IF ~creq.valid THEN 0
  ELSE IF tx.busy THEN tx.Burst_Length - tx.N + 1 ELSE creq.len + 2

\* Every cycle it takes part in answers or is one of those; a cycle it sits out
\* changes neither the request nor the transaction nor the memory.
NearerToAnswer ==
  [][creq.valid => \/ taken'.last \/ ~creq'.valid
                   \/ CyclesToAnswer' = CyclesToAnswer - 1
                   \/ ~enable /\ UNCHANGED <<creq, tx, dmem>> ]_vars

LenInv == creq.len \in 0 .. MaxLen

LEMMA LenInvInit == Init => LenInv
  BY DEF Init, MasterInit, NoReq, LenInv, MaxLen

LEMMA LenInvNext == DeviceInv /\ LenInv /\ [Next]_vars => LenInv'
<1> SUFFICES ASSUME DeviceInv, LenInv, [Next]_vars PROVE LenInv'
  OBVIOUS
<1>1. CASE creq' \in Offers
  <2>1. CASE creq' = NoReq
    BY <2>1 DEF NoReq, LenInv, MaxLen
  <2>2. ASSUME NEW r \in Requests, NEW p, creq' = Driven(r, p) PROVE LenInv'
    BY <2>2, BusAssumption DEF Request, Driven, LenInv
  <2> QED BY <1>1, <2>1, <2>2 DEF Offers
<1>2. CASE creq'.len = creq.len
  BY <1>2 DEF LenInv
<1>3. CASE Cycle
  <2>1. CASE ~creq.valid \/ EvalResp.last
    <3>1. creq' \in Offers \/ creq' = creq \/ creq'.len = creq.len
      BY <1>3, <2>1 DEF Cycle, MasterStep
    <3> QED BY <1>1, <1>2, <3>1
  <2>2. CASE creq.valid /\ ~EvalResp.last
    BY <1>2, <1>3, <2>2, MasterHolds DEF Cycle, DeviceInv
  <2> QED BY <2>1, <2>2
<1>4. CASE Reset
  BY <1>1, <1>4 DEF Reset, MasterReset, Offers
<1>5. CASE UNCHANGED vars
  BY <1>2, <1>5 DEF vars
<1> QED BY <1>3, <1>4, <1>5 DEF Next

\* What is to come of a transaction n beats on.
LEMMA CyclesAt ==
  ASSUME DeviceInv, creq.valid, NEW n \in 0 .. creq.len, tx = TxAt(n)
  PROVE  /\ CyclesToAnswer = creq.len - n + 1 /\ creq.len \in Nat
         /\ LastTx(tx) <=> n = creq.len
<1>1. /\ tx.busy /\ tx.N = n + 1 /\ tx.Burst_Length = creq.len + 1
      /\ LastTx(tx) <=> n = creq.len
  BY TxAtFacts DEF DeviceInv
<1>2. creq.len \in Nat
  BY DEF DeviceInv, RequestInv, CReq
<1> QED BY <1>1, <1>2 DEF CyclesToAnswer

LEMMA NearerStep ==
  ASSUME DeviceInv, Next, creq.valid
  PROVE  \/ taken'.last \/ ~creq'.valid
         \/ CyclesToAnswer' = CyclesToAnswer - 1
         \/ ~enable /\ UNCHANGED <<creq, tx, dmem>>
<1>1. CASE Reset
  BY <1>1 DEF Reset, MasterReset, NoReq
<1>2. CASE Cycle
  <2>1. MasterStep(EvalResp) /\ taken' = EvalResp /\ tx' = EvalReq
    BY <1>2 DEF Cycle, Sync, MasterStep
  <2>2. CASE Active
    <3>1. PICK n \in 0 .. creq.len : tx = TxAt(n)
      BY <2>2, ActiveAt
    <3>2. /\ CyclesToAnswer = creq.len - n + 1 /\ creq.len \in Nat
          /\ LastTx(tx) <=> n = creq.len
      BY <3>1, CyclesAt
    <3>3. EvalResp.last = LastTx(tx)
      BY <2>2 DEF EvalResp
    <3>4. CASE n # creq.len
      <4>1. creq.size \in MSize /\ creq.addr \in Nat
        BY DEF DeviceInv, RequestInv, CReq
      <4>2. tx' = TxAt(n + 1)
        BY <2>1, <2>2, <3>1, <3>2, <3>4, <4>1, ReqSteps, NextBeat
      <4>3. creq'.valid /\ creq'.len = creq.len
        BY <2>1, <3>2, <3>3, <3>4, MasterHolds DEF DeviceInv
      <4>4. tx'.busy /\ tx'.N = n + 2 /\ tx'.Burst_Length = creq.len + 1
        BY <3>2, <4>2 DEF TxAt, InitTx
      <4>5. CyclesToAnswer' = creq.len + 1 - (n + 2) + 1
        BY <3>2, <4>3, <4>4 DEF CyclesToAnswer
      <4> QED BY <3>2, <4>5
    <3> QED BY <2>1, <3>2, <3>3, <3>4
  <2>3. CASE ~Active
    <3>1. EvalResp = NoResp /\ ~NoResp.last /\ ~NoResp.ready
      BY <2>3 DEF EvalResp, NoResp
    <3>2. creq' = creq
      BY <2>1, <3>1 DEF MasterStep
    <3>3. dmem' = dmem
      BY <1>2, <2>3 DEF Cycle, Sync
    <3>4. CASE ~enable
      <4>1. tx' = tx
        BY <2>1, <2>3, <3>4 DEF EvalReq, Active
      <4> QED BY <3>2, <3>3, <3>4, <4>1
    <3>5. CASE enable
      <4>1. ~tx.busy
        BY <2>3, <3>5 DEF Active
      <4>2. tx' = InitTx(creq.is_write, creq.addr, creq.size, creq.len)
        BY <2>1, <2>3, <3>5, <4>1 DEF EvalReq, Active
      <4>3. tx'.busy /\ tx'.N = 1 /\ tx'.Burst_Length = creq.len + 1
        BY <4>2 DEF InitTx
      <4>4. creq.len \in Nat
        BY DEF DeviceInv, RequestInv, CReq
      <4>5. CyclesToAnswer = creq.len + 2
        BY <4>1 DEF CyclesToAnswer
      <4>6. CyclesToAnswer' = creq.len + 1
        BY <3>2, <4>3, <4>4 DEF CyclesToAnswer
      <4> QED BY <4>4, <4>5, <4>6
    <3> QED BY <3>4, <3>5
  <2> QED BY <2>2, <2>3
<1> QED BY <1>1, <1>2 DEF Next

\* The half of AlwaysAnswered that holds step by step: a request is answered in the
\* last of at most MaxLen + 2 cycles, not counting those the device sits out
\* (cbus_device.cpp:13-83, axi.h:31-69).
THEOREM AnswerComesNearer ==
  Spec => NearerToAnswer /\ [](CyclesToAnswer \in 0 .. MaxLen + 2)
<1>1. ASSUME DeviceInv, LenInv PROVE CyclesToAnswer \in 0 .. MaxLen + 2
  <2>1. CASE creq.valid /\ tx.busy
    <3>1. PICK n \in 0 .. creq.len : tx = TxAt(n)
      BY <1>1, <2>1 DEF DeviceInv, TxInv
    <3>2. CyclesToAnswer = creq.len - n + 1
      BY <1>1, <2>1, <3>1, CyclesAt
    <3>3. creq.len \in Nat /\ creq.len <= 255 /\ n \in Nat /\ n <= creq.len
      BY <1>1 DEF LenInv, MaxLen
    <3> QED BY ONLY <3>2, <3>3 DEF MaxLen
  <2>2. CASE ~creq.valid \/ ~tx.busy
    BY <1>1, <2>2 DEF LenInv, MaxLen, CyclesToAnswer
  <2> QED BY <2>1, <2>2
<1>2. DeviceInv /\ [Next]_vars =>
        [creq.valid => \/ taken'.last \/ ~creq'.valid
                       \/ CyclesToAnswer' = CyclesToAnswer - 1
                       \/ ~enable /\ UNCHANGED <<creq, tx, dmem>> ]_vars
  BY NearerStep
<1> QED
  BY <1>1, <1>2, LenInvInit, LenInvNext, DeviceInvariant, PTL DEF Spec, NearerToAnswer
=============================================================================
