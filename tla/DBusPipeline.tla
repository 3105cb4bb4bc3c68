---------------------------- MODULE DBusPipeline ----------------------------
(***************************************************************************)
(* DBusPipelineGen: accesses are queued, the first is on the bus until it  *)
(* is answered, and an answer is taken for the first in the queue.  The    *)
(* signals of a cycle are read before the clock edge that ends it, and the *)
(* next request is made right after.                                       *)
(***************************************************************************)
EXTENDS DBus

VARIABLE ongoing

pipelineVars == <<dbusVars, ongoing>>

\* A load that only expects its data.
ExpectTask(n, addr, w) ==
  LET op == Parse(n, addr) IN
  [addr |-> addr, size |-> n, strobe |-> {}, data |-> Place(op, w),
   dest |-> NullPtr, op |-> op]

\* load() with no destination discards its data.
DiscardTask(n, addr) == [LoadTask(n, addr, NullPtr) EXCEPT !.op = DISCARD]

Busy == req.valid

\* A faulty submit() that does not look whether the bus is busy.
SubmitAlways(t) == Issue(t)

Submitted(t) == IF Busy THEN req ELSE Issue(t)

Submit(t, c) ==
  /\ Free
  /\ ongoing' = Append(ongoing, t)
  /\ req' = Submitted(t)
  /\ call' = c
  /\ UNCHANGED <<mem, compared, refmem, failed>>

\* A faulty tick() that leaves the bus as it is while there is more to do.
NextRequestKept(q) == IF q = <<>> THEN Clear ELSE req

NextRequest(q) == IF q = <<>> THEN Clear ELSE Issue(Head(q))

\* apply_assert
AsExpected(t, data) == \A l \in StrobeOf(t.op) : t.data[l] = data[l]

\* The end of an access: what tick() does with an answer.
Answered(t) ==
  /\ dests' = IF t.dest \in Dest
              THEN [dests EXCEPT ![t.dest] = ApplyTo(t.op, Rdata, @)] ELSE dests
  /\ failed' = IF t.dest \notin Dest /\ IsLoad(t) /\ ~AsExpected(t, Rdata)
               THEN "unexpected data" ELSE failed

\* A faulty tick() that does not look at valid.
TakenAlways(ok) == ok

Taken(ok) == ok /\ Busy

\* An answer with nothing queued fails an assertion.
TakeAnswer ==
  IF ongoing = <<>>
  THEN failed' = "empty queue" /\ UNCHANGED <<ongoing, req, dests>>
  ELSE /\ Answered(Head(ongoing))
       /\ ongoing' = Tail(ongoing)
       /\ req' = NextRequest(Tail(ongoing))

NoAnswer == req' = NextRequest(ongoing) /\ UNCHANGED <<ongoing, dests, failed>>

TickDriver(ok) ==
  /\ Clock(ok)
  /\ UNCHANGED <<compared, refmem>>
  /\ IF Taken(ok) THEN TakeAnswer ELSE NoAnswer

Tick(ok) == Free /\ TickDriver(ok) /\ UNCHANGED call

-----------------------------------------------------------------------------
(* fence(), which the destructor calls too *)

CallFence ==
  /\ Free
  /\ call' = Called("fence", NoTask)
  /\ UNCHANGED <<req, mem, dests, compared, refmem, failed, ongoing>>

FenceTick(ok) ==
  /\ call.op = "fence" /\ failed = "no"
  /\ ongoing # <<>> /\ call.count < MaxWait
  /\ TickDriver(ok)
  /\ call' = Waited

\* What a caller that fenced a load does with the variable it was put in.
FenceReturn(read) ==
  /\ call.op = "fence" /\ failed = "no"
  /\ ongoing = <<>>
  /\ call' = NoCall
  /\ dests' = read
  /\ UNCHANGED <<req, mem, compared, refmem, failed, ongoing>>

FenceTimeout ==
  /\ call.op = "fence" /\ failed = "no"
  /\ ongoing # <<>> /\ call.count = MaxWait
  /\ failed' = "timeout"
  /\ UNCHANGED <<req, mem, call, dests, compared, refmem, ongoing>>

-----------------------------------------------------------------------------
(* An answer is matched by order alone.  It is right because the request on *)
(* the bus is always the front of the queue's: made when the queue was      *)
(* empty, or when the one before it was answered, and never replaced.       *)

QueueOnBus ==
  /\ call.op # "await" =>
       /\ req.valid <=> ongoing # <<>>
       /\ ongoing # <<>> => req = Issue(Head(ongoing))
  /\ call.op = "await" => ongoing = <<>> /\ req = Issue(call.task)
  /\ failed # "empty queue"
=============================================================================
