-------------------------- MODULE SequentialMemory --------------------------
(***************************************************************************)
(* What the bus drivers promise to a test: a memory that sees its accesses *)
(* one after the other, in the order of the calls.  A call to the pipeline *)
(* returns before its answer is there; what the answer will be is settled  *)
(* when the call is made.  Answers come in the order of the calls, and a   *)
(* fence returns when all have come.                                       *)
(***************************************************************************)
EXTENDS LoadOp, SequencesExt

CONSTANTS
  Dest,     \* the variables loads are put in
  NullPtr   \* the destination of a store, and of a load that only expects

VARIABLES
  ram,      \* memory after every call made so far
  owed,     \* the answers to come
  dests,    \* what the destinations hold
  call,     \* the call under way: "none", "await" or "fence"
  failed    \* what has ended the test, "no" until then

memoryVars == <<ram, owed, dests, call, failed>>

Task == [addr : Word, size : Width, strobe : SUBSET Lane, data : BusData,
         dest : Dest \cup {NullPtr}, op : LoadOp]

\* What a task does to memory, and what it will be answered.
Effect(t, m)   == [m EXCEPT ![LineOf(t.addr)] = Strobed(@, t.strobe, t.data)]
AnswerTo(t, m) == [task |-> t, data |-> m[LineOf(t.addr)]]

\* Whether an answer is what its task expects.
AsExpected(a) ==
  \/ a.task.strobe # {} \/ a.task.dest # NullPtr
  \/ \A l \in StrobeOf(a.task.op) : a.task.data[l] = a.data[l]

\* What a load leaves in its destination: an awaited load returns a value
\* without more bytes than were asked for, a load of the pipeline writes these.
Left(a, old) ==
  IF call = "await" THEN Truncate(a.task.op.size, Apply(a.task.op, a.data))
                    ELSE ApplyTo(a.task.op, a.data, old)

\* A call, after which some variables of the test may be gone.  The task is
\* named by the answer it adds.
Ask ==
  /\ call = "none"
  /\ Len(owed') = Len(owed) + 1
  /\ LET t == Last(owed').task IN
       /\ t \in Task
       /\ ram' = Effect(t, ram)
       /\ owed' = Append(owed, AnswerTo(t, ram))
  /\ call' \in {"none", "await", "fence"}
  /\ \E gone \in SUBSET Dest :
       dests' = [d \in Dest |-> IF d \in gone THEN ZeroData ELSE dests[d]]
  /\ UNCHANGED failed

Deliver ==
  /\ owed # <<>>
  /\ LET a == Head(owed) IN
       /\ dests' = IF a.task.dest \in Dest
                   THEN [dests EXCEPT ![a.task.dest] = Left(a, @)] ELSE dests
       /\ failed' = IF AsExpected(a) THEN failed ELSE "unexpected data"
  /\ owed' = Tail(owed)
  /\ call' = IF call = "await" THEN "none" ELSE call
  /\ UNCHANGED ram

CallFence ==
  /\ call = "none"
  /\ call' = "fence"
  /\ UNCHANGED <<ram, owed, dests, failed>>

\* A value fetched with a fence is cut to the type it is read as.
FenceReturn ==
  /\ call = "fence" /\ owed = <<>>
  /\ call' = "none"
  /\ \/ UNCHANGED dests
     \/ \E d \in Dest, n \in {1, 2, 4} : dests' = [dests EXCEPT ![d] = Truncate(n, @)]
  /\ UNCHANGED <<ram, owed, failed>>

\* A call that waits may give up.
Timeout ==
  /\ call # "none" /\ owed # <<>>
  /\ failed' = "timeout"
  /\ UNCHANGED <<ram, owed, dests, call>>

Init ==
  /\ ram \in [Line -> BusData]
  /\ owed = <<>>
  /\ dests \in [Dest -> BusData]
  /\ call = "none" /\ failed = "no"

Next ==
  /\ failed = "no"
  /\ \/ Ask \/ Deliver \/ CallFence \/ FenceReturn \/ Timeout

Spec == Init /\ [][Next]_memoryVars
=============================================================================
