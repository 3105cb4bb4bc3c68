------------------------------ MODULE Testbench -----------------------------
(***************************************************************************)
(* run_parallel: the test runner forks one process per worker, gives each  *)
(* a pair of pipes, and hands out the numbers of the tests one at a time.  *)
(* A worker asks for a test with one character; it says nothing of the     *)
(* test it has run: a request that is not its first one means that the     *)
(* test before it passed, and the end of its pipe that the test failed.    *)
(*                                                                         *)
(* A failed assertion in a test aborts the worker; a test may also hang.   *)
(* Worker i is forked while the parent holds the write ends of the         *)
(* response pipes of the workers before it, and keeps them open: the end   *)
(* of a response pipe is seen only when every later worker is gone too.    *)
(***************************************************************************)
EXTENDS Integers, Sequences, FiniteSets

CONSTANTS
  NumWorkers,   \* n_workers
  NumTests      \* test_list.size()

ASSUME TestbenchAssumption == NumWorkers \in Nat \ {0} /\ NumTests \in Nat

Workers == 1 .. NumWorkers
Tests   == 0 .. NumTests - 1
Quit    == -1               \* the number that is no test

VARIABLES
  parent,      \* what the parent is doing
  spawned,     \* workers forked
  reaped,      \* workers waited for
  ready,       \* workers select() has found readable and not handled yet
  open,        \* workers whose request pipe the parent still reads
  first,       \* workers that have not asked for a test yet
  dispatched, exited, passed, failed,
  closed,      \* the parent has closed its ends of the response pipes
  worker,      \* what each worker is doing
  task,        \* the test it is running
  req,         \* characters in its request pipe
  resp,        \* numbers in its response pipe
  outcome,     \* what has become of each test
  hangs        \* the tests that never return

parentVars == <<parent, spawned, reaped, ready, open, first, dispatched, exited,
                passed, failed, closed>>
workerVars == <<worker, task, req, resp, outcome>>
vars == <<parentVars, workerVars, hangs>>

Alive(j) == worker[j] \notin {"unborn", "dead"}

\* A response pipe is empty or carries one number.
Carried == {<<>>} \cup {<<t>> : t \in Tests \cup {Quit}}

TypeOK ==
  /\ parent \in {"spawn", "select", "handle", "close", "reap", "done"}
  /\ spawned \in 0 .. NumWorkers /\ reaped \in 0 .. NumWorkers
  /\ ready \subseteq open /\ open \subseteq Workers /\ first \subseteq Workers
  /\ dispatched \in 0 .. NumTests
  /\ exited \in 0 .. NumWorkers
  /\ passed \in 0 .. NumTests
  /\ failed \in BOOLEAN /\ closed \in BOOLEAN
  /\ worker \in [Workers -> {"unborn", "ask", "wait", "run", "leave", "dead"}]
  /\ task \in [Workers -> Tests \cup {Quit}]
  /\ req \in [Workers -> 0 .. 1]
  /\ resp \in [Workers -> Carried]
  /\ outcome \in [Tests -> {"todo", "running", "passed", "failed", "killed"}]

-----------------------------------------------------------------------------
(* The parent *)

Spawn ==
  /\ parent = "spawn"
  /\ spawned' = spawned + 1
  /\ open' = open \cup {spawned + 1}
  /\ worker' = [worker EXCEPT ![spawned + 1] = "ask"]
  /\ parent' = IF spawned + 1 = NumWorkers THEN "select" ELSE "spawn"
  /\ UNCHANGED <<reaped, ready, first, dispatched, exited, passed, failed,
                 closed, task, req, resp, outcome, hangs>>

\* A request pipe is readable when it holds a character or its only writer,
\* the worker itself, is gone.
Readable == {j \in open : req[j] > 0 \/ worker[j] = "dead"}

Select ==
  /\ parent = "select"
  /\ exited < NumWorkers
  /\ Readable # {}
  /\ ready' = Readable
  /\ parent' = "handle"
  /\ UNCHANGED <<spawned, reaped, open, first, dispatched, exited, passed, failed,
                 closed, workerVars, hangs>>

\* The descriptors are handled in the order of the workers.
IsNext(j) == parent = "handle" /\ j \in ready /\ \A k \in ready : j <= k

\* read() returns 0: the worker has failed, and the parent looks no further.
HandleEOF(j) ==
  /\ IsNext(j)
  /\ req[j] = 0
  /\ failed' = TRUE
  /\ ready' = {}
  /\ parent' = "close"
  /\ UNCHANGED <<spawned, reaped, open, first, dispatched, exited, passed,
                 closed, workerVars, hangs>>

\* A faulty count that takes every request for a test passed.
CountEveryRequest(j) == passed + 1

\* The number of tests passed once a request of worker j is read.
CountRequest(j) == IF j \in first THEN passed ELSE passed + 1

\* A faulty dispatch that counts once for all the requests of a select().
DispatchedLate(j) == IF ready = {j} THEN dispatched + 1 ELSE dispatched

DispatchedAfter(j) == dispatched + 1

Dispatch(j) ==
  /\ dispatched < NumTests
  /\ resp' = [resp EXCEPT ![j] = Append(@, dispatched)]
  /\ dispatched' = DispatchedAfter(j)
  /\ UNCHANGED <<open, exited>>

Dismiss(j) ==
  /\ dispatched >= NumTests
  /\ resp' = [resp EXCEPT ![j] = Append(@, Quit)]
  /\ open' = open \ {j}
  /\ exited' = exited + 1
  /\ UNCHANGED dispatched

HandleRequest(j) ==
  /\ IsNext(j)
  /\ req[j] > 0
  /\ req' = [req EXCEPT ![j] = @ - 1]
  /\ passed' = CountRequest(j)
  /\ first' = first \ {j}
  /\ Dispatch(j) \/ Dismiss(j)
  /\ ready' = ready \ {j}
  /\ parent' = IF ready = {j} THEN "select" ELSE "handle"
  /\ UNCHANGED <<spawned, reaped, failed, closed, worker, task, outcome, hangs>>

AllExited ==
  /\ parent = "select"
  /\ exited = NumWorkers
  /\ parent' = "close"
  /\ UNCHANGED <<spawned, reaped, ready, open, first, dispatched, exited, passed,
                 failed, closed, workerVars, hangs>>

CloseAll ==
  /\ parent = "close"
  /\ closed' = TRUE
  /\ parent' = "reap"
  /\ UNCHANGED <<spawned, reaped, ready, open, first, dispatched, exited, passed,
                 failed, workerVars, hangs>>

\* The worker to wait for: the first that has not been.
Awaited == reaped + 1

\* A faulty loop that kills nobody.
MayKillNone == FALSE

\* waitpid(p, NULL, WNOHANG) == 0: the worker is still alive.
MayKill == failed /\ Alive(Awaited)

Killed(j, o) == IF worker[j] = "run" THEN [o EXCEPT ![task[j]] = "killed"] ELSE o

Kill ==
  /\ parent = "reap"
  /\ MayKill
  /\ worker' = [worker EXCEPT ![Awaited] = "dead"]
  /\ outcome' = Killed(Awaited, outcome)
  /\ UNCHANGED <<parentVars, task, req, resp, hangs>>

\* A faulty waitpid() that does not block.
CanReapAny == TRUE

\* waitpid() blocks while the worker is alive.
CanReap == worker[Awaited] = "dead"

Reap ==
  /\ parent = "reap"
  /\ CanReap
  /\ reaped' = reaped + 1
  /\ parent' = IF reaped + 1 = NumWorkers THEN "done" ELSE "reap"
  /\ UNCHANGED <<spawned, ready, open, first, dispatched, exited, passed, failed,
                 closed, workerVars, hangs>>

-----------------------------------------------------------------------------
(* A worker *)

Request(j) ==
  /\ worker[j] = "ask"
  /\ req' = [req EXCEPT ![j] = @ + 1]
  /\ worker' = [worker EXCEPT ![j] = "wait"]
  /\ UNCHANGED <<parentVars, task, resp, outcome, hangs>>

Receive(j) ==
  /\ worker[j] = "wait"
  /\ resp[j] # <<>>
  /\ resp' = [resp EXCEPT ![j] = Tail(@)]
  /\ LET i == Head(resp[j]) IN
       IF i < 0
       THEN /\ worker' = [worker EXCEPT ![j] = "leave"]
            /\ UNCHANGED <<task, outcome>>
       ELSE /\ worker' = [worker EXCEPT ![j] = "run"]
            /\ task' = [task EXCEPT ![j] = i]
            /\ outcome' = [outcome EXCEPT ![i] = "running"]
  /\ UNCHANGED <<parentVars, req, hangs>>

\* The parent and the workers forked after this one held the other end.
ReceiveEOF(j) ==
  /\ worker[j] = "wait"
  /\ resp[j] = <<>>
  /\ closed
  /\ \A k \in Workers : k > j => ~Alive(k)
  /\ worker' = [worker EXCEPT ![j] = "leave"]
  /\ UNCHANGED <<parentVars, task, req, resp, outcome, hangs>>

\* A faulty worker that reports a failed test and goes on to the next.
AfterFailureAsk == "ask"

\* The abort of a failed assertion.
AfterFailure == "dead"

RunTest(j) ==
  /\ worker[j] = "run"
  /\ task[j] \notin hangs
  /\ \/ /\ worker' = [worker EXCEPT ![j] = "ask"]
        /\ outcome' = [outcome EXCEPT ![task[j]] = "passed"]
     \/ /\ worker' = [worker EXCEPT ![j] = AfterFailure]
        /\ outcome' = [outcome EXCEPT ![task[j]] = "failed"]
  /\ task' = [task EXCEPT ![j] = Quit]
  /\ UNCHANGED <<parentVars, req, resp, hangs>>

Exit(j) ==
  /\ worker[j] = "leave"
  /\ worker' = [worker EXCEPT ![j] = "dead"]
  /\ UNCHANGED <<parentVars, task, req, resp, outcome, hangs>>

-----------------------------------------------------------------------------
Init ==
  /\ parent = "spawn" /\ spawned = 0 /\ reaped = 0
  /\ ready = {} /\ open = {} /\ first = Workers
  /\ dispatched = 0 /\ exited = 0 /\ passed = 0
  /\ failed = FALSE /\ closed = FALSE
  /\ worker = [j \in Workers |-> "unborn"]
  /\ task = [j \in Workers |-> Quit]
  /\ req = [j \in Workers |-> 0]
  /\ resp = [j \in Workers |-> <<>>]
  /\ outcome = [t \in Tests |-> "todo"]
  /\ hangs \in SUBSET Tests

ParentStep ==
  \/ Spawn \/ Select \/ AllExited \/ CloseAll \/ Kill \/ Reap
  \/ \E j \in Workers : HandleEOF(j) \/ HandleRequest(j)

WorkerStep(j) ==
  Request(j) \/ Receive(j) \/ ReceiveEOF(j) \/ RunTest(j) \/ Exit(j)

Next == ParentStep \/ \E j \in Workers : WorkerStep(j)

Spec == Init /\ [][Next]_vars

-----------------------------------------------------------------------------
With(o) == {t \in Tests : outcome[t] = o}

\* No test is counted before it has passed, and however early a failure stops
\* the parent, it misses at most the last test of each worker.
PassedIsSound ==
  /\ passed <= Cardinality(With("passed"))
  /\ Cardinality(With("passed")) <= passed + NumWorkers

\* The verdict, told only by the ends of pipes, is right: a failure is reported
\* if and only if a test failed, and otherwise every test has been run to its
\* end and counted.
VerdictIsRight ==
  parent = "done" =>
    /\ failed <=> With("failed") # {}
    /\ ~failed => passed = NumTests /\ With("passed") = Tests

\* The comment "close all master->worker pipes, so all the workers will finally
\* exit": the runner leaves no process behind, whatever the tests do.
NoProcessLeft == parent = "done" => \A j \in Workers : worker[j] = "dead"

\* No test is started a second time, by the same worker or by another.
StartedOnce ==
  [][\A t \in Tests : outcome'[t] = "running" => outcome[t] \in {"todo", "running"}]_vars

-----------------------------------------------------------------------------
(* The inductive invariant *)

Before == parent \in {"spawn", "select", "handle"}

\* Where the parent is, in its loops.
PhaseInv ==
  /\ parent = "spawn" => spawned < NumWorkers
  /\ parent # "spawn" => spawned = NumWorkers
  /\ Before => ~failed /\ reaped = 0
  /\ closed <=> parent \in {"reap", "done"}
  /\ ~Before /\ ~failed => open = {}
  /\ parent = "close" => reaped = 0
  /\ parent = "reap" => reaped < NumWorkers
  /\ parent = "done" => reaped = NumWorkers
  /\ \A j \in 1 .. reaped : worker[j] = "dead"

\* What a worker has in its pipes and in its hands.
WorkerInv ==
  \A j \in Workers :
    /\ worker[j] = "unborn" <=> j > spawned
    /\ worker[j] \in {"unborn", "ask", "run"} => req[j] = 0 /\ resp[j] = <<>>
    /\ resp[j] # <<>> => req[j] = 0 /\ j \notin first
    /\ worker[j] = "wait" /\ resp[j] = <<>> => req[j] = 1
    /\ worker[j] = "run" => task[j] \in Tests /\ j \in open /\ j \notin first
    /\ j \in ready => req[j] = 1 \/ worker[j] = "dead"
    /\ ~failed /\ req[j] = 1 => worker[j] = "wait"

\* A worker is open until it is sent away.
OpenInv ==
  \A j \in Workers :
    /\ worker[j] = "unborn" => j \notin open /\ j \in first
    /\ worker[j] = "ask" => j \in open
    /\ req[j] = 1 => j \in open
    /\ resp[j] = <<Quit>> => j \notin open
    /\ resp[j] # <<>> /\ j \notin open => resp[j] = <<Quit>>
    /\ j \notin open /\ worker[j] # "unborn" =>
         j \notin first /\ dispatched = NumTests
    /\ ~failed /\ worker[j] = "leave" => j \notin open

\* A test is on its way to one worker, or run by one worker, at a time.
HeldInv ==
  \A j \in Workers, t \in Tests :
    /\ resp[j] = <<t>> => outcome[t] = "todo" /\ t < dispatched
    /\ worker[j] = "run" /\ task[j] = t => outcome[t] = "running"
    /\ \A k \in Workers \ {j} :
         /\ ~(resp[j] = <<t>> /\ resp[k] = <<t>>)
         /\ ~(worker[j] = "run" /\ worker[k] = "run" /\ task[j] = t /\ task[k] = t)

\* A test that has been dispatched is on its way, run, or over.
OutcomeInv ==
  \A t \in Tests :
    /\ t >= dispatched => outcome[t] = "todo"
    /\ t < dispatched /\ outcome[t] = "todo" => \E j \in Workers : resp[j] = <<t>>
    /\ outcome[t] = "running" =>
         \E j \in Workers : worker[j] = "run" /\ task[j] = t
    /\ outcome[t] = "killed" => failed

\* The parent knows of a failure, or will read the end of its pipe.
FailureInv ==
  /\ With("failed") # {} => failed \/ \E j \in open : worker[j] = "dead"
  /\ failed \/ (\E j \in open : worker[j] = "dead") => With("failed") # {}

\* Each worker that has asked before and is still open holds one test the
\* parent has not counted.
CountInv ==
  /\ exited + Cardinality(open) = spawned
  /\ dispatched = passed + Cardinality(open \ first)

IInv ==
  /\ TypeOK /\ PhaseInv /\ WorkerInv /\ OpenInv /\ HeldInv /\ OutcomeInv
  /\ FailureInv /\ CountInv
=============================================================================
