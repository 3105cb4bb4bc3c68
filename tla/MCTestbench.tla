----------------------------- MODULE MCTestbench ----------------------------
(***************************************************************************)
(* run_testbench: one worker runs the tests in this process, more than one *)
(* in processes of their own.  Three workers and three tests: a worker may *)
(* be first, in the middle or last in the order of the forks, may get no   *)
(* test, one or all of them, and a failure may meet workers in every other *)
(* phase.                                                                  *)
(***************************************************************************)
EXTENDS Testbench, SerialTests

VARIABLE serial   \* n_workers == 1

MCSuites ==
  {<<<<"LOG", "TRACE", "STAT">>, <<>>>>, <<<<"TRACE", "SKIP", "STAT">>, <<"TRACE">>>>,
   <<<<"SKIP">>, <<"LOG", "TRACE">>, <<"SKIP", "LOG">>>>, <<>>}

allVars == <<vars, serialVars, serial>>

MCInit ==
  /\ Init /\ SerialInit
  /\ serial \in BOOLEAN
  /\ serial => hangs = {}
  /\ ~serial => tests = <<>>

RunParallel == ~serial /\ Next /\ UNCHANGED <<serialVars, serial>>
RunSerial   == serial /\ SerialNext /\ UNCHANGED <<vars, serial>>

MCNext == RunParallel \/ RunSerial

\* The operating system runs every process that can go on.
MCFairSpec ==
  /\ MCInit /\ [][MCNext]_allVars
  /\ WF_allVars(RunParallel /\ ParentStep)
  /\ \A j \in Workers : WF_allVars(RunParallel /\ WorkerStep(j))
  /\ WF_allVars(RunSerial)

\* The runner ends when every test returns, and after a failure even if another
\* worker hangs for ever.  In one process there is nobody to notice a test that
\* hangs: there all tests return, and it ends whatever fails.
Finishes ==
  /\ serial => <>(stage \in {"done", "dead"})
  /\ ~serial /\ (hangs = {} \/ failed) ~> parent = "done"
=============================================================================
