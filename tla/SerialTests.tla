----------------------------- MODULE SerialTests ----------------------------
(***************************************************************************)
(* run_serial, and what a test is made of: hooks, plugins that switch      *)
(* something on and defer switching it off, a body that may skip the rest, *)
(* and assertions that may fail anywhere, which ends in abort_testbench,   *)
(* called from the handler of the signal (the handler is not in the        *)
(* repository).  A hook that fails again while that runs is left out.      *)
(***************************************************************************)
EXTENDS SequencesExt, Integers

CONSTANT Suites   \* test_list: for each test the plugins it names, in order

PluginNames == {"SKIP", "LOG", "DEBUG", "STATUS", "TRACE", "STAT"}

ASSUME SuitesAssumption == Suites \subseteq Seq(Seq(PluginNames))

VARIABLES
  tests,        \* the plugins of each test
  at,           \* tests begun
  stage,        \* "idle", "setup", "hooks", "abort", "done" or "dead"
  defer_list,   \* hooks to run
  todo,         \* how many of them are still to be run
  on,           \* plugins switched on
  halfway,      \* one failed between switching on and deferring
  ran,          \* history: hooks run for this test
  count,        \* tests run
  globals       \* times the global hooks were run

serialVars == <<tests, at, stage, defer_list, todo, on, halfway, ran, count, globals>>

Plugins == tests[at]
Used    == Len(defer_list) - 1      \* the first hook is posttest_hook
Abort   == stage' = "abort" /\ todo' = Len(defer_list)

\* pretest_hook, then the first hook is deferred.
StartTest ==
  /\ stage = "idle" /\ at < Len(tests)
  /\ at' = at + 1
  /\ ran' = <<>>
  /\ \/ /\ stage' = "setup"
        /\ defer_list' = <<"post">>
        /\ UNCHANGED todo
     \/ UNCHANGED defer_list /\ Abort
  /\ UNCHANGED <<tests, on, halfway, count, globals>>

Plugin ==
  /\ stage = "setup" /\ Used < Len(Plugins)
  /\ Plugins[Used + 1] # "SKIP"
  /\ on' = on \cup {Plugins[Used + 1]}
  /\ \/ /\ defer_list' = Append(defer_list, Plugins[Used + 1])
        /\ UNCHANGED <<stage, todo, halfway>>
     \/ UNCHANGED defer_list /\ halfway' = TRUE /\ Abort
  /\ UNCHANGED <<tests, at, ran, count, globals>>

\* The body returns, or SKIP does, or an assertion in it fails.
Body ==
  /\ stage = "setup"
  /\ Used < Len(Plugins) => Plugins[Used + 1] = "SKIP"
  /\ \/ stage' = "hooks" /\ todo' = Len(defer_list)
     \/ Used = Len(Plugins) /\ Abort
  /\ UNCHANGED <<tests, at, defer_list, on, halfway, ran, count, globals>>

\* A faulty run_defers that begins with the hook deferred first.
NextHookForward == defer_list[Len(defer_list) - todo + 1]
NextHook == defer_list[todo]

RunHook ==
  /\ stage \in {"hooks", "abort"} /\ todo > 0
  /\ \/ /\ ran' = Append(ran, NextHook)
        /\ on' = on \ {NextHook}
        /\ todo' = todo - 1
        /\ UNCHANGED stage
     \/ stage = "hooks" /\ Abort /\ UNCHANGED <<ran, on>>
  /\ UNCHANGED <<tests, at, defer_list, halfway, count, globals>>

\* ~DeferListProxy clears the list; run_serial counts the test.
EndTest ==
  /\ stage = "hooks" /\ todo = 0
  /\ defer_list' = <<>>
  /\ count' = count + 1
  /\ stage' = "idle"
  /\ UNCHANGED <<tests, at, todo, on, halfway, ran, globals>>

\* The global hooks, of run_testbench and of abort_testbench.
RunGlobals ==
  /\ \/ stage = "idle" /\ at = Len(tests) /\ stage' = "done"
     \/ stage = "abort" /\ todo = 0 /\ stage' = "dead"
  /\ globals' = globals + 1
  /\ UNCHANGED <<tests, at, defer_list, todo, on, halfway, ran, count>>

SerialInit ==
  /\ tests \in Suites
  /\ at = 0 /\ stage = "idle" /\ defer_list = <<>> /\ todo = 0
  /\ on = {} /\ halfway = FALSE /\ ran = <<>>
  /\ count = 0 /\ globals = 0

SerialNext == StartTest \/ Plugin \/ Body \/ RunHook \/ EndTest \/ RunGlobals

SerialSpec == SerialInit /\ [][SerialNext]_serialVars

-----------------------------------------------------------------------------
(* The comment "defer_list acts like a stack" (testbench.cpp:23): when a   *)
(* test is over, skipped or not, its hooks have run once each, the last    *)
(* one first; and whatever plugins switched on is off, also when the run   *)
(* was aborted in the middle of the test or of its hooks, except when a    *)
(* plugin failed before it could defer.  The list is empty between tests,  *)
(* as the constructor of DeferListProxy asserts (testbench.cpp:272).       *)
HooksUndo ==
  /\ stage = "idle" /\ at > 0 =>
       /\ \E n \in 0 .. Len(Plugins) :
            /\ ran = Reverse(<<"post">> \o SubSeq(Plugins, 1, n))
            /\ n < Len(Plugins) => Plugins[n + 1] = "SKIP"
       /\ defer_list = <<>>
  /\ stage \in {"idle", "done", "dead"} /\ ~halfway => on = {}
  /\ stage = "done" => count = Len(tests) /\ globals = 1

-----------------------------------------------------------------------------
(* The inductive invariant                                                 *)

HookNames == PluginNames \cup {"post"}

\* The plugins of the test come to where they end, or to a SKIP.
EndsAt(n) == n < Len(Plugins) => Plugins[n + 1] = "SKIP"

\* What has been deferred in the test under way.
Deferred ==
  /\ at > 0 /\ count = at - 1
  /\ Used \in 0 .. Len(Plugins)
  /\ defer_list = [i \in 1 .. Used + 1 |-> IF i = 1 THEN "post" ELSE Plugins[i - 1]]

\* All that is on has a hook that is still to be run.
Covered(n) == on \subseteq {defer_list[i] : i \in 1 .. n}

SerialInv ==
  /\ stage \in {"idle", "setup", "hooks", "abort", "done", "dead"}
  /\ tests \in Suites /\ at \in 0 .. Len(tests)
  /\ defer_list \in Seq(HookNames) /\ ran \in Seq(HookNames)
  /\ halfway => stage \in {"abort", "dead"}
  /\ globals = IF stage \in {"done", "dead"} THEN 1 ELSE 0
  /\ stage \in {"idle", "done"} => defer_list = <<>> /\ on = {} /\ count = at
  /\ stage = "idle" /\ at > 0 =>
       \E n \in 0 .. Len(Plugins) :
         EndsAt(n) /\ ran = Reverse(<<"post">> \o SubSeq(Plugins, 1, n))
  /\ stage = "setup" => Deferred /\ ran = <<>> /\ Covered(Len(defer_list))
  /\ stage = "hooks" =>
       /\ Deferred /\ EndsAt(Used)
       /\ todo \in 0 .. Len(defer_list) /\ Covered(todo)
       /\ Len(ran) = Len(defer_list) - todo
       /\ \A i \in 1 .. Len(ran) : ran[i] = defer_list[Len(defer_list) - i + 1]
  /\ stage = "abort" => todo \in 0 .. Len(defer_list) /\ (halfway \/ Covered(todo))
  /\ stage = "dead" => halfway \/ on = {}
  /\ stage = "done" => at = Len(tests)
=============================================================================
