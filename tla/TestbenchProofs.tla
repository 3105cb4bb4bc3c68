-------------------------- MODULE TestbenchProofs --------------------------
(***************************************************************************)
(* Proofs about the test runner, for every number of workers and of tests, *)
(* and for every list of tests run one after the other.  The inductive     *)
(* invariants IInv and SerialInv are in Testbench and SerialTests; here is *)
(* one lemma for each action of the parallel runner, with one step for     *)
(* each part of IInv, then the actions of the serial one, and the theorems.*)
(* Every run of either ends; parent and workers of the parallel one never  *)
(* wait for each other.                                                    *)
(***************************************************************************)
EXTENDS Testbench, SerialTests, FiniteSetTheorems, SequenceTheorems,
        WellFoundedInduction, TLAPS

LEMMA OneElement ==
  ASSUME NEW x
  PROVE  /\ Append(<<>>, x) = <<x>> /\ Head(<<x>>) = x /\ Tail(<<x>>) = <<>>
         /\ <<x>> # <<>>
         /\ \A y : <<x>> = <<y>> => x = y
  OBVIOUS

LEMMA FiniteWorkers == IsFiniteSet(Workers) /\ Cardinality(Workers) = NumWorkers
  BY TestbenchAssumption, FS_Interval DEF Workers

LEMMA FiniteOpen ==
  ASSUME open \subseteq Workers
  PROVE  /\ IsFiniteSet(open) /\ Cardinality(open) \in Nat
         /\ IsFiniteSet(open \ first) /\ Cardinality(open \ first) \in Nat
<1>1. IsFiniteSet(open) /\ IsFiniteSet(open \ first)
  BY FiniteWorkers, FS_Subset
<1> QED
  BY <1>1, FS_CardinalityType

LEMMA SpawnInv ==
  ASSUME IInv, Spawn
  PROVE  IInv'
<1> USE DEF IInv, Spawn
<1>1. TypeOK'
  BY TestbenchAssumption DEF TypeOK, PhaseInv, Workers
<1>2. PhaseInv'
  BY TestbenchAssumption DEF TypeOK, PhaseInv, Before
<1>3. WorkerInv'
  <2>1. /\ spawned' = spawned + 1 /\ spawned \in Nat
        /\ UNCHANGED <<first, ready, failed, task, req, resp>>
        /\ open \subseteq open'
    BY DEF TypeOK
  <2>2. \A k \in Workers :
          IF k = spawned + 1
          THEN worker[k] = "unborn" /\ worker'[k] = "ask"
          ELSE worker'[k] = worker[k]
    BY DEF TypeOK, WorkerInv, Workers
  <2>3. WorkerInv
    OBVIOUS
  <2> HIDE DEF IInv, Spawn
  <2> QED
    BY <2>1, <2>2, <2>3 DEF WorkerInv, Workers
<1>4. OpenInv'
  <2>1. \A k \in Workers : k # spawned + 1 =>
          (worker'[k] = worker[k] /\ (k \in open' <=> k \in open))
    BY DEF TypeOK, Workers
  <2>2. /\ spawned + 1 \in Workers /\ worker[spawned + 1] = "unborn"
        /\ worker'[spawned + 1] = "ask" /\ spawned + 1 \in open'
    BY TestbenchAssumption DEF TypeOK, WorkerInv, PhaseInv, Workers
  <2>3. resp[spawned + 1] = <<>>
    BY <2>2 DEF WorkerInv
  <2> QED
    BY <2>1, <2>2, <2>3, OneElement DEF OpenInv
<1>5. HeldInv'
  <2>1. \A k \in Workers : worker[k] = "run" <=> worker'[k] = "run"
    BY DEF TypeOK, WorkerInv, PhaseInv, Workers
  <2> QED
    BY <2>1 DEF HeldInv
<1>6. OutcomeInv'
  <2>1. \A k \in Workers : worker[k] = "run" <=> worker'[k] = "run"
    BY DEF TypeOK, WorkerInv, PhaseInv, Workers
  <2>2. UNCHANGED <<outcome, dispatched, failed, task, resp>>
    OBVIOUS
  <2>3. OutcomeInv
    OBVIOUS
  <2> HIDE DEF IInv, Spawn
  <2> QED
    BY <2>1, <2>2, <2>3 DEF OutcomeInv
<1>7. FailureInv'
  BY TestbenchAssumption DEF TypeOK, PhaseInv, WorkerInv, FailureInv, Workers, With
<1>8. CountInv'
  <2>1. spawned + 1 \in Workers /\ spawned + 1 \notin open /\ spawned + 1 \in first
    BY TestbenchAssumption DEF TypeOK, WorkerInv, OpenInv, PhaseInv, Workers
  <2>2. Cardinality(open') = Cardinality(open) + 1
    BY <2>1, FiniteOpen, FS_AddElement DEF TypeOK
  <2>3. open' \ first' = open \ first
    BY <2>1
  <2>4. exited \in Nat /\ spawned \in Nat /\ Cardinality(open) \in Nat
    BY FiniteOpen DEF TypeOK
  <2> QED
    BY <2>2, <2>3, <2>4 DEF CountInv
<1> QED
  BY <1>1, <1>2, <1>3, <1>4, <1>5, <1>6, <1>7, <1>8

LEMMA SelectInv ==
  ASSUME IInv, Select
  PROVE  IInv'
<1> USE DEF IInv, Select, Readable, workerVars
<1>1. TypeOK'
  BY DEF TypeOK
<1>2. PhaseInv'
  BY DEF PhaseInv, Before
<1>3. WorkerInv'
  BY DEF TypeOK, WorkerInv
<1>4. OpenInv'
  BY DEF OpenInv
<1>5. HeldInv'
  BY DEF HeldInv
<1>6. OutcomeInv'
  BY DEF OutcomeInv
<1>7. FailureInv'
  BY DEF FailureInv, With
<1>8. CountInv'
  BY DEF CountInv
<1> QED
  BY <1>1, <1>2, <1>3, <1>4, <1>5, <1>6, <1>7, <1>8

LEMMA AllExitedInv ==
  ASSUME IInv, AllExited
  PROVE  IInv'
<1> USE DEF IInv, AllExited, workerVars
<1>1. TypeOK'
  BY DEF TypeOK
<1>2. PhaseInv'
  <2>1. spawned = NumWorkers /\ NumWorkers \in Nat /\ Cardinality(open) \in Nat
    BY TestbenchAssumption, FiniteOpen DEF PhaseInv, TypeOK
  <2>2. Cardinality(open) = 0
    BY <2>1 DEF CountInv
  <2>3. open = {}
    BY <2>2, FiniteOpen, FS_EmptySet DEF TypeOK
  <2> QED
    BY <2>3 DEF PhaseInv, Before, workerVars
<1>3. WorkerInv'
  BY DEF WorkerInv
<1>4. OpenInv'
  BY DEF OpenInv
<1>5. HeldInv'
  BY DEF HeldInv
<1>6. OutcomeInv'
  BY DEF OutcomeInv
<1>7. FailureInv'
  BY DEF FailureInv, With
<1>8. CountInv'
  BY DEF CountInv
<1> QED
  BY <1>1, <1>2, <1>3, <1>4, <1>5, <1>6, <1>7, <1>8

LEMMA CloseAllInv ==
  ASSUME IInv, CloseAll
  PROVE  IInv'
<1> USE DEF IInv, CloseAll, workerVars
<1>1. TypeOK'
  BY DEF TypeOK
<1>2. PhaseInv'
  BY TestbenchAssumption DEF PhaseInv, Before
<1>3. WorkerInv'
  BY DEF WorkerInv
<1>4. OpenInv'
  BY DEF OpenInv
<1>5. HeldInv'
  BY DEF HeldInv
<1>6. OutcomeInv'
  BY DEF OutcomeInv
<1>7. FailureInv'
  BY DEF FailureInv, With
<1>8. CountInv'
  BY DEF CountInv
<1> QED
  BY <1>1, <1>2, <1>3, <1>4, <1>5, <1>6, <1>7, <1>8

LEMMA KillInv ==
  ASSUME IInv, Kill
  PROVE  IInv'
<1> USE DEF IInv, Kill, Awaited, MayKill, Killed, Alive, parentVars
<1>1. TypeOK'
  BY DEF TypeOK
<1>2. PhaseInv'
  BY DEF PhaseInv, Before
<1>3. WorkerInv'
  BY DEF WorkerInv
<1>4. OpenInv'
  BY DEF OpenInv
<1>5. HeldInv'
  <2>1. \A k \in Workers : worker'[k] = "run" => worker[k] = "run" /\ k # Awaited
    BY DEF TypeOK
  <2>0. Awaited \in Workers
    BY TestbenchAssumption DEF PhaseInv, TypeOK, Workers
  <2>4. \A t \in Tests :
          outcome'[t] # outcome[t] => worker[Awaited] = "run" /\ task[Awaited] = t
    <3>1. outcome \in [Tests -> {"todo", "running", "passed", "failed", "killed"}]
      BY DEF TypeOK
    <3>2. CASE worker[Awaited] = "run"
      <4>1. outcome' = [outcome EXCEPT ![task[Awaited]] = "killed"]
        BY <3>2
      <4> QED
        BY <3>1, <3>2, <4>1
    <3>3. CASE worker[Awaited] # "run"
      BY <3>3
    <3> QED
      BY <3>2, <3>3
  <2>2. \A k \in Workers : worker'[k] = "run" => outcome'[task[k]] = outcome[task[k]]
    BY <2>0, <2>1, <2>4 DEF HeldInv, WorkerInv
  <2>3. \A k \in Workers, t \in Tests :
          resp[k] = <<t>> => outcome'[t] = outcome[t]
    BY <2>0, <2>4 DEF HeldInv
  <2> QED
    BY <2>1, <2>2, <2>3 DEF HeldInv, TypeOK
<1>6. OutcomeInv'
  <2>1. Awaited \in Workers /\ failed
    BY TestbenchAssumption DEF PhaseInv, TypeOK, Workers
  <2>2. \A k \in Workers \ {Awaited} : worker'[k] = worker[k]
    BY DEF TypeOK
  <2>3. CASE worker[Awaited] = "run"
    <3>1. /\ task[Awaited] \in Tests
          /\ outcome' = [outcome EXCEPT ![task[Awaited]] = "killed"]
      BY <2>1, <2>3 DEF WorkerInv
    <3>2. \A t \in Tests \ {task[Awaited]} : outcome'[t] = outcome[t]
      BY <3>1 DEF TypeOK
    <3>3. outcome'[task[Awaited]] = "killed" /\ outcome[task[Awaited]] = "running"
      BY <2>1, <2>3, <3>1 DEF TypeOK, HeldInv
    <3> QED
      BY <2>1, <2>2, <3>1, <3>2, <3>3 DEF OutcomeInv
  <2>4. CASE worker[Awaited] # "run"
    BY <2>1, <2>2, <2>4 DEF OutcomeInv
  <2> QED
    BY <2>3, <2>4
<1>7. FailureInv'
  BY DEF TypeOK, PhaseInv, HeldInv, FailureInv, Workers, With
<1>8. CountInv'
  BY DEF CountInv
<1> QED
  BY <1>1, <1>2, <1>3, <1>4, <1>5, <1>6, <1>7, <1>8

LEMMA ReapInv ==
  ASSUME IInv, Reap
  PROVE  IInv'
<1> USE DEF IInv, Reap, Awaited, CanReap, workerVars
<1>1. TypeOK'
  BY DEF TypeOK, PhaseInv
<1>2. PhaseInv'
  BY DEF TypeOK, PhaseInv, Tests, Before
<1>3. WorkerInv'
  BY DEF WorkerInv
<1>4. OpenInv'
  BY DEF OpenInv
<1>5. HeldInv'
  BY DEF HeldInv
<1>6. OutcomeInv'
  BY DEF OutcomeInv
<1>7. FailureInv'
  BY DEF FailureInv, With
<1>8. CountInv'
  BY DEF CountInv
<1> QED
  BY <1>1, <1>2, <1>3, <1>4, <1>5, <1>6, <1>7, <1>8

LEMMA HandleEOFInv ==
  ASSUME IInv, NEW j \in Workers, HandleEOF(j)
  PROVE  IInv'
<1> USE DEF IInv, HandleEOF, IsNext, workerVars
<1>1. TypeOK'
  BY DEF TypeOK
<1>2. PhaseInv'
  BY DEF PhaseInv, Before
<1>3. WorkerInv'
  BY DEF WorkerInv
<1>4. OpenInv'
  BY DEF OpenInv
<1>5. HeldInv'
  BY DEF HeldInv
<1>6. OutcomeInv'
  BY DEF OutcomeInv, workerVars
<1>7. FailureInv'
  BY DEF TypeOK, WorkerInv, FailureInv, With
<1>8. CountInv'
  BY DEF CountInv
<1> QED
  BY <1>1, <1>2, <1>3, <1>4, <1>5, <1>6, <1>7, <1>8

LEMMA HandleRequestInv ==
  ASSUME IInv, NEW j \in Workers, HandleRequest(j)
  PROVE  IInv'
<1> USE DEF IInv
<1>1. /\ j \in ready /\ j \in open /\ req[j] = 1 /\ resp[j] = <<>>
      /\ worker[j] = "wait" /\ ~failed /\ parent = "handle"
  BY DEF HandleRequest, IsNext, TypeOK, WorkerInv, PhaseInv, Before
<1>2. /\ req' = [req EXCEPT ![j] = 0]
      /\ passed' = IF j \in first THEN passed ELSE passed + 1
      /\ first' = first \ {j} /\ ready' = ready \ {j}
      /\ parent' \in {"select", "handle"}
      /\ UNCHANGED <<spawned, reaped, failed, closed, worker, task, outcome, hangs>>
  BY <1>1 DEF HandleRequest, CountRequest
<1>3. PICK i \in Tests \cup {Quit} :
        /\ resp' = [resp EXCEPT ![j] = <<i>>]
        /\ \/ /\ i = dispatched /\ i \in Tests /\ dispatched < NumTests
              /\ dispatched' = dispatched + 1 /\ UNCHANGED <<open, exited>>
           \/ /\ i = Quit /\ dispatched = NumTests /\ open' = open \ {j}
              /\ exited' = exited + 1 /\ UNCHANGED dispatched
  <2>1. \A x : Append(resp[j], x) = <<x>>
    BY <1>1, OneElement
  <2>2. CASE Dispatch(j)
    <3>1. dispatched \in Tests
      BY <2>2, TestbenchAssumption DEF Dispatch, TypeOK, Tests
    <3>2. resp' = [resp EXCEPT ![j] = <<dispatched>>]
      BY <2>1, <2>2 DEF Dispatch
    <3>3. dispatched < NumTests /\ dispatched' = dispatched + 1 /\ UNCHANGED <<open, exited>>
      BY <2>2 DEF Dispatch, DispatchedAfter
    <3> QED
      BY <3>1, <3>2, <3>3
  <2>3. CASE Dismiss(j)
    <3>1. dispatched = NumTests
      BY <2>3, TestbenchAssumption DEF Dismiss, TypeOK
    <3>2. resp' = [resp EXCEPT ![j] = <<Quit>>]
      BY <2>1, <2>3 DEF Dismiss
    <3>3. open' = open \ {j} /\ exited' = exited + 1 /\ UNCHANGED dispatched
      BY <2>3 DEF Dismiss
    <3> QED
      BY <3>1, <3>2, <3>3
  <2> QED
    BY <2>2, <2>3 DEF HandleRequest
<1>0. \A k \in Workers : resp'[k] = IF k = j THEN <<i>> ELSE resp[k]
  <2>1. resp \in [Workers -> Carried] /\ resp' = [resp EXCEPT ![j] = <<i>>]
    BY <1>3 DEF TypeOK
  <2> HIDE DEF IInv
  <2> QED
    BY <2>1
<1>4. /\ resp'[j] = <<i>> /\ req'[j] = 0
      /\ \A k \in Workers \ {j} : resp'[k] = resp[k] /\ req'[k] = req[k]
  <2>1. req \in [Workers -> 0 .. 1]
    BY DEF TypeOK
  <2> QED
    BY <1>0, <1>2, <1>3, <2>1
<1>5. resp'[j] # <<>> /\ \A t : resp'[j] = <<t>> => t = i
  BY <1>4, OneElement
<1>6. CountInv'
  <2>1. /\ exited \in Nat /\ spawned \in Nat /\ dispatched \in Nat /\ passed \in Nat
        /\ IsFiniteSet(open) /\ Cardinality(open) \in Nat
        /\ IsFiniteSet(open \ first) /\ Cardinality(open \ first) \in Nat
    BY FiniteOpen DEF TypeOK
  <2>0. /\ exited + Cardinality(open) = spawned
        /\ dispatched = passed + Cardinality(open \ first)
    BY DEF CountInv
  <2>2. CASE UNCHANGED open
    <3>1. Cardinality(open' \ first') =
            IF j \in first THEN Cardinality(open \ first) + 1 ELSE Cardinality(open \ first)
      <4>1. open' \ first' = (open \ first) \cup {j}
        BY <1>1, <1>2, <2>2
      <4>2. Cardinality((open \ first) \cup {j}) =
              IF j \in open \ first THEN Cardinality(open \ first)
              ELSE Cardinality(open \ first) + 1
        BY <2>1, FS_AddElement
      <4> HIDE DEF IInv
      <4> QED
        BY <1>1, <4>1, <4>2
    <3>2. dispatched' = dispatched + 1 /\ exited' = exited
      BY <1>1, <1>3, <2>2
    <3> HIDE DEF IInv
    <3> QED
      BY <1>2, <2>0, <2>1, <2>2, <3>1, <3>2 DEF CountInv
  <2>3. CASE open' = open \ {j}
    <3>1. Cardinality(open') = Cardinality(open) - 1
      BY <1>1, <2>1, <2>3, FS_RemoveElement
    <3>2. Cardinality(open' \ first') =
            IF j \in first THEN Cardinality(open \ first) ELSE Cardinality(open \ first) - 1
      <4>1. open' \ first' = (open \ first) \ {j}
        BY <1>2, <2>3
      <4>2. Cardinality((open \ first) \ {j}) =
              IF j \in open \ first THEN Cardinality(open \ first) - 1
              ELSE Cardinality(open \ first)
        BY <2>1, FS_RemoveElement
      <4> HIDE DEF IInv
      <4> QED
        BY <1>1, <4>1, <4>2
    <3>3. dispatched' = dispatched /\ exited' = exited + 1
      BY <1>1, <1>3, <2>3
    <3> HIDE DEF IInv
    <3> QED
      BY <1>2, <2>0, <2>1, <3>1, <3>2, <3>3 DEF CountInv
  <2> QED
    BY <1>3, <2>2, <2>3
<1>7. TypeOK'
  <2>1. /\ open' \subseteq Workers /\ ready' \subseteq open' /\ first' \subseteq Workers
        /\ resp' \in [Workers -> Carried]
        /\ req' \in [Workers -> 0 .. 1]
    <3>1. open' \subseteq Workers /\ ready' \subseteq open' /\ first' \subseteq Workers
      BY <1>1, <1>2, <1>3 DEF TypeOK
    <3>2. req' \in [Workers -> 0 .. 1]
      <4>1. req \in [Workers -> 0 .. 1] /\ 0 \in 0 .. 1
        BY DEF TypeOK
      <4> QED
        BY <1>2, <4>1
    <3>3. resp' \in [Workers -> Carried]
      <4>1. <<i>> \in Carried
        BY <1>3 DEF Carried
      <4> QED
        BY <1>3, <4>1 DEF TypeOK
    <3> QED
      BY <3>1, <3>2, <3>3
  <2>2. Cardinality(open') \in Nat /\ Cardinality(open' \ first') \in Nat
    <3>1. IsFiniteSet(open') /\ IsFiniteSet(open' \ first')
      BY <2>1, FiniteWorkers, FS_Subset
    <3> QED
      BY <3>1, FS_CardinalityType
  <2>3. dispatched' \in 0 .. NumTests
    BY <1>3, TestbenchAssumption DEF TypeOK
  <2>4. passed' \in Nat /\ exited' \in Nat
    BY <1>2, <1>3 DEF TypeOK
  <2>5. passed' \in 0 .. NumTests /\ exited' \in 0 .. NumWorkers
    BY <1>2, <1>6, <2>2, <2>3, <2>4, TestbenchAssumption DEF CountInv, TypeOK
  <2> QED
    BY <1>2, <2>1, <2>3, <2>5 DEF TypeOK
<1>8. PhaseInv'
  BY <1>1, <1>2 DEF PhaseInv, Before
<1>9. WorkerInv'
  BY <1>1, <1>2, <1>3, <1>4, <1>5 DEF WorkerInv
<1>10. OpenInv'
  BY <1>1, <1>2, <1>3, <1>4, <1>5, TestbenchAssumption DEF OpenInv, Tests, Quit, TypeOK
<1>11. HeldInv'
  <2>1. \A k \in Workers, t \in Tests : resp[k] = <<t>> => t # dispatched
    BY TestbenchAssumption DEF HeldInv, Tests, TypeOK
  <2>2. \A k \in Workers, t \in Tests : resp'[k] = <<t>> =>
          IF k = j THEN t = dispatched /\ dispatched' = dispatched + 1
          ELSE resp[k] = <<t>>
    BY <1>3, <1>4, <1>5, TestbenchAssumption DEF Tests, Quit
  <2>3. \A t \in Tests : t < dispatched => t < dispatched'
    BY <1>3, TestbenchAssumption DEF Tests, TypeOK
  <2>4. dispatched < dispatched + 1 /\ \A t \in Tests : t = dispatched => outcome[t] = "todo"
    BY TestbenchAssumption DEF OutcomeInv, Tests, TypeOK
  <2>5. UNCHANGED <<outcome, worker, task>>
    BY <1>2
  <2>6. ASSUME NEW k \in Workers, NEW t \in Tests
        PROVE  resp'[k] = <<t>> => outcome'[t] = "todo" /\ t < dispatched'
    BY <2>2, <2>3, <2>4, <2>5 DEF HeldInv
  <2>7. ASSUME NEW k \in Workers, NEW l \in Workers \ {k}, NEW t \in Tests
        PROVE  ~(resp'[k] = <<t>> /\ resp'[l] = <<t>>)
    BY <2>1, <2>2 DEF HeldInv
  <2> QED
    BY <2>5, <2>6, <2>7 DEF HeldInv
<1>12. OutcomeInv'
  <2>1. \A t \in Tests, k \in Workers : resp[k] = <<t>> => resp'[k] = <<t>>
    BY <1>1, <1>4, OneElement
  <2>2. UNCHANGED <<outcome, worker, task, failed>>
    BY <1>2
  <2>3. CASE UNCHANGED dispatched
    BY <2>1, <2>2, <2>3 DEF OutcomeInv
  <2>4. CASE dispatched' = dispatched + 1 /\ resp'[j] = <<dispatched>>
    <3>1. \A t \in Tests : t >= dispatched' => t >= dispatched
      BY <2>4, TestbenchAssumption DEF Tests, TypeOK
    <3>2. \A t \in Tests : t < dispatched' => t < dispatched \/ t = dispatched
      BY <2>4, TestbenchAssumption DEF Tests, TypeOK
    <3>3. \A t \in Tests : t < dispatched' /\ outcome[t] = "todo" =>
                              \E k \in Workers : resp'[k] = <<t>>
      BY <2>1, <2>4, <3>2 DEF OutcomeInv
    <3> QED
      BY <2>2, <3>1, <3>3 DEF OutcomeInv
  <2> QED
    BY <1>3, <1>4, <2>3, <2>4
<1>13. FailureInv'
  BY <1>1, <1>2, <1>3 DEF FailureInv, With
<1> QED
  BY <1>6, <1>7, <1>8, <1>9, <1>10, <1>11, <1>12, <1>13

LEMMA RequestInv ==
  ASSUME IInv, NEW j \in Workers, Request(j)
  PROVE  IInv'
<1> USE DEF IInv, Request, parentVars
<1>1. TypeOK'
  <2>1. req[j] = 0
    BY DEF WorkerInv
  <2> QED
    BY <2>1 DEF TypeOK, Workers
<1>2. PhaseInv'
  BY DEF PhaseInv, Before
<1>3. WorkerInv'
  BY DEF TypeOK, WorkerInv
<1>4. OpenInv'
  BY DEF OpenInv
<1>5. HeldInv'
  <2>1. \A k \in Workers : worker[k] = "run" <=> worker'[k] = "run"
    BY DEF TypeOK, WorkerInv, PhaseInv, Workers
  <2> QED
    BY <2>1 DEF HeldInv
<1>6. OutcomeInv'
  <2>1. \A k \in Workers : worker[k] = "run" <=> worker'[k] = "run"
    BY DEF TypeOK, WorkerInv, PhaseInv, Workers
  <2>2. UNCHANGED <<outcome, dispatched, failed, task, resp>>
    OBVIOUS
  <2>3. OutcomeInv
    OBVIOUS
  <2> HIDE DEF IInv, Request
  <2> QED
    BY <2>1, <2>2, <2>3 DEF OutcomeInv
<1>7. FailureInv'
  BY DEF FailureInv, With
<1>8. CountInv'
  BY DEF CountInv
<1> QED
  BY <1>1, <1>2, <1>3, <1>4, <1>5, <1>6, <1>7, <1>8

LEMMA ReceiveInv ==
  ASSUME IInv, NEW j \in Workers, Receive(j)
  PROVE  IInv'
<1> USE DEF IInv
<1>1. worker[j] = "wait" /\ resp[j] # <<>> /\ req[j] = 0 /\ j \notin first
  BY DEF Receive, WorkerInv
<1>2. PICK i \in Tests \cup {Quit} : resp[j] = <<i>>
  BY <1>1 DEF TypeOK, Carried
<1>3. /\ resp' = [resp EXCEPT ![j] = <<>>]
      /\ UNCHANGED <<parentVars, req, hangs>>
      /\ i < 0 => worker' = [worker EXCEPT ![j] = "leave"] /\ UNCHANGED <<task, outcome>>
      /\ ~(i < 0) => /\ worker' = [worker EXCEPT ![j] = "run"]
                     /\ task' = [task EXCEPT ![j] = i]
                     /\ outcome' = [outcome EXCEPT ![i] = "running"]
  <2>1. Head(resp[j]) = i /\ Tail(resp[j]) = <<>>
    BY <1>2, OneElement
  <2> QED
    BY <2>1 DEF Receive
<1>0. \A k \in Workers : resp'[k] = IF k = j THEN <<>> ELSE resp[k]
  <2>1. resp \in [Workers -> Carried] /\ resp' = [resp EXCEPT ![j] = <<>>]
    BY <1>3 DEF TypeOK
  <2> HIDE DEF IInv
  <2> QED
    BY <2>1
<1>4. \A k \in Workers \ {j} : worker'[k] = worker[k] /\ resp'[k] = resp[k]
  BY <1>0, <1>3 DEF TypeOK
<1>5. resp'[j] = <<>>
  BY <1>0, <1>3
<1>6. \A t : resp[j] = <<t>> => t = i
  BY <1>2, OneElement
<1>7. \A t : resp'[j] # <<t>>
  BY <1>5, OneElement
<1>a. CASE i < 0
  <2>0. i = Quit /\ j \notin open
    BY <1>2, <1>a, TestbenchAssumption DEF Tests, OpenInv
  <2>00. worker'[j] = "leave"
    BY <1>3, <1>a DEF TypeOK
  <2>1. TypeOK'
    <3>1. <<>> \in Carried
      BY DEF Carried
    <3> QED
      BY <1>3, <1>a, <3>1 DEF TypeOK, parentVars
  <2>2. PhaseInv'
    BY <1>1, <1>3, <1>4, <1>a DEF PhaseInv, Before, TypeOK, Workers, parentVars
  <2>3. WorkerInv'
    BY <1>1, <1>3, <1>4, <1>5, <1>a, <2>00 DEF WorkerInv, parentVars
  <2>4. OpenInv'
    BY <1>1, <1>3, <1>4, <1>5, <1>7, <1>a, <2>0, <2>00 DEF OpenInv, parentVars
  <2>5. HeldInv'
    BY <1>1, <1>3, <1>4, <1>7, <1>a, <2>00 DEF HeldInv, parentVars
  <2>6. OutcomeInv'
    <3>1. \A t \in Tests, k \in Workers : resp[k] = <<t>> => k # j
      BY <1>6, <2>0, TestbenchAssumption DEF Tests, Quit
    <3>2. \A t \in Tests, k \in Workers : resp[k] = <<t>> => resp'[k] = <<t>>
      BY <1>4, <3>1
    <3>3. \A k \in Workers : worker[k] = "run" => worker'[k] = "run" /\ task'[k] = task[k]
      BY <1>1, <1>3, <1>4, <1>a
    <3>4. UNCHANGED <<outcome, dispatched, failed>>
      BY <1>3, <1>a DEF parentVars
    <3> HIDE DEF IInv
    <3> QED
      BY <3>2, <3>3, <3>4 DEF IInv, OutcomeInv
  <2>7. FailureInv'
    BY <1>1, <1>3, <1>4, <1>a, <2>00 DEF FailureInv, With, TypeOK, parentVars
  <2>8. CountInv'
    BY <1>3 DEF CountInv, parentVars
  <2> QED
    BY <2>1, <2>2, <2>3, <2>4, <2>5, <2>6, <2>7, <2>8
<1>b. CASE ~(i < 0)
  <2>0. i \in Tests /\ outcome[i] = "todo" /\ i < dispatched
    BY <1>2, <1>b DEF HeldInv, Quit
  <2>00. /\ worker'[j] = "run" /\ task'[j] = i /\ outcome'[i] = "running"
         /\ \A k \in Workers \ {j} : task'[k] = task[k]
         /\ \A t \in Tests \ {i} : outcome'[t] = outcome[t]
    BY <1>3, <1>b, <2>0 DEF TypeOK
  <2>1. TypeOK'
    <3>1. <<>> \in Carried
      BY DEF Carried
    <3> QED
      BY <1>3, <1>b, <2>0, <3>1 DEF TypeOK, parentVars
  <2>2. PhaseInv'
    BY <1>1, <1>3, <1>4, <1>b DEF PhaseInv, Before, TypeOK, Workers, parentVars
  <2>9. j \in open
    <3>1. i # Quit
      BY <2>0, TestbenchAssumption DEF Tests, Quit
    <3> QED
      BY <1>1, <1>2, <1>6, <3>1 DEF OpenInv
  <2>3. WorkerInv'
    BY <1>1, <1>3, <1>4, <1>5, <2>0, <2>00, <2>9 DEF WorkerInv, parentVars
  <2>4. OpenInv'
    BY <1>1, <1>3, <1>4, <1>5, <1>7, <2>00, <2>9 DEF OpenInv, parentVars
  <2>5. HeldInv'
    <3>1. \A k \in Workers \ {j} : resp[k] # <<i>>
      BY <1>2, <2>0 DEF HeldInv
    <3>2. \A k \in Workers : worker[k] = "run" => task[k] # i
      BY <2>0 DEF HeldInv
    <3>3. \A k \in Workers, t \in Tests :
            resp'[k] = <<t>> => resp[k] = <<t>> /\ t # i
      BY <1>4, <1>7, <3>1
    <3>4. \A k \in Workers, t \in Tests :
            worker'[k] = "run" /\ task'[k] = t =>
              \/ k = j /\ t = i
              \/ k # j /\ worker[k] = "run" /\ task[k] = t /\ t # i
      BY <1>4, <2>00, <3>2
    <3>5. dispatched' = dispatched
      BY <1>3 DEF parentVars
    <3>6. HeldInv
      OBVIOUS
    <3> HIDE DEF IInv
    <3> QED
      BY <2>00, <3>3, <3>4, <3>5, <3>6 DEF HeldInv
  <2>6. OutcomeInv'
    <3>1. \A t \in Tests \ {i}, k \in Workers : resp[k] = <<t>> => k # j
      BY <1>6
    <3>2. \A t \in Tests \ {i}, k \in Workers : resp[k] = <<t>> => resp'[k] = <<t>>
      BY <1>4, <3>1
    <3>3. \A k \in Workers : worker[k] = "run" => worker'[k] = "run" /\ task'[k] = task[k]
      BY <1>1, <1>4, <2>00
    <3>4. UNCHANGED <<dispatched, failed>> /\ ~(i >= dispatched)
      BY <1>3, <2>0, TestbenchAssumption DEF parentVars, Tests, TypeOK
    <3> QED
      BY <2>0, <2>00, <3>2, <3>3, <3>4 DEF OutcomeInv
  <2>7. FailureInv'
    BY <1>1, <1>3, <1>4, <2>0, <2>00 DEF FailureInv, With, TypeOK, parentVars
  <2>8. CountInv'
    BY <1>3 DEF CountInv, parentVars
  <2> QED
    BY <2>1, <2>2, <2>3, <2>4, <2>5, <2>6, <2>7, <2>8
<1> QED
  BY <1>a, <1>b

LEMMA ReceiveEOFInv ==
  ASSUME IInv, NEW j \in Workers, ReceiveEOF(j)
  PROVE  IInv'
<1> USE DEF IInv, ReceiveEOF, Alive, parentVars
<1>1. TypeOK'
  BY DEF TypeOK
<1>2. PhaseInv'
  BY DEF PhaseInv, Before
<1>3. WorkerInv'
  BY DEF PhaseInv, WorkerInv, OpenInv, Before
<1>4. OpenInv'
  BY DEF PhaseInv, OpenInv, Before
<1>5. HeldInv'
  <2>1. \A k \in Workers : worker[k] = "run" <=> worker'[k] = "run"
    BY DEF TypeOK, WorkerInv, PhaseInv, Workers
  <2> QED
    BY <2>1 DEF HeldInv
<1>6. OutcomeInv'
  <2>1. \A k \in Workers : worker[k] = "run" <=> worker'[k] = "run"
    BY DEF TypeOK, WorkerInv, PhaseInv, Workers
  <2>2. UNCHANGED <<outcome, dispatched, failed, task, resp>>
    OBVIOUS
  <2>3. OutcomeInv
    OBVIOUS
  <2> HIDE DEF IInv, ReceiveEOF
  <2> QED
    BY <2>1, <2>2, <2>3 DEF OutcomeInv
<1>7. FailureInv'
  BY DEF FailureInv, With
<1>8. CountInv'
  BY DEF CountInv
<1> QED
  BY <1>1, <1>2, <1>3, <1>4, <1>5, <1>6, <1>7, <1>8

LEMMA RunTestInv ==
  ASSUME IInv, NEW j \in Workers, RunTest(j)
  PROVE  IInv'
<1> USE DEF IInv
<1>a. /\ worker[j] = "run" /\ req[j] = 0 /\ resp[j] = <<>> /\ j \in open /\ j \notin first
      /\ task[j] \in Tests /\ outcome[task[j]] = "running"
  BY DEF RunTest, WorkerInv, HeldInv
<1>b. /\ \A k \in Workers \ {j} : worker'[k] = worker[k] /\ task'[k] = task[k]
      /\ \A t \in Tests \ {task[j]} : outcome'[t] = outcome[t]
      /\ \/ worker'[j] = "ask" /\ outcome'[task[j]] = "passed"
         \/ worker'[j] = "dead" /\ outcome'[task[j]] = "failed"
  BY <1>a DEF RunTest, AfterFailure, TypeOK
<1>c. UNCHANGED <<parentVars, req, resp, hangs>>
  BY DEF RunTest
<1>1. TypeOK'
  BY <1>a, <1>c DEF RunTest, AfterFailure, TypeOK, Quit, parentVars
<1>2. PhaseInv'
  BY <1>a, <1>b, <1>c DEF PhaseInv, Before, TypeOK, Workers, parentVars
<1>3. WorkerInv'
  BY <1>a, <1>b, <1>c DEF WorkerInv, parentVars
<1>4. OpenInv'
  BY <1>a, <1>b, <1>c, OneElement DEF OpenInv, parentVars
<1>5. HeldInv'
  <2>1. \A k \in Workers, t \in Tests : resp[k] = <<t>> => t # task[j]
    BY <1>a DEF HeldInv
  <2>2. \A k \in Workers \ {j} : worker[k] = "run" => task[k] # task[j]
    BY <1>a DEF HeldInv
  <2> QED
    BY <1>a, <1>b, <1>c, <2>1, <2>2 DEF HeldInv, parentVars
<1>6. OutcomeInv'
  <2>1. UNCHANGED <<dispatched, failed, resp>>
    BY <1>c DEF parentVars
  <2>2. \A t \in Tests \ {task[j]}, k \in Workers :
          worker[k] = "run" /\ task[k] = t => worker'[k] = "run" /\ task'[k] = t
    BY <1>b
  <2>3. outcome'[task[j]] \in {"passed", "failed"} /\ ~(task[j] >= dispatched)
    BY <1>a, <1>b DEF OutcomeInv
  <2> QED
    BY <1>b, <2>1, <2>2, <2>3 DEF OutcomeInv
<1>7. FailureInv'
  <2>1. CASE worker'[j] = "ask" /\ outcome'[task[j]] = "passed"
    <3>1. With("failed")' = With("failed")
      BY <1>a, <1>b, <2>1 DEF With
    <3>2. \A k \in open : worker'[k] = "dead" <=> worker[k] = "dead"
      BY <1>a, <1>b, <2>1 DEF TypeOK
    <3> QED
      BY <1>c, <3>1, <3>2 DEF FailureInv, parentVars
  <2>2. CASE worker'[j] = "dead" /\ outcome'[task[j]] = "failed"
    BY <1>a, <1>c, <2>2 DEF FailureInv, With, parentVars
  <2> QED
    BY <1>b, <2>1, <2>2
<1>8. CountInv'
  BY <1>c DEF CountInv, parentVars
<1> QED
  BY <1>1, <1>2, <1>3, <1>4, <1>5, <1>6, <1>7, <1>8

LEMMA ExitInv ==
  ASSUME IInv, NEW j \in Workers, Exit(j)
  PROVE  IInv'
<1> USE DEF IInv, Exit, parentVars
<1>1. TypeOK'
  BY DEF TypeOK
<1>2. PhaseInv'
  BY DEF PhaseInv, Before
<1>3. WorkerInv'
  BY DEF WorkerInv
<1>4. OpenInv'
  BY DEF OpenInv
<1>5. HeldInv'
  <2>1. \A k \in Workers : worker[k] = "run" <=> worker'[k] = "run"
    BY DEF TypeOK, WorkerInv, PhaseInv, Workers
  <2> QED
    BY <2>1 DEF HeldInv
<1>6. OutcomeInv'
  <2>1. \A k \in Workers : worker[k] = "run" <=> worker'[k] = "run"
    BY DEF TypeOK, WorkerInv, PhaseInv, Workers
  <2>2. UNCHANGED <<outcome, dispatched, failed, task, resp>>
    OBVIOUS
  <2>3. OutcomeInv
    OBVIOUS
  <2> HIDE DEF IInv, Exit
  <2> QED
    BY <2>1, <2>2, <2>3 DEF OutcomeInv
<1>7. FailureInv'
  BY DEF OpenInv, FailureInv, With
<1>8. CountInv'
  BY DEF CountInv
<1> QED
  BY <1>1, <1>2, <1>3, <1>4, <1>5, <1>6, <1>7, <1>8

LEMMA InitInv == Init => IInv
<1> SUFFICES ASSUME Init PROVE IInv
  OBVIOUS
<1> USE TestbenchAssumption DEF Init, Workers, Tests, Quit
<1>1. TypeOK
  <2>1. <<>> \in Carried
    BY DEF Carried
  <2>2. resp \in [Workers -> Carried]
    BY <2>1
  <2>3. /\ spawned \in 0 .. NumWorkers /\ reaped \in 0 .. NumWorkers
        /\ dispatched \in 0 .. NumTests /\ exited \in 0 .. NumWorkers
        /\ passed \in 0 .. NumTests
    OBVIOUS
  <2>4. /\ worker \in [Workers -> {"unborn", "ask", "wait", "run", "leave", "dead"}]
        /\ task \in [Workers -> Tests \cup {Quit}] /\ req \in [Workers -> 0 .. 1]
        /\ outcome \in [Tests -> {"todo", "running", "passed", "failed", "killed"}]
    OBVIOUS
  <2> HIDE DEF Workers, Tests
  <2> QED
    BY <2>2, <2>3, <2>4 DEF TypeOK
<1>2. PhaseInv /\ WorkerInv /\ OpenInv
  BY OneElement DEF PhaseInv, Before, WorkerInv, OpenInv
<1>3. HeldInv /\ OutcomeInv /\ FailureInv
  BY OneElement DEF HeldInv, OutcomeInv, FailureInv, With
<1>4. CountInv
  <2>1. open = {} /\ open \ first = {}
    OBVIOUS
  <2> QED
    BY <2>1, FS_EmptySet DEF CountInv
<1> QED
  BY <1>1, <1>2, <1>3, <1>4 DEF IInv

LEMMA StutterInv == IInv /\ UNCHANGED vars => IInv'
<1> SUFFICES ASSUME IInv, UNCHANGED vars PROVE IInv'
  OBVIOUS
<1> USE DEF vars, parentVars, workerVars
<1>1. TypeOK' /\ PhaseInv' /\ WorkerInv' /\ OpenInv'
  BY DEF IInv, TypeOK, PhaseInv, Before, WorkerInv, OpenInv
<1>2. HeldInv' /\ OutcomeInv'
  BY DEF IInv, HeldInv, OutcomeInv
<1>3. FailureInv' /\ CountInv'
  BY DEF IInv, FailureInv, With, CountInv
<1> QED
  BY <1>1, <1>2, <1>3 DEF IInv

LEMMA NextInv == IInv /\ Next => IInv'
<1> SUFFICES ASSUME IInv, Next PROVE IInv'
  OBVIOUS
<1>1. CASE ParentStep
  BY <1>1, SpawnInv, SelectInv, AllExitedInv, CloseAllInv, KillInv, ReapInv,
     HandleEOFInv, HandleRequestInv DEF ParentStep
<1>2. CASE \E j \in Workers : WorkerStep(j)
  BY <1>2, RequestInv, ReceiveInv, ReceiveEOFInv, RunTestInv, ExitInv DEF WorkerStep
<1> QED
  BY <1>1, <1>2 DEF Next

-----------------------------------------------------------------------------
\* The inductive invariant holds in every reachable state of the runner.
THEOREM Invariant == Spec => []IInv
  BY InitInv, NextInv, StutterInv, PTL DEF Spec

\* Every variable of the runner has its type in every reachable state.
THEOREM TypeCorrect == Spec => []TypeOK
<1>1. IInv => TypeOK
  BY DEF IInv
<1> QED
  BY <1>1, Invariant, PTL

\* For every number of workers and tests the verdict read from the pipes is the
\* truth: a failure is reported if and only if a test failed, and otherwise all
\* tests have passed and are counted.
THEOREM VerdictCorrect == Spec => []VerdictIsRight
<1>1. IInv => VerdictIsRight
  <2> SUFFICES ASSUME IInv, parent = "done"
               PROVE  /\ failed <=> With("failed") # {}
                      /\ ~failed => passed = NumTests /\ With("passed") = Tests
    BY DEF VerdictIsRight
  <2> USE DEF IInv
  <2>1. ~failed => open = {}
    BY DEF PhaseInv, Before
  <2>2. failed <=> With("failed") # {}
    BY <2>1 DEF FailureInv
  <2>3. ASSUME ~failed
        PROVE  passed = NumTests /\ With("passed") = Tests
    <3>1. open = {} /\ open \ first = {} /\ spawned = NumWorkers
      BY <2>1, <2>3 DEF PhaseInv
    <3>2. \A j \in Workers : worker[j] # "unborn" /\ worker[j] # "run"
      BY <3>1, TestbenchAssumption DEF WorkerInv, Workers
    <3>3. dispatched = NumTests
      <4>1. 1 \in Workers
        BY TestbenchAssumption DEF Workers
      <4> QED
        BY <3>1, <3>2, <4>1 DEF OpenInv
    <3>4. passed = NumTests
      BY <3>1, <3>3, FS_EmptySet DEF CountInv, TypeOK
    <3>5. \A j \in Workers, t \in Tests : resp[j] # <<t>>
      <4>1. \A j \in Workers : resp[j] # <<>> => resp[j] = <<Quit>>
        BY <3>1 DEF OpenInv
      <4>2. \A t \in Tests : <<t>> # <<Quit>> /\ <<t>> # <<>>
        <5>1. Quit \notin Tests
          BY TestbenchAssumption DEF Tests, Quit
        <5> QED
          BY <5>1, OneElement
      <4> QED
        BY <4>1, <4>2
    <3>6. ASSUME NEW t \in Tests PROVE outcome[t] = "passed"
      <4>1. t < dispatched
        BY <3>3, TestbenchAssumption DEF Tests
      <4>2. outcome[t] \notin {"todo", "running", "killed"}
        BY <2>3, <3>2, <3>5, <4>1 DEF OutcomeInv
      <4>3. outcome[t] # "failed"
        BY <2>2, <2>3 DEF With
      <4> QED
        BY <4>2, <4>3 DEF TypeOK
    <3> QED
      BY <3>4, <3>6 DEF With
  <2> QED
    BY <2>2, <2>3
<1> QED
  BY <1>1, Invariant, PTL

\* When the runner is done every worker has exited or been killed, and waited for.
THEOREM AllReaped == Spec => []NoProcessLeft
<1>1. IInv => NoProcessLeft
  BY TestbenchAssumption DEF IInv, PhaseInv, NoProcessLeft, Workers
<1> QED
  BY <1>1, Invariant, PTL

\* No test is started twice, by any worker.
THEOREM NeverStartedTwice == Spec => StartedOnce
<1> DEFINE A == \A t \in Tests : outcome'[t] = "running" => outcome[t] \in {"todo", "running"}
<1>1. IInv /\ [Next]_vars => [A]_vars
  <2> SUFFICES ASSUME IInv, Next PROVE A
    OBVIOUS
  <2> USE DEF IInv
  <2>1. CASE UNCHANGED outcome
    BY <2>1 DEF A
  <2>2. CASE Kill
    BY <2>2, TestbenchAssumption
    DEF Kill, Killed, Awaited, TypeOK, PhaseInv, WorkerInv, Workers, A
  <2>3. ASSUME NEW j \in Workers, Receive(j) PROVE A
    <3>1. PICK i \in Tests \cup {Quit} : resp[j] = <<i>> /\ Head(resp[j]) = i
      BY <2>3, OneElement DEF Receive, TypeOK, Carried
    <3>2. CASE i < 0
      BY <2>3, <3>1, <3>2 DEF Receive, A
    <3>3. CASE ~(i < 0)
      <4>1. i \in Tests /\ outcome[i] = "todo"
        BY <3>1, <3>3 DEF Quit, HeldInv
      <4> QED
        BY <2>3, <3>1, <3>3, <4>1 DEF Receive, A, TypeOK
    <3> QED
      BY <3>2, <3>3
  <2>4. ASSUME NEW j \in Workers, RunTest(j) PROVE A
    BY <2>4 DEF RunTest, A, TypeOK, WorkerInv
  <2> QED
    BY <2>1, <2>2, <2>3, <2>4
    DEF Next, ParentStep, WorkerStep, Spawn, Select, AllExited, CloseAll, Reap,
        HandleEOF, HandleRequest, Request, ReceiveEOF, Exit, workerVars
<1> QED
  BY <1>1, Invariant, PTL DEF Spec, StartedOnce
-----------------------------------------------------------------------------
(* The count.  A test that failed or was killed took a worker with it that *)
(* the parent still has down as running a test; so each test dispatched    *)
(* and not passed has a worker of its own among those.                     *)

Gone == With("failed") \cup With("killed")
Lost == {j \in open \ first : worker[j] = "dead" /\ resp[j] = <<>>}
LostInv == Cardinality(Gone) <= Cardinality(Lost)

LEMMA FiniteTests == IsFiniteSet(Tests)
  BY TestbenchAssumption, FS_Interval DEF Tests

LEMMA SizesAreNat ==
  ASSUME NEW g \in SUBSET Tests, NEW l \in SUBSET Workers
  PROVE  /\ IsFiniteSet(g) /\ Cardinality(g) \in Nat
         /\ IsFiniteSet(l) /\ Cardinality(l) \in Nat
<1>1. IsFiniteSet(g) /\ IsFiniteSet(l)
  BY FiniteTests, FiniteWorkers, FS_Subset
<1> QED
  BY <1>1, FS_CardinalityType

LEMMA GoneAndLost ==
  /\ Gone \subseteq Tests /\ Gone' \subseteq Tests
  /\ IInv => Lost \subseteq Workers
  /\ IInv' => Lost' \subseteq Workers
<1>1. Gone \subseteq Tests /\ Gone' \subseteq Tests
  BY DEF Gone, With, Tests
<1>2. IInv => Lost \subseteq Workers
  BY DEF Lost, IInv, TypeOK
<1>3. IInv' => Lost' \subseteq Workers
  BY DEF Lost, IInv, TypeOK, Workers
<1> QED
  BY <1>1, <1>2, <1>3

LEMMA Disjoint ==
  ASSUME NEW S, NEW T, IsFiniteSet(S), IsFiniteSet(T), S \cap T = {}
  PROVE  Cardinality(S \cup T) = Cardinality(S) + Cardinality(T)
<1>1. Cardinality(S \cap T) = 0
  BY FS_EmptySet
<1>2. Cardinality(S) \in Nat /\ Cardinality(T) \in Nat
  BY FS_CardinalityType
<1>3. Cardinality(S \cup T) = Cardinality(S) + Cardinality(T) - Cardinality(S \cap T)
  BY FS_Union
<1> QED
  BY <1>1, <1>2, <1>3

\* A step that loses no test,
LEMMA NoneLost ==
  ASSUME IInv, IInv', LostInv, Gone' \subseteq Gone, Lost \subseteq Lost'
  PROVE  LostInv'
<1>1. /\ IsFiniteSet(Gone) /\ Cardinality(Gone) \in Nat /\ Cardinality(Lost) \in Nat
      /\ IsFiniteSet(Lost') /\ Cardinality(Lost') \in Nat /\ Cardinality(Gone') \in Nat
  BY GoneAndLost, SizesAreNat
<1>2. Cardinality(Gone') <= Cardinality(Gone) /\ Cardinality(Lost) <= Cardinality(Lost')
  BY <1>1, FS_Subset
<1> QED
  BY <1>1, <1>2 DEF LostInv

\* or one, and its worker with it.
LEMMA OneLost ==
  ASSUME IInv, IInv', LostInv, NEW t, NEW j,
         Gone' = Gone \cup {t}, Lost' = Lost \cup {j}, j \notin Lost
  PROVE  LostInv'
<1>1. /\ IsFiniteSet(Gone) /\ Cardinality(Gone) \in Nat
      /\ IsFiniteSet(Lost) /\ Cardinality(Lost) \in Nat
  BY GoneAndLost, SizesAreNat
<1>2. /\ Cardinality(Gone') <= Cardinality(Gone) + 1
      /\ Cardinality(Lost') = Cardinality(Lost) + 1
  <2>1. Cardinality(Gone \cup {t}) = IF t \in Gone THEN Cardinality(Gone) ELSE Cardinality(Gone) + 1
    BY <1>1, FS_AddElement
  <2>2. Cardinality(Lost \cup {j}) = Cardinality(Lost) + 1
    BY <1>1, FS_AddElement
  <2> QED
    BY <1>1, <2>1, <2>2
<1>3. Cardinality(Gone') \in Nat
  BY GoneAndLost, SizesAreNat
<1> QED
  BY <1>1, <1>2, <1>3 DEF LostInv

LEMMA KillLost ==
  ASSUME IInv, IInv', LostInv, Kill
  PROVE  LostInv'
<1> USE DEF IInv
<1> DEFINE j == Awaited
<1>1. j \in Workers
  BY TestbenchAssumption DEF PhaseInv, TypeOK, Workers, Kill, Awaited
<1>2. /\ worker' = [worker EXCEPT ![j] = "dead"] /\ worker[j] # "dead"
      /\ UNCHANGED <<open, first, resp, task>>
      /\ outcome' = Killed(j, outcome)
  BY DEF Kill, MayKill, Alive, parentVars, Awaited
<1>3. /\ worker'[j] = "dead"
      /\ \A k \in Workers : k # j => worker'[k] = worker[k]
  BY <1>1, <1>2 DEF TypeOK
<1>4. CASE worker[j] = "run"
  <2>1. task[j] \in Tests /\ j \in open /\ j \notin first /\ resp[j] = <<>>
    BY <1>1, <1>4 DEF WorkerInv
  <2>2. outcome' = [outcome EXCEPT ![task[j]] = "killed"]
    BY <1>2, <1>4 DEF Killed
  <2>3. outcome[task[j]] = "running"
    BY <1>1, <1>4, <2>1 DEF HeldInv
  <2>4. Gone' = Gone \cup {task[j]}
    BY <2>1, <2>2, <2>3 DEF Gone, With, TypeOK
  <2>5. Lost' = Lost \cup {j} /\ j \notin Lost
    BY <1>1, <1>2, <1>3, <2>1 DEF Lost, TypeOK
  <2> QED
    BY <2>4, <2>5, OneLost
<1>5. CASE worker[j] # "run"
  <2>1. Gone' \subseteq Gone
    BY <1>2, <1>5 DEF Killed, Gone, With
  <2>2. Lost \subseteq Lost'
    BY <1>2, <1>3 DEF Lost, TypeOK
  <2> QED
    BY <2>1, <2>2, NoneLost
<1> QED
  BY <1>4, <1>5

LEMMA RunTestLost ==
  ASSUME IInv, IInv', LostInv, NEW j \in Workers, RunTest(j)
  PROVE  LostInv'
<1> USE DEF IInv
<1>1. /\ task[j] \in Tests /\ j \in open /\ j \notin first /\ resp[j] = <<>>
      /\ worker[j] = "run" /\ UNCHANGED <<open, first, resp>>
  BY DEF WorkerInv, RunTest, parentVars
<1>2. outcome[task[j]] = "running"
  BY <1>1 DEF HeldInv
<1>3. CASE /\ worker' = [worker EXCEPT ![j] = "ask"]
           /\ outcome' = [outcome EXCEPT ![task[j]] = "passed"]
  <2>1. Gone' \subseteq Gone
    BY <1>1, <1>3 DEF Gone, With, TypeOK
  <2>2. Lost \subseteq Lost'
    BY <1>1, <1>3 DEF Lost, TypeOK
  <2> QED
    BY <2>1, <2>2, NoneLost
<1>4. CASE /\ worker' = [worker EXCEPT ![j] = AfterFailure]
           /\ outcome' = [outcome EXCEPT ![task[j]] = "failed"]
  <2>1. Gone' = Gone \cup {task[j]}
    BY <1>1, <1>2, <1>4 DEF Gone, With, TypeOK
  <2>2. worker'[j] = "dead" /\ \A k \in Workers : k # j => worker'[k] = worker[k]
    BY <1>4 DEF AfterFailure, TypeOK
  <2>3. Lost' = Lost \cup {j} /\ j \notin Lost
    BY <1>1, <2>2 DEF Lost, TypeOK
  <2> QED
    BY <2>1, <2>3, OneLost
<1> QED
  BY <1>3, <1>4 DEF RunTest

LEMMA HandleRequestLost ==
  ASSUME IInv, IInv', LostInv, NEW j \in Workers, HandleRequest(j)
  PROVE  LostInv'
<1> USE DEF IInv
<1>1. worker[j] # "dead"
  BY DEF HandleRequest, IsNext, PhaseInv, Before, WorkerInv, TypeOK
<1>2. /\ UNCHANGED <<worker, outcome>> /\ first' \subseteq first
      /\ open \ {j} \subseteq open'
      /\ \A k \in Workers : k # j => resp'[k] = resp[k]
  BY DEF HandleRequest, Dispatch, Dismiss, TypeOK
<1>3. Gone' \subseteq Gone
  BY <1>2 DEF Gone, With
<1>4. Lost \subseteq Lost'
  BY <1>1, <1>2 DEF Lost, TypeOK
<1> QED
  BY <1>3, <1>4, NoneLost

LEMMA ReceiveLost ==
  ASSUME IInv, IInv', LostInv, NEW j \in Workers, Receive(j)
  PROVE  LostInv'
<1> USE DEF IInv
<1>1. /\ worker[j] = "wait" /\ UNCHANGED <<open, first>>
      /\ \A k \in Workers : k # j => worker'[k] = worker[k] /\ resp'[k] = resp[k]
  BY DEF Receive, parentVars, TypeOK
<1>2. Lost \subseteq Lost'
  BY <1>1 DEF Lost, TypeOK
<1>3. Gone' \subseteq Gone
  BY DEF Receive, Gone, With, TypeOK
<1> QED
  BY <1>2, <1>3, NoneLost

\* The other actions leave the outcomes, the pipes to the workers and the dead alone.
LEMMA QuietLost ==
  ASSUME IInv, IInv', LostInv, UNCHANGED <<outcome, resp, first>>, open \subseteq open',
         \A k \in Workers : worker[k] = "dead" => worker'[k] = "dead"
  PROVE  LostInv'
<1>1. Gone' \subseteq Gone
  BY DEF Gone, With
<1>2. Lost \subseteq Lost'
  BY DEF Lost, IInv, TypeOK
<1> QED
  BY <1>1, <1>2, NoneLost

LEMMA LostStep == IInv /\ IInv' /\ LostInv /\ [Next]_vars => LostInv'
<1> SUFFICES ASSUME IInv, IInv', LostInv, [Next]_vars PROVE LostInv'
  OBVIOUS
<1>1. CASE Spawn
  <2>1. worker[spawned + 1] = "unborn"
    BY <1>1, TestbenchAssumption DEF IInv, TypeOK, PhaseInv, WorkerInv, Workers, Spawn
  <2> QED
    BY <1>1, <2>1, QuietLost DEF Spawn, IInv, TypeOK
<1>2. CASE Select \/ AllExited \/ CloseAll \/ Reap
  BY <1>2, QuietLost DEF Select, AllExited, CloseAll, Reap, workerVars
<1>3. ASSUME NEW j \in Workers, HandleEOF(j) PROVE LostInv'
  BY <1>3, QuietLost DEF HandleEOF, workerVars
<1>4. ASSUME NEW j \in Workers, Request(j) \/ ReceiveEOF(j) \/ Exit(j) PROVE LostInv'
  BY <1>4, QuietLost DEF Request, ReceiveEOF, Exit, parentVars, IInv, TypeOK
<1>5. CASE UNCHANGED vars
  BY <1>5, QuietLost DEF vars, parentVars, workerVars
<1> QED
  BY <1>1, <1>2, <1>3, <1>4, <1>5, KillLost, RunTestLost, HandleRequestLost, ReceiveLost
  DEF Next, ParentStep, WorkerStep

LEMMA LostInit == Init => LostInv
<1> SUFFICES ASSUME Init PROVE LostInv
  OBVIOUS
<1>1. Gone = {} /\ Lost = {}
  BY DEF Init, Gone, Lost, With
<1> QED
  BY <1>1, FS_EmptySet DEF LostInv

\* The tests dispatched that have not passed.
Pending == {t \in Tests : t < dispatched /\ outcome[t] # "passed"}
Busy    == {j \in open \ first : worker[j] = "run" \/ resp[j] # <<>>}

LEMMA PendingHaveWorkers ==
  ASSUME IInv, LostInv
  PROVE  Cardinality(Pending) <= Cardinality(open \ first)
<1> USE DEF IInv
<1> DEFINE Held == Pending \ Gone
           f == [j \in Busy |-> IF worker[j] = "run" THEN task[j] ELSE Head(resp[j])]
           g == [j \in {k \in Busy : f[k] \in Held} |-> f[j]]
           S == DOMAIN g
<1>1. \A t \in Held : \E j \in Busy : f[j] = t
  <2> SUFFICES ASSUME NEW t \in Held PROVE \E j \in Busy : f[j] = t
    OBVIOUS
  <2>1. t \in Tests /\ t < dispatched /\ outcome[t] \in {"todo", "running"}
    BY DEF Pending, Gone, With, TypeOK
  <2>2. CASE outcome[t] = "todo"
    <3>1. PICK j \in Workers : resp[j] = <<t>>
      BY <2>1, <2>2 DEF OutcomeInv
    <3>2. t # Quit
      BY <2>1, TestbenchAssumption DEF Tests, Quit
    <3>3. resp[j] # <<>> /\ resp[j] # <<Quit>> /\ Head(resp[j]) = t
      BY <3>1, <3>2, OneElement
    <3>4. j \in open \ first /\ worker[j] # "run"
      BY <3>3 DEF OpenInv, WorkerInv
    <3> QED
      BY <3>3, <3>4 DEF Busy
  <2>3. CASE outcome[t] = "running"
    <3>1. PICK j \in Workers : worker[j] = "run" /\ task[j] = t
      BY <2>1, <2>3 DEF OutcomeInv
    <3>2. j \in open \ first
      BY <3>1 DEF WorkerInv
    <3> QED
      BY <3>1, <3>2 DEF Busy
  <2> QED
    BY <2>1, <2>2, <2>3
<1>2. S \subseteq Busy /\ \A t \in Held : \E j \in S : g[j] = t
  BY <1>1
<1>3. g \in Surjection(S, Held)
  BY <1>2 DEF Surjection
<1>4. /\ Busy \cap Lost = {} /\ Busy \cup Lost \subseteq open \ first
      /\ open \ first \subseteq Workers
  BY DEF Busy, Lost, TypeOK, WorkerInv
<1>5. /\ IsFiniteSet(S) /\ Cardinality(S) \in Nat
      /\ IsFiniteSet(Busy) /\ Cardinality(Busy) \in Nat
      /\ IsFiniteSet(Lost) /\ Cardinality(Lost) \in Nat
      /\ IsFiniteSet(open \ first) /\ Cardinality(open \ first) \in Nat
      /\ IsFiniteSet(Busy \cup Lost) /\ Cardinality(Busy \cup Lost) \in Nat
      /\ IsFiniteSet(Held) /\ Cardinality(Held) \in Nat
      /\ IsFiniteSet(Gone) /\ Cardinality(Gone) \in Nat
      /\ IsFiniteSet(Pending) /\ Cardinality(Pending) \in Nat
  <2>1. S \in SUBSET Workers /\ Busy \in SUBSET Workers /\ Lost \in SUBSET Workers
        /\ open \ first \in SUBSET Workers /\ Busy \cup Lost \in SUBSET Workers
    BY <1>2, <1>4
  <2>2. Held \in SUBSET Tests /\ Gone \in SUBSET Tests /\ Pending \in SUBSET Tests
    BY DEF Pending, Gone, With
  <2> HIDE DEF S, Held
  <2> QED
    BY <2>1, <2>2, SizesAreNat
<1>6. Cardinality(Held) <= Cardinality(Busy)
  <2> HIDE DEF S, Held, g
  <2>1. Cardinality(Held) <= Cardinality(S)
    BY <1>3, <1>5, FS_Surjection
  <2>2. Cardinality(S) <= Cardinality(Busy)
    BY <1>2, <1>5, FS_Subset
  <2> QED
    BY <1>5, <2>1, <2>2
<1>7. Cardinality(Busy) + Cardinality(Lost) <= Cardinality(open \ first)
  <2>1. Cardinality(Busy \cup Lost) = Cardinality(Busy) + Cardinality(Lost)
    BY <1>4, <1>5, Disjoint
  <2>2. Cardinality(Busy \cup Lost) <= Cardinality(open \ first)
    BY <1>4, <1>5, FS_Subset
  <2> QED
    BY <2>1, <2>2
<1>8. Cardinality(Pending) <= Cardinality(Held) + Cardinality(Gone)
  <2>1. Pending \subseteq Held \cup Gone
    OBVIOUS
  <2> HIDE DEF Held
  <2>2. /\ IsFiniteSet(Held \cup Gone)
        /\ Cardinality(Held \cup Gone) =
             Cardinality(Held) + Cardinality(Gone) - Cardinality(Held \cap Gone)
    BY <1>5, FS_Union
  <2>3. Cardinality(Held \cap Gone) \in Nat
    BY <1>5, FS_Subset, FS_CardinalityType
  <2>4. Cardinality(Pending) <= Cardinality(Held \cup Gone)
    BY <2>1, <2>2, FS_Subset
  <2>5. Cardinality(Held \cup Gone) \in Nat
    BY <2>2, FS_CardinalityType
  <2> QED
    BY <1>5, <2>2, <2>3, <2>4, <2>5
<1> QED
  BY <1>5, <1>6, <1>7, <1>8 DEF LostInv

LEMMA CountIsSound ==
  ASSUME IInv, LostInv
  PROVE  PassedIsSound
<1> USE DEF IInv
<1>1. With("passed") \subseteq 0 .. dispatched - 1 /\ dispatched \in Nat
  <2>1. \A t \in With("passed") : t \in Nat /\ ~(t >= dispatched)
    BY TestbenchAssumption DEF With, OutcomeInv, Tests
  <2>2. dispatched \in Nat
    BY DEF TypeOK
  <2> QED
    BY <2>1, <2>2
<1>2. Pending = (0 .. dispatched - 1) \ With("passed")
  <2>1. 0 .. dispatched - 1 = {t \in Tests : t < dispatched}
    BY TestbenchAssumption DEF TypeOK, Tests
  <2> QED
    BY <2>1 DEF Pending, With
<1>3. IsFiniteSet(0 .. dispatched - 1) /\ Cardinality(0 .. dispatched - 1) = dispatched
  BY <1>1, FS_Interval
<1>4. /\ IsFiniteSet(With("passed")) /\ Cardinality(With("passed")) \in Nat
      /\ IsFiniteSet(Pending) /\ Cardinality(Pending) \in Nat
  BY <1>1, <1>2, <1>3, FS_Subset, FS_CardinalityType
<1>5. dispatched = Cardinality(With("passed")) + Cardinality(Pending)
  <2>1. /\ With("passed") \cup Pending = 0 .. dispatched - 1
        /\ With("passed") \cap Pending = {}
    BY <1>1, <1>2
  <2> QED
    BY <1>3, <1>4, <2>1, Disjoint
<1>6. /\ dispatched = passed + Cardinality(open \ first) /\ passed \in Nat
      /\ Cardinality(open \ first) \in Nat /\ Cardinality(open \ first) <= NumWorkers
  <2>1. open \subseteq Workers
    BY DEF TypeOK
  <2>2. Cardinality(open \ first) <= Cardinality(Workers)
    BY <2>1, FiniteWorkers, FS_Subset
  <2> QED
    BY <2>1, <2>2, FiniteWorkers, FiniteOpen DEF CountInv, TypeOK
<1>7. Cardinality(Pending) <= Cardinality(open \ first)
  BY PendingHaveWorkers
<1> QED
  BY <1>1, <1>4, <1>5, <1>6, <1>7, TestbenchAssumption DEF PassedIsSound

\* For every number of workers and tests the runner counts no test that has not
\* passed, and misses at most the last test of each worker.
THEOREM CountCorrect == Spec => []PassedIsSound
<1>1. IInv /\ IInv' /\ LostInv /\ [Next]_vars => LostInv'
  BY LostStep
<1>2. IInv /\ LostInv => PassedIsSound
  BY CountIsSound
<1> QED
  BY <1>1, <1>2, LostInit, Invariant, PTL DEF Spec

-----------------------------------------------------------------------------
(* The run comes to its end.  Two facts, with which a run that goes on as   *)
(* long as it can has to finish: every step of any process leaves fewer     *)
(* steps to take, and until the parent is done somebody can take one.       *)

\* The steps a worker has still to take, at most, with what is in its pipes and
\* in its hands: to ask, to read the end of its pipe, to leave; a test before.
WorkLeft(j) ==
  CASE worker[j] = "run" -> 4
    [] worker[j] = "ask" -> 3
    [] worker[j] = "wait" -> IF resp[j] \in {<<>>, <<Quit>>} THEN 2 ELSE 5
    [] worker[j] = "leave" -> 1
    [] OTHER -> 0

HasWork(n) == {j \in Workers : WorkLeft(j) >= n}

WorkersLeft ==
  Cardinality(HasWork(1)) + Cardinality(HasWork(2)) + Cardinality(HasWork(3))
  + Cardinality(HasWork(4)) + Cardinality(HasWork(5))

\* The passes of the parent through its loops, apart from those counted below.
PhaseLeft ==
  CASE parent \in {"spawn", "select"} -> 3
    [] parent = "handle" -> 2
    [] parent = "close" -> 1
    [] OTHER -> 0

\* The steps of all processes together, at most.
StepsLeft ==
  PhaseLeft + 4 * (NumWorkers - spawned) + 2 * (NumWorkers - exited)
  + (NumWorkers - reaped) + 5 * (NumTests - dispatched) + WorkersLeft

Shortens == [][StepsLeft' < StepsLeft]_vars

\* What the processes need to take a step: the conditions of their actions.
ParentCanGo ==
  \/ parent \in {"spawn", "close"}
  \/ parent = "select" /\ (exited = NumWorkers \/ Readable # {})
  \/ parent = "handle" /\ \E j \in Workers : IsNext(j)
  \/ parent = "reap" /\ (MayKill \/ CanReap)

WorkerCanGo(j) ==
  \/ worker[j] \in {"ask", "leave"}
  \/ worker[j] = "wait" /\ \/ resp[j] # <<>>
                           \/ closed /\ \A k \in Workers : k > j => ~Alive(k)
  \/ worker[j] = "run" /\ task[j] \notin hangs

Hanging(j) == worker[j] = "run" /\ task[j] \in hangs

\* Until it is done the parent can go on, or no failure is known and a worker
\* can, or is in a test that never returns.
NeverStuck ==
  parent # "done" =>
    \/ ParentCanGo
    \/ ~failed /\ \E j \in Workers : WorkerCanGo(j) \/ Hanging(j)

LEMMA WorkType ==
  ASSUME NEW j
  PROVE  WorkLeft(j) \in 0 .. 5 /\ WorkLeft(j)' \in 0 .. 5
  BY DEF WorkLeft

LEMMA SubsetSize ==
  ASSUME NEW S \in SUBSET Workers
  PROVE  IsFiniteSet(S) /\ Cardinality(S) \in 0 .. NumWorkers
<1>1. IsFiniteSet(S) /\ Cardinality(S) <= NumWorkers
  BY FiniteWorkers, FS_Subset
<1>2. Cardinality(S) \in Nat
  BY <1>1, FS_CardinalityType
<1> QED
  BY <1>1, <1>2, TestbenchAssumption

LEMMA SumType ==
  /\ \A n : HasWork(n) \in SUBSET Workers /\ HasWork(n)' \in SUBSET Workers
  /\ WorkersLeft \in 0 .. 5 * NumWorkers
  /\ WorkersLeft' \in 0 .. 5 * NumWorkers
<1>1. \A n : HasWork(n) \in SUBSET Workers /\ HasWork(n)' \in SUBSET Workers
  BY DEF HasWork, Workers
<1>2. \A n : /\ Cardinality(HasWork(n)) \in 0 .. NumWorkers
             /\ Cardinality(HasWork(n)') \in 0 .. NumWorkers
  BY <1>1, SubsetSize
<1>3. WorkersLeft \in 0 .. 5 * NumWorkers /\ WorkersLeft' \in 0 .. 5 * NumWorkers
  BY <1>2, TestbenchAssumption DEF WorkersLeft
<1> QED
  BY <1>1, <1>3

\* The size of a set that changes at one element only.
LEMMA OneChanges ==
  ASSUME NEW S, NEW T, IsFiniteSet(S), IsFiniteSet(T), NEW j, S \ {j} = T \ {j}
  PROVE  Cardinality(T) = Cardinality(S) + (IF j \in T THEN 1 ELSE 0)
                                         - (IF j \in S THEN 1 ELSE 0)
<1>1. Cardinality(S \ {j}) = IF j \in S THEN Cardinality(S) - 1 ELSE Cardinality(S)
  BY FS_RemoveElement
<1>2. Cardinality(T \ {j}) = IF j \in T THEN Cardinality(T) - 1 ELSE Cardinality(T)
  BY FS_RemoveElement
<1>3. Cardinality(S) \in Nat /\ Cardinality(T) \in Nat
  BY FS_CardinalityType
<1> QED
  BY <1>1, <1>2, <1>3

\* A step of one worker, or on one pipe, changes the sum by what it changes there.
LEMMA SumStep ==
  ASSUME NEW j \in Workers,
         \A k \in Workers \ {j} : worker'[k] = worker[k] /\ resp'[k] = resp[k]
  PROVE  WorkersLeft' - WorkersLeft = WorkLeft(j)' - WorkLeft(j)
<1> DEFINE In(n)  == IF WorkLeft(j) >= n THEN 1 ELSE 0
           Now(n) == IF WorkLeft(j)' >= n THEN 1 ELSE 0
<1>1. \A k \in Workers \ {j} : WorkLeft(k)' = WorkLeft(k)
  BY DEF WorkLeft
<1>2. ASSUME NEW n
      PROVE  /\ Cardinality(HasWork(n)') = Cardinality(HasWork(n)) + Now(n) - In(n)
             /\ Cardinality(HasWork(n)) \in Int
  <2>1. /\ IsFiniteSet(HasWork(n)) /\ IsFiniteSet(HasWork(n)')
        /\ Cardinality(HasWork(n)) \in Int
    BY SumType, SubsetSize, TestbenchAssumption
  <2>2. HasWork(n) \ {j} = HasWork(n)' \ {j}
    BY <1>1 DEF HasWork, Workers
  <2>3. /\ j \in HasWork(n) <=> WorkLeft(j) >= n
        /\ j \in HasWork(n)' <=> WorkLeft(j)' >= n
    BY DEF HasWork, Workers
  <2> QED
    BY <2>1, <2>2, <2>3, OneChanges
<1>3. /\ In(1) + In(2) + In(3) + In(4) + In(5) = WorkLeft(j)
      /\ Now(1) + Now(2) + Now(3) + Now(4) + Now(5) = WorkLeft(j)'
  BY WorkType
<1>4. \A n : In(n) \in Int /\ Now(n) \in Int
  OBVIOUS
<1> HIDE DEF In, Now
<1>5. WorkersLeft' = WorkersLeft + (Now(1) + Now(2) + Now(3) + Now(4) + Now(5))
                                 - (In(1) + In(2) + In(3) + In(4) + In(5))
  BY <1>2, <1>4 DEF WorkersLeft
<1> QED
  BY <1>3, <1>5, SumType, WorkType

LEMMA Sizes ==
  ASSUME IInv
  PROVE  /\ NumWorkers \in Nat /\ NumTests \in Nat
         /\ spawned \in 0 .. NumWorkers /\ exited \in 0 .. NumWorkers
         /\ reaped \in 0 .. NumWorkers /\ dispatched \in 0 .. NumTests
         /\ WorkersLeft \in 0 .. 5 * NumWorkers /\ PhaseLeft \in 0 .. 3
  BY SumType, TestbenchAssumption DEF IInv, TypeOK, PhaseLeft

\* The steps of the parent that no worker notices.
LEMMA ParentShortens ==
  ASSUME IInv, IInv', NEW j \in Workers,
         Select \/ AllExited \/ CloseAll \/ Reap \/ HandleEOF(j)
  PROVE  StepsLeft' < StepsLeft
<1>1. /\ UNCHANGED <<spawned, exited, dispatched, worker, resp>>
      /\ \/ PhaseLeft' < PhaseLeft /\ reaped' = reaped
         \/ PhaseLeft' = PhaseLeft /\ reaped' = reaped + 1
  BY DEF Select, AllExited, CloseAll, Reap, HandleEOF, IsNext, PhaseLeft, workerVars
<1>2. WorkersLeft' = WorkersLeft
  <2>1. WorkLeft(j)' = WorkLeft(j)
    BY <1>1 DEF WorkLeft
  <2> QED
    BY <1>1, <2>1, SumStep, SumType, WorkType
<1>3. PhaseLeft \in 0 .. 3 /\ PhaseLeft' \in 0 .. 3
  BY Sizes DEF PhaseLeft
<1> QED
  BY <1>1, <1>2, <1>3, Sizes DEF StepsLeft

LEMMA SpawnShortens ==
  ASSUME IInv, IInv', Spawn
  PROVE  StepsLeft' < StepsLeft
<1>1. PICK j \in Workers : j = spawned + 1 /\ worker[j] = "unborn"
  BY TestbenchAssumption
  DEF IInv, TypeOK, PhaseInv, WorkerInv, Workers, Spawn
<1>2. /\ UNCHANGED <<exited, dispatched, resp, reaped>> /\ spawned' = j
      /\ worker'[j] = "ask" /\ \A k \in Workers \ {j} : worker'[k] = worker[k]
      /\ PhaseLeft = 3 /\ PhaseLeft' = 3
  BY <1>1 DEF Spawn, IInv, TypeOK, PhaseLeft
<1>3. WorkLeft(j) = 0 /\ WorkLeft(j)' = 3
  BY <1>1, <1>2 DEF WorkLeft
<1>4. WorkersLeft' - WorkersLeft = WorkLeft(j)' - WorkLeft(j)
  BY <1>1, <1>2, SumStep
<1>5. WorkersLeft \in Nat /\ WorkersLeft' \in Nat
  BY SumType, TestbenchAssumption
<1> QED
  BY <1>1, <1>2, <1>3, <1>4, <1>5, Sizes DEF StepsLeft

\* A request is answered with a test, which is four steps for the worker at most
\* and one for the parent, or with none.
LEMMA HandleShortens ==
  ASSUME IInv, IInv', NEW j \in Workers, HandleRequest(j)
  PROVE  StepsLeft' < StepsLeft
<1>1. worker[j] = "wait" /\ resp[j] = <<>>
  BY DEF HandleRequest, IsNext, IInv, TypeOK, PhaseInv, Before, WorkerInv
<1>2. /\ UNCHANGED <<spawned, reaped, worker>>
      /\ PhaseLeft = 2 /\ PhaseLeft' \in {2, 3}
      /\ \A k \in Workers \ {j} : resp'[k] = resp[k]
  BY DEF HandleRequest, IsNext, Dispatch, Dismiss, PhaseLeft, IInv, TypeOK
<1>3. \/ dispatched' = dispatched + 1 /\ exited' = exited
      \/ dispatched' = dispatched /\ exited' = exited + 1 /\ resp'[j] = <<Quit>>
  BY <1>1, OneElement
  DEF HandleRequest, Dispatch, Dismiss, DispatchedAfter, IInv, TypeOK
<1>4. WorkLeft(j) = 2
  BY <1>1 DEF WorkLeft
<1>5. /\ WorkLeft(j)' <= 5
      /\ resp'[j] = <<Quit>> => WorkLeft(j)' = 2
  <2>1. worker'[j] = "wait" /\ WorkLeft(j)' <= 5
    BY <1>1, <1>2, WorkType
  <2>2. resp'[j] = <<Quit>> => WorkLeft(j)' = 2
    BY <2>1 DEF WorkLeft, Quit
  <2> QED
    BY <2>1, <2>2
<1>6. WorkersLeft' - WorkersLeft = WorkLeft(j)' - WorkLeft(j)
  BY <1>2, SumStep
<1>7. WorkersLeft \in Nat /\ WorkersLeft' \in Nat /\ WorkLeft(j)' \in Nat
  BY SumType, WorkType, TestbenchAssumption
<1> QED
  BY <1>2, <1>3, <1>4, <1>5, <1>6, <1>7, Sizes DEF StepsLeft

\* A worker that goes on has less to do, and so has one that is killed.
LEMMA WorkerShortens ==
  ASSUME IInv, IInv', NEW j \in Workers,
         UNCHANGED <<parent, spawned, exited, reaped, dispatched>>,
         \A k \in Workers \ {j} : worker'[k] = worker[k] /\ resp'[k] = resp[k],
         WorkLeft(j)' < WorkLeft(j)
  PROVE  StepsLeft' < StepsLeft
<1>1. PhaseLeft' = PhaseLeft
  BY DEF PhaseLeft
<1>2. WorkersLeft' - WorkersLeft = WorkLeft(j)' - WorkLeft(j)
  BY SumStep
<1>3. /\ WorkersLeft \in Nat /\ WorkersLeft' \in Nat
      /\ WorkLeft(j) \in Nat /\ WorkLeft(j)' \in Nat
  BY SumType, WorkType, TestbenchAssumption
<1> QED
  BY <1>1, <1>2, <1>3, Sizes DEF StepsLeft

LEMMA KillShortens ==
  ASSUME IInv, IInv', Kill
  PROVE  StepsLeft' < StepsLeft
<1>1. PICK j \in Workers : j = Awaited
  BY TestbenchAssumption DEF IInv, PhaseInv, TypeOK, Workers, Kill, Awaited
<1>2. worker[j] \in {"ask", "wait", "run", "leave"}
  BY <1>1 DEF Kill, MayKill, Alive, Awaited, IInv, TypeOK
<1>3. /\ worker'[j] = "dead"
      /\ \A k \in Workers \ {j} : worker'[k] = worker[k] /\ resp'[k] = resp[k]
      /\ UNCHANGED <<parent, spawned, exited, reaped, dispatched>>
  BY <1>1 DEF Kill, Awaited, parentVars, IInv, TypeOK
<1>4. WorkLeft(j) \in 1 .. 5 /\ WorkLeft(j)' = 0
  BY <1>2, <1>3 DEF WorkLeft
<1> QED
  BY <1>3, <1>4, WorkerShortens

LEMMA StepShortens ==
  ASSUME IInv, IInv', NEW j \in Workers, WorkerStep(j)
  PROVE  StepsLeft' < StepsLeft
<1>1. /\ UNCHANGED <<parent, spawned, exited, reaped, dispatched>>
      /\ \A k \in Workers \ {j} : worker'[k] = worker[k] /\ resp'[k] = resp[k]
  BY DEF WorkerStep, Request, Receive, ReceiveEOF, RunTest, Exit, parentVars,
         IInv, TypeOK
<1>2. WorkLeft(j)' < WorkLeft(j)
  <2>1. CASE Request(j)
    <3>1. worker[j] = "ask" /\ worker'[j] = "wait" /\ resp[j] = <<>> /\ resp' = resp
      BY <2>1 DEF Request, IInv, TypeOK, WorkerInv
    <3> QED
      BY <3>1 DEF WorkLeft
  <2>2. CASE Receive(j)
    <3>1. worker[j] = "wait" /\ resp[j] # <<>> /\ worker'[j] \in {"leave", "run"}
      BY <2>2 DEF Receive, IInv, TypeOK
    <3>2. CASE resp[j] = <<Quit>>
      <4>1. worker'[j] = "leave"
        BY <2>2, <3>2, OneElement DEF Receive, Quit, IInv, TypeOK
      <4> QED
        BY <3>1, <4>1 DEF WorkLeft
    <3>3. CASE resp[j] # <<Quit>>
      BY <3>1, <3>3 DEF WorkLeft
    <3> QED
      BY <3>2, <3>3
  <2>3. CASE ReceiveEOF(j)
    BY <2>3 DEF ReceiveEOF, WorkLeft, IInv, TypeOK
  <2>4. CASE RunTest(j)
    BY <2>4 DEF RunTest, AfterFailure, WorkLeft, IInv, TypeOK
  <2>5. CASE Exit(j)
    BY <2>5 DEF Exit, WorkLeft, IInv, TypeOK
  <2> QED
    BY <2>1, <2>2, <2>3, <2>4, <2>5 DEF WorkerStep
<1> QED
  BY <1>1, <1>2, WorkerShortens

Within == StepsLeft <= 7 * NumWorkers + 5 * NumTests + 3

\* Whatever tests pass, fail or hang, the runner and its workers take at most
\* seven steps for each worker, five for each test and three more.
THEOREM RunIsBounded ==
  Spec => Shortens /\ [](StepsLeft \in 0 .. 7 * NumWorkers + 5 * NumTests + 3)
<1>1. IInv /\ IInv' /\ [Next]_vars => [StepsLeft' < StepsLeft]_vars
  <2> SUFFICES ASSUME IInv, IInv', Next PROVE StepsLeft' < StepsLeft
    OBVIOUS
  <2>1. 1 \in Workers
    BY TestbenchAssumption DEF Workers
  <2> QED
    BY <2>1, ParentShortens, SpawnShortens, HandleShortens, KillShortens, StepShortens
    DEF Next, ParentStep
<1>2. IInv => StepsLeft \in Nat
  BY Sizes DEF StepsLeft
<1>3. Init => Within
  <2> SUFFICES ASSUME Init PROVE Within
    OBVIOUS
  <2>1. \A j \in Workers : WorkLeft(j) = 0
    BY DEF Init, WorkLeft
  <2>2. \A n \in 1 .. 5 : HasWork(n) = {}
    BY <2>1 DEF HasWork
  <2>3. WorkersLeft = 0
    BY <2>2, FS_EmptySet DEF WorkersLeft
  <2> QED
    BY <2>3, TestbenchAssumption DEF Init, StepsLeft, PhaseLeft, Within
<1>4. StepsLeft \in Nat /\ (StepsLeft \in Nat)' /\ Within
        /\ [StepsLeft' < StepsLeft]_vars => Within'
  <2> SUFFICES ASSUME StepsLeft \in Nat, StepsLeft' \in Nat, Within,
                      [StepsLeft' < StepsLeft]_vars
               PROVE  Within'
    OBVIOUS
  <2>1. UNCHANGED vars => StepsLeft' = StepsLeft
    BY DEF vars, parentVars, workerVars, StepsLeft, PhaseLeft, WorkersLeft, HasWork,
           WorkLeft
  <2> QED
    BY <2>1, TestbenchAssumption DEF Within
<1>5. StepsLeft \in Nat /\ Within
        => StepsLeft \in 0 .. 7 * NumWorkers + 5 * NumTests + 3
  BY TestbenchAssumption DEF Within
<1>6. Spec => Shortens
  BY <1>1, Invariant, PTL DEF Spec, Shortens
<1>7. Spec => [](StepsLeft \in Nat /\ Within)
  BY <1>2, <1>3, <1>4, <1>6, Invariant, PTL DEF Spec, Shortens
<1> QED
  BY <1>5, <1>6, <1>7, PTL

\* While the parent handles what select() has found, something is left of it.
ReadyInv == parent = "handle" => ready # {}

LEMMA ReadyStep == ReadyInv /\ [Next]_vars => ReadyInv'
<1> SUFFICES ASSUME ReadyInv, [Next]_vars PROVE ReadyInv'
  OBVIOUS
<1>1. CASE \/ UNCHANGED vars \/ Spawn \/ Select \/ AllExited \/ CloseAll \/ Kill
           \/ Reap
  BY <1>1 DEF ReadyInv, vars, parentVars, Spawn, Select, AllExited, CloseAll, Kill, Reap
<1>2. ASSUME NEW j \in Workers, HandleEOF(j) \/ HandleRequest(j) PROVE ReadyInv'
  <2>1. HandleEOF(j) => parent' = "close"
    BY DEF HandleEOF
  <2>2. HandleRequest(j) /\ parent' = "handle" => ready' # {}
    BY DEF HandleRequest, IsNext
  <2> QED
    BY <1>2, <2>1, <2>2 DEF ReadyInv
<1>3. ASSUME NEW j \in Workers, WorkerStep(j) PROVE ReadyInv'
  BY <1>3 DEF ReadyInv, parentVars, WorkerStep, Request, Receive, ReceiveEOF, RunTest, Exit
<1> QED
  BY <1>1, <1>2, <1>3 DEF Next, ParentStep

LEMMA ReadyInvariant == Spec => []ReadyInv
<1>1. Init => ReadyInv
  BY DEF Init, ReadyInv
<1> QED
  BY <1>1, ReadyStep, PTL DEF Spec

\* There is always a first descriptor to handle.
LEMMA FirstReady ==
  ASSUME NEW S \in SUBSET Workers, S # {}
  PROVE  \E j \in S : \A k \in S : j <= k
<1> DEFINE less == {p \in Nat \X Nat : p[1] < p[2]}
<1>1. IsWellFoundedOn(less, Nat)
  BY NatLessThanWellFounded DEF OpToRel
<1>2. S \subseteq Nat
  BY TestbenchAssumption DEF Workers
<1>3. PICK j \in S : \A k \in S : ~(<<k, j>> \in less)
  BY <1>1, <1>2, WFMin
<1>4. \A k \in S : ~(k < j)
  BY <1>2, <1>3
<1> QED
  BY <1>2, <1>4

\* Nobody has anything to read: then some worker is at work.
LEMMA SelectNotStuck ==
  ASSUME IInv, parent = "select", exited # NumWorkers, Readable = {}
  PROVE  \E j \in Workers : WorkerCanGo(j) \/ Hanging(j)
<1> USE DEF IInv
<1>1. ~failed /\ spawned = NumWorkers
  BY DEF PhaseInv, Before
<1>2. open # {}
  <2>1. exited + Cardinality(open) = NumWorkers /\ exited \in Nat
    BY <1>1, TestbenchAssumption DEF CountInv, TypeOK
  <2> QED
    BY <2>1, FS_EmptySet
<1>3. PICK j \in open : TRUE
  BY <1>2
<1>4. j \in Workers /\ req[j] = 0 /\ worker[j] # "dead"
  BY <1>3 DEF Readable, TypeOK
<1>5. worker[j] \in {"ask", "wait", "run", "leave"}
  BY <1>1, <1>3, <1>4 DEF TypeOK, OpenInv
<1>6. worker[j] = "wait" => resp[j] # <<>>
  BY <1>4 DEF WorkerInv
<1> QED
  BY <1>4, <1>5, <1>6 DEF WorkerCanGo, Hanging

\* The parent waits for a worker that is still alive: either it kills it, or the
\* worker has been sent away and only has to leave.  No worker need see the end of
\* its pipe, which the workers forked after it keep open.
LEMMA ReapNotStuck ==
  ASSUME IInv, parent = "reap", ~MayKill, ~CanReap
  PROVE  ~failed /\ \E j \in Workers : WorkerCanGo(j)
<1> USE DEF IInv
<1>1. PICK j \in Workers : j = Awaited
  BY TestbenchAssumption DEF PhaseInv, TypeOK, Workers, Awaited
<1>2. spawned = NumWorkers /\ worker[j] # "unborn" /\ worker[j] # "dead"
  BY <1>1, TestbenchAssumption DEF PhaseInv, WorkerInv, Workers, CanReap
<1>3. ~failed
  BY <1>1, <1>2 DEF MayKill, Alive
<1>4. open = {}
  BY <1>3 DEF PhaseInv, Before
<1>5. worker[j] \in {"wait", "leave"}
  BY <1>2, <1>4 DEF TypeOK, WorkerInv, OpenInv
<1>6. worker[j] = "wait" => resp[j] # <<>>
  BY <1>4 DEF WorkerInv, OpenInv
<1> QED
  BY <1>3, <1>5, <1>6 DEF WorkerCanGo

\* No process ever waits for another that waits for it: while the parent is not
\* done it can go on, or a worker can, or one is in a test that hangs; once it has
\* read of a failure it needs no worker at all.
THEOREM RunnerNeverStuck == Spec => []NeverStuck
<1>1. IInv /\ ReadyInv => NeverStuck
  <2> SUFFICES ASSUME IInv, ReadyInv, parent # "done", ~ParentCanGo
               PROVE  ~failed /\ \E j \in Workers : WorkerCanGo(j) \/ Hanging(j)
    BY DEF NeverStuck
  <2>1. parent \in {"select", "handle", "reap"}
    BY DEF IInv, TypeOK, ParentCanGo
  <2>2. CASE parent = "select"
    <3>1. ~failed
      BY <2>2 DEF IInv, PhaseInv, Before
    <3> QED
      BY <2>2, <3>1, SelectNotStuck DEF ParentCanGo
  <2>3. CASE parent = "handle"
    <3>1. ready # {} /\ ready \in SUBSET Workers
      BY <2>3 DEF ReadyInv, IInv, TypeOK
    <3>2. PICK j \in ready : \A k \in ready : j <= k
      BY <3>1, FirstReady
    <3> QED
      BY <2>3, <3>1, <3>2 DEF ParentCanGo, IsNext
  <2>4. CASE parent = "reap"
    BY <2>4, ReapNotStuck DEF ParentCanGo
  <2> QED
    BY <2>1, <2>2, <2>3, <2>4
<1> QED
  BY <1>1, Invariant, ReadyInvariant, PTL

-----------------------------------------------------------------------------
(* Tests one after the other                                               *)

LEMMA SuiteTypes ==
  ASSUME SerialInv
  PROVE  /\ tests \in Seq(Seq(PluginNames)) /\ Len(tests) \in Nat /\ at \in Nat
         /\ Len(defer_list) \in Nat
         /\ at > 0 => Plugins \in Seq(PluginNames) /\ Len(Plugins) \in Nat
<1>1. tests \in Seq(Seq(PluginNames))
  BY SuitesAssumption DEF SerialInv
<1>2. Len(tests) \in Nat /\ at \in 0 .. Len(tests) /\ Len(defer_list) \in Nat
  BY <1>1 DEF SerialInv
<1>3. at > 0 => Plugins \in Seq(PluginNames)
  BY <1>1, <1>2 DEF Plugins
<1> QED
  BY <1>1, <1>2, <1>3

LEMMA SerialInitInv == SerialInit => SerialInv
<1> SUFFICES ASSUME SerialInit PROVE SerialInv
  OBVIOUS
<1>1. Len(tests) \in Nat
  BY SuitesAssumption DEF SerialInit
<1> QED
  BY <1>1 DEF SerialInit, SerialInv

LEMMA StartTestInv ==
  ASSUME SerialInv, StartTest
  PROVE  SerialInv'
<1>1. /\ stage = "idle" /\ at < Len(tests) /\ at' = at + 1 /\ ran' = <<>>
      /\ UNCHANGED <<tests, on, halfway, count, globals>>
      /\ at \in 0 .. Len(tests) /\ defer_list = <<>> /\ on = {} /\ count = at
      /\ ~halfway /\ globals = 0 /\ tests \in Suites
  BY DEF StartTest, SerialInv
<1>2. tests \in Seq(Seq(PluginNames)) /\ Len(tests) \in Nat /\ at \in Nat
  BY SuiteTypes
<1>3. at' \in 0 .. Len(tests') /\ at' > 0
  BY <1>1, <1>2
<1>4. CASE stage' = "setup" /\ defer_list' = <<"post">>
  <2>1. Len(defer_list') = 1 /\ defer_list' \in Seq(HookNames)
    BY <1>4 DEF HookNames
  <2>2. Plugins' \in Seq(PluginNames) /\ Len(Plugins') \in Nat
    BY <1>1, <1>2, <1>3 DEF Plugins
  <2>3. defer_list' = [i \in 1 .. 0 + 1 |-> IF i = 1 THEN "post" ELSE Plugins'[i - 1]]
    BY <1>4
  <2>4. Used' = 0
    BY <2>1 DEF Used
  <2>5. Deferred'
    BY <1>1, <1>2, <1>3, <2>2, <2>3, <2>4 DEF Deferred
  <2> QED
    BY <1>1, <1>3, <1>4, <2>1, <2>5 DEF SerialInv, Covered
<1>5. CASE defer_list' = defer_list /\ Abort
  BY <1>1, <1>3, <1>5 DEF SerialInv, Covered, Abort
<1> QED
  BY <1>4, <1>5 DEF StartTest

LEMMA PluginInv ==
  ASSUME SerialInv, Plugin
  PROVE  SerialInv'
<1> DEFINE p == Plugins[Used + 1]
<1>1. /\ stage = "setup" /\ Used < Len(Plugins) /\ p # "SKIP" /\ on' = on \cup {p}
      /\ UNCHANGED <<tests, at, ran, count, globals>>
  BY DEF Plugin
<1>2. /\ Deferred /\ ran = <<>> /\ Covered(Len(defer_list)) /\ ~halfway /\ globals = 0
      /\ defer_list \in Seq(HookNames) /\ tests \in Suites /\ at \in 0 .. Len(tests)
  BY <1>1 DEF SerialInv
<1>3. /\ Plugins \in Seq(PluginNames) /\ Len(Plugins) \in Nat /\ Len(defer_list) \in Nat
      /\ Len(defer_list) = Used + 1 /\ Used \in Nat /\ p \in HookNames /\ p \in PluginNames
  BY <1>1, <1>2, SuiteTypes DEF Deferred, Used, HookNames
<1>4. \/ defer_list' = Append(defer_list, p) /\ UNCHANGED <<stage, todo, halfway>>
      \/ defer_list' = defer_list /\ halfway' = TRUE /\ Abort
  BY DEF Plugin
<1> HIDE DEF p
<1>5. CASE defer_list' = Append(defer_list, p) /\ UNCHANGED <<stage, todo, halfway>>
  <2>1. Len(defer_list') = Used + 2 /\ defer_list' \in Seq(HookNames) /\ Used' = Used + 1
    BY <1>2, <1>3, <1>5 DEF Used
  <2>2. Plugins' = Plugins
    BY <1>1 DEF Plugins
  <2>3. defer_list' = [i \in 1 .. Used' + 1 |-> IF i = 1 THEN "post" ELSE Plugins'[i - 1]]
    BY <1>2, <1>3, <1>5, <2>1, <2>2 DEF Deferred, p
  <2>4. Deferred'
    BY <1>1, <1>2, <1>3, <2>1, <2>2, <2>3 DEF Deferred
  <2>5. Covered(Len(defer_list))'
    <3>1. \A i \in 1 .. Used + 1 : defer_list'[i] = defer_list[i]
      BY <1>3, <1>5
    <3>2. defer_list'[Used + 2] = p
      BY <1>3, <1>5
    <3>3. \A x \in on : \E i \in 1 .. Used + 1 : x = defer_list[i]
      BY <1>2, <1>3 DEF Covered
    <3>4. \A x \in on' : \E i \in 1 .. Used + 2 : x = defer_list'[i]
      BY <1>1, <1>3, <3>1, <3>2, <3>3
    <3> QED
      BY <2>1, <3>4 DEF Covered
  <2> QED
    BY <1>1, <1>2, <1>5, <2>1, <2>4, <2>5 DEF SerialInv
<1>6. CASE defer_list' = defer_list /\ halfway' = TRUE /\ Abort
  BY <1>1, <1>2, <1>3, <1>6 DEF SerialInv, Abort
<1> QED
  BY <1>4, <1>5, <1>6

LEMMA BodyInv ==
  ASSUME SerialInv, Body
  PROVE  SerialInv'
<1>1. /\ stage = "setup" /\ (EndsAt(Used) \/ Used >= Len(Plugins))
      /\ UNCHANGED <<tests, at, defer_list, on, halfway, ran, count, globals>>
      /\ todo' = Len(defer_list) /\ stage' \in {"hooks", "abort"}
  BY DEF Body, Abort, EndsAt
<1>2. /\ Deferred /\ ran = <<>> /\ Covered(Len(defer_list)) /\ ~halfway /\ globals = 0
      /\ defer_list \in Seq(HookNames) /\ tests \in Suites /\ at \in 0 .. Len(tests)
  BY <1>1 DEF SerialInv
<1>3. Len(defer_list) \in Nat /\ Used \in Nat /\ Len(Plugins) \in Nat
  BY <1>2, SuiteTypes DEF Deferred, Used
<1>4. EndsAt(Used)
  BY <1>1, <1>3 DEF EndsAt
<1>5. Deferred' /\ EndsAt(Used)' /\ Covered(Len(defer_list))'
  BY <1>1, <1>2, <1>4 DEF Deferred, EndsAt, Covered, Used, Plugins
<1>6. Covered(todo)'
  BY <1>1, <1>5 DEF Covered
<1> QED
  BY <1>1, <1>2, <1>3, <1>5, <1>6 DEF SerialInv

LEMMA RunHookInv ==
  ASSUME SerialInv, RunHook
  PROVE  SerialInv'
<1> DEFINE h == defer_list[todo]
<1>1. /\ stage \in {"hooks", "abort"} /\ todo > 0
      /\ UNCHANGED <<tests, at, defer_list, halfway, count, globals>>
  BY DEF RunHook
<1>2. /\ defer_list \in Seq(HookNames) /\ ran \in Seq(HookNames) /\ tests \in Suites
      /\ at \in 0 .. Len(tests) /\ globals = 0 /\ (halfway => stage = "abort")
      /\ todo \in 1 .. Len(defer_list) /\ Len(defer_list) \in Nat /\ h \in HookNames
      /\ (halfway \/ Covered(todo))
  <2>1. Len(defer_list) \in Nat
    BY SuiteTypes
  <2>2. todo \in 1 .. Len(defer_list)
    BY <1>1, <2>1 DEF SerialInv
  <2>3. defer_list \in Seq(HookNames)
    BY DEF SerialInv
  <2>4. h \in HookNames
    BY <2>2, <2>3
  <2> QED
    BY <1>1, <2>1, <2>2, <2>4 DEF SerialInv
<1>3. \/ ran' = Append(ran, h) /\ on' = on \ {h} /\ todo' = todo - 1 /\ stage' = stage
      \/ stage = "hooks" /\ Abort /\ ran' = ran /\ on' = on
  BY DEF RunHook, NextHook
<1>4. CASE /\ ran' = Append(ran, h) /\ on' = on \ {h} /\ todo' = todo - 1
           /\ stage' = stage
  <2>1. Covered(todo) => Covered(todo)'
    <3> SUFFICES ASSUME Covered(todo), NEW x \in on'
                 PROVE  x \in {defer_list'[i] : i \in 1 .. todo'}
      BY DEF Covered
    <3>1. PICK i \in 1 .. todo : x = defer_list[i]
      BY <1>4 DEF Covered
    <3>2. i # todo
      BY <1>4, <3>1
    <3>3. i \in 1 .. todo'
      BY <1>2, <1>4, <3>2
    <3> QED
      BY <1>1, <3>1, <3>3
  <2>2. ran' \in Seq(HookNames) /\ todo' \in 0 .. Len(defer_list')
    <3> HIDE DEF h
    <3> QED
      BY <1>1, <1>2, <1>4
  <2>3. CASE stage = "hooks"
    <3>1. /\ Deferred /\ EndsAt(Used) /\ Len(ran) = Len(defer_list) - todo
          /\ \A i \in 1 .. Len(ran) : ran[i] = defer_list[Len(defer_list) - i + 1]
      BY <2>3 DEF SerialInv
    <3>2. Deferred' /\ EndsAt(Used)'
      BY <1>1, <3>1 DEF Deferred, EndsAt, Used, Plugins
    <3>3. /\ Len(ran') = Len(ran) + 1 /\ ran'[Len(ran) + 1] = h
          /\ \A i \in 1 .. Len(ran) : ran'[i] = ran[i]
      <4> HIDE DEF h
      <4> QED
        BY <1>2, <1>4
    <3>4. Len(ran') = Len(defer_list') - todo'
      BY <1>1, <1>2, <1>4, <3>1, <3>3
    <3>5. ASSUME NEW i \in 1 .. Len(ran')
          PROVE  ran'[i] = defer_list'[Len(defer_list') - i + 1]
      <4>1. CASE i = Len(ran) + 1
        <5>1. Len(defer_list) - i + 1 = todo
          BY <1>2, <3>1, <4>1
        <5> QED
          BY <1>1, <3>3, <4>1, <5>1
      <4>2. CASE i # Len(ran) + 1
        <5>1. i \in 1 .. Len(ran)
          BY <1>2, <3>3, <4>2, LenProperties
        <5> QED
          BY <1>1, <3>1, <3>3, <5>1
      <4> QED
        BY <4>1, <4>2
    <3> QED
      BY <1>1, <1>2, <1>4, <2>1, <2>2, <2>3, <3>2, <3>4, <3>5 DEF SerialInv
  <2>4. CASE stage = "abort"
    BY <1>1, <1>2, <1>4, <2>1, <2>2, <2>4 DEF SerialInv
  <2> QED
    BY <1>1, <2>3, <2>4
<1>5. CASE stage = "hooks" /\ Abort /\ ran' = ran /\ on' = on
  <2>1. Covered(Len(defer_list))
    <3>1. 1 .. todo \subseteq 1 .. Len(defer_list)
      BY <1>2
    <3> QED
      BY <1>2, <1>5, <3>1 DEF Covered
  <2>2. stage' = "abort" /\ todo' = Len(defer_list)
    BY <1>5 DEF Abort
  <2>3. Covered(todo)'
    BY <1>1, <1>5, <2>1, <2>2 DEF Covered
  <2> QED
    BY <1>1, <1>2, <1>5, <2>2, <2>3 DEF SerialInv
<1> QED
  BY <1>3, <1>4, <1>5

\* When all hooks are run, they were those of the test, backwards.
LEMMA RanBackwards ==
  ASSUME SerialInv, stage = "hooks", todo = 0
  PROVE  ran = Reverse(<<"post">> \o SubSeq(Plugins, 1, Used))
<1> DEFINE s == SubSeq(Plugins, 1, Used)
           all == <<"post">> \o s
<1>1. /\ Deferred /\ ran \in Seq(HookNames) /\ Len(ran) = Len(defer_list) - 0
      /\ \A i \in 1 .. Len(ran) : ran[i] = defer_list[Len(defer_list) - i + 1]
  BY DEF SerialInv
<1>2. /\ Plugins \in Seq(PluginNames) /\ Len(Plugins) \in Nat /\ Used \in 0 .. Len(Plugins)
      /\ Len(defer_list) \in Nat /\ Len(defer_list) = Used + 1
  BY <1>1, SuiteTypes DEF Deferred, Used
<1>3. s \in Seq(PluginNames) /\ Len(s) = Used /\ \A i \in 1 .. Used : s[i] = Plugins[i]
  <2>1. \A i \in 1 .. Used : Plugins[i] \in PluginNames
    BY <1>2
  <2>2. /\ s \in Seq(PluginNames) /\ Len(s) = IF 1 <= Used THEN Used - 1 + 1 ELSE 0
        /\ \A i \in 1 .. Used - 1 + 1 : s[i] = Plugins[1 + i - 1]
    BY <1>2, <2>1, SubSeqProperties
  <2> QED
    BY <1>2, <2>2
<1> HIDE DEF s
<1>4. /\ Len(all) = Used + 1
      /\ \A i \in 1 .. Used + 1 : all[i] = IF i = 1 THEN "post" ELSE Plugins[i - 1]
  <2>1. <<"post">> \in Seq(HookNames) /\ s \in Seq(HookNames) /\ Len(<<"post">>) = 1
        /\ <<"post">>[1] = "post"
    BY <1>3 DEF HookNames
  <2>2. /\ Len(all) = 1 + Used
        /\ \A i \in 1 .. 1 + Used : all[i] = IF i <= 1 THEN <<"post">>[i] ELSE s[i - 1]
    BY <1>3, <2>1, ConcatProperties
  <2> QED
    BY <1>2, <1>3, <2>1, <2>2
<1> HIDE DEF all
<1>5. \A i \in 1 .. Used + 1 : ran[i] = all[(Len(all) - i) + 1]
  <2> SUFFICES ASSUME NEW i \in 1 .. Used + 1 PROVE ran[i] = all[(Len(all) - i) + 1]
    OBVIOUS
  <2>1. (Used + 1 - i) + 1 \in 1 .. Used + 1
    BY <1>2
  <2>2. ran[i] = defer_list[(Used + 1 - i) + 1]
    BY <1>1, <1>2
  <2>3. defer_list[(Used + 1 - i) + 1] = all[(Used + 1 - i) + 1]
    BY <1>1, <1>2, <1>4, <2>1 DEF Deferred
  <2> QED
    BY <1>2, <1>4, <2>2, <2>3
<1>6. Reverse(all) = [i \in 1 .. Len(all) |-> all[(Len(all) - i) + 1]]
  BY DEF Reverse
<1>7. ran = [i \in 1 .. Used + 1 |-> ran[i]]
  BY <1>1, <1>2
<1> QED
  BY <1>4, <1>5, <1>6, <1>7 DEF all, s

LEMMA EndTestInv ==
  ASSUME SerialInv, EndTest
  PROVE  SerialInv'
<1>1. /\ stage = "hooks" /\ todo = 0 /\ defer_list' = <<>> /\ count' = count + 1
      /\ stage' = "idle" /\ UNCHANGED <<tests, at, todo, on, halfway, ran, globals>>
  BY DEF EndTest
<1>2. /\ Deferred /\ EndsAt(Used) /\ Covered(0) /\ ran \in Seq(HookNames) /\ ~halfway
      /\ globals = 0 /\ tests \in Suites /\ at \in 0 .. Len(tests) /\ at \in Nat
  BY <1>1, SuiteTypes DEF SerialInv
<1>3. ran = Reverse(<<"post">> \o SubSeq(Plugins, 1, Used))
  BY <1>1, RanBackwards
<1>4. on = {} /\ count' = at
  BY <1>1, <1>2 DEF Covered, Deferred
<1>5. \E n \in 0 .. Len(Plugins) :
        EndsAt(n) /\ ran = Reverse(<<"post">> \o SubSeq(Plugins, 1, n))
  BY <1>2, <1>3 DEF Deferred
<1>6. \E n \in 0 .. Len(Plugins') :
        EndsAt(n)' /\ ran' = Reverse(<<"post">> \o SubSeq(Plugins', 1, n))
  BY <1>1, <1>5 DEF Plugins, EndsAt
<1>7. defer_list' \in Seq(HookNames)
  BY <1>1
<1> QED
  BY <1>1, <1>2, <1>4, <1>6, <1>7 DEF SerialInv

LEMMA RunGlobalsInv ==
  ASSUME SerialInv, RunGlobals
  PROVE  SerialInv'
<1>1. UNCHANGED <<tests, at, defer_list, todo, on, halfway, ran, count>>
      /\ globals' = globals + 1
  BY DEF RunGlobals
<1>2. CASE stage = "idle" /\ at = Len(tests) /\ stage' = "done"
  BY <1>1, <1>2 DEF SerialInv
<1>3. CASE stage = "abort" /\ todo = 0 /\ stage' = "dead"
  <2>1. halfway \/ on = {}
    BY <1>3 DEF SerialInv, Covered
  <2> QED
    BY <1>1, <1>3, <2>1 DEF SerialInv
<1> QED
  BY <1>2, <1>3 DEF RunGlobals

LEMMA SerialInvariant == SerialSpec => []SerialInv
<1>1. ASSUME SerialInv, UNCHANGED serialVars PROVE SerialInv'
  BY <1>1 DEF serialVars, SerialInv, Deferred, EndsAt, Covered, Used, Plugins
<1>2. SerialInv /\ [SerialNext]_serialVars => SerialInv'
  BY <1>1, StartTestInv, PluginInv, BodyInv, RunHookInv, EndTestInv, RunGlobalsInv
  DEF SerialNext
<1> QED
  BY <1>2, SerialInitInv, PTL DEF SerialSpec

\* For every list of tests: hooks run once each and backwards after every test,
\* and whatever a test switched on is off when the next begins and when the
\* runner ends, aborted or not.
THEOREM HooksUndone == SerialSpec => []HooksUndo
<1>1. SerialInv => HooksUndo
  BY DEF SerialInv, HooksUndo, EndsAt
<1> QED
  BY <1>1, SerialInvariant, PTL

\* The phases a test has still to go through; in "idle" the next one begins.
StagesLeft ==
  CASE stage = "setup" -> 4
    [] stage = "hooks" -> 3
    [] stage = "abort" -> 2
    [] stage = "idle" -> 1
    [] OTHER -> 0

\* The steps to be taken in the phase: plugins to switch on, or hooks to run.
StageSteps == IF stage = "setup" THEN Len(Plugins) - Used ELSE todo

\* A step begins one more test, or ends a phase, or leaves one thing less to do in
\* it: a plugin or a hook that fails, and fails again, starts nothing anew.
SerialShortens ==
  [][\/ at' = at + 1
     \/ at' = at /\ StagesLeft' < StagesLeft
     \/ at' = at /\ StagesLeft' = StagesLeft /\ StageSteps' < StageSteps]_serialVars

\* So the serial runner ends, for every list of tests: tests are begun at most as
\* often as there are any, and each takes finitely many steps.
THEOREM SerialRunIsBounded ==
  SerialSpec => SerialShortens
                /\ [](/\ at \in 0 .. Len(tests) /\ StagesLeft \in 0 .. 4
                      /\ stage \in {"setup", "hooks", "abort"} => StageSteps \in Nat)
<1>1. SerialInv /\ [SerialNext]_serialVars =>
        [\/ at' = at + 1
         \/ at' = at /\ StagesLeft' < StagesLeft
         \/ at' = at /\ StagesLeft' = StagesLeft /\ StageSteps' < StageSteps]_serialVars
  <2> SUFFICES ASSUME SerialInv, SerialNext, ~(at' = at + 1)
               PROVE  /\ at' = at
                      /\ \/ StagesLeft' < StagesLeft
                         \/ StagesLeft' = StagesLeft /\ StageSteps' < StageSteps
    OBVIOUS
  <2>1. CASE Plugin
    <3>1. /\ at' = at /\ stage = "setup" /\ tests' = tests
          /\ \/ stage' = "abort"
             \/ stage' = "setup" /\ Len(defer_list') = Len(defer_list) + 1
      BY <2>1 DEF Plugin, Abort, SerialInv
    <3>2. Len(defer_list) \in Nat /\ Len(Plugins) \in Nat
      BY <3>1, SuiteTypes DEF SerialInv, Deferred
    <3> QED
      BY <3>1, <3>2 DEF StagesLeft, StageSteps, Used, Plugins
  <2>2. CASE RunHook
    <3>1. /\ at' = at /\ stage \in {"hooks", "abort"}
          /\ \/ stage' = stage /\ todo' = todo - 1
             \/ stage = "hooks" /\ stage' = "abort"
          /\ todo \in Int
      BY <2>2, SuiteTypes DEF RunHook, Abort, SerialInv
    <3> QED
      BY <3>1 DEF StagesLeft, StageSteps
  <2>3. CASE Body \/ EndTest \/ RunGlobals
    BY <2>3 DEF Body, EndTest, RunGlobals, Abort, StagesLeft
  <2>4. CASE StartTest
    BY <2>4 DEF StartTest
  <2> QED
    BY <2>1, <2>2, <2>3, <2>4 DEF SerialNext
<1>2. SerialInv => /\ at \in 0 .. Len(tests) /\ StagesLeft \in 0 .. 4
                   /\ stage \in {"setup", "hooks", "abort"} => StageSteps \in Nat
  BY SuiteTypes DEF SerialInv, Deferred, Used, StagesLeft, StageSteps
<1> QED
  BY <1>1, <1>2, SerialInvariant, PTL DEF SerialSpec, SerialShortens
=============================================================================
