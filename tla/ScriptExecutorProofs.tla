------------------------- MODULE ScriptExecutorProofs -------------------------
(***************************************************************************)
(* That submit never loses a wakeup, and that a script is run at most once *)
(* and lost never, for any number of workers and scripts.                  *)
(*                                                                         *)
(* NoLostWakeup is not inductive: the worker that is about to wait decided *)
(* to do so in an earlier step, when it saw an empty queue.  The queue is  *)
(* still empty when it waits because it holds mtx_ since, and submit needs *)
(* mtx_ to push.  IInv states those two facts, and that a worker has a     *)
(* script exactly while it runs one.                                       *)
(***************************************************************************)
EXTENDS ScriptExecutor, TLAPS

MutexInv == \A w \in Workers : at[w] \in InCritical <=> mtx = w

BlocksOnEmptyQueue == \A w \in Workers : at[w] = "block" => tasks = <<>>

RunsWhatItTook == \A w \in Workers : at[w] = "run" <=> cmd[w] # NoOne

IInv ==
  /\ TypeOK /\ MutexInv /\ BlocksOnEmptyQueue /\ RunsWhatItTook
  /\ NoLostWakeup /\ ScriptsRunOnce

THEOREM PoolInitial == Init => IInv
<1> SUFFICES ASSUME Init PROVE IInv
  OBVIOUS
<1>1. TypeOK
  <2>1. tasks \in Seq(Scripts)
    BY DEF Init
  <2>. QED BY <2>1, PoolAssumption DEF Init, TypeOK
<1>2. MutexInv /\ BlocksOnEmptyQueue /\ RunsWhatItTook /\ NoLostWakeup
  BY PoolAssumption DEF Init, MutexInv, BlocksOnEmptyQueue, RunsWhatItTook, NoLostWakeup, InCritical
<1>3. ScriptsRunOnce
  <2>1. DOMAIN tasks = {} /\ {cmd[w] : w \in Workers} \ {NoOne} = {}
    BY DEF Init
  <2>. QED BY <2>1 DEF Init, ScriptsRunOnce
<1>. QED BY <1>1, <1>2, <1>3 DEF IInv

(* The type invariant is inductive with the fact that a worker that runs a *)
(* script has one.                                                         *)
LEMMA TypeStep == IInv /\ [Next]_vars => TypeOK'
<1> SUFFICES ASSUME IInv, [Next]_vars PROVE TypeOK'
  OBVIOUS
<1> USE PoolAssumption DEF IInv, TypeOK, RunsWhatItTook
<1>1. ASSUME NEW s \in Scripts, Push(s) PROVE TypeOK'
  BY <1>1 DEF Push
<1>2. CASE NotifyOne
  BY <1>2 DEF NotifyOne, Waiting
<1>3. ASSUME NEW w \in Workers, Loop(w) \/ Lock(w) \/ Test(w) \/ Block(w) \/ WakeSpuriously(w)
      PROVE TypeOK'
  BY <1>3 DEF Loop, Lock, Test, Block, WakeSpuriously, Goes
<1>4. ASSUME NEW w \in Workers, Take(w) PROVE TypeOK'
  <2>1. CASE tasks = <<>>
    BY <1>4, <2>1 DEF Take, Goes
  <2>2. CASE tasks # <<>>
    <3>1. Head(tasks) \in Scripts /\ Tail(tasks) \in Seq(Scripts)
      BY <2>2
    <3>. QED BY <1>4, <2>2, <3>1 DEF Take, Goes
  <2>. QED BY <2>1, <2>2
<1>5. ASSUME NEW w \in Workers, Run(w) PROVE TypeOK'
  <2>1. cmd[w] \in submitted
    BY <1>5 DEF Run, Goes, ScriptsRunOnce
  <2>. QED BY <1>5, <2>1 DEF Run, Goes
<1>6. CASE SetStop \/ NotifyAll \/ Join
  BY <1>6 DEF SetStop, NotifyAll, Join
<1>7. CASE UNCHANGED vars
  BY <1>7 DEF vars
<1>. QED BY <1>1, <1>2, <1>3, <1>4, <1>5, <1>6, <1>7, Zenon DEF Next, Worker, Terminated

(* The mutex excludes: whoever is in the critical section holds it.  Of    *)
(* the steps that move a worker, only Lock, Block and Take cross the       *)
(* border of the section, and they are the ones that change mtx_.          *)
LEMMA WaitStep == IInv /\ [Next]_vars => MutexInv' /\ BlocksOnEmptyQueue' /\ NoLostWakeup'
<1> SUFFICES ASSUME IInv, [Next]_vars
             PROVE  MutexInv' /\ BlocksOnEmptyQueue' /\ NoLostWakeup'
  OBVIOUS
<1> USE PoolAssumption DEF IInv, TypeOK, MutexInv, BlocksOnEmptyQueue, NoLostWakeup, InCritical
<1>1. ASSUME NEW s \in Scripts, Push(s) PROVE MutexInv' /\ BlocksOnEmptyQueue' /\ NoLostWakeup'
  BY <1>1 DEF Push
<1>2. CASE NotifyOne
  BY <1>2 DEF NotifyOne, Waiting
<1>3. ASSUME NEW w \in Workers, Loop(w) \/ Lock(w) \/ Test(w) \/ Block(w) \/ WakeSpuriously(w)
      PROVE MutexInv' /\ BlocksOnEmptyQueue' /\ NoLostWakeup'
  BY <1>3 DEF Loop, Lock, Test, Block, WakeSpuriously, Goes
<1>4. ASSUME NEW w \in Workers, Take(w) PROVE MutexInv' /\ BlocksOnEmptyQueue' /\ NoLostWakeup'
  BY <1>4 DEF Take, Goes
<1>5. ASSUME NEW w \in Workers, Run(w) PROVE MutexInv' /\ BlocksOnEmptyQueue' /\ NoLostWakeup'
  BY <1>5 DEF Run, Goes
<1>6. CASE SetStop \/ NotifyAll \/ Join
  BY <1>6 DEF SetStop, NotifyAll, Join
<1>7. CASE UNCHANGED vars
  BY <1>7 DEF vars
<1>. QED BY <1>1, <1>2, <1>3, <1>4, <1>5, <1>6, <1>7, Zenon DEF Next, Worker, Terminated

(* A worker gets a script when it starts to run it and has none after.     *)
LEMMA TakenStep == IInv /\ [Next]_vars => RunsWhatItTook'
<1> SUFFICES ASSUME IInv, [Next]_vars PROVE RunsWhatItTook'
  OBVIOUS
<1> USE PoolAssumption DEF IInv, TypeOK, RunsWhatItTook
<1>1. CASE \E s \in Scripts : Push(s)
  BY <1>1 DEF Push
<1>2. CASE NotifyOne
  BY <1>2 DEF NotifyOne, Waiting
<1>3. ASSUME NEW w \in Workers, Loop(w) \/ Lock(w) \/ Test(w) \/ Block(w) \/ WakeSpuriously(w)
      PROVE RunsWhatItTook'
  BY <1>3 DEF Loop, Lock, Test, Block, WakeSpuriously, Goes
<1>4. ASSUME NEW w \in Workers, Take(w) PROVE RunsWhatItTook'
  BY <1>4 DEF Take, Goes
<1>5. ASSUME NEW w \in Workers, Run(w) PROVE RunsWhatItTook'
  BY <1>5 DEF Run, Goes
<1>6. CASE SetStop \/ NotifyAll \/ Join
  BY <1>6 DEF SetStop, NotifyAll, Join
<1>7. CASE UNCHANGED vars
  BY <1>7 DEF vars
<1>. QED BY <1>1, <1>2, <1>3, <1>4, <1>5, <1>6, <1>7, Zenon DEF Next, Worker, Terminated

(* Submitting, taking and running move a script from one place to the      *)
(* next; every other step leaves the three places alone.                   *)
LEMMA OnceStep == IInv /\ [Next]_vars => ScriptsRunOnce'
<1> SUFFICES ASSUME IInv, [Next]_vars PROVE ScriptsRunOnce'
  OBVIOUS
<1> DEFINE queued == {tasks[i] : i \in DOMAIN tasks}
           taken  == {cmd[w] : w \in Workers} \ {NoOne}
<1>0. /\ TypeOK /\ RunsWhatItTook
      /\ submitted = queued \cup taken \cup ran
      /\ queued \cap (taken \cup ran) = {} /\ taken \cap ran = {}
      /\ \A i, j \in DOMAIN tasks : tasks[i] = tasks[j] => i = j
      /\ \A v, w \in Workers : cmd[v] = cmd[w] /\ v # w => cmd[v] = NoOne
  BY DEF IInv, ScriptsRunOnce
<1>1. ASSUME NEW s \in Scripts, Push(s) PROVE ScriptsRunOnce'
  <2>1. /\ tasks' = Append(tasks, s) /\ submitted' = submitted \cup {s} /\ s \notin submitted
        /\ UNCHANGED <<cmd, ran>>
    BY <1>1 DEF Push
  <2>2. queued' = queued \cup {s}
    BY <1>0, <2>1 DEF TypeOK
  <2>3. \A i, j \in DOMAIN tasks' : tasks'[i] = tasks'[j] => i = j
    BY <1>0, <2>1 DEF TypeOK
  <2>4. taken' = taken
    BY <2>1
  <2>5. /\ submitted' = queued' \cup taken' \cup ran'
        /\ queued' \cap (taken' \cup ran') = {} /\ taken' \cap ran' = {}
    <3> HIDE DEF queued, taken
    <3>. QED BY <1>0, <2>1, <2>2, <2>4
  <2>. QED BY <1>0, <2>1, <2>3, <2>5 DEF ScriptsRunOnce
<1>2. CASE UNCHANGED <<tasks, cmd, submitted, ran>>
  BY <1>2 DEF IInv, ScriptsRunOnce
<1>3. ASSUME NEW w \in Workers, Take(w), tasks # <<>> PROVE ScriptsRunOnce'
  <2> DEFINE s == Head(tasks)
  <2>1. /\ tasks' = Tail(tasks) /\ cmd' = [cmd EXCEPT ![w] = s] /\ cmd[w] = NoOne
        /\ UNCHANGED <<submitted, ran>>
    BY <1>0, <1>3 DEF Take, Goes, RunsWhatItTook, TypeOK
  <2>2. s \in queued /\ s # NoOne
    BY <1>0, <1>3, PoolAssumption DEF TypeOK
  <2>3. queued' = queued \ {s}
    <3>1. \A i \in DOMAIN tasks' : tasks'[i] = tasks[i + 1] /\ i + 1 \in DOMAIN tasks /\ i + 1 # 1
      BY <1>0, <1>3, <2>1 DEF TypeOK
    <3>2. \A i \in DOMAIN tasks \ {1} : i - 1 \in DOMAIN tasks' /\ tasks'[i - 1] = tasks[i]
      BY <1>0, <1>3, <2>1 DEF TypeOK
    <3>3. 1 \in DOMAIN tasks /\ tasks[1] = s
      BY <1>0, <1>3 DEF TypeOK
    <3>. QED BY <1>0, <3>1, <3>2, <3>3
  <2>4. taken' = taken \cup {s}
    BY <1>0, <2>1, <2>2 DEF TypeOK
  <2>5. \A i, j \in DOMAIN tasks' : tasks'[i] = tasks'[j] => i = j
    BY <1>0, <1>3, <2>1 DEF TypeOK
  <2>6. \A u, v \in Workers : cmd'[u] = cmd'[v] /\ u # v => cmd'[u] = NoOne
    <3>1. \A v \in Workers : cmd[v] # s
      BY <1>0, <2>2
    <3>2. cmd'[w] = s /\ \A v \in Workers \ {w} : cmd'[v] = cmd[v]
      BY <1>0, <1>3, <2>1 DEF TypeOK
    <3> HIDE DEF s, taken, queued
    <3>. QED BY <1>0, <3>1, <3>2
  <2>7. s \notin taken
    BY <1>0, <2>2
  <2>8. /\ submitted' = queued' \cup taken' \cup ran'
        /\ queued' \cap (taken' \cup ran') = {} /\ taken' \cap ran' = {}
    <3> HIDE DEF queued, taken, s
    <3>. QED BY <1>0, <2>1, <2>2, <2>3, <2>4, <2>7
  <2>. QED BY <2>5, <2>6, <2>8 DEF ScriptsRunOnce
<1>4. ASSUME NEW w \in Workers, Run(w) PROVE ScriptsRunOnce'
  <2>1. /\ ran' = ran \cup {cmd[w]} /\ cmd' = [cmd EXCEPT ![w] = NoOne] /\ cmd[w] \in taken
        /\ UNCHANGED <<tasks, submitted>>
    BY <1>0, <1>4 DEF Run, Goes, RunsWhatItTook
  <2>2. taken' = taken \ {cmd[w]}
    BY <1>0, <2>1 DEF TypeOK
  <2>3. queued' = queued
    BY <2>1
  <2>4. /\ submitted' = queued' \cup taken' \cup ran'
        /\ queued' \cap (taken' \cup ran') = {} /\ taken' \cap ran' = {}
    <3> HIDE DEF queued, taken
    <3>. QED BY <1>0, <2>1, <2>2, <2>3
  <2>5. \A i, j \in DOMAIN tasks' : tasks'[i] = tasks'[j] => i = j
    BY <1>0, <2>1
  <2>6. \A u, v \in Workers : cmd'[u] = cmd'[v] /\ u # v => cmd'[u] = NoOne
    BY <1>0, <2>1 DEF TypeOK
  <2>. QED BY <2>4, <2>5, <2>6 DEF ScriptsRunOnce
<1>5. ASSUME NEW w \in Workers, Take(w), tasks = <<>> PROVE ScriptsRunOnce'
  BY <1>2, <1>5 DEF Take
<1>. QED BY <1>1, <1>2, <1>3, <1>4, <1>5 DEF Next, Worker, Terminated, NotifyOne, Loop, Lock,
        Test, Block, WakeSpuriously, SetStop, NotifyAll, Join, vars

(* The strengthened invariant holds in every reachable state.              *)
THEOREM PoolInductive == Spec => []IInv
<1>1. IInv /\ [Next]_vars => IInv'
  BY TypeStep, WaitStep, TakenStep, OnceStep DEF IInv
<1>. QED BY PoolInitial, <1>1, PTL DEF Spec

(* Type correctness of the pool, its mutex and its wait set.               *)
THEOREM PoolTypeCorrect == Spec => []TypeOK
BY PoolInductive, PTL DEF IInv

(* A script that was submitted is never left in the queue by workers that  *)
(* are all asleep (submit and worker_loop, script_executor.hpp).           *)
THEOREM NoLostWakeupHolds == Spec => []NoLostWakeup
BY PoolInductive, PTL DEF IInv

(* A script is in one place at a time: queued, with one worker, or run.    *)
THEOREM ScriptsRunOnceHolds == Spec => []ScriptsRunOnce
BY PoolInductive, PTL DEF IInv

=============================================================================
