---------------------------- MODULE ScriptExecutor ----------------------------
(***************************************************************************)
(* The pool that runs the configured scripts (script_executor.hpp): a      *)
(* queue under a mutex, a condition variable, and a fixed set of workers.  *)
(*                                                                         *)
(* The condition variable is modelled with its wait set, because the two   *)
(* ways of waking a worker differ: submit changes the queue under mtx_     *)
(* before it notifies, whereas the destructor stores stop_ without taking  *)
(* mtx_.  cv_.wait(lock, pred) is the loop "while (!pred()) wait": a       *)
(* worker evaluates the predicate with the mutex held ("test") and then,   *)
(* atomically, releases it and joins the wait set ("block").               *)
(***************************************************************************)
EXTENDS Naturals, Sequences

CONSTANTS
  Workers,   \* the threads of the pool
  Scripts,   \* command lines that the program submits
  NoOne      \* the mutex is free

ASSUME PoolAssumption == NoOne \notin Workers \cup Scripts /\ Workers # {}

VARIABLES
  tasks,      \* tasks_
  stop,       \* stop_
  mtx,        \* who holds mtx_
  at,         \* where each worker is in worker_loop
  cmd,        \* the script a worker has taken
  notices,    \* calls of submit that have pushed but not yet notified
  submitted,  \* history: scripts handed to submit
  ran,        \* history: scripts that std::system has run
  main        \* where the destructor is

vars == <<tasks, stop, mtx, at, cmd, notices, submitted, ran, main>>

Init ==
  /\ tasks = <<>> /\ notices = 0 /\ submitted = {} /\ ran = {}
  /\ stop = FALSE /\ mtx = NoOne /\ main = "run"
  /\ at = [w \in Workers |-> "loop"]
  /\ cmd = [w \in Workers |-> NoOne]

-----------------------------------------------------------------------------
(* submit.  Any thread may call it, until the static pool is destroyed.    *)

Push(s) ==
  /\ main = "run" /\ s \notin submitted
  /\ mtx = NoOne
  /\ tasks' = Append(tasks, s)
  /\ submitted' = submitted \cup {s}
  /\ notices' = notices + 1
  /\ UNCHANGED <<stop, mtx, at, cmd, ran, main>>

Waiting == {w \in Workers : at[w] = "wait"}

(* notify_one wakes one waiting worker, or nobody if none waits.           *)
NotifyOne ==
  /\ notices > 0
  /\ notices' = notices - 1
  /\ IF Waiting = {} THEN UNCHANGED at
     ELSE \E w \in Waiting : at' = [at EXCEPT ![w] = "lock"]
  /\ UNCHANGED <<tasks, stop, mtx, cmd, submitted, ran, main>>

-----------------------------------------------------------------------------
(* worker_loop *)

Goes(w, here, there) == at[w] = here /\ at' = [at EXCEPT ![w] = there]

Loop(w) ==
  /\ Goes(w, "loop", IF stop THEN "exit" ELSE "lock")
  /\ UNCHANGED <<tasks, stop, mtx, cmd, notices, submitted, ran, main>>

Lock(w) ==
  /\ Goes(w, "lock", "test")
  /\ mtx = NoOne /\ mtx' = w
  /\ UNCHANGED <<tasks, stop, cmd, notices, submitted, ran, main>>

(* Mutant: the predicate of the wait looks at stop_ only.                  *)
Test_IgnoresQueue(w) ==
  /\ Goes(w, "test", IF stop THEN "take" ELSE "block")
  /\ UNCHANGED <<tasks, stop, mtx, cmd, notices, submitted, ran, main>>

Test(w) ==
  /\ Goes(w, "test", IF tasks # <<>> \/ stop THEN "take" ELSE "block")
  /\ UNCHANGED <<tasks, stop, mtx, cmd, notices, submitted, ran, main>>

Block(w) ==
  /\ Goes(w, "block", "wait")
  /\ mtx' = NoOne
  /\ UNCHANGED <<tasks, stop, cmd, notices, submitted, ran, main>>

(* A condition variable may wake a waiter for no reason.                   *)
WakeSpuriously(w) ==
  /\ Goes(w, "wait", "lock")
  /\ UNCHANGED <<tasks, stop, mtx, cmd, notices, submitted, ran, main>>

(* Mutant: the front task is copied but not popped.                        *)
Take_KeepsFront(w) ==
  /\ mtx' = NoOne
  /\ IF tasks = <<>> THEN Goes(w, "take", "loop") /\ UNCHANGED <<tasks, cmd>>
     ELSE /\ Goes(w, "take", "run")
          /\ cmd' = [cmd EXCEPT ![w] = Head(tasks)]
          /\ UNCHANGED tasks
  /\ UNCHANGED <<stop, notices, submitted, ran, main>>

Take(w) ==
  /\ mtx' = NoOne
  /\ IF tasks = <<>> THEN Goes(w, "take", "loop") /\ UNCHANGED <<tasks, cmd>>
     ELSE /\ Goes(w, "take", "run")
          /\ cmd' = [cmd EXCEPT ![w] = Head(tasks)]
          /\ tasks' = Tail(tasks)
  /\ UNCHANGED <<stop, notices, submitted, ran, main>>

(* Mutant: a worker whose script fails leaves the loop.                    *)
Run_EndsWorker(w) ==
  /\ Goes(w, "run", "exit")
  /\ ran' = ran \cup {cmd[w]}
  /\ cmd' = [cmd EXCEPT ![w] = NoOne]
  /\ UNCHANGED <<tasks, stop, mtx, notices, submitted, main>>

(* std::system returns.                                                    *)
Run(w) ==
  /\ Goes(w, "run", "loop")
  /\ ran' = ran \cup {cmd[w]}
  /\ cmd' = [cmd EXCEPT ![w] = NoOne]
  /\ UNCHANGED <<tasks, stop, mtx, notices, submitted, main>>

Worker(w) == Loop(w) \/ Lock(w) \/ Test(w) \/ Block(w) \/ Take(w) \/ Run(w)

-----------------------------------------------------------------------------
(* The destructor, at the end of the process *)

SetStop ==
  /\ main = "run" /\ notices = 0
  /\ main' = "notify"
  /\ stop' = TRUE
  /\ UNCHANGED <<tasks, mtx, at, cmd, notices, submitted, ran>>

NotifyAll ==
  /\ main = "notify"
  /\ main' = "join"
  /\ at' = [w \in Workers |-> IF at[w] = "wait" THEN "lock" ELSE at[w]]
  /\ UNCHANGED <<tasks, stop, mtx, cmd, notices, submitted, ran>>

Join ==
  /\ main = "join" /\ \A w \in Workers : at[w] = "exit"
  /\ main' = "done"
  /\ UNCHANGED <<tasks, stop, mtx, at, cmd, notices, submitted, ran>>

Terminated == main = "done" /\ UNCHANGED vars

-----------------------------------------------------------------------------

Next ==
  \/ \E s \in Scripts : Push(s)
  \/ NotifyOne
  \/ \E w \in Workers : Worker(w) \/ WakeSpuriously(w)
  \/ SetStop \/ NotifyAll \/ Join \/ Terminated

Spec == Init /\ [][Next]_vars

(* The workers, the submitting threads and the destructor keep running and *)
(* a waiting thread gets the mutex in the end; nothing is assumed about    *)
(* spurious wakeups, nor that the process ever ends.                       *)
FairSpec ==
  /\ Spec
  /\ WF_vars(NotifyOne)
  /\ \A w \in Workers : WF_vars(Loop(w) \/ Test(w) \/ Block(w) \/ Take(w) \/ Run(w))
  /\ \A w \in Workers : SF_vars(Lock(w))
  /\ WF_vars(NotifyAll \/ Join)

-----------------------------------------------------------------------------
(* Properties *)

InCritical == {"test", "block", "take"}

TypeOK ==
  /\ tasks \in Seq(Scripts) /\ notices \in Nat
  /\ submitted \subseteq Scripts /\ ran \subseteq submitted
  /\ stop \in BOOLEAN /\ mtx \in Workers \cup {NoOne}
  /\ at \in [Workers -> {"loop", "lock", "test", "block", "wait", "take", "run", "exit"}]
  /\ cmd \in [Workers -> Scripts \cup {NoOne}]
  /\ main \in {"run", "notify", "join", "done"}

(* submit cannot lose a wakeup: while a script is queued and nobody is     *)
(* about to notify, some worker is on its way to the queue.  notify_one    *)
(* may wake a worker for a task that a busy one then takes, and may find   *)
(* nobody waiting; neither leaves a script behind with all workers asleep. *)
NoLostWakeup ==
  tasks # <<>> /\ notices = 0 => \E w \in Workers : at[w] # "wait"

(* A script is in one place only: queued once, taken by one worker, or     *)
(* run.  None is run twice and none disappears before the pool is stopped. *)
ScriptsRunOnce ==
  LET queued == {tasks[i] : i \in DOMAIN tasks}
      taken  == {cmd[w] : w \in Workers} \ {NoOne}
  IN  /\ submitted = queued \cup taken \cup ran
      /\ queued \cap (taken \cup ran) = {} /\ taken \cap ran = {}
      /\ \A i, j \in DOMAIN tasks : tasks[i] = tasks[j] => i = j
      /\ \A v, w \in Workers : cmd[v] = cmd[w] /\ v # w => cmd[v] = NoOne

(* Every script that was submitted is run, unless the pool is stopped.     *)
ScriptsRun == \A s \in Scripts : s \in submitted ~> s \in ran \/ stop

(* README: "clean shutdown".  The destructor that has asked the workers to *)
(* stop gets to the end.                                                   *)
ShutdownCompletes == stop ~> main = "done"

=============================================================================
