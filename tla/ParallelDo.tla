----------------------------- MODULE ParallelDo -----------------------------
(***************************************************************************)
(* ParallelDo of src/internal/parallel_do.cc: calls func once for each     *)
(* task, serially or from a pool of threads that draw task ids from a      *)
(* shared counter, and stops handing out ids when a call has failed.       *)
(*                                                                         *)
(* size_t is the integers 0..MaxSize and wraps.  Both atomics are only     *)
(* read and written by read-modify-write operations until the threads are  *)
(* joined, so that relaxed ordering shows no other values than the         *)
(* interleaving of these operations does.                                  *)
(***************************************************************************)
EXTENDS Integers

CONSTANTS
  MaxSize,          \* the largest size_t
  NumTasks,         \* values of num_tasks
  MaxParallelisms   \* values of max_parallelism

ASSUME MaxSizeAssumption == MaxSize \in Nat
ASSUME NumTasksAssumption == NumTasks \subseteq 0..MaxSize
\* An int is narrower than a size_t: the clamp never cuts below the threads.
ASSUME MaxParallelismsAssumption ==
  MaxParallelisms \subseteq {p \in Int : 2 * p <= MaxSize}

VARIABLES
  num_tasks,         \* the argument, clamped once the call has started
  max_parallelism,   \* the argument, cut to num_tasks likewise
  asked,             \* history: num_tasks as the caller passed it
  caller,            \* control state of the calling thread
  task_id,           \* the caller's loop counter when it calls func itself
  spawned,           \* threads created so far
  next_task,         \* atomic: the next task id to hand out
  failed_thread_id,  \* atomic: num_tasks until a thread has failed
  thread,            \* control state of each thread
  task,              \* the id each thread has drawn
  thread_results,    \* the task whose failure each thread has stored, or Ok
  result,            \* what the caller returns
  error_task,        \* the task whose status is returned, with "error"
  calls,             \* history: how often func was called for each id
  failed             \* history: the tasks whose call failed

args == <<num_tasks, max_parallelism, asked>>
atomics == <<next_task, failed_thread_id>>
pool == <<thread, task, thread_results>>
answer == <<result, error_task>>
history == <<calls, failed>>
vars == <<args, caller, task_id, spawned, atomics, pool, answer, history>>

Ok == -1
Threads == DOMAIN thread

Init ==
  /\ num_tasks \in NumTasks
  /\ asked = num_tasks
  /\ max_parallelism \in MaxParallelisms
  /\ caller = "start"
  /\ task_id = 0
  /\ spawned = 0
  /\ next_task = 0
  /\ failed_thread_id = 0
  /\ thread = <<>>
  /\ task = <<>>
  /\ thread_results = <<>>
  /\ result = "none"
  /\ error_task = 0
  /\ calls = [t \in 0..MaxSize |-> 0]
  /\ failed = {}

-----------------------------------------------------------------------------
(* The caller before it starts threads *)

AtMost(a, b) == IF a <= b THEN a ELSE b

RejectNegative ==
  /\ caller = "start"
  /\ max_parallelism < 0
  /\ caller' = "returned"
  /\ result' = "invalid"
  /\ UNCHANGED <<args, task_id, spawned, atomics, pool, error_task, history>>

Parallelism == AtMost(num_tasks, max_parallelism)

StartSerial ==
  /\ caller = "start"
  /\ max_parallelism >= 0
  /\ Parallelism <= 1
  /\ max_parallelism' = Parallelism
  /\ caller' = "serial"
  /\ UNCHANGED <<num_tasks, asked, task_id, spawned, atomics, pool, answer, history>>

\* Mutant: the counter is allowed to wrap.
Clamped_Not(p) == num_tasks

\* Leaves room for every thread to draw one id past the end.
Clamped(p) == AtMost(num_tasks, MaxSize - p)

StartPool ==
  /\ caller = "start"
  /\ Parallelism > 1
  /\ max_parallelism' = Parallelism
  /\ num_tasks' = Clamped(Parallelism)
  /\ next_task' = 0
  /\ failed_thread_id' = num_tasks'
  /\ thread' = [i \in 0..Parallelism-1 |-> "new"]
  /\ task' = [i \in 0..Parallelism-1 |-> 0]
  /\ thread_results' = [i \in 0..Parallelism-1 |-> Ok]
  /\ caller' = "spawn"
  /\ UNCHANGED <<asked, task_id, spawned, answer, history>>

Start == RejectNegative \/ StartSerial \/ StartPool

\* func(id): counted when the id is drawn.
CallOf(id) == calls' = [calls EXCEPT ![id] = @ + 1]

SerialCall ==
  /\ caller = "serial"
  /\ task_id < num_tasks
  /\ CallOf(task_id)
  /\ \/ /\ task_id' = task_id + 1
        /\ UNCHANGED <<caller, answer, failed>>
     \/ /\ failed' = failed \union {task_id}
        /\ caller' = "returned"
        /\ result' = "error"
        /\ error_task' = task_id
        /\ UNCHANGED task_id
  /\ UNCHANGED <<args, spawned, atomics, pool>>

SerialReturn ==
  /\ caller = "serial"
  /\ task_id = num_tasks
  /\ caller' = "returned"
  /\ result' = "ok"
  /\ UNCHANGED <<args, task_id, spawned, atomics, pool, error_task, history>>

-----------------------------------------------------------------------------
(* The pool *)

Spawn ==
  /\ caller = "spawn"
  /\ spawned < max_parallelism
  /\ thread' = [thread EXCEPT ![spawned] = "draw"]
  /\ spawned' = spawned + 1
  /\ UNCHANGED <<args, caller, task_id, atomics, task, thread_results, answer,
                 history>>

AllSpawned ==
  /\ caller = "spawn"
  /\ spawned = max_parallelism
  /\ caller' = "join"
  /\ UNCHANGED <<args, task_id, spawned, atomics, pool, answer, history>>

\* next_task.fetch_add(1)
Draw(i) ==
  /\ thread[i] = "draw"
  /\ next_task' = (next_task + 1) % (MaxSize + 1)
  /\ IF next_task < num_tasks
     THEN /\ thread' = [thread EXCEPT ![i] = "call"]
          /\ task' = [task EXCEPT ![i] = next_task]
          /\ CallOf(next_task)
     ELSE /\ thread' = [thread EXCEPT ![i] = "done"]
          /\ UNCHANGED <<task, calls>>
  /\ UNCHANGED <<args, caller, task_id, spawned, failed_thread_id,
                 thread_results, answer, failed>>

\* func returns, and its status is stored.
FuncReturns(i) ==
  /\ thread[i] = "call"
  /\ \/ /\ thread_results' = [thread_results EXCEPT ![i] = Ok]
        /\ thread' = [thread EXCEPT ![i] = "draw"]
        /\ UNCHANGED failed
     \/ /\ thread_results' = [thread_results EXCEPT ![i] = task[i]]
        /\ thread' = [thread EXCEPT ![i] = "fail"]
        /\ failed' = failed \union {task[i]}
  /\ UNCHANGED <<args, caller, task_id, spawned, atomics, task, answer, calls>>

\* Mutant: an exchange in a loop that does not see its own success.
PublishFailure_Retries(i) ==
  /\ thread[i] = "fail"
  /\ failed_thread_id' = i
  /\ UNCHANGED <<args, caller, task_id, spawned, next_task, pool, answer, history>>

\* failed_thread_id.exchange(thread_id)
PublishFailure(i) ==
  /\ thread[i] = "fail"
  /\ failed_thread_id' = i
  /\ thread' = [thread EXCEPT ![i] = "stop"]
  /\ UNCHANGED <<args, caller, task_id, spawned, next_task, task,
                 thread_results, answer, history>>

\* Mutant: the failing thread ends without closing the counter.
StopDrawing_Not(i) ==
  /\ thread[i] = "stop"
  /\ thread' = [thread EXCEPT ![i] = "done"]
  /\ UNCHANGED <<args, caller, task_id, spawned, atomics, task,
                 thread_results, answer, history>>

\* next_task.exchange(num_tasks)
StopDrawing(i) ==
  /\ thread[i] = "stop"
  /\ next_task' = num_tasks
  /\ thread' = [thread EXCEPT ![i] = "done"]
  /\ UNCHANGED <<args, caller, task_id, spawned, failed_thread_id, task,
                 thread_results, answer, history>>

Thread(i) == Draw(i) \/ FuncReturns(i) \/ PublishFailure(i) \/ StopDrawing(i)

\* Mutant: no failure is seen.
AnyFailure_Not == FALSE

Joined == \A i \in Threads : thread[i] = "done"
AnyFailure == failed_thread_id < num_tasks
ReturnedTask == thread_results[failed_thread_id]

JoinAndReturn ==
  /\ caller = "join"
  /\ Joined
  /\ caller' = "returned"
  /\ IF AnyFailure
     THEN result' = "error" /\ error_task' = ReturnedTask
     ELSE result' = "ok" /\ UNCHANGED error_task
  /\ UNCHANGED <<args, task_id, spawned, atomics, pool, history>>

Caller ==
  \/ Start \/ SerialCall \/ SerialReturn
  \/ Spawn \/ AllSpawned \/ JoinAndReturn

ThreadStep(i) == i \in Threads /\ Thread(i)

Returned ==
  /\ caller = "returned"
  /\ UNCHANGED vars

Next ==
  \/ Caller
  \/ \E i \in Threads : ThreadStep(i)
  \/ Returned

Spec == Init /\ [][Next]_vars

\* func returns, and the operating system runs every thread it has started.
Fairness ==
  /\ WF_vars(Caller)
  /\ \A i \in 0..MaxSize : WF_vars(ThreadStep(i))

FairSpec == Spec /\ Fairness

-----------------------------------------------------------------------------
(* Properties *)

\* The type invariant: threads exist only in the pool, and draw only ids of
\* tasks.
TypeOK ==
  /\ num_tasks \in 0..MaxSize /\ asked \in 0..MaxSize
  /\ max_parallelism \in Int /\ 2 * max_parallelism <= MaxSize
  /\ caller \in {"start", "serial", "spawn", "join", "returned"}
  /\ task_id \in 0..num_tasks
  /\ spawned \in Nat
  /\ next_task \in 0..MaxSize
  /\ failed_thread_id \in 0..MaxSize
  /\ \/ Threads = {}
     \/ Threads = 0..max_parallelism-1 /\ num_tasks + max_parallelism <= MaxSize
  /\ caller \in {"spawn", "join"} => Threads = 0..max_parallelism-1
  /\ thread \in [Threads -> {"new", "draw", "call", "fail", "stop", "done"}]
  /\ task \in [Threads -> 0..MaxSize]
  /\ thread_results \in [Threads -> {Ok} \union 0..MaxSize]
  /\ result \in {"none", "ok", "invalid", "error"}
  /\ error_task \in 0..MaxSize
  /\ calls \in [0..MaxSize -> Nat]
  /\ failed \subseteq 0..MaxSize

\* No task is run twice, even when the counter is set back by a failing thread
\* or has passed num_tasks at the top of its range (lines 52-55, 67-72).
AtMostOnce == \A t \in 0..MaxSize : calls[t] <= 1

\* Threads leave room in the counter for one draw past the end by each of them,
\* and the ids from there on are never drawn (lines 52-55).
Reached(t) == Threads # {} => t < MaxSize - max_parallelism

\* OK means that func never failed and was called for all ids that the caller
\* asked for, "[0, `num_tasks`)" (parallel_do.h:29), and for no others; except
\* that ids which threads do not reach are not called, and OK is returned all the
\* same.
OkMeansAll ==
  result = "ok" =>
    failed = {} /\ \A t \in 0..MaxSize : (calls[t] = 1) <=> (t < asked /\ Reached(t))

\* The status returned is that of a call that did fail, although the failing
\* threads race to record themselves (lines 69-74, 83-86).
ErrorIsReal == result = "error" => error_task \in failed

\* When the call returns, no thread uses func or the caller's locals any more.
NothingRunsAfterReturn ==
  caller = "returned" => \A i \in Threads : thread[i] = "done"

\* "Stops on first task failure seen" (parallel_do.h:30): once a failing thread
\* has ended, no other thread begins a task.
FailureSeen ==
  \E i \in Threads : thread[i] = "done" /\ thread_results[i] # Ok
StopsOnFailure == [][FailureSeen => calls' = calls]_vars

\* The call returns if every call of func does.
Returns == <>(caller = "returned")
=============================================================================
