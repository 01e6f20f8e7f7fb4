--------------------------- MODULE ParallelDoProof ---------------------------
(***************************************************************************)
(* Proofs about ParallelDo for every width of size_t, every number of      *)
(* tasks and every max_parallelism.                                        *)
(***************************************************************************)
EXTENDS ParallelDo, FiniteSetTheorems, TLAPS

\* Threads that will not draw again.
Finished == {i \in Threads : thread[i] = "done"}

\* Threads whose last call failed.
Failing == {i \in Threads : thread_results[i] # Ok}

Called(n) == \A t \in 0..MaxSize : calls[t] = IF t < n THEN 1 ELSE 0

StartInv ==
  caller = "start" =>
    /\ Threads = {} /\ task_id = 0 /\ spawned = 0
    /\ failed = {} /\ Called(0)

\* The caller calls func itself.
SerialInv ==
  Threads = {} =>
    /\ caller = "serial" => failed = {} /\ Called(task_id)
    /\ caller = "returned" /\ result = "ok" => failed = {} /\ Called(num_tasks)
    /\ caller = "returned" /\ result = "invalid" => failed = {} /\ Called(0)
    /\ caller = "returned" /\ result = "error" =>
         failed = {error_task} /\ Called(error_task + 1)

\* The counter, and what has been drawn from it.
CounterInv ==
  Threads # {} =>
    /\ max_parallelism \in 2..num_tasks
    /\ next_task <= num_tasks + Cardinality(Finished)
    /\ \A t \in 0..MaxSize :
         calls[t] = 0 \/ (calls[t] = 1 /\ t < next_task /\ t < num_tasks)
    /\ (\A i \in Finished : thread_results[i] = Ok) =>
         \A t \in 0..MaxSize : t < next_task /\ t < num_tasks => calls[t] = 1

\* What the threads know, and what they have published.
ThreadInv ==
  Threads # {} =>
    /\ \A i \in Failing : /\ thread[i] \in {"fail", "stop", "done"}
                          /\ thread_results[i] \in failed
                          /\ thread[i] # "fail" => failed_thread_id # num_tasks
    /\ \A i \in Threads : /\ thread[i] \in {"fail", "stop"} => i \in Failing
                          /\ thread[i] = "call" => task[i] < num_tasks
                          /\ thread[i] = "done" => next_task >= num_tasks
                          /\ spawned <= i => thread[i] = "new"
    /\ failed # {} => Failing # {}
    /\ failed_thread_id \in Failing \union {num_tasks}

ReturnInv ==
  Threads # {} =>
    /\ caller \in {"spawn", "join", "returned"}
    /\ caller = "returned" =>
         /\ \A i \in Threads : thread[i] = "done"
         /\ \/ result = "ok" /\ failed_thread_id = num_tasks
            \/ result = "error" /\ error_task \in failed

CallerInv ==
  /\ result # "none" <=> caller = "returned"
  /\ caller \in {"spawn", "join"} => Threads # {}

IInv == /\ TypeOK /\ StartInv /\ SerialInv /\ CounterInv /\ ThreadInv
        /\ ReturnInv /\ CallerInv
LEMMA InitIInv == Init => IInv
<1>. SUFFICES ASSUME Init
              PROVE  IInv
  OBVIOUS
<1>1. /\ num_tasks \in 0..MaxSize /\ asked \in 0..MaxSize
      /\ max_parallelism \in Int /\ 2 * max_parallelism <= MaxSize
  BY NumTasksAssumption, MaxParallelismsAssumption DEF Init
<1>2. Threads = {} /\ thread = [i \in {} |-> 0]
  BY DEF Init, Threads
<1>3. TypeOK
  BY <1>1, <1>2, MaxSizeAssumption DEF Init, TypeOK
<1>4. Called(0)
  BY MaxSizeAssumption DEF Init, Called
<1>. QED
  BY <1>2, <1>3, <1>4 DEF Init, IInv, StartInv, SerialInv, CounterInv, ThreadInv,
                          ReturnInv, CallerInv

LEMMA RejectNegativeIInv ==
  ASSUME IInv, RejectNegative
  PROVE  IInv'
<1>. USE DEF args, atomics, pool, answer, history
<1>1. TypeOK'
  BY DEF IInv, TypeOK, RejectNegative, Threads
<1>2. Threads' = {}
  BY DEF IInv, StartInv, RejectNegative, Threads
<1>. QED
  BY <1>1, <1>2 DEF IInv, StartInv, SerialInv, CounterInv, ThreadInv, ReturnInv,
                    CallerInv, RejectNegative, Called

LEMMA StartSerialIInv ==
  ASSUME IInv, StartSerial
  PROVE  IInv'
<1>. USE DEF args, atomics, pool, answer, history
<1>1. Threads' = {} /\ Threads = {}
  BY DEF IInv, StartInv, StartSerial, Threads
<1>2. TypeOK'
  BY <1>1, MaxSizeAssumption
     DEF IInv, TypeOK, StartSerial, Threads, Parallelism, AtMost
<1>. QED
  BY <1>1, <1>2 DEF IInv, StartInv, SerialInv, CounterInv, ThreadInv, ReturnInv,
                    CallerInv, StartSerial, Called

LEMMA SerialCallIInv ==
  ASSUME IInv, SerialCall
  PROVE  IInv'
<1>. USE DEF args, atomics, pool, answer, history
<1>1. Threads' = {} /\ Threads = {}
  BY DEF IInv, ReturnInv, TypeOK, SerialCall, Threads
<1>2. /\ task_id \in 0..num_tasks /\ task_id # num_tasks
      /\ num_tasks \in 0..MaxSize
      /\ failed = {} /\ Called(task_id)
      /\ calls \in [0..MaxSize -> Nat]
  BY <1>1, MaxSizeAssumption DEF IInv, TypeOK, SerialCall, SerialInv
<1>3. task_id \in 0..MaxSize /\ task_id + 1 \in 0..num_tasks
  BY <1>2, MaxSizeAssumption
<1>4. calls' = [calls EXCEPT ![task_id] = calls[task_id] + 1]
  BY DEF SerialCall, CallOf
<1>5. \A t \in 0..MaxSize : calls'[t] = IF t < task_id + 1 THEN 1 ELSE 0
  BY <1>2, <1>3, <1>4, MaxSizeAssumption DEF Called
<1>6. /\ calls' \in [0..MaxSize -> Nat]
      /\ UNCHANGED <<args, spawned, atomics, pool>>
  BY <1>2, <1>3, <1>4 DEF SerialCall
<1>7. CASE /\ task_id' = task_id + 1
           /\ UNCHANGED <<caller, answer, failed>>
  <2>1. TypeOK'
    BY <1>1, <1>2, <1>3, <1>6, <1>7 DEF IInv, TypeOK, Threads
  <2>. QED
    BY <1>1, <1>2, <1>5, <1>7, <2>1
       DEF SerialCall, IInv, StartInv, SerialInv, CounterInv, ThreadInv, ReturnInv,
           CallerInv, Called
<1>8. CASE /\ failed' = failed \union {task_id}
           /\ caller' = "returned"
           /\ result' = "error"
           /\ error_task' = task_id
           /\ UNCHANGED task_id
  <2>1. TypeOK'
    BY <1>1, <1>2, <1>3, <1>6, <1>8 DEF IInv, TypeOK, Threads
  <2>. QED
    BY <1>1, <1>2, <1>5, <1>8, <2>1
       DEF SerialCall, IInv, StartInv, SerialInv, CounterInv, ThreadInv, ReturnInv,
           CallerInv, Called
<1>. QED
  BY <1>7, <1>8 DEF SerialCall

LEMMA SerialReturnIInv ==
  ASSUME IInv, SerialReturn
  PROVE  IInv'
<1>. USE DEF args, atomics, pool, answer, history
<1>1. Threads' = {} /\ Threads = {}
  BY DEF IInv, ReturnInv, TypeOK, SerialReturn, Threads
<1>2. TypeOK'
  BY DEF IInv, TypeOK, SerialReturn, Threads
<1>. QED
  BY <1>1, <1>2 DEF IInv, StartInv, SerialInv, CounterInv, ThreadInv, ReturnInv,
                    CallerInv, SerialReturn, Called
\* The threads that have finished are no more than the threads there are.
LEMMA FinishedCount ==
  ASSUME TypeOK, Threads # {}
  PROVE  /\ Threads = 0..max_parallelism-1
         /\ IsFiniteSet(Finished)
         /\ Cardinality(Finished) \in Nat
         /\ Cardinality(Finished) <= max_parallelism
         /\ num_tasks + max_parallelism <= MaxSize
<1>1. /\ Threads = 0..max_parallelism-1 /\ max_parallelism \in Int
      /\ num_tasks + max_parallelism <= MaxSize
  BY DEF TypeOK
<1>2. /\ max_parallelism > 0
      /\ IsFiniteSet(Threads) /\ Cardinality(Threads) = max_parallelism
  BY <1>1, FS_Interval
<1>3. Finished \in SUBSET Threads
  BY DEF Finished
<1>. QED
  BY <1>1, <1>2, <1>3, FS_Subset, FS_CardinalityType

LEMMA StartPoolIInv ==
  ASSUME IInv, StartPool
  PROVE  IInv'
<1>. USE DEF args, atomics, pool, answer, history
<1>1. /\ num_tasks \in 0..MaxSize /\ max_parallelism \in Int
      /\ 2 * max_parallelism <= MaxSize /\ MaxSize \in Nat
  BY MaxSizeAssumption DEF IInv, TypeOK
<1>. DEFINE p == Parallelism
<1>2. /\ p \in Nat /\ 2 <= p /\ p <= num_tasks /\ 2 * p <= MaxSize
      /\ max_parallelism' = p
  BY <1>1 DEF StartPool, Parallelism, AtMost
<1>3. /\ num_tasks' \in p..MaxSize /\ num_tasks' + p <= MaxSize
  BY <1>1, <1>2 DEF StartPool, Clamped, AtMost
<1>4. /\ thread' = [i \in 0..p-1 |-> "new"]
      /\ task' = [i \in 0..p-1 |-> 0]
      /\ thread_results' = [i \in 0..p-1 |-> Ok]
      /\ next_task' = 0 /\ failed_thread_id' = num_tasks'
      /\ caller' = "spawn"
      /\ UNCHANGED <<task_id, spawned, answer, history>>
  BY DEF StartPool
<1>5. /\ Threads' = 0..p-1 /\ Threads' # {}
  <2>1. Threads' = 0..p-1
    BY <1>4 DEF Threads
  <2>2. 0 \in 0..p-1
    BY <1>2
  <2>. QED
    BY <2>1, <2>2
<1>6. task_id = 0 /\ spawned = 0 /\ failed = {} /\ Called(0) /\ result = "none"
  BY DEF IInv, StartInv, CallerInv, TypeOK, StartPool
<1>. HIDE DEF p
<1>7. TypeOK'
  <2>1. /\ thread' \in [Threads' -> {"new", "draw", "call", "fail", "stop", "done"}]
        /\ task' \in [Threads' -> 0..MaxSize]
        /\ thread_results' \in [Threads' -> {Ok} \union 0..MaxSize]
    BY <1>1, <1>4, <1>5
  <2>2. /\ num_tasks' \in 0..MaxSize /\ task_id' \in 0..num_tasks'
        /\ next_task' \in 0..MaxSize /\ failed_thread_id' \in 0..MaxSize
    BY <1>1, <1>2, <1>3, <1>4, <1>6
  <2>4. asked' \in 0..MaxSize
    BY DEF IInv, TypeOK, StartPool
  <2>3. max_parallelism' \in Int /\ 2 * max_parallelism' <= MaxSize
    BY <1>2
  <2>. QED
    BY <1>2, <1>3, <1>4, <1>5, <1>6, <2>1, <2>2, <2>3, <2>4 DEF IInv, TypeOK
<1>8. Finished' = {} /\ Failing' = {}
  BY <1>4, <1>5 DEF Finished, Failing
<1>9. CounterInv'
  BY <1>1, <1>2, <1>3, <1>4, <1>5, <1>6, <1>8, FS_EmptySet
     DEF CounterInv, Called
<1>10. ThreadInv'
  BY <1>4, <1>5, <1>6, <1>8 DEF ThreadInv, Failing
<1>. QED
  BY <1>4, <1>5, <1>6, <1>7, <1>9, <1>10
     DEF IInv, StartInv, SerialInv, ReturnInv, CallerInv

LEMMA SpawnIInv ==
  ASSUME IInv, Spawn
  PROVE  IInv'
<1>. USE DEF args, atomics, pool, answer, history
<1>1. /\ TypeOK /\ Threads = 0..max_parallelism-1 /\ spawned \in Threads
      /\ caller = "spawn" /\ Threads # {}
      /\ Threads' = Threads
      /\ thread[spawned] = "new"
      /\ thread' = [thread EXCEPT ![spawned] = "draw"]
      /\ spawned' = spawned + 1
      /\ UNCHANGED <<args, caller, task_id, atomics, task, thread_results, answer,
                     history>>
  <2>1. TypeOK /\ Threads = 0..max_parallelism-1 /\ Threads # {}
    BY DEF IInv, TypeOK, Spawn, CallerInv
  <2>2. spawned \in Threads
    BY <2>1 DEF TypeOK, Spawn
  <2>. QED
    BY <2>1, <2>2 DEF IInv, Spawn, Threads, ThreadInv
<1>2. TypeOK'
  <2>1. thread' \in [Threads -> {"new", "draw", "call", "fail", "stop", "done"}]
    BY <1>1 DEF TypeOK
  <2>2. /\ spawned' \in Nat
        /\ UNCHANGED <<num_tasks, max_parallelism, asked, caller, task_id, next_task,
                       failed_thread_id, task, thread_results, result,
                       error_task, calls, failed>>
    BY <1>1
  <2>. QED
    BY <1>1, <2>1, <2>2 DEF TypeOK
<1>3. \A i \in Threads : i # spawned => thread'[i] = thread[i]
  BY <1>1 DEF TypeOK
<1>4. Finished' = Finished /\ Failing' = Failing /\ spawned \notin Failing
  BY <1>1, <1>3 DEF Finished, Failing, TypeOK, IInv, ThreadInv
<1>5. CounterInv'
  BY <1>1, <1>4 DEF IInv, CounterInv
<1>6. ThreadInv'
  <2>1. \A i \in Failing : /\ thread'[i] = thread[i]
                           /\ thread_results'[i] = thread_results[i]
    BY <1>1, <1>3, <1>4 DEF Failing
  <2>2. thread'[spawned] = "draw" /\ \A i \in Threads : spawned' <= i => i # spawned /\ spawned <= i
    BY <1>1 DEF TypeOK
  <2>. QED
    BY <1>1, <1>3, <1>4, <2>1, <2>2 DEF IInv, ThreadInv
<1>. QED
  BY <1>1, <1>2, <1>5, <1>6
     DEF IInv, StartInv, SerialInv, ReturnInv, CallerInv

LEMMA AllSpawnedIInv ==
  ASSUME IInv, AllSpawned
  PROVE  IInv'
<1>. USE DEF args, atomics, pool, answer, history
<1>1. /\ Threads' = Threads /\ Threads # {}
      /\ Finished' = Finished /\ Failing' = Failing
  BY DEF IInv, CallerInv, AllSpawned, Threads, Finished, Failing
<1>2. TypeOK'
  BY <1>1 DEF IInv, TypeOK, AllSpawned
<1>. QED
  BY <1>1, <1>2 DEF AllSpawned, IInv, StartInv, SerialInv, CounterInv, ThreadInv,
                    ReturnInv, CallerInv, TypeOK
\* Arithmetic of a counter that does not reach its top.
LEMMA NoWrap ==
  ASSUME NEW m \in Nat, NEW n \in 0..m
  PROVE  n % (m + 1) = n
OBVIOUS

\* What holds of the pool whenever a thread takes a step.
LEMMA PoolFacts ==
  ASSUME IInv, NEW i \in Threads
  PROVE  /\ TypeOK /\ Threads # {} /\ i \in 0..max_parallelism-1
         /\ Threads = 0..max_parallelism-1
         /\ max_parallelism \in 2..num_tasks
         /\ num_tasks \in 0..MaxSize /\ next_task \in 0..MaxSize
         /\ MaxSize \in Nat /\ num_tasks + max_parallelism <= MaxSize
         /\ i < num_tasks
         /\ thread \in [Threads -> {"new", "draw", "call", "fail", "stop", "done"}]
         /\ task \in [Threads -> 0..MaxSize]
         /\ thread_results \in [Threads -> {Ok} \union 0..MaxSize]
         /\ calls \in [0..MaxSize -> Nat]
         /\ failed \subseteq 0..MaxSize
         /\ thread[i] # "done" => caller \in {"spawn", "join"}
<1>1. TypeOK /\ Threads # {} /\ Threads = 0..max_parallelism-1
  BY DEF IInv, TypeOK
<1>2. max_parallelism \in 2..num_tasks /\ num_tasks \in 0..MaxSize
      /\ num_tasks + max_parallelism <= MaxSize
  BY <1>1 DEF IInv, CounterInv, TypeOK
<1>3. i \in 0..max_parallelism-1 /\ i < num_tasks
  BY <1>1, <1>2, MaxSizeAssumption
<1>. QED
  BY <1>1, <1>2, <1>3, MaxSizeAssumption DEF TypeOK, IInv, ReturnInv

\* Drawing an id: one more call of a task not yet called, or the end.
LEMMA DrawIInv ==
  ASSUME IInv, NEW i \in Threads, Draw(i)
  PROVE  IInv'
<1>. USE DEF args, atomics, pool, answer, history
<1>1. /\ TypeOK /\ Threads # {} /\ Threads = 0..max_parallelism-1
      /\ max_parallelism \in 2..num_tasks
      /\ num_tasks \in 0..MaxSize /\ next_task \in 0..MaxSize
      /\ MaxSize \in Nat /\ num_tasks + max_parallelism <= MaxSize
      /\ thread \in [Threads -> {"new", "draw", "call", "fail", "stop", "done"}]
      /\ task \in [Threads -> 0..MaxSize]
      /\ calls \in [0..MaxSize -> Nat]
      /\ thread[i] = "draw" /\ caller \in {"spawn", "join"}
  BY PoolFacts DEF Draw
<1>2. i \notin Finished /\ i \notin Failing
  BY <1>1 DEF Finished, Failing, IInv, ThreadInv
<1>3. UNCHANGED <<num_tasks, max_parallelism, asked, caller, task_id, spawned,
                  failed_thread_id, thread_results, result, error_task, failed>>
  BY DEF Draw
<1>4. CASE next_task < num_tasks
  <2>1. /\ next_task' = next_task + 1 /\ next_task' \in 0..MaxSize
        /\ next_task' <= num_tasks
        /\ thread' = [thread EXCEPT ![i] = "call"]
        /\ task' = [task EXCEPT ![i] = next_task]
        /\ calls' = [calls EXCEPT ![next_task] = calls[next_task] + 1]
    <3>1. next_task + 1 \in 0..MaxSize /\ next_task + 1 <= num_tasks
      BY <1>1, <1>4
    <3>2. next_task' = (next_task + 1) % (MaxSize + 1)
      BY DEF Draw
    <3>3. next_task' = next_task + 1
      BY <1>1, <3>1, <3>2, NoWrap
    <3>. QED
      BY <1>4, <3>1, <3>3 DEF Draw, CallOf
  <2>2. /\ Threads' = Threads /\ Finished' = Finished /\ Failing' = Failing
    BY <1>1, <1>2, <1>3, <2>1 DEF Threads, Finished, Failing
  <2>3. TypeOK'
    <3>1. thread' \in [Threads -> {"new", "draw", "call", "fail", "stop", "done"}]
      BY <1>1, <2>1
    <3>2. task' \in [Threads -> 0..MaxSize]
      BY <1>1, <2>1
    <3>3. calls' \in [0..MaxSize -> Nat]
      <4>1. next_task \in 0..MaxSize /\ calls \in [0..MaxSize -> Nat]
        BY <1>1
      <4>2. calls[next_task] \in Nat
        BY <4>1
      <4>3. calls[next_task] + 1 \in Nat
        BY <4>2
      <4>. QED
        BY <1>1, <2>1, <4>3
    <3>. QED
      BY <1>1, <1>3, <2>1, <2>2, <3>1, <3>2, <3>3 DEF TypeOK
  <2>4. calls[next_task] = 0
    BY <1>1 DEF IInv, CounterInv
  <2>5. /\ calls'[next_task] = 1
        /\ \A t \in 0..MaxSize : t # next_task => calls'[t] = calls[t]
    BY <1>1, <2>1, <2>4
  <2>6. CounterInv'
    <3>1. next_task' <= num_tasks' + Cardinality(Finished')
      <4>1. Cardinality(Finished) \in Nat
        BY <1>1, FinishedCount
      <4>. QED
        BY <1>1, <1>3, <2>1, <2>2, <4>1
    <3>2. \A t \in 0..MaxSize :
            calls'[t] = 0 \/ (calls'[t] = 1 /\ t < next_task' /\ t < num_tasks')
      <4>. TAKE t \in 0..MaxSize
      <4>1. CASE t = next_task
        BY <1>1, <1>3, <1>4, <2>1, <2>5, <4>1
      <4>2. CASE t # next_task
        <5>1. calls[t] = 0 \/ (calls[t] = 1 /\ t < next_task /\ t < num_tasks)
          BY <1>1 DEF IInv, CounterInv
        <5>. QED
          BY <1>1, <1>3, <2>1, <2>5, <4>2, <5>1
      <4>. QED
        BY <4>1, <4>2
    <3>3. ASSUME \A j \in Finished' : thread_results'[j] = Ok,
                 NEW t \in 0..MaxSize, t < next_task', t < num_tasks'
          PROVE  calls'[t] = 1
      <4>1. \A j \in Finished : thread_results[j] = Ok
        BY <1>3, <2>2, <3>3
      <4>2. CASE t = next_task
        BY <2>5, <4>2
      <4>3. CASE t # next_task
        <5>1. t < next_task /\ t < num_tasks
          BY <1>1, <1>3, <2>1, <3>3, <4>3
        <5>. QED
          BY <1>1, <2>5, <4>1, <4>3, <5>1 DEF IInv, CounterInv
      <4>. QED
        BY <4>2, <4>3
    <3>. QED
      BY <1>1, <1>3, <2>2, <3>1, <3>2, <3>3 DEF CounterInv
  <2>7. ThreadInv'
    <3>1. ThreadInv /\ thread'[i] = "call" /\ task'[i] = next_task
      BY <1>1, <2>1 DEF IInv
    <3>2. \A j \in Threads : j # i => thread'[j] = thread[j] /\ task'[j] = task[j]
      BY <1>1, <2>1
    <3>3. \A j \in Threads : thread[j] # "done"
      <4>1. ~(next_task >= num_tasks)
        BY <1>1, <1>4
      <4>. QED
        BY <1>1, <3>1, <4>1 DEF ThreadInv
    <3>4. \A j \in Threads : thread'[j] # "done"
      BY <3>1, <3>2, <3>3
    <3>5. next_task < num_tasks'
      BY <1>3, <1>4
    <3>6. \A j \in Failing : j # i /\ j \in Threads
      BY <1>2 DEF Failing
    <3>7. \A j \in Failing : /\ thread'[j] \in {"fail", "stop", "done"}
                             /\ thread_results'[j] \in failed'
                             /\ thread'[j] # "fail" => failed_thread_id' # num_tasks'
      BY <1>1, <1>3, <3>1, <3>2, <3>6 DEF ThreadInv
    <3>8. \A j \in Threads : /\ thread'[j] \in {"fail", "stop"} => j \in Failing
                             /\ thread'[j] = "call" => task'[j] < num_tasks'
                             /\ spawned' <= j => thread'[j] = "new"
      BY <1>1, <1>3, <3>1, <3>2, <3>5 DEF ThreadInv
    <3>. QED
      BY <1>1, <1>3, <2>2, <3>1, <3>4, <3>7, <3>8 DEF ThreadInv
  <2>. QED
    BY <1>1, <1>3, <2>2, <2>3, <2>6, <2>7
       DEF IInv, StartInv, SerialInv, ReturnInv, CallerInv
<1>5. CASE ~(next_task < num_tasks)
  <2>1. /\ thread' = [thread EXCEPT ![i] = "done"]
        /\ task' = task /\ calls' = calls
    BY <1>5 DEF Draw
  <2>2. /\ Threads' = Threads /\ Failing' = Failing
        /\ Finished' = Finished \union {i}
    BY <1>1, <1>3, <2>1 DEF Threads, Finished, Failing
  <2>3. /\ Cardinality(Finished) \in Nat
        /\ Cardinality(Finished') = Cardinality(Finished) + 1
        /\ Cardinality(Finished') <= max_parallelism
    <3>1. /\ IsFiniteSet(Finished) /\ Cardinality(Finished) \in Nat
      BY <1>1, FinishedCount
    <3>2. Finished' \subseteq Threads
      BY <2>2 DEF Finished
    <3>3. Cardinality(Finished') <= max_parallelism
      <4>1. /\ IsFiniteSet(Threads) /\ Cardinality(Threads) = max_parallelism
        BY <1>1, FS_Interval
      <4>. QED
        BY <3>2, <4>1, FS_Subset
    <3>. QED
      BY <1>2, <2>2, <3>1, <3>3, FS_AddElement
  <2>4. next_task <= num_tasks + Cardinality(Finished)
    BY <1>1 DEF IInv, CounterInv
  <2>5. next_task' = next_task + 1 /\ next_task' \in 0..MaxSize
    <3>1. next_task + 1 <= MaxSize
      BY <1>1, <2>3, <2>4
    <3>2. next_task + 1 \in 0..MaxSize
      BY <1>1, <3>1
    <3>3. next_task' = (next_task + 1) % (MaxSize + 1)
      BY DEF Draw
    <3>. QED
      BY <1>1, <3>2, <3>3, NoWrap
  <2>6. TypeOK'
    BY <1>1, <1>3, <2>1, <2>2, <2>5 DEF TypeOK
  <2>7. CounterInv'
    <3>1. next_task' <= num_tasks' + Cardinality(Finished')
      <4>1. next_task + 1 <= num_tasks + (Cardinality(Finished) + 1)
        <5>1. next_task \in Int /\ num_tasks \in Int
          BY <1>1
        <5>. QED
          BY <2>3, <2>4, <5>1
      <4>. QED
        BY <1>3, <2>3, <2>5, <4>1
    <3>2. \A t \in 0..MaxSize :
            calls'[t] = 0 \/ (calls'[t] = 1 /\ t < next_task' /\ t < num_tasks')
      BY <1>1, <1>3, <2>1, <2>5 DEF IInv, CounterInv
    <3>3. ASSUME \A j \in Finished' : thread_results'[j] = Ok,
                 NEW t \in 0..MaxSize, t < next_task', t < num_tasks'
          PROVE  calls'[t] = 1
      <4>1. t < next_task /\ t < num_tasks
        BY <1>1, <1>3, <1>5, <3>3
      <4>2. \A j \in Finished : thread_results[j] = Ok
        BY <1>3, <2>2, <3>3
      <4>. QED
        BY <1>1, <2>1, <4>1, <4>2 DEF IInv, CounterInv
    <3>. QED
      BY <1>1, <1>3, <2>2, <3>1, <3>2, <3>3 DEF CounterInv
  <2>8. ThreadInv'
    <3>1. ThreadInv /\ thread'[i] = "done" /\ task' = task
      BY <1>1, <2>1 DEF IInv
    <3>2. \A j \in Threads : j # i => thread'[j] = thread[j]
      BY <1>1, <2>1
    <3>3. next_task' >= num_tasks
      BY <1>1, <1>5, <2>5
    <3>4. \A j \in Failing : j # i /\ j \in Threads
      BY <1>2 DEF Failing
    <3>5. \A j \in Failing : /\ thread'[j] \in {"fail", "stop", "done"}
                             /\ thread_results'[j] \in failed'
                             /\ thread'[j] # "fail" => failed_thread_id' # num_tasks'
      BY <1>1, <1>3, <3>1, <3>2, <3>4 DEF ThreadInv
    <3>6. \A j \in Threads : /\ thread'[j] \in {"fail", "stop"} => j \in Failing
                             /\ thread'[j] = "call" => task'[j] < num_tasks'
                             /\ spawned' <= j => thread'[j] = "new"
      BY <1>1, <1>3, <3>1, <3>2 DEF ThreadInv
    <3>. QED
      BY <1>1, <1>3, <2>2, <3>1, <3>3, <3>5, <3>6 DEF ThreadInv
  <2>. QED
    BY <1>1, <1>3, <2>2, <2>6, <2>7, <2>8
       DEF IInv, StartInv, SerialInv, ReturnInv, CallerInv
<1>. QED
  BY <1>4, <1>5
\* A call of func has returned.
LEMMA FuncReturnsIInv ==
  ASSUME IInv, NEW i \in Threads, FuncReturns(i)
  PROVE  IInv'
<1>. USE DEF args, atomics, pool, answer, history
<1>1. /\ TypeOK /\ ThreadInv /\ Threads # {} /\ Threads = 0..max_parallelism-1
      /\ num_tasks \in 0..MaxSize
      /\ thread \in [Threads -> {"new", "draw", "call", "fail", "stop", "done"}]
      /\ task \in [Threads -> 0..MaxSize]
      /\ thread_results \in [Threads -> {Ok} \union 0..MaxSize]
      /\ failed \subseteq 0..MaxSize
      /\ thread[i] = "call" /\ caller \in {"spawn", "join"}
  BY PoolFacts DEF FuncReturns, IInv
<1>2. i \notin Finished /\ i \notin Failing
  BY <1>1 DEF Finished, Failing, ThreadInv
<1>3. UNCHANGED <<num_tasks, max_parallelism, asked, caller, task_id, spawned,
                  next_task, failed_thread_id, task, result, error_task, calls>>
  BY DEF FuncReturns
<1>4. thread_results[i] = Ok
  BY <1>2 DEF Failing
<1>5. CASE /\ thread_results' = [thread_results EXCEPT ![i] = Ok]
           /\ thread' = [thread EXCEPT ![i] = "draw"]
           /\ UNCHANGED failed
  <2>1. /\ Threads' = Threads /\ thread_results' = thread_results
        /\ \A j \in Threads : j # i => thread'[j] = thread[j]
        /\ thread'[i] = "draw"
    BY <1>1, <1>4, <1>5 DEF Threads
  <2>2. Finished' = Finished /\ Failing' = Failing
    BY <1>1, <1>2, <2>1 DEF Finished, Failing
  <2>3. TypeOK'
    BY <1>1, <1>3, <1>5, <2>1 DEF TypeOK
  <2>4. CounterInv'
    BY <1>3, <2>1, <2>2 DEF IInv, CounterInv
  <2>5. ThreadInv'
    <3>1. \A j \in Failing : j # i /\ j \in Threads
      BY <1>2 DEF Failing
    <3>. QED
      BY <1>1, <1>3, <1>5, <2>1, <2>2, <3>1 DEF ThreadInv
  <2>. QED
    BY <1>1, <1>3, <2>1, <2>3, <2>4, <2>5
       DEF IInv, StartInv, SerialInv, ReturnInv, CallerInv
<1>6. CASE /\ thread_results' = [thread_results EXCEPT ![i] = task[i]]
           /\ thread' = [thread EXCEPT ![i] = "fail"]
           /\ failed' = failed \union {task[i]}
  <2>1. /\ Threads' = Threads
        /\ \A j \in Threads : j # i => /\ thread'[j] = thread[j]
                                       /\ thread_results'[j] = thread_results[j]
        /\ thread'[i] = "fail" /\ thread_results'[i] = task[i]
        /\ task[i] \in 0..MaxSize /\ task[i] # Ok
    BY <1>1, <1>6, MaxSizeAssumption DEF Threads, Ok
  <2>2. Finished' = Finished /\ Failing' = Failing \union {i}
    BY <1>1, <1>2, <2>1 DEF Finished, Failing
  <2>3. TypeOK'
    BY <1>1, <1>3, <1>6, <2>1 DEF TypeOK
  <2>4. CounterInv'
    <3>1. \A j \in Finished : thread_results'[j] = thread_results[j]
      BY <1>2, <2>1 DEF Finished
    <3>. QED
      BY <1>3, <2>1, <2>2, <3>1 DEF IInv, CounterInv
  <2>5. ThreadInv'
    <3>1. \A j \in Failing : j # i /\ j \in Threads
      BY <1>2 DEF Failing
    <3>2. \A j \in Failing' : /\ thread'[j] \in {"fail", "stop", "done"}
                              /\ thread_results'[j] \in failed'
                              /\ thread'[j] # "fail" => failed_thread_id' # num_tasks'
      BY <1>1, <1>3, <1>6, <2>1, <2>2, <3>1 DEF ThreadInv
    <3>3. \A j \in Threads : /\ thread'[j] \in {"fail", "stop"} => j \in Failing'
                             /\ thread'[j] = "call" => task'[j] < num_tasks'
                             /\ thread'[j] = "done" => next_task' >= num_tasks'
                             /\ spawned' <= j => thread'[j] = "new"
      BY <1>1, <1>3, <2>1, <2>2 DEF ThreadInv
    <3>. QED
      BY <1>1, <1>3, <2>1, <2>2, <3>2, <3>3 DEF ThreadInv
  <2>. QED
    BY <1>1, <1>3, <2>1, <2>3, <2>4, <2>5
       DEF IInv, StartInv, SerialInv, ReturnInv, CallerInv
<1>. QED
  BY <1>5, <1>6 DEF FuncReturns

\* A failing thread names itself.
LEMMA PublishFailureIInv ==
  ASSUME IInv, NEW i \in Threads, PublishFailure(i)
  PROVE  IInv'
<1>. USE DEF args, atomics, pool, answer, history
<1>1. /\ TypeOK /\ ThreadInv /\ Threads # {} /\ Threads = 0..max_parallelism-1
      /\ num_tasks \in 0..MaxSize /\ i < num_tasks /\ i \in 0..MaxSize
      /\ thread \in [Threads -> {"new", "draw", "call", "fail", "stop", "done"}]
      /\ thread[i] = "fail" /\ caller \in {"spawn", "join"}
  BY PoolFacts DEF PublishFailure, IInv
<1>2. i \notin Finished /\ i \in Failing
  BY <1>1 DEF Finished, ThreadInv
<1>3. /\ UNCHANGED <<num_tasks, max_parallelism, asked, caller, task_id, spawned,
                     next_task, task, thread_results, result, error_task, calls,
                     failed>>
      /\ failed_thread_id' = i
      /\ thread' = [thread EXCEPT ![i] = "stop"]
  BY DEF PublishFailure
<1>4. /\ Threads' = Threads
      /\ \A j \in Threads : j # i => thread'[j] = thread[j]
      /\ thread'[i] = "stop"
  BY <1>1, <1>3 DEF Threads
<1>5. Finished' = Finished /\ Failing' = Failing
  BY <1>1, <1>2, <1>3, <1>4 DEF Finished, Failing
<1>6. TypeOK'
  BY <1>1, <1>3, <1>4 DEF TypeOK
<1>7. CounterInv'
  BY <1>3, <1>4, <1>5 DEF IInv, CounterInv
<1>8. ThreadInv'
  <2>1. Failing \subseteq Threads /\ i # num_tasks
    BY <1>1 DEF Failing
  <2>. QED
    BY <1>1, <1>2, <1>3, <1>4, <1>5, <2>1 DEF ThreadInv
<1>. QED
  BY <1>1, <1>3, <1>4, <1>6, <1>7, <1>8
     DEF IInv, StartInv, SerialInv, ReturnInv, CallerInv

\* A failing thread closes the counter.
LEMMA StopDrawingIInv ==
  ASSUME IInv, NEW i \in Threads, StopDrawing(i)
  PROVE  IInv'
<1>. USE DEF args, atomics, pool, answer, history
<1>1. /\ TypeOK /\ ThreadInv /\ Threads # {} /\ Threads = 0..max_parallelism-1
      /\ num_tasks \in 0..MaxSize /\ MaxSize \in Nat
      /\ thread \in [Threads -> {"new", "draw", "call", "fail", "stop", "done"}]
      /\ thread[i] = "stop" /\ caller \in {"spawn", "join"}
  BY PoolFacts DEF StopDrawing, IInv
<1>2. i \notin Finished /\ i \in Failing /\ thread_results[i] # Ok
  BY <1>1 DEF Finished, Failing, ThreadInv
<1>3. /\ UNCHANGED <<num_tasks, max_parallelism, asked, caller, task_id, spawned,
                     failed_thread_id, task, thread_results, result, error_task,
                     calls, failed>>
      /\ next_task' = num_tasks
      /\ thread' = [thread EXCEPT ![i] = "done"]
  BY DEF StopDrawing
<1>4. /\ Threads' = Threads
      /\ \A j \in Threads : j # i => thread'[j] = thread[j]
      /\ thread'[i] = "done"
  BY <1>1, <1>3 DEF Threads
<1>5. Finished' = Finished \union {i} /\ Failing' = Failing
  BY <1>1, <1>2, <1>3, <1>4 DEF Finished, Failing
<1>6. TypeOK'
  BY <1>1, <1>3, <1>4 DEF TypeOK
<1>7. CounterInv'
  <2>1. Cardinality(Finished') \in Nat
    <3>1. IsFiniteSet(Finished)
      BY <1>1, FinishedCount
    <3>2. IsFiniteSet(Finished \union {i})
      BY <3>1, FS_AddElement
    <3>. QED
      BY <1>5, <3>2, FS_CardinalityType
  <2>2. next_task' <= num_tasks' + Cardinality(Finished')
    BY <1>1, <1>3, <2>1
  <2>3. \A t \in 0..MaxSize :
          calls'[t] = 0 \/ (calls'[t] = 1 /\ t < next_task' /\ t < num_tasks')
    BY <1>1, <1>3 DEF IInv, CounterInv
  <2>. QED
    BY <1>1, <1>2, <1>3, <1>4, <1>5, <2>2, <2>3 DEF IInv, CounterInv
<1>8. ThreadInv'
  <2>1. next_task' >= num_tasks'
    BY <1>1, <1>3
  <2>2. \A j \in Failing : j \in Threads
    BY DEF Failing
  <2>. QED
    BY <1>1, <1>2, <1>3, <1>4, <1>5, <2>1, <2>2 DEF ThreadInv
<1>. QED
  BY <1>1, <1>3, <1>4, <1>6, <1>7, <1>8
     DEF IInv, StartInv, SerialInv, ReturnInv, CallerInv

\* The caller returns.
LEMMA JoinAndReturnIInv ==
  ASSUME IInv, JoinAndReturn
  PROVE  IInv'
<1>. USE DEF args, atomics, pool, answer, history
<1>1. /\ TypeOK /\ ThreadInv /\ CounterInv /\ Threads # {} /\ caller = "join"
      /\ \A i \in Threads : thread[i] = "done"
      /\ max_parallelism \in 2..num_tasks /\ num_tasks \in 0..MaxSize
      /\ Threads = 0..max_parallelism-1
  BY DEF IInv, TypeOK, CallerInv, CounterInv, JoinAndReturn, Joined
<1>2. /\ UNCHANGED <<num_tasks, max_parallelism, asked, task_id, spawned, next_task,
                     failed_thread_id, thread, task, thread_results, calls, failed>>
      /\ caller' = "returned"
      /\ Threads' = Threads /\ Finished' = Finished /\ Failing' = Failing
  BY DEF JoinAndReturn, Threads, Finished, Failing
<1>3. CASE AnyFailure
  <2>1. result' = "error" /\ error_task' = thread_results[failed_thread_id]
    BY <1>3 DEF JoinAndReturn, ReturnedTask
  <2>2. failed_thread_id \in Failing
    BY <1>1, <1>3 DEF ThreadInv, AnyFailure
  <2>3. error_task' \in failed /\ error_task' \in 0..MaxSize
    BY <1>1, <2>1, <2>2 DEF ThreadInv, TypeOK
  <2>4. TypeOK'
    BY <1>1, <1>2, <2>1, <2>3 DEF TypeOK
  <2>. QED
    BY <1>1, <1>2, <2>1, <2>3, <2>4
       DEF IInv, StartInv, SerialInv, CounterInv, ThreadInv, ReturnInv, CallerInv
<1>4. CASE ~ AnyFailure
  <2>1. result' = "ok" /\ error_task' = error_task
    BY <1>4 DEF JoinAndReturn
  <2>2. failed_thread_id = num_tasks
    <3>1. ASSUME failed_thread_id \in Failing
          PROVE  FALSE
      BY <1>1, <1>4, <3>1 DEF AnyFailure, Failing
    <3>. QED
      BY <1>1, <3>1 DEF ThreadInv
  <2>3. TypeOK'
    BY <1>1, <1>2, <2>1 DEF TypeOK
  <2>. QED
    BY <1>1, <1>2, <2>1, <2>2, <2>3
       DEF IInv, StartInv, SerialInv, CounterInv, ThreadInv, ReturnInv, CallerInv
<1>. QED
  BY <1>3, <1>4
LEMMA StepIInv == IInv /\ [Next]_vars => IInv'
<1>. SUFFICES ASSUME IInv, [Next]_vars
              PROVE  IInv'
  OBVIOUS
<1>1. CASE Caller
  BY <1>1, RejectNegativeIInv, StartSerialIInv, StartPoolIInv, SerialCallIInv,
     SerialReturnIInv, SpawnIInv, AllSpawnedIInv, JoinAndReturnIInv
     DEF Caller, Start
<1>2. ASSUME NEW i \in Threads, ThreadStep(i)
      PROVE  IInv'
  BY <1>2, DrawIInv, FuncReturnsIInv, PublishFailureIInv, StopDrawingIInv
     DEF ThreadStep, Thread
<1>3. CASE UNCHANGED vars
  BY <1>3 DEF vars, args, atomics, pool, answer, history, IInv, TypeOK, StartInv,
              SerialInv, CounterInv, ThreadInv, ReturnInv, CallerInv, Threads,
              Finished, Failing, Called
<1>. QED
  BY <1>1, <1>2, <1>3 DEF Next, Returned

THEOREM Invariance == Spec => []IInv
BY InitIInv, StepIInv, PTL DEF Spec

\* What the clamp leaves of the number of tasks that the caller asked for.
ArgumentInv ==
  num_tasks = IF Threads = {} THEN asked ELSE AtMost(asked, MaxSize - max_parallelism)

\* Only the start of the pool clamps, and nothing changes the argument later.
LEMMA ArgumentKept == Spec => []ArgumentInv
<1>. USE DEF args, atomics, pool, answer, history
<1>1. Init => ArgumentInv
  BY DEF Init, ArgumentInv, Threads
<1>2. ASSUME IInv, ArgumentInv, [Next]_vars
      PROVE  ArgumentInv'
  <2>1. CASE UNCHANGED <<args, thread>>
    BY <1>2, <2>1 DEF ArgumentInv, Threads
  <2>2. CASE RejectNegative \/ SerialCall \/ SerialReturn \/ AllSpawned \/ JoinAndReturn
    BY <2>1, <2>2 DEF RejectNegative, SerialCall, SerialReturn, AllSpawned, JoinAndReturn
  <2>3. CASE StartSerial
    <3>1. Threads = {} /\ Threads' = {}
      BY <1>2, <2>3 DEF IInv, StartInv, StartSerial, Threads
    <3>2. UNCHANGED <<num_tasks, asked>>
      BY <2>3 DEF StartSerial
    <3>. QED
      BY <1>2, <3>1, <3>2 DEF ArgumentInv
  <2>4. CASE StartPool
    <3>1. Threads = {} /\ num_tasks = asked
      BY <1>2, <2>4 DEF IInv, StartInv, StartPool, ArgumentInv
    <3>2. /\ max_parallelism' = Parallelism
          /\ num_tasks' = AtMost(asked, MaxSize - max_parallelism')
          /\ asked' = asked /\ Threads' = 0..Parallelism-1
      BY <2>4, <3>1 DEF StartPool, Clamped, Threads
    <3>3. Threads' # {}
      <4>1. Parallelism \in Int /\ Parallelism > 1
        BY <1>2, <2>4 DEF IInv, TypeOK, StartPool, Parallelism, AtMost
      <4>2. 0 \in 0..Parallelism-1
        BY <4>1
      <4>. QED
        BY <3>2, <4>2
    <3>. QED
      BY <3>2, <3>3 DEF ArgumentInv
  <2>5. CASE Spawn
    BY <1>2, <2>5 DEF Spawn, ArgumentInv, Threads
  <2>6. ASSUME NEW i \in Threads, Thread(i)
        PROVE  ArgumentInv'
    BY <1>2, <2>6 DEF Thread, Draw, FuncReturns, PublishFailure, StopDrawing,
                      ArgumentInv, Threads
  <2>. QED
    BY <1>2, <2>1, <2>2, <2>3, <2>4, <2>5, <2>6
       DEF Next, Caller, Start, ThreadStep, Returned, vars
<1>. QED
  BY <1>1, <1>2, Invariance, PTL DEF Spec

\* The types of all variables; in particular the shared counter has room for
\* every thread's last increment.
THEOREM TypeCorrect == Spec => []TypeOK
<1>1. IInv => TypeOK
  BY DEF IInv
<1>. QED
  BY <1>1, Invariance, PTL

\* No task is run twice, for every width of the counter.
THEOREM RunsAtMostOnce == Spec => []AtMostOnce
<1>1. IInv => AtMostOnce
  <2>. SUFFICES ASSUME IInv, NEW t \in 0..MaxSize
                PROVE  calls[t] <= 1
    BY DEF AtMostOnce
  <2>1. CASE Threads # {}
    BY <2>1 DEF IInv, CounterInv
  <2>2. CASE Threads = {}
    <3>1. \/ caller = "start" \/ caller = "serial"
          \/ caller = "returned" /\ result \in {"ok", "invalid", "error"}
      BY <2>2 DEF IInv, TypeOK, CallerInv
    <3>2. Called(0) \/ Called(task_id) \/ Called(num_tasks) \/ Called(error_task + 1)
      BY <2>2, <3>1 DEF IInv, StartInv, SerialInv
    <3>3. calls[t] \in {0, 1}
      BY <3>2 DEF Called
    <3>. QED
      BY <3>3
  <2>. QED
    BY <2>1, <2>2
<1>. QED
  BY <1>1, Invariance, PTL

\* OK means that every task of those left by the clamp was run, exactly once, and
\* that none failed.
LEMMA OkRunsTheRest ==
  ASSUME IInv, result = "ok"
  PROVE  /\ failed = {}
         /\ \A t \in 0..MaxSize : (calls[t] = 1) <=> (t < num_tasks)
<1>1. caller = "returned"
  BY DEF IInv, CallerInv
<1>2. CASE Threads = {}
  BY <1>1, <1>2 DEF IInv, SerialInv, Called
<1>3. CASE Threads # {}
  <2>1. /\ \A i \in Threads : thread[i] = "done"
        /\ failed_thread_id = num_tasks
    BY <1>1, <1>3 DEF IInv, ReturnInv
  <2>2. Failing = {}
    BY <1>3, <2>1 DEF IInv, ThreadInv, Failing
  <2>3. failed = {}
    BY <1>3, <2>2 DEF IInv, ThreadInv
  <2>4. PICK i \in Threads : TRUE
    BY <1>3
  <2>5. next_task >= num_tasks /\ num_tasks \in 0..MaxSize /\ next_task \in 0..MaxSize
    BY <1>3, <2>1, <2>4 DEF IInv, ThreadInv, TypeOK
  <2>6. \A j \in Finished : thread_results[j] = Ok
    BY <2>2 DEF Finished, Failing
  <2>7. /\ \A t \in 0..MaxSize : t < next_task /\ t < num_tasks => calls[t] = 1
        /\ \A t \in 0..MaxSize : calls[t] = 1 => t < num_tasks
    BY <1>3, <2>6 DEF IInv, CounterInv
  <2>8. \A t \in 0..MaxSize : t < num_tasks => t < next_task
    BY <2>5, MaxSizeAssumption
  <2>. QED
    BY <2>3, <2>7, <2>8
<1>. QED
  BY <1>2, <1>3

\* OK means that none failed and that of the tasks the caller asked for exactly
\* those were run, once each, that threads reach.
THEOREM OkIsComplete == Spec => []OkMeansAll
<1>1. IInv /\ ArgumentInv => OkMeansAll
  <2>. SUFFICES ASSUME IInv, ArgumentInv, result = "ok"
                PROVE  OkMeansAll
    BY DEF OkMeansAll
  <2>1. failed = {} /\ \A t \in 0..MaxSize : (calls[t] = 1) <=> (t < num_tasks)
    BY OkRunsTheRest
  <2>2. /\ asked \in 0..MaxSize /\ max_parallelism \in Int /\ MaxSize \in Nat
    BY MaxSizeAssumption DEF IInv, TypeOK
  <2>3. \A t \in 0..MaxSize : t < num_tasks <=> t < asked /\ Reached(t)
    BY <2>2 DEF ArgumentInv, AtMost, Reached
  <2>. QED
    BY <2>1, <2>3 DEF OkMeansAll
<1>. QED
  BY <1>1, Invariance, ArgumentKept, PTL

\* What parallel_do.h:29 says holds if there are no more tasks than size_t has room
\* for besides one draw past the end by each thread: OK means that all were run.
FitsCounter == asked + max_parallelism <= MaxSize

THEOREM OkIsAllThatFit ==
  Spec => [](result = "ok" /\ FitsCounter => \A t \in 0..asked-1 : calls[t] = 1)
<1>1. IInv /\ ArgumentInv =>
        (result = "ok" /\ FitsCounter => \A t \in 0..asked-1 : calls[t] = 1)
  <2>. SUFFICES ASSUME IInv, ArgumentInv, result = "ok", FitsCounter,
                       NEW t \in 0..asked-1
                PROVE  calls[t] = 1
    OBVIOUS
  <2>1. \A u \in 0..MaxSize : (calls[u] = 1) <=> (u < num_tasks)
    BY OkRunsTheRest
  <2>2. /\ asked \in 0..MaxSize /\ max_parallelism \in Int /\ MaxSize \in Nat
    BY MaxSizeAssumption DEF IInv, TypeOK
  <2>3. num_tasks = asked
    BY <2>2 DEF ArgumentInv, AtMost, FitsCounter
  <2>. QED
    BY <2>1, <2>2, <2>3
<1>. QED
  BY <1>1, Invariance, ArgumentKept, PTL

\* The error returned is one that a call of func returned.
THEOREM ErrorReturnedIsReal == Spec => []ErrorIsReal
<1>1. IInv => ErrorIsReal
  BY DEF IInv, CallerInv, ReturnInv, SerialInv, ErrorIsReal
<1>. QED
  BY <1>1, Invariance, PTL

\* Nothing uses the caller's frame after the call has returned.
THEOREM JoinsAll == Spec => []NothingRunsAfterReturn
<1>1. IInv => NothingRunsAfterReturn
  BY DEF IInv, ReturnInv, NothingRunsAfterReturn
<1>. QED
  BY <1>1, Invariance, PTL

\* Once a failing thread has ended no further task is begun.
THEOREM StopsAfterFailure == Spec => StopsOnFailure
<1>1. IInv /\ [Next]_vars => [FailureSeen => calls' = calls]_vars
  <2>. SUFFICES ASSUME IInv, Next, FailureSeen
                PROVE  calls' = calls
    OBVIOUS
  <2>. USE DEF args, atomics, pool, answer, history
  <2>1. PICK f \in Threads : thread[f] = "done"
    BY DEF FailureSeen
  <2>2. ~(next_task < num_tasks) /\ caller \in {"spawn", "join", "returned"}
    <3>1. next_task >= num_tasks /\ next_task \in 0..MaxSize /\ num_tasks \in 0..MaxSize
      BY <2>1 DEF IInv, ThreadInv, TypeOK
    <3>. QED
      BY <2>1, <3>1, MaxSizeAssumption DEF IInv, ReturnInv
  <2>3. CASE Caller
    BY <2>2, <2>3 DEF Caller, Start, RejectNegative, StartSerial, StartPool,
                      SerialCall, SerialReturn, Spawn, AllSpawned, JoinAndReturn
  <2>4. ASSUME NEW i \in Threads, Thread(i)
        PROVE  calls' = calls
    BY <2>2, <2>4 DEF Thread, Draw, FuncReturns, PublishFailure, StopDrawing
  <2>. QED
    BY <2>3, <2>4 DEF Next, Returned, ThreadStep, vars
<1>. QED
  BY <1>1, Invariance, PTL DEF Spec, StopsOnFailure
=============================================================================
