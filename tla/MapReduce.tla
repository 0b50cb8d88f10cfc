------------------------------ MODULE MapReduce ------------------------------
(***************************************************************************)
(* The MapReduce coordinator of src/mr/coordinator.go, its workers of      *)
(* src/mr/worker.go and the main loop of src/main/mrcoordinator.go.        *)
(*                                                                         *)
(* pc[w] is where worker process w, or the handler that serves its call,   *)
(* has got to:                                                             *)
(*   off        not started           ask        calls Coordinator.Task    *)
(*   sleepy     the handler has found nothing to do and holds c.Mu         *)
(*   waiting    the handler is in c.Cond.Wait                              *)
(*   woken      it has been woken and wants c.Mu                           *)
(*   assigned   a task is chosen, c.Mu released, the worker not recorded   *)
(*   map, reduce  the worker runs doMap or doReduce                        *)
(*   commit     it calls CommitOK     committing the handler holds c.Mu    *)
(*   exit       the process has ended dead       it has crashed            *)
(* The handler of a call goes on when the process that made it has died    *)
(* (alive).                                                                *)
(*                                                                         *)
(* A key is its hash.  An intermediate file mr-m-i is the set of keys that *)
(* map task m emits into partition i, an output file is the bag of         *)
(* (map task, key) pairs that doReduce has read.                           *)
(***************************************************************************)
EXTENDS Integers, Sequences, FiniteSets

CONSTANTS Worker,
          Nfile, nReduce,   \* the number of map and of reduce tasks
          Emits,            \* Emits[m]: the keys that Map emits for input file m
          Nil,
          MaxCrashes,       \* bound: workers that crash
          MaxMisjudged      \* bound: times Heart takes a task from a worker that has not lost it

MapTask == 0..(Nfile - 1)
ReduceTask == 0..(nReduce - 1)

ASSUME MapReduceAssumption ==
  /\ IsFiniteSet(Worker)
  /\ Nil \notin Worker /\ Nil \notin Nat
  /\ Nfile \in Nat \ {0} /\ nReduce \in Nat \ {0}
  /\ DOMAIN Emits = MapTask
  /\ \A m \in MapTask : Emits[m] \subseteq Nat /\ \A S \in SUBSET Emits[m] : S # Nil
  /\ MaxCrashes \in Nat /\ MaxMisjudged \in Nat

VARIABLES MapTasks, ReduceTasks,  \* TaskState of each task
          Filename,               \* ReduceTasks[i].Filename, as the numbers of the map tasks
          NMapped, NReduce,
          Workers,                \* the pids in c.Workers
          beat,                   \* LastHeartbeat is set
          Status, Last,           \* Status, and TaskType with TaskNum, of each worker
          Mu,                     \* who holds c.Mu between two steps, or Nil
          pc, task, todo, inter,  \* a worker: its task, what is left of it, doReduce's intermediate
          files, out,             \* intermediate files and output files
          coordinator,            \* up, exited, or aborted by the Go runtime
          alive, crashes,         \* the worker processes that have not crashed; how many have
          misjudged,              \* history: how often Heart was wrong about a worker
          missed                  \* history: Heart has called Broadcast between a check and its Wait

taskVars == <<MapTasks, ReduceTasks, Filename, NMapped, NReduce>>
workerVars == <<Workers, beat, Status, Last>>
localVars == <<task, todo, inter>>
fileVars == <<files, out>>
faultVars == <<alive, crashes, misjudged, missed>>
vars == <<taskVars, workerVars, Mu, pc, localVars, fileVars, coordinator, faultVars>>

\* The slice intermediate, up to its order, is a bag: the number of occurrences of each pair.
\* Once(S) has every pair of S once, Appended(b, S) is b after the pairs of S are appended.
Once(S) == [p \in S |-> 1]
Appended(b, S) == [p \in (DOMAIN b) \cup S |-> (IF p \in DOMAIN b THEN b[p] ELSE 0)
                                              + (IF p \in S THEN 1 ELSE 0)]

IDLE == 0
INPROC == 1
COMPLETED == 2
MAP == 0
REDUCE == 1
FREE == 0
WORK == 1
CRASH == 2

NoTask == [TaskType |-> MAP, TaskNum |-> 0, Filename |-> <<>>, NReduce |-> 0]

Up == coordinator = "up"
Free == Mu = Nil
Goto(w, l) == pc' = [pc EXCEPT ![w] = l]

\* Where worker w is when its call has returned.
Back(w, l) == IF alive[w] THEN l ELSE "dead"

\* c.Cond.Broadcast, together with the step of w to l.
Broadcast(w, l) == pc' = [v \in Worker |-> CASE v = w -> l
                                             [] pc[v] = "waiting" /\ v # w -> "woken"
                                             [] OTHER -> pc[v]]

Init ==
  /\ MapTasks = [m \in MapTask |-> IDLE]
  /\ ReduceTasks = [r \in ReduceTask |-> IDLE]
  /\ Filename = [r \in ReduceTask |-> <<>>]
  /\ NMapped = 0 /\ NReduce = nReduce
  /\ Workers = {}
  /\ beat = [w \in Worker |-> FALSE]
  /\ Status = [w \in Worker |-> FREE]
  /\ Last = [w \in Worker |-> [TaskType |-> MAP, TaskNum |-> 0]]
  /\ Mu = Nil
  /\ pc = [w \in Worker |-> "off"]
  /\ task = [w \in Worker |-> NoTask]
  /\ todo = [w \in Worker |-> <<>>]
  /\ inter = [w \in Worker |-> Once({})]
  /\ files = [m \in MapTask |-> [i \in ReduceTask |-> Nil]]
  /\ out = [r \in ReduceTask |-> Nil]
  /\ coordinator = "up"
  /\ alive = [w \in Worker |-> TRUE]
  /\ crashes = 0 /\ misjudged = 0 /\ missed = FALSE

-----------------------------------------------------------------------------
(* Coordinator.Task                                                        *)

MapPhase == NMapped # Nfile
Finished == NMapped = Nfile /\ NReduce = 0

\* The first idle task of the phase, or Nil.
FirstIdle(tasks) == LET idle == {i \in DOMAIN tasks : tasks[i] = IDLE}
                    IN IF idle = {} THEN Nil ELSE CHOOSE i \in idle : \A j \in idle : i <= j

Idle == IF MapPhase THEN FirstIdle(MapTasks) ELSE FirstIdle(ReduceTasks)

\* A task is taken and described to the worker; c.Mu is released.
TaskAssign(w) ==
  LET i == Idle IN
  /\ pc[w] = "ask" /\ Up /\ Free
  /\ i # Nil
  /\ Workers' = Workers \cup {w}
  /\ IF MapPhase
     THEN /\ MapTasks' = [MapTasks EXCEPT ![i] = INPROC]
          /\ task' = [task EXCEPT ![w] = [TaskType |-> MAP, TaskNum |-> i, Filename |-> <<>>,
                                          NReduce |-> NReduce]]
          /\ UNCHANGED ReduceTasks
     ELSE /\ ReduceTasks' = [ReduceTasks EXCEPT ![i] = INPROC]
          /\ task' = [task EXCEPT ![w] = [TaskType |-> REDUCE, TaskNum |-> i,
                                          Filename |-> Filename[i], NReduce |-> NReduce]]
          /\ UNCHANGED MapTasks
  /\ Goto(w, "assigned")
  /\ UNCHANGED <<Filename, NMapped, NReduce, beat, Status, Last, Mu, todo, inter, fileVars,
                 coordinator, faultVars>>

\* Mutant: no idle task is taken for the end of the job.
TaskNothingDone(w) ==
  /\ pc[w] = "ask" /\ Up /\ Free
  /\ Idle = Nil
  /\ Workers' = Workers \cup {w}
  /\ Goto(w, Back(w, "exit")) /\ UNCHANGED Mu
  /\ UNCHANGED <<taskVars, beat, Status, Last, localVars, fileVars, coordinator, faultVars>>

\* Nothing is idle: the job is done and the worker is told so, or the handler goes on to wait.
TaskNothing(w) ==
  /\ pc[w] = "ask" /\ Up /\ Free
  /\ Idle = Nil
  /\ Workers' = Workers \cup {w}
  /\ IF Finished THEN Goto(w, Back(w, "exit")) /\ UNCHANGED Mu
                 ELSE Goto(w, "sleepy") /\ Mu' = w
  /\ UNCHANGED <<taskVars, beat, Status, Last, localVars, fileVars, coordinator, faultVars>>

\* c.Cond.Wait puts the handler on the list of waiters and releases c.Mu.
CondWait(w) ==
  /\ pc[w] = "sleepy"
  /\ Goto(w, "waiting") /\ Mu' = Nil
  /\ UNCHANGED <<taskVars, workerVars, localVars, fileVars, coordinator, faultVars>>

\* Wait returns with c.Mu, the handler answers RPCERROR and the worker asks again.
CondWoken(w) ==
  /\ pc[w] = "woken" /\ Free
  /\ Goto(w, Back(w, "ask"))
  /\ UNCHANGED <<taskVars, workerVars, Mu, localVars, fileVars, coordinator, faultVars>>

\* The partitions of doMap that are not empty.
Partitions(t) == IF Emits[t.TaskNum] = {} THEN {} ELSE {h % t.NReduce : h \in Emits[t.TaskNum]}

\* make and % panic in the worker when the number of partitions is not positive.
MapPanics(t) == /\ t.TaskType = MAP
                /\ t.NReduce < 0 \/ (t.NReduce = 0 /\ Emits[t.TaskNum] # {})

Ascending(S) == CHOOSE s \in [1..Cardinality(S) -> S] : \A i, j \in DOMAIN s : i < j => s[i] < s[j]

\* The second critical section of Task, under the lock of the worker; the call returns and the
\* worker starts on the task.
TaskRecord(w) ==
  LET t == task[w] IN
  /\ pc[w] = "assigned"
  /\ Status' = [Status EXCEPT ![w] = WORK]
  /\ Last' = [Last EXCEPT ![w] = [TaskType |-> t.TaskType, TaskNum |-> t.TaskNum]]
  /\ Goto(w, Back(w, CASE t.TaskType = REDUCE -> "reduce"
                       [] MapPanics(t) -> "dead" [] OTHER -> "map"))
  /\ alive' = [alive EXCEPT ![w] = @ /\ ~MapPanics(t)]
  /\ todo' = [todo EXCEPT ![w] = CASE t.TaskType = REDUCE -> t.Filename
                                   [] MapPanics(t) -> <<>>
                                   [] OTHER -> Ascending(Partitions(t))]
  /\ inter' = [inter EXCEPT ![w] = Once({})]
  /\ UNCHANGED <<taskVars, Workers, beat, Mu, task, fileVars, coordinator, crashes, misjudged,
                 missed>>

-----------------------------------------------------------------------------
(* The worker                                                              *)

Start(w) ==
  /\ pc[w] = "off" /\ Up
  /\ Goto(w, "ask")
  /\ UNCHANGED <<taskVars, workerVars, Mu, localVars, fileVars, coordinator, faultVars>>

\* doMap writes the next non-empty partition to a temporary file and renames it.
WriteIntermediate(w) ==
  LET m == task[w].TaskNum
      i == Head(todo[w]) IN
  /\ pc[w] = "map" /\ todo[w] # <<>>
  /\ files' = [files EXCEPT ![m][i] = {h \in Emits[m] : h % task[w].NReduce = i}]
  /\ todo' = [todo EXCEPT ![w] = Tail(@)]
  /\ UNCHANGED <<taskVars, workerVars, Mu, pc, task, inter, out, coordinator, faultVars>>

\* doReduce reads the next intermediate file.  The case that there is no such file, in which it
\* exits, does not arise (IntermediatesExist).
ReadIntermediate(w) ==
  LET m == Head(todo[w])
      content == files[m][task[w].TaskNum] IN
  /\ pc[w] = "reduce" /\ todo[w] # <<>>
  /\ content # Nil
  /\ inter' = [inter EXCEPT ![w] = Appended(@, {<<m, h>> : h \in content})]
  /\ todo' = [todo EXCEPT ![w] = Tail(@)]
  /\ UNCHANGED <<taskVars, workerVars, Mu, pc, task, fileVars, coordinator, faultVars>>

\* doReduce has called Reduce on every key and renames the output file.
WriteOutput(w) ==
  /\ pc[w] = "reduce" /\ todo[w] = <<>>
  /\ out' = [out EXCEPT ![task[w].TaskNum] = inter[w]]
  /\ Goto(w, "commit")
  /\ UNCHANGED <<taskVars, workerVars, Mu, localVars, files, coordinator, faultVars>>

\* Mutant: the task is committed before its files have their names.
MapOverEarly(w) ==
  /\ pc[w] = "map"
  /\ Goto(w, "commit")
  /\ UNCHANGED <<taskVars, workerVars, Mu, localVars, fileVars, coordinator, faultVars>>

MapOver(w) ==
  /\ pc[w] = "map" /\ todo[w] = <<>>
  /\ Goto(w, "commit")
  /\ UNCHANGED <<taskVars, workerVars, Mu, localVars, fileVars, coordinator, faultVars>>

Running(w) == pc[w] \notin {"off", "exit", "dead"}

\* The process ends (mrapps/crash.go calls os.Exit in Map and Reduce, and it may be killed at any
\* other time).  A call that it has sent is served all the same.
Crash(w) ==
  /\ Running(w) /\ alive[w]
  /\ crashes < MaxCrashes
  /\ crashes' = crashes + 1
  /\ alive' = [alive EXCEPT ![w] = FALSE]
  /\ \/ pc[w] \in {"ask", "map", "reduce", "commit"} /\ Goto(w, "dead")
     \/ pc[w] \notin {"map", "reduce"} /\ UNCHANGED pc
  /\ UNCHANGED <<taskVars, workerVars, Mu, localVars, fileVars, coordinator, misjudged, missed>>

\* A call to a coordinator that is gone ends the worker (log.Fatal), also one by its heartbeat.
CallFails(w) ==
  /\ ~Up
  /\ Running(w)
  /\ Goto(w, "exit")
  /\ Mu' = IF Mu = w THEN Nil ELSE Mu
  /\ UNCHANGED <<taskVars, workerVars, localVars, fileVars, coordinator, faultVars>>

-----------------------------------------------------------------------------
(* Coordinator.CommitOK                                                    *)

\* Mutant: the reduce tasks to do become more.
CommitReduceUp(t) ==
  /\ NReduce' = NReduce + 1
  /\ ReduceTasks' = [ReduceTasks EXCEPT ![t.TaskNum] = COMPLETED]
  /\ UNCHANGED <<MapTasks, Filename, NMapped>>

\* A reduce task is done.
CommitReduce(t) ==
  /\ NReduce' = NReduce - 1
  /\ ReduceTasks' = [ReduceTasks EXCEPT ![t.TaskNum] = COMPLETED]
  /\ UNCHANGED <<MapTasks, Filename, NMapped>>

\* Mutant: the file names of a map task are not passed on.
CommitMapNameless(t) ==
  /\ NMapped' = NMapped + 1
  /\ MapTasks' = [MapTasks EXCEPT ![t.TaskNum] = COMPLETED]
  /\ UNCHANGED <<ReduceTasks, Filename, NReduce>>

\* A map task is done: its files are named to the reduce tasks.
CommitMap(t) ==
  /\ Filename' = [i \in ReduceTask |->
                    IF i \in Partitions(t) THEN Append(Filename[i], t.TaskNum) ELSE Filename[i]]
  /\ NMapped' = NMapped + 1
  /\ MapTasks' = [MapTasks EXCEPT ![t.TaskNum] = COMPLETED]
  /\ UNCHANGED <<ReduceTasks, NReduce>>

\* The first part of CommitOK: the counters, the file names and the state of the task.
Commit(w) ==
  LET t == task[w] IN
  /\ pc[w] = "commit" /\ Up /\ Free
  /\ IF t.TaskType = REDUCE THEN CommitReduce(t) ELSE CommitMap(t)
  /\ Goto(w, "committing") /\ Mu' = w
  /\ UNCHANGED <<workerVars, localVars, fileVars, coordinator, faultVars>>

\* Mutant: nobody is woken at the end of a phase.
CommitFreeSilent(w) ==
  /\ pc[w] = "committing"
  /\ Status' = [Status EXCEPT ![w] = FREE]
  /\ Goto(w, Back(w, "ask")) /\ Mu' = Nil
  /\ UNCHANGED <<taskVars, Workers, beat, Last, localVars, fileVars, coordinator, faultVars>>

\* Mutant: c.Mu is not released.
CommitFreeLocked(w) ==
  LET last == IF task[w].TaskType = MAP THEN NMapped = Nfile ELSE NReduce = 0 IN
  /\ pc[w] = "committing"
  /\ Status' = [Status EXCEPT ![w] = FREE]
  /\ IF last THEN Broadcast(w, Back(w, "ask")) ELSE Goto(w, Back(w, "ask"))
  /\ UNCHANGED <<taskVars, Workers, beat, Last, Mu, localVars, fileVars, coordinator, faultVars>>

\* The worker is free; the last commit of a phase wakes the handlers that wait.
CommitFree(w) ==
  LET last == IF task[w].TaskType = MAP THEN NMapped = Nfile ELSE NReduce = 0 IN
  /\ pc[w] = "committing"
  /\ Status' = [Status EXCEPT ![w] = FREE]
  /\ IF last THEN Broadcast(w, Back(w, "ask")) ELSE Goto(w, Back(w, "ask"))
  /\ Mu' = Nil
  /\ UNCHANGED <<taskVars, Workers, beat, Last, localVars, fileVars, coordinator, faultVars>>

-----------------------------------------------------------------------------
(* Heartbeats and the timeout                                              *)

\* The critical section of Heartbeat under c.Mu.
HeartbeatRegister(w) ==
  /\ Running(w) /\ alive[w] /\ Up /\ Free
  /\ w \notin Workers
  /\ Workers' = Workers \cup {w}
  /\ UNCHANGED <<taskVars, beat, Status, Last, Mu, pc, localVars, fileVars, coordinator, faultVars>>

\* The one under the lock of the worker.
HeartbeatRecord(w) ==
  /\ Running(w) /\ alive[w] /\ Up
  /\ w \in Workers /\ ~beat[w]
  /\ beat' = [beat EXCEPT ![w] = TRUE]
  /\ UNCHANGED <<taskVars, Workers, Status, Last, Mu, pc, localVars, fileVars, coordinator, faultVars>>

\* The last heartbeat is more than four seconds old.  Workers send one every second, so that of a
\* living worker is not, unless its first one has not been recorded: LastHeartbeat is the zero
\* time then.  A worker that has exited is noticed only after the coordinator's main has exited.
Silent(w) == w \in Workers /\ (~alive[w] \/ ~beat[w])

\* Worker w has died with the task that c.Workers has for it, and no call of it is left.
Lost(w) == pc[w] = "dead" /\ Status[w] = WORK

\* What Heart does about worker w when it is judged to have crashed: its last task is idle again.
GiveUp(w) ==
  LET t == Last[w] IN
  /\ Status' = [Status EXCEPT ![w] = CRASH]
  /\ IF t.TaskType = REDUCE
     THEN ReduceTasks' = [ReduceTasks EXCEPT ![t.TaskNum] = IDLE] /\ UNCHANGED MapTasks
     ELSE MapTasks' = [MapTasks EXCEPT ![t.TaskNum] = IDLE] /\ UNCHANGED ReduceTasks
  /\ Broadcast(w, IF pc[w] = "waiting" THEN "woken" ELSE pc[w])
  /\ missed' = (missed \/ \E v \in Worker : pc[v] = "sleepy")
  /\ UNCHANGED <<Filename, NMapped, NReduce, Workers, beat, Last, Mu, localVars, fileVars,
                 coordinator, alive, crashes>>

\* Mutant: a worker that is already marked is looked at again.
HeartAgain(w) ==
  /\ Up /\ Silent(w)
  /\ GiveUp(w)
  /\ \/ (Lost(w) \/ Status[w] = CRASH) /\ UNCHANGED misjudged
     \/ ~Lost(w) /\ Status[w] # CRASH /\ misjudged < MaxMisjudged /\ misjudged' = misjudged + 1

\* Heart visits worker w, holding its lock and not c.Mu.
Heart(w) ==
  /\ Up /\ Silent(w) /\ Status[w] # CRASH
  /\ GiveUp(w)
  /\ \/ Lost(w) /\ UNCHANGED misjudged
     \/ ~Lost(w) /\ misjudged < MaxMisjudged /\ misjudged' = misjudged + 1

\* A worker is added to the map c.Workers while Heart ranges over it, or while a handler reads it,
\* without c.Mu: the Go runtime may notice and abort the process.
ConcurrentMapAccess(w) ==
  /\ Running(w) /\ alive[w] /\ Up /\ Free
  /\ w \notin Workers /\ Workers # {}
  /\ coordinator' = "aborted"
  /\ UNCHANGED <<taskVars, workerVars, Mu, pc, localVars, fileVars, faultVars>>

\* main: Done is true and the process ends.
Exit ==
  /\ Up /\ Free
  /\ Finished
  /\ coordinator' = "exited"
  /\ UNCHANGED <<taskVars, workerVars, Mu, pc, localVars, fileVars, faultVars>>

-----------------------------------------------------------------------------

TaskStep(w) == TaskAssign(w) \/ TaskNothing(w) \/ CondWait(w) \/ CondWoken(w) \/ TaskRecord(w)
WorkStep(w) == WriteIntermediate(w) \/ ReadIntermediate(w) \/ WriteOutput(w) \/ MapOver(w)
CommitStep(w) == Commit(w) \/ CommitFree(w)
BeatStep(w) == HeartbeatRegister(w) \/ HeartbeatRecord(w)

Next == \/ \E w \in Worker : \/ Start(w) \/ TaskStep(w) \/ WorkStep(w) \/ CommitStep(w)
                             \/ BeatStep(w) \/ Heart(w) \/ Crash(w) \/ CallFails(w)
                             \/ ConcurrentMapAccess(w)
        \/ Exit

Spec == Init /\ [][Next]_vars

\* A worker, or the handler that serves its call, goes on.
WorkerStep(w) == Start(w) \/ TaskStep(w) \/ WorkStep(w) \/ CommitStep(w) \/ CallFails(w)

\* The job does not stop while some process can go on; that is all a job without crashes needs.
ProgressSpec == Spec /\ WF_vars(Exit \/ \E w \in Worker : WorkerStep(w))

\* Every process and goroutine runs, Heart visits every worker and main polls Done.  Crashes need
\* not happen.
Fairness == /\ \A w \in Worker : WF_vars(WorkerStep(w))
            /\ WF_vars(\E w \in Worker : BeatStep(w))
            /\ WF_vars(\E w \in Worker : Heart(w))
            /\ WF_vars(Exit)

FairSpec == Spec /\ Fairness

=============================================================================
