--------------------------- MODULE MapReduceProofs ---------------------------
(***************************************************************************)
(* A MapReduce job computes what the sequential program computes, for any  *)
(* number of workers, input files, partitions, keys and crashes, wherever  *)
(* the workers die, as long as Heart takes no task from a worker that has  *)
(* not died with it.                                                       *)
(***************************************************************************)
EXTENDS MapReduceTables

\* Where a proof names no prover, Zenon finds it.
USE Zenon

\* The keys that doMap writes to partition i of map task m.
Content(m, i) == {h \in Emits[m] : h % nReduce = i}

\* No reduce task is handed out before all map tasks are completed.
PhasesApart == NMapped # Nfile => \A r \in ReduceTask : ReduceTasks[r] = IDLE

\* A task that a worker has is in progress, and a map task is told the number of partitions.
HeldInProc ==
  \A w \in Worker : Holds(w) =>
    /\ IsMap(w) => MapTasks[Num(w)] = INPROC /\ task[w].NReduce = nReduce
    /\ ~IsMap(w) => ReduceTasks[Num(w)] = INPROC

\* No two workers have the same task.
HeldOnce ==
  \A v, w \in Worker : v # w /\ Holds(v) /\ Holds(w) /\ (IsMap(v) <=> IsMap(w)) => Num(v) # Num(w)

\* Only dead workers are marked.
CrashRight == \A w \in Worker : Status[w] = CRASH => pc[w] = "dead"

\* An intermediate file has the keys of its partition, and a completed map task has all its files.
FilesRight ==
  \A m \in MapTask, i \in ReduceTask :
    /\ files[m][i] \in {Nil, Content(m, i)}
    /\ MapTasks[m] = COMPLETED /\ Content(m, i) # {} => files[m][i] # Nil

\* A reduce task is told the files of the completed map tasks that have pairs for it, each once.
NamesRight ==
  \A r \in ReduceTask :
    /\ \A j, k \in DOMAIN Filename[r] : Filename[r][j] = Filename[r][k] => j = k
    /\ Elems(Filename[r]) = {m \in MapTask : MapTasks[m] = COMPLETED /\ Content(m, r) # {}}

\* What doReduce has read so far.
ReduceOf(w) ==
  /\ pc[w] = "assigned" /\ ~IsMap(w) => task[w].Filename = Filename[Num(w)]
  /\ pc[w] = "reduce" =>
       /\ todo[w] \in Seq(MapTask)
       /\ \A j, k \in DOMAIN todo[w] : todo[w][j] = todo[w][k] => j = k
       /\ inter[w] = Once({p \in Pairs(Num(w)) : p[1] \notin Elems(todo[w])})

ReduceProgress == \A w \in Worker : ReduceOf(w)

\* A completed reduce task, and one that is about to be committed, has the right output.
OutputRight ==
  /\ \A r \in ReduceTask : ReduceTasks[r] = COMPLETED => out[r] = Sequential(r)
  /\ \A w \in Worker : pc[w] = "commit" /\ ~IsMap(w) => out[Num(w)] = Sequential(Num(w))

\* What holds of the tasks as long as Heart has misjudged nobody.
Core == /\ PhasesApart
        /\ HeldInProc /\ HeldOnce /\ CrashRight
        /\ FilesRight /\ NamesRight
        /\ ReduceProgress /\ OutputRight

\* The job is over when the coordinator has exited or has told a worker to.
EndRight == (coordinator = "exited" \/ (Up /\ \E w \in Worker : pc[w] = "exit")) => Finished

\* The handler that has found nothing to do, and the one that commits, hold c.Mu; nobody else
\* does between two steps.
LockRight ==
  /\ \A w \in Worker : pc[w] \in {"sleepy", "committing"} <=> Mu = w
  /\ ~Up => Free

\* The commit of worker v ends a phase.
Ends(v) == IF IsMap(v) THEN NMapped = Nfile ELSE NReduce = 0

\* A handler sleeps only while there is nothing to hand out, or the one that ends the phase holds
\* c.Mu and goes on to Broadcast.
SleepRight ==
  ~missed => \A w \in Worker :
    /\ pc[w] = "sleepy" => Idle = Nil /\ ~Finished
    /\ pc[w] = "waiting" => \/ Idle = Nil /\ ~Finished
                            \/ \E v \in Worker : pc[v] = "committing" /\ Ends(v)

-----------------------------------------------------------------------------
(* The counters of a job in which nobody is misjudged                      *)

\* The count is at most the number of tasks, and reaches it only when all are completed.
LEMMA CountAll ==
  ASSUME NEW k \in Nat, NEW f \in [0..(k - 1) -> States]
  PROVE  /\ Completed(f) \in 0..k
         /\ Completed(f) = k <=> \A y \in 0..(k - 1) : f[y] = COMPLETED
         /\ (\A y \in 0..(k - 1) : f[y] # COMPLETED) => Completed(f) = 0
  <1> DEFINE S == 0..(k - 1)
             A == {y \in S : f[y] = COMPLETED}
  <1>0. Completed(f) = Cardinality(A) BY DEF Completed
  <1>1. IsFiniteSet(S) /\ Cardinality(S) = k BY FS_Interval, SMT
  <1>2. /\ IsFiniteSet(A) /\ Cardinality(A) <= k
        /\ k = Cardinality(A) => S = A
    <2>1. A \in SUBSET S OBVIOUS
    <2> HIDE DEF A, S
    <2> QED BY <1>1, <2>1, FS_Subset
  <1>3. Cardinality(A) \in Nat BY <1>2, FS_CardinalityType
  <1>4. S = A => Cardinality(A) = k BY <1>1
  <1>5. S = A <=> \A y \in S : f[y] = COMPLETED OBVIOUS
  <1>6. Cardinality(A) \in 0..k BY <1>2, <1>3, SMT
  <1>7. Cardinality(A) = k <=> \A y \in S : f[y] = COMPLETED BY <1>2, <1>4, <1>5
  <1>8. (\A y \in S : f[y] # COMPLETED) => Cardinality(A) = 0
    <2>1. (\A y \in S : f[y] # COMPLETED) => A = {} OBVIOUS
    <2> QED BY <2>1, FS_EmptySet
  <1> QED BY <1>0, <1>6, <1>7, <1>8

\* NMapped reaches Nfile, and NReduce zero, when the last task is completed (coordinator.go:49, 50).
LEMMA CountersBound ==
  ASSUME Tables, misjudged = 0
  PROVE  /\ NMapped = Nfile <=> \A m \in MapTask : MapTasks[m] = COMPLETED
         /\ NReduce = 0 <=> \A r \in ReduceTask : ReduceTasks[r] = COMPLETED
         /\ (\A r \in ReduceTask : ReduceTasks[r] # COMPLETED) => NReduce = nReduce
  <1>0. Types /\ CountersExact BY CountedExact DEF Tables
  <1>1. Nfile \in Nat /\ nReduce \in Nat BY MapReduceAssumption
  <1>2. /\ MapTasks \in [0..(Nfile - 1) -> States] /\ ReduceTasks \in [0..(nReduce - 1) -> States]
        /\ NMapped \in Nat /\ NReduce \in Int
    BY <1>0 DEF Types, MapTask, ReduceTask
  <1>3. /\ Completed(MapTasks) \in 0..Nfile
        /\ Completed(MapTasks) = Nfile <=> \A m \in MapTask : MapTasks[m] = COMPLETED
    BY <1>1, <1>2, CountAll DEF MapTask
  <1>4. /\ Completed(ReduceTasks) \in 0..nReduce
        /\ Completed(ReduceTasks) = nReduce <=> \A r \in ReduceTask : ReduceTasks[r] = COMPLETED
        /\ (\A r \in ReduceTask : ReduceTasks[r] # COMPLETED) => Completed(ReduceTasks) = 0
    BY <1>1, <1>2, CountAll DEF ReduceTask
  <1>5. PICK c, d : c = Completed(MapTasks) /\ d = Completed(ReduceTasks) OBVIOUS
  <1>6. /\ c \in Nat /\ d \in Nat /\ NMapped - c >= 0 /\ (nReduce - NReduce) - d >= 0
        /\ (NMapped - c) + ((nReduce - NReduce) - d) <= 0
    <2>1. c \in Nat /\ d \in Nat
      <3>1. c \in 0..Nfile /\ d \in 0..nReduce BY <1>3, <1>4, <1>5
      <3> QED BY <3>1, SMT
    <2> QED BY <2>1, <1>0, <1>5 DEF CountersExact
  <1>7. NMapped = c /\ (NReduce = 0 <=> d = nReduce) /\ (d = 0 => NReduce = nReduce)
    BY <1>1, <1>2, <1>6, SMT
  <1> QED BY <1>3, <1>4, <1>5, <1>7

\* Before the last map task is completed the coordinator tells workers the number of partitions.
LEMMA PartitionsTold ==
  ASSUME Tables, misjudged = 0, Core, MapPhase
  PROVE  NReduce = nReduce
  <1>1. \A r \in ReduceTask : ReduceTasks[r] = IDLE BY DEF Core, PhasesApart, MapPhase
  <1>2. IDLE # COMPLETED BY SMT DEF IDLE, COMPLETED
  <1> QED BY <1>1, <1>2, CountersBound

\* When a reduce task is in progress, all map tasks are completed.
LEMMA MapsOver ==
  ASSUME Tables, misjudged = 0, Core, NEW r \in ReduceTask, ReduceTasks[r] # IDLE
  PROVE  NMapped = Nfile /\ \A m \in MapTask : MapTasks[m] = COMPLETED
  BY CountersBound DEF Core, PhasesApart

\* The names that a reduce task gets are those of all files with pairs for it.
LEMMA NamesComplete ==
  ASSUME Tables, misjudged = 0, Core, NEW r \in ReduceTask, ReduceTasks[r] # IDLE
  PROVE  /\ Filename[r] \in Seq(MapTask)
         /\ \A j, k \in DOMAIN Filename[r] : Filename[r][j] = Filename[r][k] => j = k
         /\ {p \in Pairs(r) : p[1] \notin Elems(Filename[r])} = {}
  <1>1. /\ \A j, k \in DOMAIN Filename[r] : Filename[r][j] = Filename[r][k] => j = k
        /\ Elems(Filename[r]) = {m \in MapTask : MapTasks[m] = COMPLETED /\ Content(m, r) # {}}
    BY DEF Core, NamesRight
  <1>2. Filename[r] \in Seq(MapTask) BY DEF Tables, Types
  <1>3. \A m \in MapTask : Content(m, r) # {} => m \in Elems(Filename[r]) BY <1>1, MapsOver
  <1>4. ASSUME NEW p \in Pairs(r) PROVE p[1] \in Elems(Filename[r])
    <2>1. p[1] \in MapTask /\ p[2] \in Emits[p[1]] /\ p[2] % nReduce = r BY DEF Pairs
    <2>2. Content(p[1], r) # {} BY <2>1 DEF Content
    <2> QED BY <1>3, <2>1, <2>2
  <1> QED BY <1>1, <1>2, <1>4

\* doMap writes the partitions that are not empty, and no others.
LEMMA PartitionsRight ==
  ASSUME NEW t, t.TaskNum \in MapTask, t.NReduce = nReduce
  PROVE  \A i \in ReduceTask : i \in Partitions(t) <=> Content(t.TaskNum, i) # {}
  <1>4. \A i : i \in Partitions(t) <=> \E h \in Emits[t.TaskNum] : i = h % nReduce
    BY DEF Partitions
  <1>5. \A i : Content(t.TaskNum, i) # {} <=> \E h \in Emits[t.TaskNum] : i = h % nReduce
    BY DEF Content
  <1> QED BY <1>4, <1>5

-----------------------------------------------------------------------------
(* Steps by which no worker gets on with a task                            *)

\* Steps that leave the tables and the tasks alone, and give nobody a task.
LEMMA StillHeld ==
  ASSUME Core, UNCHANGED <<MapTasks, ReduceTasks, Filename, NMapped, task>>,
         \A v \in Worker : (Holds(v))' => Holds(v)
  PROVE  PhasesApart' /\ HeldInProc' /\ HeldOnce' /\ NamesRight'
  <1>1. \A v \in Worker : ((IsMap(v))' <=> IsMap(v)) /\ (Num(v))' = Num(v) BY DEF IsMap, Num
  <1>2. PhasesApart' BY DEF Core, PhasesApart
  <1>3. HeldInProc' BY <1>1 DEF Core, HeldInProc
  <1>4. HeldOnce' BY <1>1 DEF Core, HeldOnce
  <1>5. NamesRight' BY DEF Core, NamesRight
  <1> QED BY <1>2, <1>3, <1>4, <1>5

\* Steps of w do not change what the others have read.
LEMMA OthersReduce ==
  ASSUME Core, NEW w \in Worker, Others(w), UNCHANGED Filename, (ReduceOf(w))'
  PROVE  ReduceProgress'
  <1> SUFFICES ASSUME NEW v \in Worker, v # w
               PROVE  (ReduceOf(v))'
    BY DEF ReduceProgress
  <1>1. ReduceOf(v) BY DEF Core, ReduceProgress
  <1>2. /\ pc'[v] = pc[v] /\ task'[v] = task[v] /\ todo'[v] = todo[v] /\ inter'[v] = inter[v]
        /\ (IsMap(v))' <=> IsMap(v)
        /\ (Num(v))' = Num(v)
    BY DEF Others, IsMap, Num
  <1> QED BY <1>1, <1>2 DEF ReduceOf

\* Steps that leave the tables, the tasks and the files alone.
LEMMA QuietKeeps ==
  ASSUME Tables, Core, QuietStep
  PROVE  Core'
  <1>0. /\ UNCHANGED <<MapTasks, ReduceTasks, Filename, NMapped, task, todo, inter, files, out, Last>>
        /\ \A v \in Worker : Moves(v)
    BY DEF QuietStep
  <1>1. \A v \in Worker : At(v) BY DEF Tables, Placed
  <1>2. \A v \in Worker : /\ (Holds(v))' => Holds(v)
                          /\ \A l \in {"assigned", "map", "reduce", "commit"} :
                               pc'[v] = l => pc[v] = l
    BY <1>0, <1>1, MovesMean
  <1>3. \A v \in Worker : ((IsMap(v))' <=> IsMap(v)) /\ (Num(v))' = Num(v) BY <1>0 DEF IsMap, Num
  <1>4. PhasesApart' /\ HeldInProc' /\ HeldOnce' /\ NamesRight' BY <1>0, <1>2, StillHeld
  <1>5. CrashRight'
    <2> SUFFICES ASSUME NEW v \in Worker, Status'[v] = CRASH PROVE pc'[v] = "dead"
      BY DEF CrashRight
    <2>0. FREE # CRASH BY SMT DEF FREE, CRASH
    <2>1. Status[v] = CRASH => pc[v] = "dead" BY DEF Core, CrashRight
    <2>2. Moves(v) BY <1>0
    <2> QED BY <2>0, <2>1, <2>2 DEF Moves
  <1>6. FilesRight' BY <1>0 DEF Core, FilesRight
  <1>7. ReduceProgress'
    <2> SUFFICES ASSUME NEW v \in Worker PROVE (ReduceOf(v))' BY DEF ReduceProgress
    <2>1. ReduceOf(v) BY DEF Core, ReduceProgress
    <2>2. /\ pc'[v] = "assigned" => pc[v] = "assigned"
          /\ pc'[v] = "reduce" => pc[v] = "reduce"
      BY <1>2
    <2> QED BY <2>1, <2>2, <1>0, <1>3 DEF ReduceOf
  <1>8. OutputRight'
    <2>1. \A v \in Worker : pc'[v] = "commit" => pc[v] = "commit" BY <1>2
    <2> QED BY <1>0, <1>3, <2>1 DEF Core, OutputRight
  <1> QED BY <1>4, <1>5, <1>6, <1>7, <1>8 DEF Core

-----------------------------------------------------------------------------
(* doMap and doReduce                                                      *)

\* A list without repetitions.
LEMMA RestOnce ==
  ASSUME NEW S, NEW s \in Seq(S), s # <<>>, \A j, k \in DOMAIN s : s[j] = s[k] => j = k
  PROVE  /\ Head(s) \notin Elems(Tail(s))
         /\ \A j, k \in DOMAIN Tail(s) : Tail(s)[j] = Tail(s)[k] => j = k
  <1>1. Len(s) \in Nat /\ Len(s) # 0 /\ DOMAIN s = 1..Len(s) /\ Head(s) = s[1] BY SMT
  <1>2. /\ DOMAIN Tail(s) = 1..(Len(s) - 1)
        /\ \A k \in 1..(Len(s) - 1) : Tail(s)[k] = s[k + 1]
    BY <1>1, SMT
  <1>3. \A k \in 1..(Len(s) - 1) : k + 1 \in DOMAIN s /\ k + 1 # 1 BY <1>1, SMT
  <1>4. 1 \in DOMAIN s BY <1>1, SMT
  <1>5. \A k \in 1..(Len(s) - 1) : Tail(s)[k] # Head(s) BY <1>1, <1>2, <1>3, <1>4
  <1>6. Head(s) \notin Elems(Tail(s)) BY <1>2, <1>5 DEF Elems
  <1>7. ASSUME NEW j \in 1..(Len(s) - 1), NEW k \in 1..(Len(s) - 1), Tail(s)[j] = Tail(s)[k]
        PROVE  j = k
    <2>1. s[j + 1] = s[k + 1] BY <1>2, <1>7
    <2>2. j + 1 = k + 1 BY <2>1, <1>3
    <2> QED BY <2>2, <1>1, SMT
  <1> QED BY <1>2, <1>6, <1>7

\* New pairs appended to a bag without repetitions give a bag without repetitions (doReduce).
LEMMA AppendedOnce ==
  ASSUME NEW A, NEW B, A \cap B = {}
  PROVE  Appended(Once(A), B) = Once(A \cup B)
  BY SMT DEF Once, Appended

\* An intermediate file is not nil.
LEMMA ContentNotNil ==
  ASSUME NEW m \in MapTask, NEW i
  PROVE  Content(m, i) # Nil
  <1>1. Content(m, i) \in SUBSET Emits[m] BY DEF Content
  <1> QED BY <1>1, MapReduceAssumption

\* The steps of a worker at its task leave the tables alone.
LEMMA AtWork ==
  ASSUME Tables, Core, NEW w \in Worker, WorkStep(w)
  PROVE  /\ Others(w) /\ pc[w] \in {"map", "reduce"} /\ pc'[w] \in {pc[w], "commit"}
         /\ UNCHANGED <<MapTasks, ReduceTasks, Filename, NMapped, NReduce, task, Status, misjudged,
                        Mu, coordinator, missed>>
         /\ \A v \in Worker : ((IsMap(v))' <=> IsMap(v)) /\ (Num(v))' = Num(v)
         /\ \A v \in Worker : (Holds(v))' => Holds(v)
         /\ PhasesApart' /\ HeldInProc' /\ HeldOnce' /\ NamesRight' /\ CrashRight'
  <1>1. Others(w) /\ pc'[w] \in {pc[w], "commit"}
    <2>1. WriteIntermediate(w) => Others(w) /\ pc' = pc BY WriteTables
    <2>2. ReadIntermediate(w) => Others(w) /\ pc' = pc BY ReadTables
    <2>3. WriteOutput(w) \/ MapOver(w) => Others(w) /\ pc'[w] = "commit" BY DoneTables
    <2> QED BY <2>1, <2>2, <2>3 DEF WorkStep
  <1>2. /\ pc[w] \in {"map", "reduce"}
        /\ UNCHANGED <<MapTasks, ReduceTasks, Filename, NMapped, NReduce, task, Status, misjudged,
                       Mu, coordinator, missed>>
    BY DEF WorkStep, WriteIntermediate, ReadIntermediate, WriteOutput, MapOver, taskVars, workerVars,
           localVars, fileVars, faultVars
  <1>3. \A v \in Worker : ((IsMap(v))' <=> IsMap(v)) /\ (Num(v))' = Num(v) BY <1>2 DEF IsMap, Num
  <1>4. \A v \in Worker : v # w => ((Holds(v))' <=> Holds(v)) BY <1>1, OthersHold
  <1>5. Holds(w) BY <1>2 DEF Holds
  <1>6. \A v \in Worker : (Holds(v))' => Holds(v) BY <1>4, <1>5
  <1>7. PhasesApart' /\ HeldInProc' /\ HeldOnce' /\ NamesRight' BY <1>2, <1>6, StillHeld
  <1>8. CrashRight'
    <2>1. Status[w] # CRASH BY <1>2 DEF Core, CrashRight
    <2> QED BY <2>1, <1>1, <1>2 DEF Core, CrashRight, Others
  <1> QED BY <1>1, <1>2, <1>3, <1>6, <1>7, <1>8

\* doMap writes the next partition.
LEMMA WriteKeeps ==
  ASSUME Tables, Core, NEW w \in Worker, WriteIntermediate(w)
  PROVE  Core'
  <1> DEFINE m == Num(w)
             i == Head(todo[w])
  <1>1. pc[w] = "map" /\ UNCHANGED out BY DEF WriteIntermediate
  <1>2. /\ pc' = pc /\ i \in ReduceTask /\ m \in MapTask
        /\ files'[m][i] = {h \in Emits[m] : h % task[w].NReduce = i}
        /\ \A x \in MapTask, y \in ReduceTask : x # m \/ y # i => files'[x][y] = files[x][y]
    BY WriteTables
  <1>3. task[w].NReduce = nReduce
    <2>1. IsMap(w) /\ Holds(w) BY <1>1 DEF Tables, Placed, At, Holds
    <2> QED BY <2>1 DEF Core, HeldInProc
  <1>4. files'[m][i] = Content(m, i) /\ Content(m, i) # Nil
    BY <1>2, <1>3, ContentNotNil DEF Content
  <1>5. /\ Others(w)
        /\ UNCHANGED <<MapTasks, ReduceTasks, Filename>>
        /\ \A v \in Worker : ((IsMap(v))' <=> IsMap(v)) /\ (Num(v))' = Num(v)
        /\ PhasesApart' /\ HeldInProc' /\ HeldOnce' /\ NamesRight' /\ CrashRight'
    BY AtWork DEF WorkStep
  <1> HIDE DEF i, m
  <1>6. FilesRight'
    <2> SUFFICES ASSUME NEW x \in MapTask, NEW y \in ReduceTask
                 PROVE  /\ files'[x][y] \in {Nil, Content(x, y)}
                        /\ MapTasks'[x] = COMPLETED /\ Content(x, y) # {} => files'[x][y] # Nil
      BY DEF FilesRight
    <2>1. /\ files[x][y] \in {Nil, Content(x, y)}
          /\ MapTasks[x] = COMPLETED /\ Content(x, y) # {} => files[x][y] # Nil
      BY DEF Core, FilesRight
    <2>2. CASE x = m /\ y = i BY <2>2, <1>4
    <2>3. CASE x # m \/ y # i BY <2>1, <2>3, <1>2, <1>5
    <2> QED BY <2>2, <2>3
  <1>7. ReduceProgress'
    <2>1. (ReduceOf(w))' BY <1>1, <1>2 DEF ReduceOf
    <2> QED BY <1>5, <2>1, OthersReduce
  <1>8. OutputRight' BY <1>1, <1>2, <1>5 DEF Core, OutputRight
  <1> QED BY <1>5, <1>6, <1>7, <1>8 DEF Core

\* doReduce reads the next file: each pair of the partition once.
LEMMA ReadKeeps ==
  ASSUME Tables, Core, NEW w \in Worker, ReadIntermediate(w)
  PROVE  Core'
  <1> DEFINE m == Head(todo[w])
             r == Num(w)
             new == {<<m, h>> : h \in files[m][r]}
             Read(s) == {p \in Pairs(r) : p[1] \notin Elems(s)}
  <1>1. /\ pc[w] = "reduce" /\ todo[w] # <<>> /\ files[m][r] # Nil /\ UNCHANGED <<files, out>>
    BY DEF ReadIntermediate, fileVars, Num
  <1>2. /\ r \in ReduceTask
        /\ todo[w] \in Seq(MapTask) /\ \A j, k \in DOMAIN todo[w] : todo[w][j] = todo[w][k] => j = k
        /\ inter[w] = Once(Read(todo[w]))
    <2>1. ~IsMap(w) /\ r \in ReduceTask BY <1>1 DEF Tables, Placed, At, Told
    <2>2. ReduceOf(w) BY DEF Core, ReduceProgress
    <2> QED BY <1>1, <2>1, <2>2 DEF ReduceOf
  <1>3. /\ m \in MapTask /\ Tail(todo[w]) \in Seq(MapTask)
        /\ \A x : x \in Elems(todo[w]) <=> x = m \/ x \in Elems(Tail(todo[w]))
    BY <1>1, <1>2, Rest
  <1>4. /\ m \notin Elems(Tail(todo[w]))
        /\ \A j, k \in DOMAIN Tail(todo[w]) : Tail(todo[w])[j] = Tail(todo[w])[k] => j = k
    BY <1>1, <1>2, RestOnce
  <1>5. files[m][r] = Content(m, r) BY <1>1, <1>2, <1>3 DEF Core, FilesRight
  <1>a. inter'[w] = Appended(inter[w], new) /\ todo'[w] = Tail(todo[w]) /\ pc' = pc
    BY ReadTables
  <1>b. /\ Others(w)
        /\ UNCHANGED <<MapTasks, ReduceTasks, Filename>>
        /\ \A v \in Worker : ((IsMap(v))' <=> IsMap(v)) /\ (Num(v))' = Num(v)
        /\ PhasesApart' /\ HeldInProc' /\ HeldOnce' /\ NamesRight' /\ CrashRight'
    BY AtWork DEF WorkStep
  <1> HIDE DEF m, r
  <1>6. new = {p \in Pairs(r) : p[1] = m}
    <2>1. ASSUME NEW h \in Content(m, r) PROVE <<m, h>> \in Pairs(r)
      BY <1>3, <2>1 DEF Content, Pairs
    <2>2. ASSUME NEW p \in Pairs(r), p[1] = m PROVE p \in new
      <3>1. p = <<p[1], p[2]>> /\ p[2] \in Emits[m] /\ p[2] % nReduce = r BY <2>2, SMT DEF Pairs
      <3> QED BY <3>1, <2>2, <1>5 DEF Content
    <2> QED BY <2>1, <2>2, <1>5, SMT
  <1>7. Read(Tail(todo[w])) = Read(todo[w]) \cup new /\ Read(todo[w]) \cap new = {}
    BY <1>3, <1>4, <1>6
  <1> HIDE DEF new
  <1>8. Appended(Once(Read(todo[w])), new) = Once(Read(Tail(todo[w])))
    BY <1>7, AppendedOnce
  <1> HIDE DEF Read
  <1>9. inter'[w] = Once(Read(Tail(todo[w]))) BY <1>a, <1>2, <1>8
  <1>10. FilesRight' BY <1>1, <1>b DEF Core, FilesRight
  <1>11. ReduceProgress'
    <2>1. (ReduceOf(w))' BY <1>1, <1>3, <1>4, <1>9, <1>a, <1>b DEF ReduceOf, Read, r
    <2> QED BY <1>b, <2>1, OthersReduce
  <1>12. OutputRight' BY <1>1, <1>a, <1>b DEF Core, OutputRight
  <1> QED BY <1>b, <1>10, <1>11, <1>12 DEF Core

\* doReduce has read all its files and renames the output file.
LEMMA OutputKeeps ==
  ASSUME Tables, Core, NEW w \in Worker, WriteOutput(w)
  PROVE  Core'
  <1> DEFINE r == Num(w)
  <1>1. /\ pc[w] = "reduce" /\ todo[w] = <<>> /\ UNCHANGED files
        /\ out' = [out EXCEPT ![r] = inter[w]]
    BY DEF WriteOutput, Num
  <1>2. /\ ~IsMap(w) /\ Holds(w) /\ r \in ReduceTask
        /\ inter[w] = Once({p \in Pairs(r) : p[1] \notin Elems(todo[w])})
    <2>1. ~IsMap(w) /\ Holds(w) /\ r \in ReduceTask BY <1>1 DEF Tables, Placed, At, Told, Holds
    <2>2. ReduceOf(w) BY DEF Core, ReduceProgress
    <2> QED BY <1>1, <2>1, <2>2 DEF ReduceOf
  <1>3. inter[w] = Sequential(r)
    <2>1. Elems(todo[w]) = {} BY <1>1, SMT DEF Elems
    <2>2. {p \in Pairs(r) : p[1] \notin Elems(todo[w])} = Pairs(r) BY <2>1
    <2> QED BY <1>2, <2>2 DEF Sequential
  <1>a. pc'[w] = "commit" BY DoneTables
  <1>b. /\ Others(w)
        /\ UNCHANGED <<MapTasks, ReduceTasks, Filename>>
        /\ \A v \in Worker : ((IsMap(v))' <=> IsMap(v)) /\ (Num(v))' = Num(v)
        /\ PhasesApart' /\ HeldInProc' /\ HeldOnce' /\ NamesRight' /\ CrashRight'
    BY AtWork DEF WorkStep
  <1> HIDE DEF r
  <1>4. out'[r] = Sequential(r) /\ \A x \in ReduceTask : x # r => out'[x] = out[x]
    BY <1>1, <1>2, <1>3 DEF Tables, Types
  <1>5. FilesRight' BY <1>1, <1>b DEF Core, FilesRight
  <1>6. ReduceProgress'
    <2>1. (ReduceOf(w))' BY <1>a DEF ReduceOf
    <2> QED BY <1>b, <2>1, OthersReduce
  <1>7. OutputRight'
    <2>1. \A x \in ReduceTask : ReduceTasks'[x] = COMPLETED => out'[x] = Sequential(x)
      BY <1>b, <1>4 DEF Core, OutputRight
    <2>2. ASSUME NEW v \in Worker, v # w, pc'[v] = "commit", ~(IsMap(v))'
          PROVE  out'[(Num(v))'] = Sequential((Num(v))')
      <3>1. pc[v] = "commit" /\ ~IsMap(v) /\ Holds(v) /\ (Num(v))' = Num(v)
        BY <2>2, <1>b DEF Holds, Others
      <3>2. Num(v) \in ReduceTask BY <3>1 DEF Tables, Placed, Told
      <3>3. Num(v) # r BY <3>1, <2>2, <1>2 DEF Core, HeldOnce, r
      <3>4. out[Num(v)] = Sequential(Num(v)) BY <3>1 DEF Core, OutputRight
      <3> QED BY <3>1, <3>2, <3>3, <3>4, <1>4
    <2>3. out'[(Num(w))'] = Sequential((Num(w))') BY <1>4, <1>b DEF r
    <2> QED BY <2>1, <2>2, <2>3 DEF OutputRight
  <1> QED BY <1>b, <1>5, <1>6, <1>7 DEF Core

\* doMap has written its last partition.
LEMMA OverKeeps ==
  ASSUME Tables, Core, NEW w \in Worker, MapOver(w)
  PROVE  Core'
  <1>1. pc[w] = "map" /\ UNCHANGED <<files, out>> BY DEF MapOver, fileVars
  <1>2. IsMap(w) BY <1>1 DEF Tables, Placed, At
  <1>a. pc'[w] = "commit" BY DoneTables
  <1>b. /\ Others(w)
        /\ UNCHANGED <<MapTasks, ReduceTasks, Filename>>
        /\ \A v \in Worker : ((IsMap(v))' <=> IsMap(v)) /\ (Num(v))' = Num(v)
        /\ PhasesApart' /\ HeldInProc' /\ HeldOnce' /\ NamesRight' /\ CrashRight'
    BY AtWork DEF WorkStep
  <1>3. FilesRight' BY <1>1, <1>b DEF Core, FilesRight
  <1>4. ReduceProgress'
    <2>1. (ReduceOf(w))' BY <1>a DEF ReduceOf
    <2> QED BY <1>b, <2>1, OthersReduce
  <1>5. OutputRight'
    <2>1. \A v \in Worker : pc'[v] = "commit" /\ ~(IsMap(v))' => pc[v] = "commit" /\ ~IsMap(v)
      BY <1>2, <1>b DEF Others
    <2> QED BY <1>1, <1>b, <2>1 DEF Core, OutputRight
  <1> QED BY <1>b, <1>3, <1>4, <1>5 DEF Core

-----------------------------------------------------------------------------
(* Coordinator.Task                                                        *)

\* The states of a task differ.
LEMMA StatesDiffer == INPROC # IDLE /\ INPROC # COMPLETED /\ IDLE # COMPLETED
  BY SMT DEF INPROC, IDLE, COMPLETED

\* An idle task is handed out.
LEMMA AssignKeeps ==
  ASSUME Tables, misjudged = 0, Core, NEW w \in Worker, TaskAssign(w)
  PROVE  Core'
  <1>0. /\ MapTasks \in [MapTask -> States] /\ ReduceTasks \in [ReduceTask -> States]
        /\ pc \in [Worker -> Label] /\ task \in [Worker -> Task]
    BY DEF Tables, Types
  <1>1. /\ pc[w] = "ask" /\ Goto(w, "assigned")
        /\ UNCHANGED <<Filename, NMapped, NReduce, Status, Last, todo, inter, files, out>>
    BY DEF TaskAssign, fileVars
  <1>2. PICK t \in Task :
          /\ task' = [task EXCEPT ![w] = t] /\ t.NReduce = NReduce
          /\ MapPhase => /\ t.TaskType = MAP /\ t.TaskNum \in MapTask
                         /\ MapTasks[t.TaskNum] = IDLE /\ UNCHANGED ReduceTasks
                         /\ MapTasks' = [MapTasks EXCEPT ![t.TaskNum] = INPROC]
          /\ ~MapPhase => /\ t.TaskType # MAP /\ t.TaskNum \in ReduceTask
                          /\ ReduceTasks[t.TaskNum] = IDLE /\ UNCHANGED MapTasks
                          /\ ReduceTasks' = [ReduceTasks EXCEPT ![t.TaskNum] = INPROC]
                          /\ t.Filename = Filename[t.TaskNum]
    BY Assigned
  <1>3. pc'[w] = "assigned" /\ \A v \in Worker : v # w => pc'[v] = pc[v]
    BY <1>0, <1>1, GotoMoves DEF Label
  <1>4. task'[w] = t /\ \A v \in Worker : v # w => task'[v] = task[v] BY <1>0, <1>2
  <1>5. Others(w) BY <1>1, <1>3, <1>4 DEF Others
  <1>6. \A v \in Worker : v # w => /\ (Holds(v))' <=> Holds(v)
                                   /\ (IsMap(v))' <=> IsMap(v)
                                   /\ (Num(v))' = Num(v)
    BY <1>5, OthersHold
  <1>7. ((IsMap(w))' <=> MapPhase) /\ (Num(w))' = t.TaskNum BY <1>2, <1>4 DEF IsMap, Num
  <1>8. /\ MapPhase => /\ MapTasks'[t.TaskNum] = INPROC
                       /\ \A m \in MapTask : m # t.TaskNum => MapTasks'[m] = MapTasks[m]
        /\ ~MapPhase => /\ ReduceTasks'[t.TaskNum] = INPROC
                        /\ \A r \in ReduceTask : r # t.TaskNum => ReduceTasks'[r] = ReduceTasks[r]
    BY <1>0, <1>2
  <1>9. /\ \A m \in MapTask : MapTasks'[m] = COMPLETED <=> MapTasks[m] = COMPLETED
        /\ \A r \in ReduceTask : ReduceTasks'[r] = COMPLETED <=> ReduceTasks[r] = COMPLETED
    <2>1. CASE MapPhase BY <2>1, <1>2, <1>8, StatesDiffer
    <2>2. CASE ~MapPhase BY <2>2, <1>2, <1>8, StatesDiffer
    <2> QED BY <2>1, <2>2
  <1>10. ASSUME NEW v \in Worker, v # w, Holds(v), IsMap(v) <=> MapPhase
         PROVE  Num(v) # t.TaskNum
    <2>1. /\ IsMap(v) => MapTasks[Num(v)] = INPROC
          /\ ~IsMap(v) => ReduceTasks[Num(v)] = INPROC
      BY <1>10 DEF Core, HeldInProc
    <2> QED BY <2>1, <1>2, <1>10, StatesDiffer
  <1>11. \A v \in Worker : (IsMap(v) => Num(v) \in MapTask) /\ (~IsMap(v) => Num(v) \in ReduceTask)
    BY DEF Tables, Placed, Told
  <1>p. PhasesApart'
    <2>1. CASE MapPhase BY <2>1, <1>1, <1>2 DEF Core, PhasesApart
    <2>2. CASE ~MapPhase BY <2>2, <1>1 DEF PhasesApart, MapPhase
    <2> QED BY <2>1, <2>2
  <1>h. HeldInProc'
    <2> SUFFICES ASSUME NEW v \in Worker, (Holds(v))'
                 PROVE  /\ (IsMap(v))' => MapTasks'[(Num(v))'] = INPROC /\ task'[v].NReduce = nReduce
                        /\ ~(IsMap(v))' => ReduceTasks'[(Num(v))'] = INPROC
      BY DEF HeldInProc
    <2>1. CASE v = w
      <3>1. MapPhase => NReduce = nReduce BY PartitionsTold
      <3> QED BY <2>1, <3>1, <1>2, <1>4, <1>7, <1>8
    <2>2. CASE v # w
      <3>1. Holds(v) /\ ((IsMap(v))' <=> IsMap(v)) /\ (Num(v))' = Num(v) /\ task'[v] = task[v]
        BY <2>2, <1>4, <1>6
      <3>2. /\ IsMap(v) => MapTasks[Num(v)] = INPROC /\ task[v].NReduce = nReduce
            /\ ~IsMap(v) => ReduceTasks[Num(v)] = INPROC
        BY <3>1 DEF Core, HeldInProc
      <3>3. IsMap(v) => MapTasks'[Num(v)] = INPROC BY <2>2, <3>1, <3>2, <1>2, <1>8, <1>10, <1>11
      <3>4. ~IsMap(v) => ReduceTasks'[Num(v)] = INPROC
        BY <2>2, <3>1, <3>2, <1>2, <1>8, <1>10, <1>11
      <3> QED BY <3>1, <3>2, <3>3, <3>4
    <2> QED BY <2>1, <2>2
  <1>o. HeldOnce'
    <2> SUFFICES ASSUME NEW v \in Worker, NEW u \in Worker, u # v, (Holds(v))', (Holds(u))',
                        (IsMap(v))' <=> (IsMap(u))'
                 PROVE  (Num(v))' # (Num(u))'
      BY DEF HeldOnce
    <2>1. CASE v # w /\ u # w BY <2>1, <1>6 DEF Core, HeldOnce
    <2>2. CASE v = w
      <3>1. u # w /\ Holds(u) /\ (IsMap(u) <=> MapPhase) /\ (Num(u))' = Num(u) BY <2>2, <1>6, <1>7
      <3> QED BY <2>2, <3>1, <1>7, <1>10
    <2>3. CASE u = w
      <3>1. v # w /\ Holds(v) /\ (IsMap(v) <=> MapPhase) /\ (Num(v))' = Num(v) BY <2>3, <1>6, <1>7
      <3> QED BY <2>3, <3>1, <1>7, <1>10
    <2> QED BY <2>1, <2>2, <2>3
  <1>c. CrashRight'
    <2>1. Status[w] # CRASH BY <1>1 DEF Core, CrashRight
    <2> QED BY <2>1, <1>1, <1>3 DEF Core, CrashRight
  <1>f. FilesRight' BY <1>1, <1>9 DEF Core, FilesRight
  <1>n. NamesRight' BY <1>1, <1>9 DEF Core, NamesRight
  <1>r. ReduceProgress'
    <2>1. (ReduceOf(w))'
      <3>1. ~MapPhase => task'[w].Filename = Filename'[(Num(w))'] BY <1>1, <1>2, <1>4, <1>7
      <3> QED BY <3>1, <1>3, <1>7 DEF ReduceOf
    <2> QED BY <1>1, <1>5, <2>1, OthersReduce
  <1>u. OutputRight' BY <1>1, <1>3, <1>6, <1>9 DEF Core, OutputRight
  <1> QED BY <1>p, <1>h, <1>o, <1>c, <1>f, <1>n, <1>r, <1>u DEF Core

\* The worker is recorded and starts on its task.
LEMMA RecordKeeps ==
  ASSUME Tables, misjudged = 0, Core, NEW w \in Worker, TaskRecord(w)
  PROVE  Core'
  <1>1. /\ pc[w] = "assigned"
        /\ UNCHANGED <<MapTasks, ReduceTasks, Filename, NMapped, task, files, out>>
    BY DEF TaskRecord, taskVars, fileVars
  <1>2. /\ Tables' /\ Others(w)
        /\ pc'[w] \in {"map", "reduce", "dead"} /\ Status'[w] = WORK
        /\ pc'[w] = "reduce" => todo'[w] = task[w].Filename /\ inter'[w] = Once({})
    BY RecordTables
  <1>3. \A v \in Worker : ((IsMap(v))' <=> IsMap(v)) /\ (Num(v))' = Num(v) BY <1>1 DEF IsMap, Num
  <1>4. Holds(w) BY <1>1 DEF Holds
  <1>5. PhasesApart' /\ HeldInProc' /\ HeldOnce' /\ NamesRight'
    <2>1. \A v \in Worker : (Holds(v))' => Holds(v) BY <1>2, <1>4, OthersHold
    <2> QED BY <1>1, <2>1, StillHeld
  <1>6. CrashRight'
    <2>1. WORK # CRASH BY SMT DEF WORK, CRASH
    <2> QED BY <2>1, <1>2 DEF Core, CrashRight, Others
  <1>7. FilesRight' BY <1>1 DEF Core, FilesRight
  <1>8. ReduceProgress'
    <2>1. CASE pc'[w] = "reduce"
      <3>1. ~IsMap(w)
        <4>1. ~(IsMap(w))' BY <1>2, <2>1 DEF Tables, Placed, At
        <4> QED BY <4>1, <1>3
      <3>2. Num(w) \in ReduceTask BY <3>1 DEF Tables, Placed, Told
      <3>3. ReduceTasks[Num(w)] # IDLE BY <3>1, <1>4, StatesDiffer DEF Core, HeldInProc
      <3>4. task[w].Filename = Filename[Num(w)] BY <3>1, <1>1 DEF Core, ReduceProgress, ReduceOf
      <3>5. PICK r \in ReduceTask : r = Num(w) BY <3>2
      <3>6. /\ Filename[r] \in Seq(MapTask)
            /\ \A j, k \in DOMAIN Filename[r] : Filename[r][j] = Filename[r][k] => j = k
            /\ {p \in Pairs(r) : p[1] \notin Elems(Filename[r])} = {}
        BY <3>3, <3>5, NamesComplete
      <3>7. /\ todo'[w] = Filename[r] /\ (Num(w))' = r
            /\ inter'[w] = Once({p \in Pairs(r) : p[1] \notin Elems(Filename[r])})
        BY <1>2, <1>3, <2>1, <3>4, <3>5, <3>6
      <3>8. (ReduceOf(w))' BY <2>1, <3>6, <3>7 DEF ReduceOf
      <3> QED BY <3>8, <1>1, <1>2, OthersReduce
    <2>2. CASE pc'[w] # "reduce"
      <3>1. (ReduceOf(w))' BY <1>2, <2>2 DEF ReduceOf
      <3> QED BY <3>1, <1>1, <1>2, OthersReduce
    <2> QED BY <2>1, <2>2
  <1>9. OutputRight' BY <1>1, <1>2, <1>3 DEF Core, OutputRight, Others
  <1> QED BY <1>5, <1>6, <1>7, <1>8, <1>9 DEF Core

-----------------------------------------------------------------------------
(* Coordinator.CommitOK and Heart                                          *)

\* Appending an element that a list does not have.
LEMMA AppendOnce ==
  ASSUME NEW S, NEW s \in Seq(S), NEW x \in S, x \notin Elems(s),
         \A j, k \in DOMAIN s : s[j] = s[k] => j = k
  PROVE  /\ Elems(Append(s, x)) = Elems(s) \cup {x}
         /\ \A j, k \in DOMAIN Append(s, x) : Append(s, x)[j] = Append(s, x)[k] => j = k
  <1> DEFINE a == Append(s, x)
  <1>1. Len(s) \in Nat /\ DOMAIN s = 1..Len(s) BY SMT
  <1>2. /\ DOMAIN a = 1..(Len(s) + 1) /\ a[Len(s) + 1] = x
        /\ \A k \in 1..Len(s) : a[k] = s[k]
    BY <1>1, SMT
  <1>3. \A k \in 1..(Len(s) + 1) : k = Len(s) + 1 \/ k \in 1..Len(s) BY <1>1, SMT
  <1>4. Elems(a) = Elems(s) \cup {x} BY Appending, SMT
  <1> HIDE DEF a
  <1>5. \A k \in 1..Len(s) : s[k] # x BY <1>1 DEF Elems
  <1>6. ASSUME NEW j \in DOMAIN a, NEW k \in DOMAIN a, a[j] = a[k] PROVE j = k
    BY <1>1, <1>2, <1>3, <1>5, <1>6
  <1> QED BY <1>4, <1>6 DEF a

\* What a commit does not touch, and who has a task after it.
LEMMA CommitMoves ==
  ASSUME Tables, NEW w \in Worker, Commit(w)
  PROVE  /\ pc[w] = "commit" /\ Up /\ Free /\ Mu' = w
         /\ pc'[w] = "committing" /\ Holds(w) /\ ~(Holds(w))'
         /\ Others(w)
         /\ UNCHANGED <<Status, task, files, out, coordinator, misjudged, missed>>
         /\ \A v \in Worker : v # w => ((Holds(v))' <=> Holds(v))
         /\ \A v \in Worker : ((IsMap(v))' <=> IsMap(v)) /\ (Num(v))' = Num(v)
  <1>1. /\ pc[w] = "commit" /\ Up /\ Free /\ Mu' = w
        /\ UNCHANGED <<Status, task, files, out, coordinator, misjudged, missed>>
    BY DEF Commit, workerVars, localVars, fileVars, faultVars
  <1>2. Others(w) /\ pc'[w] = "committing" BY CommitTables
  <1>3. \A v \in Worker : v # w => ((Holds(v))' <=> Holds(v)) BY <1>2, OthersHold
  <1>4. \A v \in Worker : ((IsMap(v))' <=> IsMap(v)) /\ (Num(v))' = Num(v) BY <1>1 DEF IsMap, Num
  <1>5. Holds(w) /\ ~(Holds(w))' BY <1>1, <1>2 DEF Holds, Lost
  <1> QED BY <1>1, <1>2, <1>3, <1>4, <1>5

\* A map task is committed: its files are named to the reduce tasks.
LEMMA CommitMapKeeps ==
  ASSUME Tables, misjudged = 0, Core, NEW w \in Worker, Commit(w), IsMap(w)
  PROVE  Core'
  <1> DEFINE t == task[w]
             m == Num(w)
  <1>1. Filename' = [i \in ReduceTask |-> IF i \in Partitions(t) THEN Append(Filename[i], m)
                                                                ELSE Filename[i]]
    <2>1. MAP # REDUCE BY SMT DEF MAP, REDUCE
    <2> QED BY <2>1 DEF Commit, CommitMap, IsMap, Num
  <1>a. /\ pc[w] = "commit" /\ pc'[w] = "committing" /\ Holds(w) /\ ~(Holds(w))'
        /\ Others(w) /\ UNCHANGED <<Status, task, files, out>>
        /\ \A v \in Worker : v # w => ((Holds(v))' <=> Holds(v))
        /\ \A v \in Worker : ((IsMap(v))' <=> IsMap(v)) /\ (Num(v))' = Num(v)
    BY CommitMoves
  <1>b. /\ ReduceTasks' = ReduceTasks /\ MapTasks'[m] = COMPLETED
        /\ \A x \in MapTask : x # m => MapTasks'[x] = MapTasks[x]
    BY CommitCounts
  <1>2. m \in MapTask /\ MapTasks[m] = INPROC /\ t.NReduce = nReduce
    BY <1>a DEF Core, HeldInProc, Tables, Placed, Told
  <1>3. \A i \in ReduceTask : i \in Partitions(t) <=> Content(m, i) # {}
    BY <1>2, PartitionsRight DEF Num
  <1>4. MapTasks[m] # COMPLETED BY <1>2, StatesDiffer
  <1>f. FilesRight'
    <2>1. Wrote(w) BY DEF Tables, Written
    <2>2. \A i \in ReduceTask : i \in Partitions(t) => files[m][i] # Nil
      BY <1>a, <2>1 DEF Wrote
    <2>3. \A i \in ReduceTask : Content(m, i) # {} => files[m][i] # Nil BY <1>3, <2>2
    <2> HIDE DEF m, t
    <2> QED BY <2>3, <1>a, <1>b, <1>2 DEF Core, FilesRight
  <1> HIDE DEF m, t
  <1>5. NMapped # Nfile /\ \A r \in ReduceTask : ReduceTasks[r] = IDLE
    <2>1. NMapped # Nfile BY <1>2, <1>4, CountersBound
    <2> QED BY <2>1 DEF Core, PhasesApart
  <1>6. \A v \in Worker : Holds(v) => IsMap(v)
    <2> SUFFICES ASSUME NEW v \in Worker, Holds(v), ~IsMap(v) PROVE FALSE OBVIOUS
    <2>1. ReduceTasks[Num(v)] = INPROC BY DEF Core, HeldInProc
    <2>2. Num(v) \in ReduceTask BY DEF Tables, Placed, Told
    <2> QED BY <2>1, <2>2, <1>5, StatesDiffer
  <1>7. \A v \in Worker : v # w /\ Holds(v) => Num(v) # m
    BY <1>a, <1>6 DEF Core, HeldOnce, m
  <1>n. NamesRight'
    <2> SUFFICES ASSUME NEW r \in ReduceTask
                 PROVE  /\ \A j, k \in DOMAIN Filename'[r] : Filename'[r][j] = Filename'[r][k] => j = k
                        /\ Elems(Filename'[r])
                             = {x \in MapTask : MapTasks'[x] = COMPLETED /\ Content(x, r) # {}}
      BY DEF NamesRight
    <2>1. Filename[r] \in Seq(MapTask) BY DEF Tables, Types
    <2>2. /\ \A j, k \in DOMAIN Filename[r] : Filename[r][j] = Filename[r][k] => j = k
          /\ Elems(Filename[r]) = {x \in MapTask : MapTasks[x] = COMPLETED /\ Content(x, r) # {}}
      BY DEF Core, NamesRight
    <2>3. m \notin Elems(Filename[r]) BY <2>2, <1>4
    <2>4. CASE r \in Partitions(t)
      <3>1. Filename'[r] = Append(Filename[r], m) BY <2>4, <1>1
      <3>2. PICK s, n : s = Filename[r] /\ n = m OBVIOUS
      <3>3. /\ s \in Seq(MapTask) /\ n \in MapTask /\ n \notin Elems(s)
            /\ \A j, k \in DOMAIN s : s[j] = s[k] => j = k
        BY <2>1, <2>2, <2>3, <3>2, <1>2
      <3>4. /\ Elems(Append(s, n)) = Elems(s) \cup {n}
            /\ \A j, k \in DOMAIN Append(s, n) : Append(s, n)[j] = Append(s, n)[k] => j = k
        BY <3>3, AppendOnce, SMT
      <3>5. Elems(s) \cup {n} = {x \in MapTask : MapTasks'[x] = COMPLETED /\ Content(x, r) # {}}
        BY <2>2, <2>4, <3>2, <1>2, <1>3, <1>b
      <3>6. PICK a : a = Append(s, n) OBVIOUS
      <3>7. Filename'[r] = a BY <3>1, <3>2, <3>6
      <3> QED BY <3>4, <3>5, <3>6, <3>7
    <2>5. CASE r \notin Partitions(t)
      <3>1. Filename'[r] = Filename[r] BY <2>5, <1>1
      <3>2. Elems(Filename[r]) = {x \in MapTask : MapTasks'[x] = COMPLETED /\ Content(x, r) # {}}
        BY <2>2, <2>5, <1>3, <1>b
      <3> QED BY <3>1, <3>2, <2>2
    <2> QED BY <2>4, <2>5
  <1>p. PhasesApart' BY <1>b, <1>5 DEF PhasesApart
  <1>h. HeldInProc'
    <2> SUFFICES ASSUME NEW v \in Worker, (Holds(v))'
                 PROVE  (IsMap(v))' /\ MapTasks'[(Num(v))'] = INPROC /\ task'[v].NReduce = nReduce
      BY DEF HeldInProc
    <2>1. v # w /\ Holds(v) /\ IsMap(v) /\ (IsMap(v))' /\ (Num(v))' = Num(v) /\ Num(v) # m
      BY <1>6, <1>7, <1>a
    <2>2. Num(v) \in MapTask BY <2>1 DEF Tables, Placed, Told
    <2> QED BY <2>1, <2>2, <1>a, <1>b DEF Core, HeldInProc
  <1>o. HeldOnce' BY <1>a DEF Core, HeldOnce
  <1>c. CrashRight'
    <2>1. Status[w] # CRASH BY <1>a DEF Core, CrashRight
    <2> QED BY <2>1, <1>a DEF Core, CrashRight, Others
  <1>r. ReduceProgress'
    <2> SUFFICES ASSUME NEW v \in Worker
                 PROVE  (ReduceOf(v))'
      BY DEF ReduceProgress
    <2>1. pc'[v] \notin {"assigned", "reduce"} \/ (pc'[v] = "assigned" /\ (IsMap(v))')
      <3>1. CASE v = w BY <3>1, <1>a
      <3>2. CASE v # w
        <4>1. pc'[v] = pc[v] /\ ((IsMap(v))' <=> IsMap(v)) BY <3>2, <1>a DEF Others
        <4>2. pc[v] \in {"assigned", "reduce"} => IsMap(v) BY <1>6 DEF Holds
        <4>3. pc[v] = "reduce" => ~IsMap(v) BY DEF Tables, Placed, At
        <4> QED BY <4>1, <4>2, <4>3
      <3> QED BY <3>1, <3>2
    <2> QED BY <2>1 DEF ReduceOf
  <1>u. OutputRight'
    <2>1. \A v \in Worker : pc'[v] = "commit" => pc[v] = "commit" BY <1>a DEF Others
    <2> QED BY <2>1, <1>a, <1>b DEF Core, OutputRight
  <1> QED BY <1>p, <1>h, <1>o, <1>c, <1>f, <1>n, <1>r, <1>u DEF Core

\* A reduce task is committed.
LEMMA CommitReduceKeeps ==
  ASSUME Tables, misjudged = 0, Core, NEW w \in Worker, Commit(w), ~IsMap(w)
  PROVE  Core'
  <1> DEFINE r == Num(w)
  <1>a. /\ pc[w] = "commit" /\ pc'[w] = "committing" /\ Holds(w) /\ ~(Holds(w))'
        /\ Others(w) /\ UNCHANGED <<Status, task, files, out>>
        /\ \A v \in Worker : v # w => ((Holds(v))' <=> Holds(v))
        /\ \A v \in Worker : ((IsMap(v))' <=> IsMap(v)) /\ (Num(v))' = Num(v)
    BY CommitMoves
  <1>b. /\ MapTasks' = MapTasks /\ NMapped' = NMapped /\ ReduceTasks'[r] = COMPLETED
        /\ \A x \in ReduceTask : x # r => ReduceTasks'[x] = ReduceTasks[x]
    BY CommitCounts
  <1>1. Filename' = Filename
    <2>0. task[w] \in Task BY DEF Tables, Types
    <2>1. task[w].TaskType = REDUCE BY <2>0 DEF Task, IsMap
    <2> QED BY <2>1 DEF Commit, CommitReduce
  <1>2. r \in ReduceTask /\ ReduceTasks[r] = INPROC /\ out[r] = Sequential(r)
    BY <1>a DEF Core, HeldInProc, OutputRight, Tables, Placed, Told
  <1>3. ReduceTasks[r] # IDLE BY <1>2, StatesDiffer
  <1>4. \A v \in Worker : v # w /\ Holds(v) /\ ~IsMap(v) => Num(v) # r
    BY <1>a DEF Core, HeldOnce
  <1> HIDE DEF r
  <1>p. PhasesApart'
    <2>1. NMapped = Nfile BY <1>2, <1>3, MapsOver
    <2> QED BY <2>1, <1>b DEF PhasesApart
  <1>h. HeldInProc'
    <2> SUFFICES ASSUME NEW v \in Worker, (Holds(v))'
                 PROVE  /\ (IsMap(v))' => MapTasks'[(Num(v))'] = INPROC /\ task'[v].NReduce = nReduce
                        /\ ~(IsMap(v))' => ReduceTasks'[(Num(v))'] = INPROC
      BY DEF HeldInProc
    <2>1. v # w /\ Holds(v) /\ ((IsMap(v))' <=> IsMap(v)) /\ (Num(v))' = Num(v)
      BY <1>a
    <2>2. ~IsMap(v) => Num(v) \in ReduceTask BY DEF Tables, Placed, Told
    <2> QED BY <2>1, <2>2, <1>a, <1>b, <1>4 DEF Core, HeldInProc
  <1>o. HeldOnce' BY <1>a DEF Core, HeldOnce
  <1>c. CrashRight'
    <2>1. Status[w] # CRASH BY <1>a DEF Core, CrashRight
    <2> QED BY <2>1, <1>a DEF Core, CrashRight, Others
  <1>f. FilesRight' BY <1>a, <1>b DEF Core, FilesRight
  <1>n. NamesRight' BY <1>1, <1>b DEF Core, NamesRight
  <1>r. ReduceProgress'
    <2>1. (ReduceOf(w))' BY <1>a DEF ReduceOf
    <2> QED BY <1>1, <1>a, <2>1, OthersReduce
  <1>u. OutputRight'
    <2>1. \A x \in ReduceTask : ReduceTasks'[x] = COMPLETED => out'[x] = Sequential(x)
      BY <1>a, <1>b, <1>2 DEF Core, OutputRight
    <2>2. \A v \in Worker : pc'[v] = "commit" /\ ~(IsMap(v))'
                              => out'[(Num(v))'] = Sequential((Num(v))')
      <3>1. \A v \in Worker : pc'[v] = "commit" => pc[v] = "commit" BY <1>a DEF Others
      <3> QED BY <3>1, <1>a DEF Core, OutputRight
    <2> QED BY <2>1, <2>2 DEF OutputRight
  <1> QED BY <1>p, <1>h, <1>o, <1>c, <1>f, <1>n, <1>r, <1>u DEF Core

\* Heart takes the task of a worker that has died with it.
LEMMA HeartKeeps ==
  ASSUME Tables, Core, NEW w \in Worker, Heart(w), misjudged' = misjudged
  PROVE  Core'
  <1> DEFINE k == Num(w)
  <1>1. Lost(w) /\ \A v \in Worker : v # w => ((Holds(v))' <=> Holds(v)) BY HeartTables
  <1>2. /\ Status'[w] = CRASH /\ \A v \in Worker : v # w => Status'[v] = Status[v]
        /\ \A v \in Worker : pc'[v] = pc[v] \/ (pc[v] = "waiting" /\ pc'[v] = "woken")
        /\ UNCHANGED <<Filename, NMapped, task, todo, inter, files, out>>
    BY HeartMoves
  <1>3. pc[w] = "dead" /\ Status[w] = WORK /\ Holds(w) BY <1>1 DEF Lost, Holds
  <1>4. pc'[w] = "dead" BY <1>2, <1>3
  <1>5. WORK # CRASH BY SMT DEF WORK, CRASH
  <1>6. ~(Holds(w))' BY <1>2, <1>4, <1>5 DEF Holds, Lost
  <1>7. Last[w].TaskNum = k /\ (Last[w].TaskType = MAP <=> IsMap(w))
    BY <1>1 DEF Tables, Placed, At, IsMap
  <1>8. /\ IsMap(w) => /\ ReduceTasks' = ReduceTasks /\ MapTasks'[k] = IDLE
                       /\ \A m \in MapTask : m # k => MapTasks'[m] = MapTasks[m]
        /\ ~IsMap(w) => /\ MapTasks' = MapTasks /\ ReduceTasks'[k] = IDLE
                        /\ \A r \in ReduceTask : r # k => ReduceTasks'[r] = ReduceTasks[r]
    BY <1>7, HeartResets
  <1>9. /\ IsMap(w) => k \in MapTask /\ MapTasks[k] = INPROC
        /\ ~IsMap(w) => k \in ReduceTask /\ ReduceTasks[k] = INPROC
    BY <1>3 DEF Core, HeldInProc, Tables, Placed, Told
  <1>10. \A v \in Worker : v # w /\ Holds(v) /\ (IsMap(v) <=> IsMap(w)) => Num(v) # k
    BY <1>3 DEF Core, HeldOnce
  <1> HIDE DEF k
  <1>11. /\ \A m \in MapTask : MapTasks'[m] = COMPLETED <=> MapTasks[m] = COMPLETED
         /\ \A r \in ReduceTask : ReduceTasks'[r] = COMPLETED <=> ReduceTasks[r] = COMPLETED
         /\ \A r \in ReduceTask : ReduceTasks[r] = IDLE => ReduceTasks'[r] = IDLE
    <2>1. CASE IsMap(w) BY <2>1, <1>8, <1>9, StatesDiffer
    <2>2. CASE ~IsMap(w) BY <2>2, <1>8, <1>9, StatesDiffer
    <2> QED BY <2>1, <2>2
  <1>12. \A v \in Worker : ((IsMap(v))' <=> IsMap(v)) /\ (Num(v))' = Num(v) BY <1>2 DEF IsMap, Num
  <1>13. \A v \in Worker : \A l \in {"assigned", "reduce", "commit"} : pc'[v] = l => pc[v] = l
    BY <1>2
  <1>p. PhasesApart' BY <1>2, <1>11 DEF Core, PhasesApart
  <1>h. HeldInProc'
    <2> SUFFICES ASSUME NEW v \in Worker, (Holds(v))'
                 PROVE  /\ (IsMap(v))' => MapTasks'[(Num(v))'] = INPROC /\ task'[v].NReduce = nReduce
                        /\ ~(IsMap(v))' => ReduceTasks'[(Num(v))'] = INPROC
      BY DEF HeldInProc
    <2>1. v # w /\ Holds(v) /\ ((IsMap(v))' <=> IsMap(v)) /\ (Num(v))' = Num(v)
      BY <1>1, <1>6, <1>12
    <2>2. /\ IsMap(v) => MapTasks[Num(v)] = INPROC /\ task[v].NReduce = nReduce /\ Num(v) \in MapTask
          /\ ~IsMap(v) => ReduceTasks[Num(v)] = INPROC /\ Num(v) \in ReduceTask
      BY <2>1 DEF Core, HeldInProc, Tables, Placed, Told
    <2>3. CASE IsMap(w) BY <2>1, <2>2, <2>3, <1>2, <1>8, <1>10
    <2>4. CASE ~IsMap(w) BY <2>1, <2>2, <2>4, <1>2, <1>8, <1>10
    <2> QED BY <2>3, <2>4
  <1>o. HeldOnce'
    <2>1. \A v \in Worker : (Holds(v))' => Holds(v) BY <1>1, <1>6
    <2> QED BY <2>1, <1>12 DEF Core, HeldOnce
  <1>c. CrashRight' BY <1>2, <1>4 DEF Core, CrashRight
  <1>f. FilesRight' BY <1>2, <1>11 DEF Core, FilesRight
  <1>n. NamesRight' BY <1>2, <1>11 DEF Core, NamesRight
  <1>r. ReduceProgress'
    <2> SUFFICES ASSUME NEW v \in Worker PROVE (ReduceOf(v))' BY DEF ReduceProgress
    <2>1. ReduceOf(v) BY DEF Core, ReduceProgress
    <2>2. (pc'[v] = "assigned" => pc[v] = "assigned") /\ (pc'[v] = "reduce" => pc[v] = "reduce")
      BY <1>13
    <2> QED BY <2>1, <2>2, <1>2, <1>12 DEF ReduceOf
  <1>u. OutputRight' BY <1>2, <1>11, <1>12, <1>13 DEF Core, OutputRight
  <1> QED BY <1>p, <1>h, <1>o, <1>c, <1>f, <1>n, <1>r, <1>u DEF Core

-----------------------------------------------------------------------------
(* Every step                                                              *)

\* A job starts with no task handed out and no file written.
LEMMA InitCore ==
  ASSUME Init
  PROVE  Core
  <1>1. /\ \A m \in MapTask : MapTasks[m] = IDLE
        /\ \A r \in ReduceTask : ReduceTasks[r] = IDLE
        /\ \A m \in MapTask, i \in ReduceTask : files[m][i] = Nil
        /\ \A w \in Worker : pc[w] = "off" /\ Status[w] = FREE
        /\ \A r \in ReduceTask : Filename[r] = <<>>
    BY DEF Init
  <1>2. DOMAIN <<>> = {} /\ Elems(<<>>) = {} /\ FREE # CRASH BY SMT DEF Elems, FREE, CRASH
  <1>3. \A w \in Worker : ~Holds(w) BY <1>1 DEF Holds, Lost
  <1>4. PhasesApart BY <1>1 DEF PhasesApart
  <1>5. HeldInProc /\ HeldOnce BY <1>3 DEF HeldInProc, HeldOnce
  <1>6. CrashRight BY <1>1, <1>2 DEF CrashRight
  <1>7. FilesRight BY <1>1, StatesDiffer DEF FilesRight
  <1>8. NamesRight
    <2>1. \A r \in ReduceTask : DOMAIN Filename[r] = {} /\ Elems(Filename[r]) = {} BY <1>1, <1>2
    <2>2. \A m \in MapTask : MapTasks[m] # COMPLETED BY <1>1, StatesDiffer
    <2> QED BY <2>1, <2>2 DEF NamesRight
  <1>9. ReduceProgress BY <1>1 DEF ReduceProgress, ReduceOf
  <1>10. OutputRight BY <1>1, StatesDiffer DEF OutputRight
  <1> QED BY <1>4, <1>5, <1>6, <1>7, <1>8, <1>9, <1>10 DEF Core

\* No step of the coordinator, of a worker or of a crash breaks it, and only Heart can misjudge.
LEMMA StepCore ==
  ASSUME Tables, Core, misjudged = 0, [Next]_vars, misjudged' = 0
  PROVE  Core'
  <1>1. ASSUME NEW w \in Worker, Commit(w) PROVE Core'
    BY <1>1, CommitMapKeeps, CommitReduceKeeps
  <1>2. ASSUME NEW w \in Worker,
               \/ Start(w) \/ TaskNothing(w) \/ CondWait(w) \/ CondWoken(w) \/ CommitFree(w)
               \/ BeatStep(w) \/ CallFails(w) \/ ConcurrentMapAccess(w) \/ Crash(w)
        PROVE  Core'
    BY <1>2, QuietSteps, QuietKeeps
  <1>3. ASSUME NEW w \in Worker, WorkStep(w) PROVE Core'
    BY <1>3, WriteKeeps, ReadKeeps, OutputKeeps, OverKeeps DEF WorkStep
  <1>4. ASSUME NEW w \in Worker, Heart(w) PROVE Core' BY <1>4, HeartKeeps
  <1>5. CASE Exit \/ UNCHANGED vars BY <1>5, ExitQuiet, QuietKeeps
  <1> QED BY <1>1, <1>2, <1>3, <1>4, <1>5, AssignKeeps, RecordKeeps DEF Next, TaskStep, CommitStep

\* Heart does not become right again.
LEMMA Misjudges ==
  ASSUME Tables, [Next]_vars, misjudged' = 0
  PROVE  misjudged = 0
  <1>1. ASSUME NEW w \in Worker, Heart(w) PROVE misjudged = 0
    <2>1. misjudged' = misjudged \/ misjudged' = misjudged + 1 BY <1>1 DEF Heart
    <2>2. misjudged \in Nat BY DEF Tables, Types
    <2>3. misjudged + 1 # 0 BY <2>2, SMT
    <2> QED BY <2>1, <2>3
  <1>2. ASSUME NEW w \in Worker,
               \/ Start(w) \/ TaskNothing(w) \/ CondWait(w) \/ CondWoken(w) \/ CommitFree(w)
               \/ BeatStep(w) \/ CallFails(w) \/ ConcurrentMapAccess(w) \/ Crash(w)
        PROVE  misjudged = 0
    BY <1>2, QuietSteps DEF QuietStep
  <1>3. ASSUME NEW w \in Worker, TaskAssign(w) \/ TaskRecord(w) \/ Commit(w) PROVE misjudged = 0
    BY <1>3 DEF TaskAssign, TaskRecord, Commit, faultVars
  <1>4. ASSUME NEW w \in Worker, WorkStep(w) PROVE misjudged = 0
    BY <1>4 DEF WorkStep, WriteIntermediate, ReadIntermediate, WriteOutput, MapOver, faultVars
  <1>5. CASE Exit \/ UNCHANGED vars BY <1>5, ExitQuiet DEF QuietStep
  <1> QED BY <1>1, <1>2, <1>3, <1>4, <1>5 DEF Next, TaskStep, CommitStep

-----------------------------------------------------------------------------
(* The end of the job                                                      *)

\* When the counters say so, all tasks are completed and nobody has one.
LEMMA FinishedMeans ==
  ASSUME Tables, misjudged = 0, Core, Finished
  PROVE  /\ \A m \in MapTask : MapTasks[m] = COMPLETED
         /\ \A r \in ReduceTask : ReduceTasks[r] = COMPLETED
         /\ \A w \in Worker : ~Holds(w)
  <1>1. /\ \A m \in MapTask : MapTasks[m] = COMPLETED
        /\ \A r \in ReduceTask : ReduceTasks[r] = COMPLETED
    BY CountersBound DEF Finished
  <1>2. ASSUME NEW w \in Worker, Holds(w) PROVE FALSE
    <2>1. /\ IsMap(w) => MapTasks[Num(w)] = INPROC /\ Num(w) \in MapTask
          /\ ~IsMap(w) => ReduceTasks[Num(w)] = INPROC /\ Num(w) \in ReduceTask
      BY <1>2 DEF Core, HeldInProc, Tables, Placed, Told
    <2> QED BY <1>1, <2>1, StatesDiffer
  <1> QED BY <1>1, <1>2

\* From then on nothing is committed and nothing is written.
LEMMA FinishedStays ==
  ASSUME Tables, misjudged = 0, Core, Finished, [Next]_vars
  PROVE  Finished' /\ out' = out
  <1>0. \A w \in Worker : ~Holds(w) BY FinishedMeans
  <1>1. \A w \in Worker : pc[w] \notin {"commit", "reduce", "map"} BY <1>0 DEF Holds
  <1> SUFFICES UNCHANGED <<NMapped, NReduce, out>> BY DEF Finished
  <1>2. ASSUME NEW w \in Worker, TaskAssign(w) \/ TaskRecord(w)
        PROVE  UNCHANGED <<NMapped, NReduce, out>>
    BY <1>2 DEF TaskAssign, TaskRecord, taskVars, fileVars
  <1>3. ASSUME NEW w \in Worker, WorkStep(w) \/ Commit(w) PROVE FALSE
    BY <1>1, <1>3 DEF WorkStep, WriteIntermediate, ReadIntermediate, WriteOutput, MapOver, Commit
  <1>4. ASSUME NEW w \in Worker,
               \/ Start(w) \/ TaskNothing(w) \/ CondWait(w) \/ CondWoken(w) \/ CommitFree(w)
               \/ BeatStep(w) \/ CallFails(w) \/ ConcurrentMapAccess(w) \/ Crash(w)
        PROVE  UNCHANGED <<NMapped, NReduce, out>>
    BY <1>4, QuietSteps DEF QuietStep
  <1>5. ASSUME NEW w \in Worker, Heart(w) PROVE UNCHANGED <<NMapped, NReduce, out>>
    BY <1>5, HeartMoves
  <1>6. CASE Exit \/ UNCHANGED vars BY <1>6, ExitQuiet DEF QuietStep
  <1> QED BY <1>2, <1>3, <1>4, <1>5, <1>6 DEF Next, TaskStep, CommitStep

\* Only TaskNothing makes a worker exit while the coordinator is up.
LEMMA ExitsRight ==
  ASSUME Tables, NEW w \in Worker, ~TaskNothing(w),
         \/ Start(w) \/ TaskStep(w) \/ WorkStep(w) \/ CommitStep(w)
         \/ BeatStep(w) \/ Heart(w) \/ Crash(w) \/ CallFails(w)
  PROVE  /\ coordinator' = coordinator
         /\ Up => \A v \in Worker : pc'[v] = "exit" => pc[v] = "exit"
  <1>1. pc \in [Worker -> Label] BY DEF Tables, Types
  <1>2. CASE CallFails(w) BY <1>2 DEF CallFails
  <1>3. CASE Start(w) BY <1>1, <1>3 DEF Start, Goto
  <1>4. CASE TaskRecord(w)
    <2>1. Others(w) /\ pc'[w] \in {"map", "reduce", "dead"} BY <1>4, RecordTables
    <2>2. coordinator' = coordinator BY <1>4 DEF TaskRecord
    <2> QED BY <2>1, <2>2 DEF Others
  <1>5. CASE TaskAssign(w) \/ CondWait(w) \/ CondWoken(w)
    BY <1>1, <1>5 DEF TaskAssign, CondWait, CondWoken, Goto, Back
  <1>6. CASE WorkStep(w)
    BY <1>1, <1>6 DEF WorkStep, WriteIntermediate, ReadIntermediate, WriteOutput, MapOver, Goto
  <1>7. CASE CommitStep(w) BY <1>1, <1>7 DEF CommitStep, Commit, CommitFree, Goto, Broadcast, Back
  <1>8. CASE BeatStep(w) \/ Crash(w)
    BY <1>1, <1>8 DEF BeatStep, HeartbeatRegister, HeartbeatRecord, Crash, Goto
  <1>9. CASE Heart(w) BY <1>9, HeartMoves
  <1> QED BY <1>2, <1>3, <1>4, <1>5, <1>6, <1>7, <1>8, <1>9 DEF TaskStep

\* The coordinator exits, and tells a worker to, only then (Done and Task, coordinator.go).
LEMMA StepEnd ==
  ASSUME Tables, misjudged = 0, Core, EndRight, [Next]_vars
  PROVE  EndRight'
  <1> SUFFICES ASSUME ~Finished, \/ coordinator' = "exited"
                                 \/ Up' /\ \E w \in Worker : pc'[w] = "exit"
               PROVE  FALSE
    BY FinishedStays DEF EndRight
  <1>0. coordinator # "exited" /\ (Up => \A w \in Worker : pc[w] # "exit") BY DEF EndRight
  <1>1. pc \in [Worker -> Label] BY DEF Tables, Types
  <1>2. ASSUME NEW w \in Worker, ~TaskNothing(w),
               \/ Start(w) \/ TaskStep(w) \/ WorkStep(w) \/ CommitStep(w)
               \/ BeatStep(w) \/ Heart(w) \/ Crash(w) \/ CallFails(w)
        PROVE  FALSE
    <2>1. /\ coordinator' = coordinator
          /\ Up => \A v \in Worker : pc'[v] = "exit" => pc[v] = "exit"
      BY <1>2, ExitsRight
    <2> QED BY <1>0, <2>1 DEF Up
  <1>3. ASSUME NEW w \in Worker, TaskNothing(w) PROVE FALSE
    <2>1. coordinator' = coordinator /\ Goto(w, "sleepy") BY <1>3 DEF TaskNothing
    <2> QED BY <1>0, <1>1, <2>1 DEF Goto, Up
  <1>4. ASSUME NEW w \in Worker, ConcurrentMapAccess(w) PROVE FALSE
    BY <1>4 DEF ConcurrentMapAccess, Up
  <1>5. CASE Exit BY <1>5 DEF Exit
  <1>6. CASE UNCHANGED vars BY <1>0, <1>6 DEF vars, Up
  <1> QED BY <1>2, <1>3, <1>4, <1>5, <1>6 DEF Next

-----------------------------------------------------------------------------
(* Who holds c.Mu, and who waits on c.Cond                                 *)

\* Every step keeps LockRight.
LEMMA StepLock ==
  ASSUME Tables, LockRight, [Next]_vars
  PROVE  LockRight'
  <1>0. Nil \notin Worker BY MapReduceAssumption
  <1>1. pc \in [Worker -> Label] BY DEF Tables, Types
  <1>2. ASSUME NEW w \in Worker, TaskStep(w) PROVE LockRight'
    <2>1. CASE TaskAssign(w) BY <1>0, <1>1, <2>1 DEF TaskAssign, LockRight, Free, Up, Goto
    <2>2. CASE TaskNothing(w)
      <3>1. /\ Mu = Nil /\ coordinator' = coordinator /\ Up
            /\ \/ Mu' = Nil /\ Goto(w, Back(w, "exit"))
               \/ Mu' = w /\ Goto(w, "sleepy")
        BY <2>2 DEF TaskNothing, Free
      <3>2. /\ \A v \in Worker : v # w => pc'[v] = pc[v]
            /\ \/ Mu' = Nil /\ pc'[w] \in {"exit", "dead"}
               \/ Mu' = w /\ pc'[w] = "sleepy"
        BY <1>1, <3>1 DEF Goto, Back
      <3> QED BY <1>0, <3>1, <3>2 DEF LockRight, Free, Up
    <2>3. CASE CondWait(w) BY <1>0, <1>1, <2>3 DEF CondWait, LockRight, Free, Up, Goto
    <2>4. CASE CondWoken(w)
      <3>1. /\ \A v \in Worker : v # w => pc'[v] = pc[v]
            /\ pc[w] = "woken" /\ pc'[w] \in {"ask", "dead"} /\ UNCHANGED <<Mu, coordinator>>
        BY <1>1, <2>4 DEF CondWoken, Goto, Back
      <3> QED BY <3>1 DEF LockRight, Free, Up
    <2>5. CASE TaskRecord(w)
      <3>1. Others(w) /\ pc'[w] \in {"map", "reduce", "dead"} BY <2>5, RecordTables
      <3>2. pc[w] = "assigned" /\ UNCHANGED <<Mu, coordinator>> BY <2>5 DEF TaskRecord
      <3> QED BY <3>1, <3>2 DEF LockRight, Free, Up, Others
    <2> QED BY <1>2, <2>1, <2>2, <2>3, <2>4, <2>5 DEF TaskStep
  <1>3. ASSUME NEW w \in Worker, WorkStep(w) PROVE LockRight'
    BY <1>0, <1>1, <1>3 DEF WorkStep, WriteIntermediate, ReadIntermediate, WriteOutput, MapOver,
                            LockRight, Free, Up, Goto
  <1>4. ASSUME NEW w \in Worker, CommitStep(w) PROVE LockRight'
    <2>1. CASE Commit(w)
      <3>1. /\ pc'[w] = "committing" /\ Others(w) /\ Mu = Nil /\ Mu' = w /\ Up
            /\ coordinator' = coordinator
        BY <2>1, CommitMoves DEF Free
      <3> QED BY <1>0, <3>1 DEF LockRight, Free, Up, Others
    <2>2. CASE CommitFree(w)
      <3>1. /\ Mu = w /\ Mu' = Nil /\ coordinator' = coordinator /\ pc'[w] \in {"ask", "dead"}
            /\ \A v \in Worker : v # w => pc'[v] = pc[v] \/ pc'[v] = "woken"
        BY <1>1, <2>2 DEF CommitFree, LockRight, Goto, Broadcast, Back
      <3> QED BY <1>0, <3>1 DEF LockRight, Free, Up
    <2> QED BY <1>4, <2>1, <2>2 DEF CommitStep
  <1>5. ASSUME NEW w \in Worker, Heart(w) PROVE LockRight'
    <2>1. /\ UNCHANGED <<Mu, coordinator>>
          /\ \A v \in Worker : pc'[v] = pc[v] \/ (pc[v] = "waiting" /\ pc'[v] = "woken")
      BY <1>5, HeartMoves
    <2> QED BY <2>1 DEF LockRight, Free, Up
  <1>6. ASSUME NEW w \in Worker, Crash(w) PROVE LockRight'
    <2>1. /\ UNCHANGED <<Mu, coordinator>>
          /\ \A v \in Worker : \/ pc'[v] = pc[v]
                               \/ pc[v] \in {"ask", "map", "reduce", "commit"} /\ pc'[v] = "dead"
      BY <1>1, <1>6 DEF Crash, Goto
    <2> QED BY <2>1 DEF LockRight, Free, Up
  <1>7. ASSUME NEW w \in Worker, Start(w) \/ BeatStep(w) \/ CallFails(w) \/ ConcurrentMapAccess(w)
        PROVE  LockRight'
    BY <1>0, <1>1, <1>7 DEF Start, BeatStep, HeartbeatRegister, HeartbeatRecord, CallFails,
                ConcurrentMapAccess, LockRight, Free, Up, Goto
  <1>8. CASE Exit \/ UNCHANGED vars BY <1>8 DEF Exit, vars, LockRight, Free, Up
  <1> QED BY <1>2, <1>3, <1>4, <1>5, <1>6, <1>7, <1>8 DEF Next

\* The tables say what there is to hand out, and which commit ends a phase.
LEMMA SameTables ==
  ASSUME UNCHANGED <<MapTasks, ReduceTasks, NMapped, NReduce, task>>
  PROVE  /\ Idle' = Idle /\ (Finished' <=> Finished)
         /\ \A v \in Worker : Ends(v)' <=> Ends(v)
  <1>1. Idle' = Idle /\ (Finished' <=> Finished) BY SMT DEF Idle, MapPhase, FirstIdle, Finished
  <1>2. \A v \in Worker : Ends(v)' <=> Ends(v) BY DEF Ends, IsMap
  <1> QED BY <1>1, <1>2

\* Steps that leave the task tables alone, and by which no handler goes to sleep or ends a commit,
\* wake nobody and need not.
LEMMA SleepQuiet ==
  ASSUME SleepRight, missed' = missed, UNCHANGED <<MapTasks, ReduceTasks, NMapped, NReduce, task>>,
         \A v \in Worker : \/ pc'[v] = pc[v]
                           \/ pc[v] # "committing" /\ pc'[v] \notin {"sleepy", "waiting"}
  PROVE  SleepRight'
  BY SameTables DEF SleepRight

\* A commit that is not the last of its phase makes no task idle.
LEMMA CommitIdle ==
  ASSUME Tables, misjudged = 0, Core, NEW w \in Worker, Commit(w), ~Ends(w)', Idle = Nil
  PROVE  Idle' = Nil /\ ~Finished'
  <1>0. Nfile \in Nat /\ nReduce \in Nat BY MapReduceAssumption
  <1>1. /\ IsMap(w) => Num(w) \in MapTask /\ MapTasks[Num(w)] = INPROC
        /\ ~IsMap(w) => Num(w) \in ReduceTask /\ ReduceTasks[Num(w)] = INPROC
    BY CommitMoves DEF Core, HeldInProc, Tables, Placed, Told
  <1>2. task' = task BY CommitMoves
  <1>3. /\ MapTasks \in [MapTask -> States] /\ ReduceTasks \in [ReduceTask -> States]
        /\ MapTasks' \in [MapTask -> States] /\ ReduceTasks' \in [ReduceTask -> States]
    BY CommitCounts DEF Tables, Types
  <1>4. CASE IsMap(w)
    <2>1. MapTasks[Num(w)] # COMPLETED /\ Num(w) \in MapTask BY <1>1, <1>4, StatesDiffer
    <2>2. NMapped # Nfile BY <2>1, CountersBound
    <2>3. NMapped' # Nfile BY <1>2, <1>4 DEF Ends, IsMap
    <2>4. \A m \in MapTask : MapTasks[m] # IDLE
      BY <1>0, <1>3, <2>2, FirstIdleRight DEF Idle, MapPhase, MapTask
    <2>5. \A m \in MapTask : MapTasks'[m] # IDLE BY <1>4, <2>4, CommitCounts, StatesDiffer
    <2>6. FirstIdle(MapTasks') = Nil BY <1>0, <1>3, <2>5, FirstIdleRight DEF MapTask
    <2> QED BY <2>3, <2>6 DEF Idle, MapPhase, Finished
  <1>5. CASE ~IsMap(w)
    <2>1. NMapped = Nfile BY <1>1, <1>5, StatesDiffer DEF Core, PhasesApart
    <2>2. NReduce' # 0 BY <1>2, <1>5 DEF Ends, IsMap
    <2>3. NMapped' = NMapped BY <1>5, CommitCounts
    <2>4. \A r \in ReduceTask : ReduceTasks[r] # IDLE
      BY <1>0, <1>3, <2>1, FirstIdleRight DEF Idle, MapPhase, ReduceTask
    <2>5. \A r \in ReduceTask : ReduceTasks'[r] # IDLE BY <1>5, <2>4, CommitCounts, StatesDiffer
    <2>6. FirstIdle(ReduceTasks') = Nil BY <1>0, <1>3, <2>5, FirstIdleRight DEF ReduceTask
    <2> QED BY <2>1, <2>2, <2>3, <2>6 DEF Idle, MapPhase, Finished
  <1> QED BY <1>4, <1>5

\* Every step keeps SleepRight.
LEMMA StepSleep ==
  ASSUME Tables, misjudged = 0, Core, LockRight, SleepRight, [Next]_vars
  PROVE  SleepRight'
  <1>0. Nil \notin Worker BY MapReduceAssumption
  <1>1. pc \in [Worker -> Label] BY DEF Tables, Types
  <1>2. ASSUME NEW w \in Worker, TaskAssign(w) PROVE SleepRight'
    <2>1. \A v \in Worker : pc[v] \notin {"sleepy", "committing"}
      BY <1>0, <1>2 DEF TaskAssign, Free, LockRight
    <2>2. ~missed => \A v \in Worker : pc[v] # "waiting" BY <1>2, <2>1 DEF TaskAssign, SleepRight
    <2>3. missed' = missed /\ \A v \in Worker : pc'[v] = pc[v] \/ pc'[v] = "assigned"
      BY <1>1, <1>2 DEF TaskAssign, Goto, faultVars
    <2> QED BY <2>1, <2>2, <2>3 DEF SleepRight
  <1>3. ASSUME NEW w \in Worker, TaskNothing(w) PROVE SleepRight'
    <2>1. UNCHANGED <<MapTasks, ReduceTasks, NMapped, NReduce, task, missed>> /\ pc[w] = "ask"
      BY <1>3 DEF TaskNothing, taskVars, localVars, faultVars
    <2>2. CASE Finished
      <3>1. Goto(w, Back(w, "exit")) BY <1>3, <2>2 DEF TaskNothing
      <3>2. \A v \in Worker : pc'[v] = pc[v] \/ (pc[v] = "ask" /\ pc'[v] \in {"exit", "dead"})
        BY <1>1, <2>1, <3>1 DEF Goto, Back
      <3> QED BY <2>1, <3>2, SleepQuiet
    <2>3. CASE ~Finished
      <3>1. Goto(w, "sleepy") /\ Idle = Nil BY <1>3, <2>3 DEF TaskNothing
      <3>2. pc'[w] = "sleepy" /\ \A v \in Worker : v # w => pc'[v] = pc[v] BY <1>1, <3>1 DEF Goto
      <3> QED BY <2>1, <2>3, <3>1, <3>2, SameTables DEF SleepRight
    <2> QED BY <2>2, <2>3
  <1>4. ASSUME NEW w \in Worker, CondWait(w) PROVE SleepRight'
    <2>1. UNCHANGED <<MapTasks, ReduceTasks, NMapped, NReduce, task, missed>> /\ pc[w] = "sleepy"
      BY <1>4 DEF CondWait, taskVars, localVars, faultVars
    <2>2. pc'[w] = "waiting" /\ \A v \in Worker : v # w => pc'[v] = pc[v]
      BY <1>1, <1>4 DEF CondWait, Goto
    <2> QED BY <2>1, <2>2, SameTables DEF SleepRight
  <1>5. ASSUME NEW w \in Worker, CondWoken(w) \/ Start(w) \/ Crash(w) PROVE SleepRight'
    <2>1. UNCHANGED <<MapTasks, ReduceTasks, NMapped, NReduce, task, missed>>
      BY <1>5 DEF CondWoken, Start, Crash, taskVars, localVars, faultVars
    <2>2. \A v \in Worker : \/ pc'[v] = pc[v]
                            \/ pc[v] # "committing" /\ pc'[v] \in {"ask", "dead"}
      BY <1>1, <1>5 DEF CondWoken, Start, Crash, Goto, Back
    <2> QED BY <2>1, <2>2, SleepQuiet
  <1>6. ASSUME NEW w \in Worker, TaskRecord(w) PROVE SleepRight'
    <2>1. UNCHANGED <<MapTasks, ReduceTasks, NMapped, NReduce, task, missed>> /\ pc[w] = "assigned"
      BY <1>6 DEF TaskRecord, taskVars
    <2>2. Others(w) /\ pc'[w] \in {"map", "reduce", "dead"} BY <1>6, RecordTables
    <2> QED BY <2>1, <2>2, SleepQuiet DEF Others
  <1>7. ASSUME NEW w \in Worker, WorkStep(w) PROVE SleepRight'
    <2>1. /\ UNCHANGED <<MapTasks, ReduceTasks, NMapped, NReduce, task, missed>>
          /\ Others(w) /\ pc[w] \in {"map", "reduce"} /\ pc'[w] \in {pc[w], "commit"}
      BY <1>7, AtWork
    <2> QED BY <2>1, SleepQuiet DEF Others
  <1>8. ASSUME NEW w \in Worker, Commit(w) PROVE SleepRight'
    <2>1. /\ Free /\ pc'[w] = "committing" /\ missed' = missed
          /\ \A v \in Worker : v # w => pc'[v] = pc[v]
      BY <1>8, CommitMoves DEF Others
    <2>2. \A v \in Worker : pc[v] \notin {"sleepy", "committing"} BY <1>0, <2>1 DEF Free, LockRight
    <2>3. CASE Ends(w)' BY <2>1, <2>2, <2>3 DEF SleepRight
    <2>4. CASE ~Ends(w)'
      <3>1. Idle = Nil => Idle' = Nil /\ ~Finished' BY <1>8, <2>4, CommitIdle
      <3> QED BY <2>1, <2>2, <3>1 DEF SleepRight
    <2> QED BY <2>3, <2>4
  <1>9. ASSUME NEW w \in Worker, CommitFree(w) PROVE SleepRight'
    <2>1. Mu = w /\ \A v \in Worker : v # w => pc[v] \notin {"sleepy", "committing"}
      BY <1>9 DEF CommitFree, LockRight
    <2>2. UNCHANGED <<MapTasks, ReduceTasks, NMapped, NReduce, task, missed>> /\ pc[w] = "committing"
      BY <1>9 DEF CommitFree, taskVars, localVars, faultVars
    <2>3. CASE Ends(w)
      <3>1. Broadcast(w, Back(w, "ask")) BY <1>9, <2>3 DEF CommitFree, Ends, IsMap
      <3>2. \A v \in Worker : /\ pc'[v] # "waiting"
                              /\ pc'[v] = pc[v] \/ pc'[v] \in {"ask", "dead", "woken"}
        BY <1>1, <3>1 DEF Broadcast, Back
      <3> QED BY <2>1, <2>2, <3>2 DEF SleepRight
    <2>4. CASE ~Ends(w)
      <3>1. Goto(w, Back(w, "ask")) BY <1>9, <2>4 DEF CommitFree, Ends, IsMap
      <3>2. pc'[w] \in {"ask", "dead"} /\ \A v \in Worker : v # w => pc'[v] = pc[v]
        BY <1>1, <3>1 DEF Goto, Back
      <3> QED BY <2>1, <2>2, <2>4, <3>2, SameTables DEF SleepRight
    <2> QED BY <2>3, <2>4
  <1>10. ASSUME NEW w \in Worker, Heart(w) PROVE SleepRight'
    <2>1. ~missed' => \A v \in Worker : pc[v] # "sleepy" BY <1>10 DEF Heart, GiveUp
    <2>2. /\ \A v \in Worker : pc'[v] = pc[v] \/ (pc[v] = "waiting" /\ pc'[v] = "woken")
          /\ \A v \in Worker : pc'[v] # "waiting"
      BY <1>10, HeartMoves
    <2> QED BY <2>1, <2>2 DEF SleepRight
  <1>11. ASSUME NEW w \in Worker, CallFails(w) PROVE SleepRight'
    <2>1. pc[w] # "committing" BY <1>0, <1>11 DEF CallFails, LockRight, Free
    <2>2. UNCHANGED <<MapTasks, ReduceTasks, NMapped, NReduce, task, missed>> /\ Goto(w, "exit")
      BY <1>11 DEF CallFails, taskVars, localVars, faultVars
    <2>3. pc'[w] = "exit" /\ \A v \in Worker : v # w => pc'[v] = pc[v] BY <1>1, <2>2 DEF Goto
    <2> QED BY <2>1, <2>2, <2>3, SleepQuiet
  <1>12. ASSUME NEW w \in Worker, BeatStep(w) \/ ConcurrentMapAccess(w) PROVE SleepRight'
    <2>1. UNCHANGED <<MapTasks, ReduceTasks, NMapped, NReduce, task, missed, pc>>
      BY <1>12 DEF BeatStep, HeartbeatRegister, HeartbeatRecord, ConcurrentMapAccess, taskVars,
                   localVars, faultVars
    <2> QED BY <2>1, SleepQuiet
  <1>13. CASE Exit \/ UNCHANGED vars
    <2>1. UNCHANGED <<MapTasks, ReduceTasks, NMapped, NReduce, task, missed, pc>>
      BY <1>13 DEF Exit, vars, taskVars, localVars, faultVars
    <2> QED BY <2>1, SleepQuiet
  <1> QED BY <1>2, <1>3, <1>4, <1>5, <1>6, <1>7, <1>8, <1>9, <1>10, <1>11, <1>12, <1>13
          DEF Next, TaskStep, CommitStep

-----------------------------------------------------------------------------
(* The theorems                                                            *)

\* The inductive invariant of a job.
JobInv == /\ Tables /\ LockRight
          /\ misjudged = 0 => Core /\ EndRight /\ SleepRight

\* A job starts with everything idle and nobody at work.
LEMMA InitJob == Init => JobInv
  <1> SUFFICES ASSUME Init PROVE JobInv OBVIOUS
  <1>1. Tables /\ Core BY InitTables, InitCore
  <1>2. \A w \in Worker : pc[w] = "off" BY DEF Init
  <1>3. coordinator = "up" /\ Mu = Nil /\ Nil \notin Worker BY MapReduceAssumption DEF Init
  <1>4. EndRight BY <1>2, <1>3 DEF EndRight
  <1>5. LockRight BY <1>2, <1>3 DEF LockRight, Free, Up
  <1>6. SleepRight BY <1>2 DEF SleepRight
  <1> QED BY <1>1, <1>4, <1>5, <1>6 DEF JobInv

\* Every step of a worker, of a handler, of Heart and of main keeps it.
LEMMA StepJob == ASSUME JobInv, [Next]_vars PROVE JobInv'
  <1>1. Tables /\ LockRight BY DEF JobInv
  <1>2. Tables' /\ LockRight' BY <1>1, StepTables, StepLock
  <1>3. ASSUME misjudged' = 0 PROVE Core' /\ EndRight' /\ SleepRight'
    <2>1. misjudged = 0 BY <1>1, <1>3, Misjudges
    <2>2. Core /\ EndRight /\ SleepRight BY <2>1 DEF JobInv
    <2>3. Core' BY <1>1, <1>3, <2>1, <2>2, StepCore
    <2>4. EndRight' BY <1>1, <2>1, <2>2, StepEnd
    <2>5. SleepRight' BY <1>1, <2>1, <2>2, StepSleep
    <2> QED BY <2>3, <2>4, <2>5
  <1> QED BY <1>2, <1>3 DEF JobInv

\* What the invariant says of a state that a reader of the code asks about.
LEMMA JobInvMeans ==
  ASSUME JobInv
  PROVE  OutputCorrect /\ NobodySleepsOverWork /\ (misjudged = 0 => DoneWhenCompleted)
  <1>1. misjudged = 0 => DoneWhenCompleted BY CountersBound DEF JobInv, DoneWhenCompleted, Finished
  <1>2. OutputCorrect
    <2> SUFFICES ASSUME misjudged = 0, coordinator = "exited", NEW r \in ReduceTask
                 PROVE  out[r] = Sequential(r)
      BY DEF OutputCorrect
    <2>1. Core /\ EndRight BY DEF JobInv
    <2>2. ReduceTasks[r] = COMPLETED BY <1>1, <2>1 DEF DoneWhenCompleted, EndRight
    <2> QED BY <2>1, <2>2 DEF Core, OutputRight
  <1>3. NobodySleepsOverWork
    <2> SUFFICES ASSUME Free, misjudged = 0, ~missed, NEW w \in Worker, pc[w] = "waiting"
                 PROVE  Idle = Nil /\ ~Finished
      BY DEF NobodySleepsOverWork
    <2>1. \A v \in Worker : pc[v] # "committing"
      BY MapReduceAssumption DEF JobInv, LockRight, Free
    <2> QED BY <2>1 DEF JobInv, SleepRight
  <1> QED BY <1>1, <1>2, <1>3

\* The invariant holds of every state of every job, whoever dies, wherever and whatever Heart does
\* about it (coordinator.go, worker.go).
THEOREM JobInvariant == Spec => []JobInv
  <1>1. JobInv /\ [Next]_vars => JobInv' BY StepJob
  <1> QED BY <1>1, InitJob, PTL DEF Spec

\* The output of a job that has ended is that of the sequential program (main/mrsequential.go),
\* wherever workers die and whatever tasks are done again, unless Heart has taken a task from a
\* worker that had not died with it.
THEOREM JobCorrect == Spec => []OutputCorrect
  <1>1. JobInv => OutputCorrect BY JobInvMeans
  <1> QED BY <1>1, JobInvariant, PTL

\* As long as Heart has misjudged nobody, Done (coordinator.go:239) answers true only when all tasks
\* are completed.
THEOREM DoneRight == Spec => [](misjudged = 0 => DoneWhenCompleted)
  <1>1. JobInv => (misjudged = 0 => DoneWhenCompleted) BY JobInvMeans
  <1> QED BY <1>1, JobInvariant, PTL

\* No handler is left in Cond.Wait (coordinator.go:118) when there is a task for it or the job is
\* done, unless Heart has called Broadcast between its check and its Wait, or has misjudged a
\* worker: the Broadcasts of CommitOK and of Heart are enough, also when workers die.
THEOREM NoLostWakeup == Spec => []NobodySleepsOverWork
  <1>1. JobInv => NobodySleepsOverWork BY JobInvMeans
  <1> QED BY <1>1, JobInvariant, PTL

\* Nothing is written after the coordinator has exited, or has told a worker to exit, unless Heart
\* has misjudged a worker.
THEOREM ExitFinal == Spec => ExitIsFinal
  <1>1. JobInv /\ [Next]_vars
          => [misjudged = 0 /\ (coordinator = "exited" \/ (Up /\ \E w \in Worker : pc[w] = "exit"))
              => out' = out]_vars
    <2> SUFFICES ASSUME JobInv, [Next]_vars, misjudged = 0,
                        coordinator = "exited" \/ (Up /\ \E w \in Worker : pc[w] = "exit")
                 PROVE  out' = out
      OBVIOUS
    <2>1. Tables /\ Core /\ Finished BY DEF JobInv, EndRight
    <2> QED BY <2>1, FinishedStays
  <1> QED BY <1>1, JobInvariant, PTL DEF Spec, ExitIsFinal

=============================================================================
