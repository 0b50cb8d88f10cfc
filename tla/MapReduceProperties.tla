------------------------- MODULE MapReduceProperties -------------------------
(***************************************************************************)
(* What a MapReduce job promises.                                          *)
(***************************************************************************)
EXTENDS MapReduce

\* mrsequential: all pairs of all input files, each once, and those of one key together.
Pairs(r) == {p \in MapTask \X UNION {Emits[m] : m \in MapTask} :
               p[2] \in Emits[p[1]] /\ p[2] % nReduce = r}
Sequential(r) == Once(Pairs(r))

States == {IDLE, INPROC, COMPLETED}
Task == [TaskType : {MAP, REDUCE}, TaskNum : Nat, Filename : Seq(MapTask), NReduce : Int]

\* The variables keep their types, and the number of reduce tasks to do, which doMap takes for the
\* number of partitions, never grows beyond nReduce (CommitOK, coordinator.go:159).
TypeOK ==
  /\ MapTasks \in [MapTask -> States] /\ ReduceTasks \in [ReduceTask -> States]
  /\ Filename \in [ReduceTask -> Seq(MapTask)]
  /\ NMapped \in Nat /\ NReduce \in Int /\ NReduce <= nReduce
  /\ Workers \subseteq Worker /\ beat \in [Worker -> BOOLEAN]
  /\ Status \in [Worker -> {FREE, WORK, CRASH}]
  /\ Mu \in Worker \cup {Nil}
  /\ task \in [Worker -> Task]
  /\ coordinator \in {"up", "exited", "aborted"}

\* The counters count every completed task (coordinator.go:49, 50), which is all that Task and Done
\* look at to end a phase, and they count at most one task too many each time Heart takes a task
\* from a worker that has not died with it (coordinator.go:268).  So they are exact as long as it
\* does not, although tasks are repeated after crashes.
Completed(tasks) == Cardinality({i \in DOMAIN tasks : tasks[i] = COMPLETED})
CountersExact ==
  LET overMap == NMapped - Completed(MapTasks)
      overReduce == (nReduce - NReduce) - Completed(ReduceTasks)
  IN  overMap >= 0 /\ overReduce >= 0 /\ overMap + overReduce <= misjudged

\* A job that has ended has the output of the sequential program: every pair a map task emits is
\* in the output of its partition, once, although tasks are repeated for workers that died with
\* them, wherever they did; unless Heart has taken a task from one that did not
\* (main/mrsequential.go; Task, CommitOK, Heart, doMap, doReduce).
OutputCorrect ==
  misjudged = 0 /\ coordinator = "exited" => \A r \in ReduceTask : out[r] = Sequential(r)

\* doReduce finds every file that the coordinator names to it, whatever Heart does
\* (worker.go:113).
IntermediatesExist == \A r \in ReduceTask : \A i \in 1..Len(Filename[r]) :
                        files[Filename[r][i]][r] # Nil

\* No output changes after the coordinator or a worker has ended (the early exit test,
\* main/test-mr.sh:226), unless Heart has taken a task from a worker that had not died with it.
ExitIsFinal == [][misjudged = 0 /\ (coordinator = "exited" \/ (Up /\ \E w \in Worker : pc[w] = "exit"))
                  => out' = out]_vars

\* No handler waits on c.Cond while there is a task to hand out or the job is done, except while
\* the one that must wake it holds c.Mu (coordinator.go:118 against the Broadcasts of CommitOK at
\* 175 and 178 and of Heart at 279).  Only a Broadcast of Heart that comes between the check and
\* the Wait of a handler, without c.Mu, is lost.
NobodySleepsOverWork == Free /\ misjudged = 0 /\ ~missed => \A w \in Worker :
                          pc[w] = "waiting" => Idle = Nil /\ ~Finished

\* A job in which nobody crashes, or is taken to have, ends, and then every worker does (Cond.Wait
\* in Task and the two Broadcasts of CommitOK).
JobEnds == <>(crashes > 0 \/ misjudged > 0 \/ (~Up /\ \A w \in Worker : pc[w] \in {"off", "exit"}))

\* "Done only needs to check NMapped == Nfile and NReduce == 0" (labNotes/lab1.md:222).
DoneWhenCompleted == Finished => /\ \A m \in MapTask : MapTasks[m] = COMPLETED
                                 /\ \A r \in ReduceTask : ReduceTasks[r] = COMPLETED

\* The task of a crashed worker is given to another one, so that the job ends
\* (labNotes/lab1.md:371, coordinator.go:278), at least when Heart takes it from nobody else.
CrashesRecovered == <>(misjudged > 0 \/ ~Up)

=============================================================================
