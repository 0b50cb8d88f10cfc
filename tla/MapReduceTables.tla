--------------------------- MODULE MapReduceTables ---------------------------
(***************************************************************************)
(* What the tables of the MapReduce coordinator say in every behaviour,    *)
(* for any number of workers, input files, partitions and crashes, whoever *)
(* Heart takes for crashed: their types, that the files they name exist,   *)
(* and how far its counters are from the tasks that are completed.         *)
(***************************************************************************)
EXTENDS MapReduceProperties, FiniteSetTheorems, TLAPS

\* Where a proof names no prover, Zenon finds it.
USE Zenon

\* The members of a sequence, and the kind and the number of the task of worker w.
Elems(s) == {s[k] : k \in DOMAIN s}
IsMap(w) == task[w].TaskType = MAP
Num(w) == task[w].TaskNum

\* Where a worker can be.
Label == {"off", "ask", "sleepy", "waiting", "woken", "assigned", "map", "reduce", "commit",
          "committing", "exit", "dead"}

\* Worker w has a task: it may still commit it, or it has died with it and Heart has not noticed.
Holds(w) == pc[w] \in {"assigned", "map", "reduce", "commit"} \/ Lost(w)

\* It has a task that Heart has not taken from it.
Owns(w) == \/ pc[w] = "assigned"
           \/ Status[w] = WORK /\ pc[w] \in {"map", "reduce", "commit", "dead"}

\* The types, those of the workers' own variables included.
Types ==
  /\ MapTasks \in [MapTask -> States] /\ ReduceTasks \in [ReduceTask -> States]
  /\ Filename \in [ReduceTask -> Seq(MapTask)]
  /\ NMapped \in Nat /\ NReduce \in Int /\ NReduce <= nReduce
  /\ Workers \subseteq Worker /\ beat \in [Worker -> BOOLEAN]
  /\ Status \in [Worker -> {FREE, WORK, CRASH}]
  /\ Mu \in Worker \cup {Nil}
  /\ task \in [Worker -> Task]
  /\ coordinator \in {"up", "exited", "aborted"}
  /\ Last \in [Worker -> [TaskType : {MAP, REDUCE}, TaskNum : Nat]]
  /\ pc \in [Worker -> Label]
  /\ todo \in [Worker -> Seq(Nat)]
  /\ files \in [MapTask -> [ReduceTask -> {Nil} \cup SUBSET Nat]]
  /\ DOMAIN out = ReduceTask /\ DOMAIN inter = Worker
  /\ alive \in [Worker -> BOOLEAN]
  /\ misjudged \in Nat

\* The task of a worker is one of the job, it does what the task is, and what Heart reads of it in
\* c.Workers is that task.
Told(w) ==
  /\ IsMap(w) => Num(w) \in MapTask
  /\ ~IsMap(w) => Num(w) \in ReduceTask
  /\ task[w].NReduce <= nReduce
  /\ Last[w].TaskType = MAP => Last[w].TaskNum \in MapTask
  /\ Last[w].TaskType # MAP => Last[w].TaskNum \in ReduceTask

At(w) ==
  /\ Status[w] = WORK => pc[w] \in {"map", "reduce", "commit", "committing", "dead", "exit"}
  /\ pc[w] \in {"map", "reduce", "commit"} \/ Lost(w) =>
       Last[w].TaskType = task[w].TaskType /\ Last[w].TaskNum = Num(w)
  /\ pc[w] = "map" => IsMap(w)
  /\ pc[w] = "reduce" => ~IsMap(w)

Placed == \A w \in Worker : Told(w) /\ At(w)

\* The partitions that doMap has not to write any more are written.
Wrote(w) ==
  /\ pc[w] = "map" =>
       /\ todo[w] \in Seq(ReduceTask)
       /\ \A i \in ReduceTask :
            i \in Partitions(task[w]) => i \in Elems(todo[w]) \/ files[Num(w)][i] # Nil
  /\ pc[w] = "commit" /\ IsMap(w) =>
       \A i \in ReduceTask : i \in Partitions(task[w]) => files[Num(w)][i] # Nil

Named == \A r \in ReduceTask : \A k \in DOMAIN Filename[r] : files[Filename[r][k]][r] # Nil

Written == (\A w \in Worker : Wrote(w)) /\ Named

\* The tasks that are not idle pay for the counters and for the workers that have a task, one each,
\* but for those that Heart has made idle wrongly.
Held == {w \in Worker : Holds(w)}
Begun(tasks) == Cardinality({i \in DOMAIN tasks : tasks[i] # IDLE})
Balance == NMapped + (nReduce - NReduce) + Cardinality(Held)
             <= misjudged + Begun(MapTasks) + Begun(ReduceTasks)

\* A task in progress is somebody's.
InHand ==
  /\ \A m \in MapTask : MapTasks[m] = INPROC => \E w \in Worker : Owns(w) /\ IsMap(w) /\ Num(w) = m
  /\ \A r \in ReduceTask : ReduceTasks[r] = INPROC =>
                             \E w \in Worker : Owns(w) /\ ~IsMap(w) /\ Num(w) = r

Counted ==
  /\ Completed(MapTasks) <= NMapped
  /\ Completed(ReduceTasks) <= nReduce - NReduce
  /\ Up => Balance /\ InHand
  /\ ~Up => CountersExact

\* What holds in every behaviour.
Tables == Types /\ Placed /\ Written /\ Counted

-----------------------------------------------------------------------------
(* Sequences and sets of numbers                                           *)

\* Tasks are numbers.
LEMMA TasksNat == MapTask \subseteq Nat /\ ReduceTask \subseteq Nat
  BY SMT DEF MapTask, ReduceTask

\* A worker that is woken was waiting.
LEMMA BroadcastMoves ==
  ASSUME pc \in [Worker -> Label], NEW w \in Worker, NEW l \in Label, Broadcast(w, l)
  PROVE  /\ pc' \in [Worker -> Label] /\ pc'[w] = l
         /\ \A v \in Worker : v # w => \/ pc'[v] = pc[v]
                                       \/ pc[v] = "waiting" /\ pc'[v] = "woken"
  BY DEF Broadcast, Label

\* One worker moves.
LEMMA GotoMoves ==
  ASSUME pc \in [Worker -> Label], NEW w \in Worker, NEW l \in Label, Goto(w, l)
  PROVE  /\ pc' \in [Worker -> Label] /\ pc'[w] = l
         /\ \A v \in Worker : v # w => pc'[v] = pc[v]
  BY DEF Goto

\* A sequence over a set is one over a larger set.
LEMMA SeqSubset ==
  ASSUME NEW S, NEW T, S \subseteq T, NEW s \in Seq(S)
  PROVE  s \in Seq(T)
  <1>1. s \in [1..Len(s) -> S] /\ Len(s) \in Nat BY SMT
  <1>2. s \in [1..Len(s) -> T] BY <1>1
  <1> QED BY <1>1, <1>2, SMT

\* What is left of a list after its first element.
LEMMA Rest ==
  ASSUME NEW S, NEW s \in Seq(S), s # <<>>
  PROVE  /\ Head(s) \in S /\ Tail(s) \in Seq(S)
         /\ \A x : x \in Elems(s) <=> x = Head(s) \/ x \in Elems(Tail(s))
  <1>1. Len(s) \in Nat /\ Len(s) # 0 /\ DOMAIN s = 1..Len(s) BY SMT
  <1>2. Head(s) = s[1] /\ Head(s) \in S /\ Tail(s) \in Seq(S) BY <1>1, SMT
  <1>3. /\ DOMAIN Tail(s) = 1..(Len(s) - 1)
        /\ \A k \in 1..(Len(s) - 1) : Tail(s)[k] = s[k + 1]
    BY <1>1, SMT
  <1>4. ASSUME NEW x, x \in Elems(s) PROVE x = Head(s) \/ x \in Elems(Tail(s))
    <2>1. PICK k \in 1..Len(s) : x = s[k] BY <1>1, <1>4 DEF Elems
    <2>2. CASE k = 1 BY <2>1, <2>2, <1>2
    <2>3. CASE k # 1
      <3>1. k - 1 \in 1..(Len(s) - 1) /\ (k - 1) + 1 = k BY <2>3, <1>1, SMT
      <3>2. x = Tail(s)[k - 1] BY <2>1, <3>1, <1>3
      <3> QED BY <3>1, <3>2, <1>3 DEF Elems
    <2> QED BY <2>2, <2>3
  <1>5. ASSUME NEW x, x \in Elems(Tail(s)) PROVE x \in Elems(s)
    <2>1. PICK k \in 1..(Len(s) - 1) : x = s[k + 1] BY <1>3, <1>5 DEF Elems
    <2>2. k + 1 \in DOMAIN s BY <1>1, SMT
    <2> QED BY <2>1, <2>2 DEF Elems
  <1>6. Head(s) \in Elems(s)
    <2>1. 1 \in DOMAIN s BY <1>1, SMT
    <2> QED BY <2>1, <1>2 DEF Elems
  <1> QED BY <1>2, <1>4, <1>5, <1>6

\* A set of numbers that is not empty has a least one (the loops of Task find the first idle task).
LEMMA Least ==
  ASSUME NEW T, T \subseteq Nat, T # {}
  PROVE  \E x \in T : \A y \in T : x <= y
  <1>1. IsWellFoundedOn(OpToRel(<, Nat), Nat) BY NatLessThanWellFounded
  <1>2. \E x \in T : \A y \in T : ~ (<<y, x>> \in OpToRel(<, Nat)) BY <1>1, WFMin
  <1>3. PICK x \in T : \A y \in T : ~ (<<y, x>> \in OpToRel(<, Nat)) BY <1>2
  <1>4. \A y \in T : ~(y < x) BY <1>3 DEF OpToRel
  <1>5. x \in Nat /\ \A y \in T : y \in Nat OBVIOUS
  <1>6. \A y \in T : x <= y BY <1>4, <1>5, SMT
  <1> QED BY <1>6

\* doMap goes through its non-empty partitions in ascending order and omits none.
LEMMA Sorted ==
  ASSUME NEW S, S \subseteq Nat, IsFiniteSet(S)
  PROVE  /\ Ascending(S) \in [1..Cardinality(S) -> S]
         /\ Cardinality(S) \in Nat
         /\ \A x \in S : \E i \in 1..Cardinality(S) : Ascending(S)[i] = x
  <1> DEFINE n == Cardinality(S)
             Upto(x) == {y \in S : y <= x}
             rank == [x \in S |-> Cardinality(Upto(x))]
             Good(s) == \A i, j \in DOMAIN s : i < j => s[i] < s[j]
  <1>1. n \in Nat BY FS_CardinalityType
  <1>2. \A x \in S : /\ IsFiniteSet(Upto(x)) /\ Cardinality(Upto(x)) \in Nat
                     /\ Cardinality(Upto(x)) <= n
    <2> TAKE x \in S
    <2>1. Upto(x) \in SUBSET S OBVIOUS
    <2> QED BY <2>1, FS_Subset, FS_CardinalityType
  <1>3. \A x, y \in S : x < y => Cardinality(Upto(x)) < Cardinality(Upto(y))
    <2> SUFFICES ASSUME NEW x \in S, NEW y \in S, x < y
                 PROVE  Cardinality(Upto(x)) < Cardinality(Upto(y))
      OBVIOUS
    <2>0. \A z \in S : z <= x => z <= y
      <3>1. x \in Nat /\ y \in Nat /\ \A z \in S : z \in Nat OBVIOUS
      <3> QED BY <3>1, SMT
    <2>1. Upto(x) \in SUBSET Upto(y) BY <2>0
    <2>2. y \in Upto(y) /\ y \notin Upto(x) BY x \in Nat, y \in Nat, SMT
    <2>3. IsFiniteSet(Upto(y)) BY <1>2
    <2>4. Cardinality(Upto(x)) <= Cardinality(Upto(y))
          /\ (Cardinality(Upto(y)) = Cardinality(Upto(x)) => Upto(y) = Upto(x))
      BY <2>1, <2>3, FS_Subset
    <2>5. Cardinality(Upto(x)) # Cardinality(Upto(y)) BY <2>2, <2>4
    <2> QED BY <2>4, <2>5, <1>2, SMT
  <1>4. \A x \in S : Cardinality(Upto(x)) \in 1..n
    <2> TAKE x \in S
    <2>1. x \in Upto(x) BY x \in Nat, SMT
    <2>2. Cardinality(Upto(x)) # 0 BY <2>1, <1>2, FS_EmptySet
    <2> HIDE DEF Upto, n
    <2> QED BY <2>2, <1>2, <1>1, SMT
  <1> HIDE DEF Upto
  <1>5. rank \in [S -> 1..n] BY <1>4
  <1>6. rank \in Injection(S, 1..n)
    <2>1. \A x, y \in S : rank[x] = rank[y] => x = y
      <3> SUFFICES ASSUME NEW x \in S, NEW y \in S, rank[x] = rank[y], x # y PROVE FALSE OBVIOUS
      <3>1. x \in Nat /\ y \in Nat OBVIOUS
      <3>2. x < y \/ y < x BY <3>1, SMT
      <3> QED BY <3>2, <1>3, <1>2, SMT
    <2> QED BY <2>1, <1>5 DEF Injection, IsInjective
  <1>7. IsFiniteSet(1..n) /\ Cardinality(1..n) = n
    BY FS_Interval, <1>1, SMT
  <1>8. rank \in Surjection(S, 1..n) BY <1>6, <1>7, FS_Injection
  <1> HIDE DEF n
  <1>9. \A i \in 1..n : \E x \in S : rank[x] = i BY <1>8 DEF Surjection
  <1> DEFINE inv == [i \in 1..n |-> CHOOSE x \in S : rank[x] = i]
  <1>10. inv \in [1..n -> S] /\ \A i \in 1..n : rank[inv[i]] = i BY <1>9
  <1> HIDE DEF inv
  <1>11. Good(inv)
    <2> SUFFICES ASSUME NEW i \in 1..n, NEW j \in 1..n, i < j PROVE inv[i] < inv[j]
      BY <1>10
    <2>1. inv[i] \in S /\ inv[j] \in S /\ rank[inv[i]] = i /\ rank[inv[j]] = j BY <1>10
    <2>2. inv[i] \in Nat /\ inv[j] \in Nat BY <2>1
    <2>3. CASE inv[j] < inv[i]
      <3>1. rank[inv[j]] < rank[inv[i]] BY <2>1, <2>3, <1>3
      <3> QED BY <3>1, <2>1, SMT
    <2>4. CASE inv[j] = inv[i] BY <2>1, <2>4, SMT
    <2> QED BY <2>2, <2>3, <2>4, SMT
  <1>12. \E s \in [1..n -> S] : Good(s) BY <1>10, <1>11
  <1> DEFINE a == Ascending(S)
  <1>13. a \in [1..n -> S] /\ Good(a) BY <1>12 DEF Ascending, n
  <1> HIDE DEF a
  <1>14. a \in Injection(1..n, S)
    <2>1. \A i, j \in 1..n : a[i] = a[j] => i = j
      <3> SUFFICES ASSUME NEW i \in 1..n, NEW j \in 1..n, a[i] = a[j], i < j PROVE FALSE
        BY <1>1, SMT
      <3>1. a[i] < a[j] BY <1>13
      <3>2. a[i] \in Nat BY <1>13
      <3> QED BY <3>1, <3>2, SMT
    <2> QED BY <2>1, <1>13 DEF Injection, IsInjective
  <1>15. a \in Surjection(1..n, S) BY <1>14, <1>7, FS_Injection DEF n
  <1> QED BY <1>13, <1>15, <1>1 DEF a, n, Surjection

\* There are finitely many tasks.
LEMMA Finite == IsFiniteSet(MapTask) /\ IsFiniteSet(ReduceTask)
  BY FS_Interval, MapReduceAssumption, SMT DEF MapTask, ReduceTask

\* FirstIdle finds an idle task if there is one.
LEMMA FirstIdleRight ==
  ASSUME NEW k \in Nat, NEW f \in [0..(k - 1) -> States]
  PROVE  /\ FirstIdle(f) = Nil <=> \A j \in 0..(k - 1) : f[j] # IDLE
         /\ FirstIdle(f) # Nil => FirstIdle(f) \in 0..(k - 1) /\ f[FirstIdle(f)] = IDLE
  <1> DEFINE idle == {j \in DOMAIN f : f[j] = IDLE}
  <1>1. idle \subseteq Nat /\ idle \subseteq 0..(k - 1) BY SMT
  <1>2. \A j \in 0..(k - 1) : j \in idle <=> f[j] = IDLE OBVIOUS
  <1>3. CASE idle = {}
    <2>1. FirstIdle(f) = Nil BY <1>3 DEF FirstIdle
    <2> QED BY <1>2, <1>3, <2>1
  <1>4. CASE idle # {}
    <2>1. \E j \in idle : \A l \in idle : j <= l BY <1>1, <1>4, Least
    <2>2. FirstIdle(f) = CHOOSE j \in idle : \A l \in idle : j <= l
      BY <1>4 DEF FirstIdle
    <2>3. FirstIdle(f) \in idle BY <2>1, <2>2
    <2>4. FirstIdle(f) # Nil BY <2>3, <1>1, MapReduceAssumption
    <2> QED BY <2>3, <2>4, <1>1, <1>2
  <1> QED BY <1>3, <1>4

-----------------------------------------------------------------------------
(* Counting                                                                *)

\* Sets of which one is at most one element larger.
LEMMA OneMore ==
  ASSUME NEW S, NEW T, IsFiniteSet(S), IsFiniteSet(T), NEW x
  PROVE  /\ Cardinality(S) \in Nat /\ Cardinality(T) \in Nat
         /\ S \subseteq T => Cardinality(S) <= Cardinality(T)
         /\ S \subseteq T \cup {x} => Cardinality(S) <= Cardinality(T) + 1
         /\ x \notin S /\ S \cup {x} \subseteq T => Cardinality(S) + 1 <= Cardinality(T)
  <1>1. Cardinality(S) \in Nat /\ Cardinality(T) \in Nat BY FS_CardinalityType
  <1>2. S \subseteq T => Cardinality(S) <= Cardinality(T) BY FS_Subset
  <1>3. /\ IsFiniteSet(T \cup {x}) /\ IsFiniteSet(S \cup {x})
        /\ Cardinality(T \cup {x}) = IF x \in T THEN Cardinality(T) ELSE Cardinality(T) + 1
        /\ Cardinality(S \cup {x}) = IF x \in S THEN Cardinality(S) ELSE Cardinality(S) + 1
    BY FS_AddElement
  <1>4. ASSUME S \subseteq T \cup {x} PROVE Cardinality(S) <= Cardinality(T) + 1
    <2>1. Cardinality(S) <= Cardinality(T \cup {x}) BY <1>3, <1>4, FS_Subset
    <2>2. \/ Cardinality(S) <= Cardinality(T)
          \/ Cardinality(S) <= Cardinality(T) + 1
      BY <2>1, <1>3
    <2> QED BY <2>2, <1>1, SMT
  <1>5. ASSUME x \notin S, S \cup {x} \subseteq T PROVE Cardinality(S) + 1 <= Cardinality(T)
    <2>1. Cardinality(S \cup {x}) <= Cardinality(T) BY <1>5, FS_Subset
    <2> QED BY <2>1, <1>3, <1>5
  <1> QED BY <1>1, <1>2, <1>4, <1>5

\* One entry of a table of tasks changes.
LEMMA Entry ==
  ASSUME NEW S, IsFiniteSet(S), NEW f \in [S -> States], NEW g \in [S -> States], NEW k \in S,
         \A i \in S : i # k => g[i] = f[i]
  PROVE  /\ Completed(f) \in Nat /\ Completed(g) \in Nat /\ Begun(f) \in Nat /\ Begun(g) \in Nat
         /\ Completed(g) <= Completed(f) + 1
         /\ g[k] # COMPLETED => Completed(g) <= Completed(f)
         /\ g[k] # IDLE => Begun(f) <= Begun(g)
         /\ f[k] = IDLE /\ g[k] # IDLE => Begun(f) + 1 <= Begun(g)
         /\ Begun(f) <= Begun(g) + 1
  <1> DEFINE cf == {i \in S : f[i] = COMPLETED}
             cg == {i \in S : g[i] = COMPLETED}
             bf == {i \in S : f[i] # IDLE}
             bg == {i \in S : g[i] # IDLE}
  <1>2. /\ Completed(f) = Cardinality(cf) /\ Completed(g) = Cardinality(cg)
        /\ Begun(f) = Cardinality(bf) /\ Begun(g) = Cardinality(bg)
    BY DEF Completed, Begun
  <1>3. IsFiniteSet(cf) /\ IsFiniteSet(cg) /\ IsFiniteSet(bf) /\ IsFiniteSet(bg)
    <2>1. cf \subseteq S /\ cg \subseteq S /\ bf \subseteq S /\ bg \subseteq S OBVIOUS
    <2> HIDE DEF cf, cg, bf, bg
    <2> QED BY <2>1, FS_Subset
  <1>6. cg \subseteq cf \cup {k} /\ bf \subseteq bg \cup {k} OBVIOUS
  <1>7. g[k] # COMPLETED => cg \subseteq cf OBVIOUS
  <1>8. g[k] # IDLE => bf \subseteq bg OBVIOUS
  <1>9. f[k] = IDLE /\ g[k] # IDLE => k \notin bf /\ bf \cup {k} \subseteq bg OBVIOUS
  <1> HIDE DEF cf, cg, bf, bg
  <1>10. Completed(g) <= Completed(f) + 1 BY <1>2, <1>3, <1>6, OneMore
  <1>11. Begun(f) <= Begun(g) + 1 BY <1>2, <1>3, <1>6, OneMore
  <1>12. g[k] # COMPLETED => Completed(g) <= Completed(f) BY <1>2, <1>3, <1>7, OneMore
  <1>13. g[k] # IDLE => Begun(f) <= Begun(g) BY <1>2, <1>3, <1>8, OneMore
  <1>14. f[k] = IDLE /\ g[k] # IDLE => Begun(f) + 1 <= Begun(g) BY <1>2, <1>3, <1>9, OneMore
  <1>15. Completed(f) \in Nat /\ Completed(g) \in Nat /\ Begun(f) \in Nat /\ Begun(g) \in Nat
    BY <1>2, <1>3, OneMore
  <1> QED BY <1>10, <1>11, <1>12, <1>13, <1>14, <1>15

\* The tasks that are not idle are completed, or are in progress with different workers.
LEMMA BegunIs ==
  ASSUME NEW S, IsFiniteSet(S), NEW f \in [S -> States], NEW W, IsFiniteSet(W), NEW g,
         \A i \in S : f[i] = INPROC => \E w \in W : g[w] = i
  PROVE  /\ Begun(f) \in Nat /\ Completed(f) \in Nat
         /\ Begun(f) <= Completed(f) + Cardinality(W)
  <1> DEFINE c == {i \in S : f[i] = COMPLETED}
             p == {i \in S : f[i] = INPROC}
             b == {i \in S : f[i] # IDLE}
             im == {g[w] : w \in W}
  <1>1. Completed(f) = Cardinality(c) /\ Begun(f) = Cardinality(b) BY DEF Completed, Begun
  <1>2. b \subseteq c \cup p BY DEF States
  <1>3. p \subseteq im OBVIOUS
  <1>4. c \subseteq S /\ p \subseteq S /\ b \subseteq S OBVIOUS
  <1>5. IsFiniteSet(im) /\ Cardinality(im) <= Cardinality(W)
    <2> DEFINE h == [w \in W |-> g[w]]
    <2>1. h \in [W -> im] /\ \A i \in im : \E w \in W : h[w] = i OBVIOUS
    <2> HIDE DEF h, im
    <2>2. h \in Surjection(W, im) BY <2>1 DEF Surjection
    <2> QED BY <2>2, FS_Surjection
  <1> HIDE DEF c, p, b, im
  <1>6. IsFiniteSet(c) /\ IsFiniteSet(p) /\ IsFiniteSet(b) BY <1>4, FS_Subset
  <1>7. Cardinality(p) <= Cardinality(im) BY <1>3, <1>5, FS_Subset
  <1>8. /\ Cardinality(b) <= Cardinality(c \cup p)
        /\ Cardinality(c \cup p) = Cardinality(c) + Cardinality(p) - Cardinality(c \cap p)
    BY <1>2, <1>6, FS_Subset, FS_Union
  <1>9. /\ Cardinality(c \cap p) \in Nat /\ Cardinality(b) \in Nat /\ Cardinality(c) \in Nat
        /\ Cardinality(p) \in Nat /\ Cardinality(im) \in Nat /\ Cardinality(W) \in Nat
    BY <1>5, <1>6, FS_Intersection, FS_CardinalityType
  <1>10. Cardinality(b) <= Cardinality(c) + Cardinality(W) BY <1>5, <1>7, <1>8, <1>9, SMT
  <1> QED BY <1>1, <1>9, <1>10

\* The sets that are counted are finite.
LEMMA HeldFinite == /\ IsFiniteSet(Held) /\ Cardinality(Held) \in Nat
                    /\ IsFiniteSet(Held') /\ Cardinality(Held') \in Nat
  <1>0. IsFiniteSet(Worker) BY MapReduceAssumption
  <1>1. Held \subseteq Worker /\ Held' \subseteq Worker BY DEF Held
  <1>2. IsFiniteSet(Held) /\ IsFiniteSet(Held') BY <1>0, <1>1, FS_Subset
  <1> QED BY <1>2, FS_CardinalityType

LEMMA TablesCount ==
  ASSUME Types
  PROVE  /\ Completed(MapTasks) \in Nat /\ Completed(ReduceTasks) \in Nat
         /\ Begun(MapTasks) \in Nat /\ Begun(ReduceTasks) \in Nat
  <1> DEFINE cm == {i \in MapTask : MapTasks[i] = COMPLETED}
             cr == {i \in ReduceTask : ReduceTasks[i] = COMPLETED}
             bm == {i \in MapTask : MapTasks[i] # IDLE}
             br == {i \in ReduceTask : ReduceTasks[i] # IDLE}
  <1>1. /\ Completed(MapTasks) = Cardinality(cm) /\ Completed(ReduceTasks) = Cardinality(cr)
        /\ Begun(MapTasks) = Cardinality(bm) /\ Begun(ReduceTasks) = Cardinality(br)
    BY DEF Types, Completed, Begun
  <1>2. cm \subseteq MapTask /\ bm \subseteq MapTask /\ cr \subseteq ReduceTask /\ br \subseteq ReduceTask
    OBVIOUS
  <1> HIDE DEF cm, cr, bm, br
  <1>3. IsFiniteSet(cm) /\ IsFiniteSet(cr) /\ IsFiniteSet(bm) /\ IsFiniteSet(br)
    BY <1>2, Finite, FS_Subset
  <1> QED BY <1>1, <1>3, FS_CardinalityType

\* So the counters are at most as many tasks ahead as Heart has misjudged workers: the tasks in
\* progress are fewer than the workers that have one.
LEMMA CountedExact ==
  ASSUME Types, Counted
  PROVE  CountersExact
  <1> SUFFICES ASSUME Up PROVE CountersExact BY DEF Counted
  <1> DEFINE hm == {w \in Worker : Holds(w) /\ IsMap(w)}
             hr == {w \in Worker : Holds(w) /\ ~IsMap(w)}
             num == [w \in Worker |-> Num(w)]
  <1>1. Balance /\ InHand BY DEF Counted
  <1>2. \A w \in Worker : Owns(w) => Holds(w) BY DEF Owns, Holds, Lost
  <1>3. /\ \A m \in MapTask : MapTasks[m] = INPROC => \E w \in hm : num[w] = m
        /\ \A r \in ReduceTask : ReduceTasks[r] = INPROC => \E w \in hr : num[w] = r
    BY <1>1, <1>2 DEF InHand
  <1>4. hm \subseteq Worker /\ hr \subseteq Worker /\ hm \cap hr = {} /\ hm \cup hr = Held
    BY DEF Held
  <1> HIDE DEF hm, hr, num
  <1>5. IsFiniteSet(hm) /\ IsFiniteSet(hr)
    <2>1. IsFiniteSet(Worker) BY MapReduceAssumption
    <2> QED BY <2>1, <1>4, FS_Subset
  <1>t. MapTasks \in [MapTask -> States] /\ ReduceTasks \in [ReduceTask -> States] BY DEF Types
  <1>6. Begun(MapTasks) <= Completed(MapTasks) + Cardinality(hm)
    <2>1. IsFiniteSet(MapTask) BY Finite
    <2>2. PICK W, g : W = hm /\ g = num OBVIOUS
    <2>3. /\ IsFiniteSet(W) /\ \A m \in MapTask : MapTasks[m] = INPROC => \E w \in W : g[w] = m
      BY <2>2, <1>3, <1>5
    <2> QED BY <2>1, <2>2, <2>3, <1>t, BegunIs, SMT
  <1>7. Begun(ReduceTasks) <= Completed(ReduceTasks) + Cardinality(hr)
    <2>1. IsFiniteSet(ReduceTask) BY Finite
    <2>2. PICK W, g : W = hr /\ g = num OBVIOUS
    <2>3. /\ IsFiniteSet(W) /\ \A m \in ReduceTask : ReduceTasks[m] = INPROC => \E w \in W : g[w] = m
      BY <2>2, <1>3, <1>5
    <2> QED BY <2>1, <2>2, <2>3, <1>t, BegunIs, SMT
  <1>8. Cardinality(Held) = Cardinality(hm) + Cardinality(hr)
    <2>0. Cardinality(hm \cup hr) = Cardinality(hm) + Cardinality(hr) - Cardinality(hm \cap hr)
      BY <1>5, FS_Union
    <2>1. Cardinality(Held) = Cardinality(hm) + Cardinality(hr) - Cardinality({}) BY <2>0, <1>4
    <2>2. Cardinality({}) = 0 BY FS_EmptySet
    <2>3. Cardinality(hm) \in Nat /\ Cardinality(hr) \in Nat BY <1>5, FS_CardinalityType
    <2> QED BY <2>1, <2>2, <2>3, SMT
  <1>9. Cardinality(hm) \in Nat /\ Cardinality(hr) \in Nat BY <1>5, FS_CardinalityType
  <1> DEFINE cm == Completed(MapTasks)
             cr == Completed(ReduceTasks)
             bm == Begun(MapTasks)
             br == Begun(ReduceTasks)
             h == Cardinality(Held)
             a == Cardinality(hm)
             b == Cardinality(hr)
  <1>10. /\ cm \in Nat /\ cr \in Nat /\ bm \in Nat /\ br \in Nat BY TablesCount
  <1>11. cm <= NMapped /\ cr <= nReduce - NReduce BY DEF Counted
  <1>12. NMapped + (nReduce - NReduce) + h <= misjudged + bm + br BY <1>1 DEF Balance
  <1>13. NMapped \in Nat /\ NReduce \in Int /\ misjudged \in Nat /\ nReduce \in Nat
    BY MapReduceAssumption DEF Types
  <1> SUFFICES /\ NMapped - cm >= 0 /\ (nReduce - NReduce) - cr >= 0
               /\ (NMapped - cm) + ((nReduce - NReduce) - cr) <= misjudged
    BY DEF CountersExact
  <1> HIDE DEF cm, cr, bm, br, h, a, b
  <1>14. bm <= cm + a /\ br <= cr + b /\ h = a + b /\ a \in Nat /\ b \in Nat
    BY <1>6, <1>7, <1>8, <1>9 DEF cm, cr, bm, br, h, a, b
  <1> QED BY <1>10, <1>11, <1>12, <1>13, <1>14, SMT

\* The types are those of the next state, too.
LEMMA TablesCountNext ==
  ASSUME Types'
  PROVE  /\ NMapped' \in Nat /\ NReduce' \in Int /\ misjudged' \in Nat
         /\ Begun(MapTasks') \in Nat /\ Begun(ReduceTasks') \in Nat
  <1> DEFINE bm == {i \in MapTask : MapTasks'[i] # IDLE}
             br == {i \in ReduceTask : ReduceTasks'[i] # IDLE}
  <1>1. Begun(MapTasks') = Cardinality(bm) /\ Begun(ReduceTasks') = Cardinality(br)
    BY DEF Types, Begun
  <1>2. bm \subseteq MapTask /\ br \subseteq ReduceTask OBVIOUS
  <1> HIDE DEF bm, br
  <1>3. IsFiniteSet(bm) /\ IsFiniteSet(br) BY <1>2, Finite, FS_Subset
  <1>4. Cardinality(bm) \in Nat /\ Cardinality(br) \in Nat BY <1>3, FS_CardinalityType
  <1> QED BY <1>1, <1>4 DEF Types

\* What a step may do to the balance: c more tasks are counted and h more workers have one, when b
\* more tasks are begun and m more workers are misjudged.
LEMMA BalanceStep ==
  ASSUME Types, Types', Balance, NEW c \in Int, NEW h \in Int, NEW b \in Int, NEW m \in Int,
         NMapped' + (nReduce - NReduce') <= (NMapped + (nReduce - NReduce)) + c,
         Cardinality(Held') <= Cardinality(Held) + h,
         (Begun(MapTasks) + Begun(ReduceTasks)) + b <= Begun(MapTasks') + Begun(ReduceTasks'),
         misjudged' = misjudged + m, c + h <= b + m
  PROVE  Balance'
  <1>1. /\ NMapped \in Nat /\ NReduce \in Int /\ nReduce \in Nat /\ misjudged \in Nat
        /\ NMapped' \in Nat /\ NReduce' \in Int /\ misjudged' \in Nat
        /\ Begun(MapTasks) \in Nat /\ Begun(ReduceTasks) \in Nat
        /\ Begun(MapTasks') \in Nat /\ Begun(ReduceTasks') \in Nat
        /\ Cardinality(Held) \in Nat /\ Cardinality(Held') \in Nat
    <2>1. nReduce \in Nat BY MapReduceAssumption
    <2>2. NMapped \in Nat /\ NReduce \in Int /\ misjudged \in Nat BY DEF Types
    <2>3. Begun(MapTasks) \in Nat /\ Begun(ReduceTasks) \in Nat BY TablesCount
    <2>4. Cardinality(Held) \in Nat /\ Cardinality(Held') \in Nat BY HeldFinite
    <2> QED BY <2>1, <2>2, <2>3, <2>4, TablesCountNext
  <1>2. PICK p, q, r, s, t, u : /\ p = Begun(MapTasks) /\ q = Begun(ReduceTasks)
                                /\ r = Begun(MapTasks') /\ s = Begun(ReduceTasks')
                                /\ t = Cardinality(Held) /\ u = Cardinality(Held')
    OBVIOUS
  <1>3. NMapped + (nReduce - NReduce) + t <= misjudged + p + q BY <1>2 DEF Balance
  <1>4. u <= t + h /\ (p + q) + b <= r + s BY <1>2
  <1>5. /\ p \in Nat /\ q \in Nat /\ r \in Nat /\ s \in Nat /\ t \in Nat /\ u \in Nat BY <1>1, <1>2
  <1>6. NMapped' + (nReduce - NReduce') + u <= misjudged' + r + s
    <2>1. /\ NMapped \in Nat /\ NReduce \in Int /\ nReduce \in Nat /\ misjudged \in Nat
          /\ NMapped' \in Nat /\ NReduce' \in Int /\ misjudged' \in Nat
      BY <1>1
    <2>2. PICK x, y : x = NMapped + (nReduce - NReduce) /\ y = NMapped' + (nReduce - NReduce') OBVIOUS
    <2>3. x \in Int /\ y \in Int BY <2>1, <2>2, SMT
    <2>4. y <= x + c /\ x + t <= misjudged + p + q BY <1>3, <2>2
    <2>5. y + u <= misjudged' + r + s BY <1>4, <1>5, <2>1, <2>3, <2>4, SMT
    <2> QED BY <2>2, <2>5
  <1> QED BY <1>2, <1>6 DEF Balance

\* Steps by which the tables stay as they are, nobody gets a task, and none is lost while the
\* coordinator is up.
LEMMA CountedKept ==
  ASSUME Types, Types', Counted,
         UNCHANGED <<MapTasks, ReduceTasks, NMapped, NReduce, misjudged, task>>,
         Up' => Up,
         \A v \in Worker : (Holds(v))' => Holds(v),
         Up' => \A v \in Worker : Owns(v) => (Owns(v))'
  PROVE  Counted'
  <1>1. \A v \in Worker : ((IsMap(v))' <=> IsMap(v)) /\ (Num(v))' = Num(v) BY DEF IsMap, Num
  <1>2. CountersExact' BY CountedExact DEF CountersExact
  <1>3. ASSUME Up' PROVE Balance'
    <2>1. Held' \subseteq Held BY DEF Held
    <2>2. Cardinality(Held') <= Cardinality(Held) BY <2>1, HeldFinite, FS_Subset
    <2>3. Balance /\ misjudged' = misjudged BY <1>3 DEF Counted
    <2>4. PICK c, b, h : /\ c = NMapped + (nReduce - NReduce) /\ h = Cardinality(Held)
                         /\ b = Begun(MapTasks) + Begun(ReduceTasks)
      OBVIOUS
    <2>5. c \in Int /\ b \in Int /\ h \in Nat
      <3>1. NMapped \in Nat /\ NReduce \in Int /\ nReduce \in Nat
        BY MapReduceAssumption DEF Types
      <3>2. Begun(MapTasks) \in Nat /\ Begun(ReduceTasks) \in Nat BY TablesCount
      <3>3. c \in Int BY <3>1, <2>4, SMT
      <3>4. b \in Int BY <3>2, <2>4, SMT
      <3> QED BY <3>3, <3>4, <2>4, HeldFinite
    <2>6. c <= c + 0 /\ b + 0 <= b /\ h <= h + 0 /\ misjudged' = misjudged + 0 /\ 0 + 0 <= 0 + 0
      BY <2>3, <2>5, SMT DEF Types
    <2>7. /\ NMapped' + (nReduce - NReduce') <= (NMapped + (nReduce - NReduce)) + 0
          /\ Cardinality(Held') <= Cardinality(Held) + 0
          /\ (Begun(MapTasks) + Begun(ReduceTasks)) + 0 <= Begun(MapTasks') + Begun(ReduceTasks')
      BY <2>2, <2>4, <2>5, <2>6, SMT
    <2>8. 0 \in Int BY SMT
    <2> QED BY <2>3, <2>6, <2>7, <2>8, BalanceStep
  <1>4. ASSUME Up' PROVE InHand'
    <2>1. InHand BY <1>4 DEF Counted
    <2> QED BY <2>1, <1>1, <1>4 DEF InHand
  <1> QED BY <1>2, <1>3, <1>4 DEF Counted

-----------------------------------------------------------------------------
(* Steps by which no worker gets on with a task                            *)

\* A worker that moves had no task, or dies with it, or has lost the coordinator.
Moves(v) ==
  \/ pc'[v] = pc[v] /\ Status'[v] = Status[v]
  \/ /\ pc[v] \notin {"assigned", "map", "reduce", "commit", "dead"}
     /\ pc'[v] \in {"ask", "sleepy", "waiting", "woken", "exit", "dead"}
     /\ Status'[v] # WORK /\ Status'[v] \in {FREE, Status[v]}
  \/ ~Up /\ pc[v] # "dead" /\ pc'[v] = "exit" /\ Status'[v] = Status[v]
  \/ pc[v] \in {"map", "reduce", "commit"} /\ pc'[v] = "dead" /\ Status'[v] = Status[v]

\* So it has no other task afterwards than before.
LEMMA MovesMean ==
  ASSUME NEW v \in Worker, At(v), Moves(v), task'[v] = task[v], Last'[v] = Last[v]
  PROVE  /\ At(v)'
         /\ (Holds(v))' => Holds(v)
         /\ Up => (Owns(v) => (Owns(v))')
         /\ \A l \in {"assigned", "map", "reduce", "commit"} : pc'[v] = l => pc[v] = l
  <1>1. ((IsMap(v))' <=> IsMap(v)) /\ (Num(v))' = Num(v) BY DEF IsMap, Num
  <1>2. CASE pc'[v] = pc[v] /\ Status'[v] = Status[v]
    BY <1>1, <1>2 DEF At, Lost, Holds, Owns
  <1>3. CASE /\ pc[v] \notin {"assigned", "map", "reduce", "commit", "dead"}
             /\ pc'[v] \in {"ask", "sleepy", "waiting", "woken", "exit", "dead"}
             /\ Status'[v] # WORK
    BY <1>3 DEF At, Lost, Holds, Owns
  <1>4. CASE ~Up /\ pc'[v] = "exit" BY <1>4 DEF At, Lost, Holds
  <1>5. CASE pc[v] \in {"map", "reduce", "commit"} /\ pc'[v] = "dead" /\ Status'[v] = Status[v]
    <2>1. At(v)' BY <1>1, <1>5 DEF At, Lost
    <2> QED BY <2>1, <1>5 DEF Lost, Holds, Owns
  <1> QED BY <1>2, <1>3, <1>4, <1>5 DEF Moves

\* The steps that hand out no task, do no work and commit nothing leave the tables, the tasks and
\* the files alone.
QuietStep ==
  /\ UNCHANGED <<MapTasks, ReduceTasks, Filename, NMapped, NReduce, task, todo, inter, files, out,
                 Last, misjudged, missed>>
  /\ Up' => Up
  /\ \A v \in Worker : Moves(v)

LEMMA Quiet ==
  ASSUME Tables, Types', QuietStep
  PROVE  Tables'
  <1>0. /\ UNCHANGED <<MapTasks, ReduceTasks, Filename, NMapped, NReduce, task, todo, inter, files,
                       out, Last, misjudged>>
        /\ Up' => Up
        /\ \A v \in Worker : Moves(v)
    BY DEF QuietStep
  <1>1. \A v \in Worker : ((IsMap(v))' <=> IsMap(v)) /\ (Num(v))' = Num(v) BY <1>0 DEF IsMap, Num
  <1>2. \A v \in Worker : Told(v) /\ At(v) BY DEF Tables, Placed
  <1>3. \A v \in Worker : /\ At(v)'
                          /\ (Holds(v))' => Holds(v)
                          /\ Up => (Owns(v) => (Owns(v))')
                          /\ \A l \in {"assigned", "map", "reduce", "commit"} :
                               pc'[v] = l => pc[v] = l
    BY <1>0, <1>2, MovesMean
  <1>4. Placed'
    <2>1. \A v \in Worker : Told(v)' BY <1>0, <1>1, <1>2 DEF Told
    <2> QED BY <1>3, <2>1 DEF Placed
  <1>5. Written'
    <2>1. \A v \in Worker : Wrote(v)
      BY DEF Tables, Written
    <2>2. \A v \in Worker : Wrote(v)' BY <2>1, <1>0, <1>1, <1>3 DEF Wrote
    <2> QED BY <2>2, <1>0 DEF Tables, Written, Named
  <1>6. Counted' BY <1>0, <1>3, CountedKept DEF Tables
  <1> QED BY <1>4, <1>5, <1>6 DEF Tables

\* Only these variables may change, with their types.
LEMMA QuietTypes ==
  ASSUME Types, UNCHANGED <<taskVars, localVars, fileVars, Last, misjudged>>,
         Status' \in [Worker -> {FREE, WORK, CRASH}], pc' \in [Worker -> Label],
         Workers' \subseteq Worker, beat' \in [Worker -> BOOLEAN], Mu' \in Worker \cup {Nil},
         coordinator' \in {"up", "exited", "aborted"}, alive' \in [Worker -> BOOLEAN]
  PROVE  Types'
  BY DEF Types, taskVars, localVars, fileVars

\* A worker that is not at work is not marked so.
LEMMA NotAtWork ==
  ASSUME Tables, NEW v \in Worker,
         pc[v] \in {"off", "ask", "sleepy", "waiting", "woken"}
  PROVE  Status[v] # WORK
  BY DEF Tables, Placed, At



\* The steps of Quiet, one by one.
LEMMA QuietSteps ==
  ASSUME Tables, NEW w \in Worker,
         \/ Start(w) \/ TaskNothing(w) \/ CondWait(w) \/ CondWoken(w) \/ CommitFree(w)
         \/ BeatStep(w) \/ CallFails(w) \/ ConcurrentMapAccess(w) \/ Crash(w)
  PROVE  Types' /\ QuietStep
  <1> USE DEF workerVars, faultVars
  <1>0. /\ Types /\ pc \in [Worker -> Label] /\ Status \in [Worker -> {FREE, WORK, CRASH}]
        /\ Workers \subseteq Worker /\ beat \in [Worker -> BOOLEAN] /\ Mu \in Worker \cup {Nil}
        /\ coordinator \in {"up", "exited", "aborted"} /\ alive \in [Worker -> BOOLEAN]
    BY DEF Tables, Types
  <1>l. {"ask", "sleepy", "waiting", "woken", "exit", "dead"} \subseteq Label BY DEF Label
  <1>a. Back(w, "ask") \in {"ask", "dead"} /\ Back(w, "exit") \in {"exit", "dead"} BY DEF Back
  <1> SUFFICES /\ UNCHANGED <<taskVars, localVars, fileVars, Last, misjudged, missed>>
               /\ Status' \in [Worker -> {FREE, WORK, CRASH}] /\ pc' \in [Worker -> Label]
               /\ Workers' \subseteq Worker /\ beat' \in [Worker -> BOOLEAN]
               /\ Mu' \in Worker \cup {Nil} /\ coordinator' \in {"up", "exited", "aborted"}
               /\ alive' \in [Worker -> BOOLEAN]
               /\ Up' => Up
               /\ \A v \in Worker : Moves(v)
    <2>1. Types' BY <1>0, QuietTypes
    <2>2. QuietStep BY DEF QuietStep, taskVars, localVars, fileVars
    <2> QED BY <2>1, <2>2
  <1>1. CASE Start(w)
    <2>1. pc[w] = "off" /\ Goto(w, "ask") BY <1>1 DEF Start
    <2>2. Status[w] # WORK BY <2>1, NotAtWork
    <2>3. UNCHANGED <<taskVars, workerVars, Mu, localVars, fileVars, coordinator, faultVars>>
      BY <1>1 DEF Start
    <2>4. pc' \in [Worker -> Label] /\ pc'[w] = "ask" /\ \A v \in Worker : v # w => pc'[v] = pc[v]
      BY <2>1, <1>0, <1>l, GotoMoves
    <2>5. \A v \in Worker : Moves(v) BY <2>1, <2>2, <2>3, <2>4 DEF Moves
    <2> QED BY <2>3, <2>4, <2>5, <1>0 DEF Up
  <1>2. CASE TaskNothing(w)
    <2>1. /\ pc[w] = "ask" /\ Mu' \in {Mu, w} /\ Workers' = Workers \cup {w}
          /\ \E l \in {"exit", "dead", "sleepy"} : Goto(w, l)
          /\ UNCHANGED <<taskVars, beat, Status, Last, localVars, fileVars, coordinator, faultVars>>
      BY <1>2, <1>a DEF TaskNothing
    <2>2. Status[w] # WORK BY <2>1, NotAtWork
    <2>3. /\ pc' \in [Worker -> Label] /\ pc'[w] \in {"exit", "dead", "sleepy"}
          /\ \A v \in Worker : v # w => pc'[v] = pc[v]
      BY <2>1, <1>0, <1>l, GotoMoves
    <2>4. \A v \in Worker : Moves(v) BY <2>1, <2>2, <2>3 DEF Moves
    <2> QED BY <2>1, <2>3, <2>4, <1>0 DEF Up
  <1>3. CASE CondWait(w)
    <2>1. /\ pc[w] = "sleepy" /\ Goto(w, "waiting") /\ Mu' = Nil
          /\ UNCHANGED <<taskVars, workerVars, localVars, fileVars, coordinator, faultVars>>
      BY <1>3 DEF CondWait
    <2>2. Status[w] # WORK BY <2>1, NotAtWork
    <2>3. /\ pc' \in [Worker -> Label] /\ pc'[w] = "waiting"
          /\ \A v \in Worker : v # w => pc'[v] = pc[v]
      BY <2>1, <1>0, <1>l, GotoMoves
    <2>4. \A v \in Worker : Moves(v) BY <2>1, <2>2, <2>3 DEF Moves
    <2> QED BY <2>1, <2>3, <2>4, <1>0 DEF Up
  <1>4. CASE CondWoken(w)
    <2>1. /\ pc[w] = "woken" /\ Goto(w, Back(w, "ask"))
          /\ UNCHANGED <<taskVars, workerVars, Mu, localVars, fileVars, coordinator, faultVars>>
      BY <1>4 DEF CondWoken
    <2>2. Status[w] # WORK BY <2>1, NotAtWork
    <2>3. /\ pc' \in [Worker -> Label] /\ pc'[w] \in {"ask", "dead"}
          /\ \A v \in Worker : v # w => pc'[v] = pc[v]
      BY <2>1, <1>0, <1>a, <1>l, GotoMoves
    <2>4. \A v \in Worker : Moves(v) BY <2>1, <2>2, <2>3 DEF Moves
    <2> QED BY <2>1, <2>3, <2>4, <1>0 DEF Up
  <1>5. CASE CommitFree(w)
    <2>1. pc[w] = "committing" /\ (Goto(w, Back(w, "ask")) \/ Broadcast(w, Back(w, "ask")))
      BY <1>5 DEF CommitFree
    <2>2. /\ Status' = [Status EXCEPT ![w] = FREE] /\ Mu' = Nil
          /\ UNCHANGED <<taskVars, Workers, beat, Last, localVars, fileVars, coordinator, faultVars>>
      BY <1>5 DEF CommitFree
    <2>3. /\ Status' \in [Worker -> {FREE, WORK, CRASH}] /\ Status'[w] = FREE
          /\ \A v \in Worker : v # w => Status'[v] = Status[v]
      BY <2>2, <1>0
    <2>4. FREE # WORK BY SMT DEF FREE, WORK
    <2>5. \A v \in Worker : pc[v] = "waiting" => Status[v] # WORK BY NotAtWork
    <2>6. /\ pc' \in [Worker -> Label] /\ pc'[w] \in {"ask", "dead"}
          /\ \A v \in Worker : v # w => \/ pc'[v] = pc[v]
                                        \/ pc[v] = "waiting" /\ pc'[v] = "woken"
      <3>1. PICK l \in {"ask", "dead"} : l = Back(w, "ask") BY <1>a
      <3>2. Goto(w, l) \/ Broadcast(w, l) BY <2>1, <3>1 DEF Goto, Broadcast
      <3>3. l \in Label BY <1>l
      <3>4. CASE Goto(w, l) BY <3>3, <3>4, <1>0, GotoMoves
      <3>5. CASE Broadcast(w, l) BY <3>3, <3>5, <1>0, BroadcastMoves
      <3> QED BY <3>2, <3>4, <3>5
    <2>7. \A v \in Worker : Moves(v) BY <2>1, <2>3, <2>4, <2>5, <2>6 DEF Moves
    <2> QED BY <2>2, <2>3, <2>6, <2>7, <1>0 DEF Up
  <1>6. CASE BeatStep(w)
    BY <1>6, <1>0 DEF BeatStep, HeartbeatRegister, HeartbeatRecord, Moves, Up
  <1>7. CASE CallFails(w)
    <2>1. /\ ~Up /\ pc[w] # "dead" /\ Goto(w, "exit") /\ Mu' \in {Mu, Nil}
          /\ UNCHANGED <<taskVars, workerVars, localVars, fileVars, coordinator, faultVars>>
      BY <1>7 DEF CallFails, Running
    <2>2. /\ pc' \in [Worker -> Label] /\ pc'[w] = "exit"
          /\ \A v \in Worker : v # w => pc'[v] = pc[v]
      BY <2>1, <1>0, <1>l, GotoMoves
    <2>3. \A v \in Worker : Moves(v) BY <2>1, <2>2 DEF Moves
    <2> QED BY <2>1, <2>2, <2>3, <1>0 DEF Up
  <1>8. CASE ConcurrentMapAccess(w)
    BY <1>8, <1>0 DEF ConcurrentMapAccess, Moves, Up
  <1>9. CASE Crash(w)
    <2>1. /\ alive' = [alive EXCEPT ![w] = FALSE]
          /\ UNCHANGED <<taskVars, workerVars, Mu, localVars, fileVars, coordinator, misjudged, missed>>
          /\ \/ pc[w] \in {"ask", "map", "reduce", "commit"} /\ Goto(w, "dead")
             \/ UNCHANGED pc
      BY <1>9 DEF Crash
    <2>2. alive' \in [Worker -> BOOLEAN] BY <2>1, <1>0
    <2>3. /\ pc' \in [Worker -> Label] /\ \A v \in Worker : v # w => pc'[v] = pc[v]
          /\ \/ pc[w] \in {"ask", "map", "reduce", "commit"} /\ pc'[w] = "dead"
             \/ pc'[w] = pc[w]
      BY <2>1, <1>0, <1>l, GotoMoves
    <2>4. pc[w] = "ask" => Status[w] # WORK BY NotAtWork
    <2>5. \A v \in Worker : Moves(v) BY <2>1, <2>3, <2>4 DEF Moves
    <2> QED BY <2>1, <2>2, <2>3, <2>5, <1>0 DEF Up
  <1> QED BY <1>1, <1>2, <1>3, <1>4, <1>5, <1>6, <1>7, <1>8, <1>9

\* main ends, or nothing happens.
LEMMA ExitQuiet ==
  ASSUME Tables, Exit \/ UNCHANGED vars
  PROVE  Types' /\ QuietStep
  <1>1. Types' BY DEF Tables, Types, Exit, vars, taskVars, workerVars, localVars, fileVars, faultVars
  <1>2. QuietStep
    BY DEF Exit, vars, taskVars, workerVars, localVars, fileVars, faultVars, Moves, QuietStep, Up
  <1> QED BY <1>1, <1>2

-----------------------------------------------------------------------------
(* Coordinator.Task                                                        *)

\* Of the other workers, a step of w changes nothing.
Others(w) == \A v \in Worker : v # w =>
               /\ pc'[v] = pc[v] /\ Status'[v] = Status[v] /\ Last'[v] = Last[v]
               /\ task'[v] = task[v] /\ todo'[v] = todo[v] /\ inter'[v] = inter[v]

\* So they have what they had.
LEMMA OthersHold ==
  ASSUME NEW w \in Worker, Others(w)
  PROVE  \A v \in Worker : v # w => /\ (Holds(v))' <=> Holds(v)
                                    /\ (Owns(v))' <=> Owns(v)
                                    /\ (IsMap(v))' <=> IsMap(v)
                                    /\ (Num(v))' = Num(v)
  BY DEF Others, Holds, Owns, Lost, IsMap, Num

\* And they are where they were, with what they had written.
LEMMA OthersPlaced ==
  ASSUME Tables, NEW w \in Worker, Others(w), Told(w)', At(w)'
  PROVE  Placed'
  <1> SUFFICES ASSUME NEW v \in Worker, v # w PROVE Told(v)' /\ At(v)' BY DEF Placed
  <1>1. Told(v) /\ At(v) BY DEF Tables, Placed
  <1>2. /\ pc'[v] = pc[v] /\ Status'[v] = Status[v] /\ Last'[v] = Last[v] /\ task'[v] = task[v]
        /\ (IsMap(v))' <=> IsMap(v)
        /\ (Num(v))' = Num(v)
    BY DEF Others, IsMap, Num
  <1> QED BY <1>1, <1>2 DEF Told, At, Lost

LEMMA OthersWrote ==
  ASSUME Tables, NEW w \in Worker, Others(w), Wrote(w)',
         \A m \in MapTask, i \in ReduceTask : files[m][i] # Nil => files'[m][i] # Nil
  PROVE  \A v \in Worker : Wrote(v)'
  <1> SUFFICES ASSUME NEW v \in Worker, v # w PROVE Wrote(v)' OBVIOUS
  <1>1. Wrote(v) /\ Told(v) /\ At(v) BY DEF Tables, Placed, Written
  <1>2. /\ pc'[v] = pc[v] /\ todo'[v] = todo[v] /\ task'[v] = task[v]
        /\ (IsMap(v))' <=> IsMap(v)
        /\ (Num(v))' = Num(v)
    BY DEF Others, IsMap, Num
  <1>3. pc[v] = "map" \/ IsMap(v) => Num(v) \in MapTask BY <1>1 DEF Told, At
  <1> QED BY <1>1, <1>2, <1>3 DEF Wrote

\* A task of the phase is taken and told to the worker.
LEMMA Assigned ==
  ASSUME Tables, NEW w \in Worker, TaskAssign(w)
  PROVE  \E t \in Task :
           /\ task' = [task EXCEPT ![w] = t] /\ t.NReduce = NReduce
           /\ MapPhase => /\ t.TaskType = MAP /\ t.TaskNum \in MapTask
                          /\ MapTasks[t.TaskNum] = IDLE /\ UNCHANGED ReduceTasks
                          /\ MapTasks' = [MapTasks EXCEPT ![t.TaskNum] = INPROC]
           /\ ~MapPhase => /\ t.TaskType # MAP /\ t.TaskNum \in ReduceTask
                           /\ ReduceTasks[t.TaskNum] = IDLE /\ UNCHANGED MapTasks
                           /\ ReduceTasks' = [ReduceTasks EXCEPT ![t.TaskNum] = INPROC]
                           /\ t.Filename = Filename[t.TaskNum]
  <1>0. /\ MapTasks \in [MapTask -> States] /\ ReduceTasks \in [ReduceTask -> States]
        /\ Filename \in [ReduceTask -> Seq(MapTask)] /\ NReduce \in Int
    BY DEF Tables, Types
  <1>1. CASE MapPhase
    <2> DEFINE i == FirstIdle(MapTasks)
               t == [TaskType |-> MAP, TaskNum |-> i, Filename |-> <<>>, NReduce |-> NReduce]
    <2>1. /\ i # Nil /\ MapTasks' = [MapTasks EXCEPT ![i] = INPROC]
          /\ task' = [task EXCEPT ![w] = t] /\ UNCHANGED ReduceTasks
      BY <1>1 DEF TaskAssign, Idle
    <2>2. i \in MapTask /\ MapTasks[i] = IDLE
      BY <1>0, <2>1, FirstIdleRight, MapReduceAssumption DEF MapTask
    <2> HIDE DEF i
    <2>3. t \in Task
      <3>1. i \in Nat BY <2>2, TasksNat
      <3>2. <<>> \in Seq(MapTask) BY SMT
      <3> QED BY <3>1, <3>2, <1>0 DEF Task
    <2>4. t.TaskType = MAP /\ t.TaskNum = i /\ t.NReduce = NReduce OBVIOUS
    <2> HIDE DEF t
    <2> QED BY <1>1, <2>1, <2>2, <2>3, <2>4
  <1>2. CASE ~MapPhase
    <2> DEFINE i == FirstIdle(ReduceTasks)
               t == [TaskType |-> REDUCE, TaskNum |-> i, Filename |-> Filename[i],
                     NReduce |-> NReduce]
    <2>1. /\ i # Nil /\ ReduceTasks' = [ReduceTasks EXCEPT ![i] = INPROC]
          /\ task' = [task EXCEPT ![w] = t] /\ UNCHANGED MapTasks
      BY <1>2 DEF TaskAssign, Idle
    <2>2. i \in ReduceTask /\ ReduceTasks[i] = IDLE
      BY <1>0, <2>1, FirstIdleRight, MapReduceAssumption DEF ReduceTask
    <2> HIDE DEF i
    <2>3. t \in Task
      <3>1. i \in Nat BY <2>2, TasksNat
      <3>2. Filename[i] \in Seq(MapTask) BY <1>0, <2>2
      <3> QED BY <3>1, <3>2, <1>0 DEF Task
    <2>4. t.TaskType = REDUCE /\ t.TaskNum = i /\ t.NReduce = NReduce /\ t.Filename = Filename[i]
      OBVIOUS
    <2>5. REDUCE # MAP BY SMT DEF REDUCE, MAP
    <2> HIDE DEF t
    <2> QED BY <1>2, <2>1, <2>2, <2>3, <2>4, <2>5
  <1> QED BY <1>1, <1>2

\* Task hands out a task (coordinator.go): one more is begun, and one more worker has one.
LEMMA AssignTables ==
  ASSUME Tables, NEW w \in Worker, TaskAssign(w)
  PROVE  Tables'
  <1>0. /\ Types /\ Placed /\ Written /\ Counted BY DEF Tables
  <1>t. /\ MapTasks \in [MapTask -> States] /\ ReduceTasks \in [ReduceTask -> States]
        /\ pc \in [Worker -> Label] /\ task \in [Worker -> Task] /\ NMapped \in Nat
        /\ NReduce \in Int /\ NReduce <= nReduce /\ misjudged \in Nat
    BY <1>0 DEF Types
  <1>1. /\ pc[w] = "ask" /\ Up /\ Workers' = Workers \cup {w} /\ Goto(w, "assigned")
        /\ UNCHANGED <<Filename, NMapped, NReduce, beat, Status, Last, Mu, todo, inter, files, out,
                       coordinator, alive, misjudged>>
    BY DEF TaskAssign, fileVars, faultVars
  <1>2. PICK t \in Task :
           /\ task' = [task EXCEPT ![w] = t] /\ t.NReduce = NReduce
           /\ MapPhase => /\ t.TaskType = MAP /\ t.TaskNum \in MapTask
                          /\ MapTasks[t.TaskNum] = IDLE /\ UNCHANGED ReduceTasks
                          /\ MapTasks' = [MapTasks EXCEPT ![t.TaskNum] = INPROC]
           /\ ~MapPhase => /\ t.TaskType # MAP /\ t.TaskNum \in ReduceTask
                           /\ ReduceTasks[t.TaskNum] = IDLE /\ UNCHANGED MapTasks
                           /\ ReduceTasks' = [ReduceTasks EXCEPT ![t.TaskNum] = INPROC]
                           /\ t.Filename = Filename[t.TaskNum]
    BY Assigned
  <1>3. /\ pc' \in [Worker -> Label] /\ pc'[w] = "assigned"
        /\ \A v \in Worker : v # w => pc'[v] = pc[v]
    BY <1>t, <1>1, GotoMoves DEF Label
  <1>4. /\ task' \in [Worker -> Task] /\ task'[w] = t
        /\ \A v \in Worker : v # w => task'[v] = task[v]
    BY <1>t, <1>2
  <1>5. Others(w) BY <1>1, <1>3, <1>4 DEF Others
  <1>6. /\ INPROC \in States /\ INPROC # IDLE /\ INPROC # COMPLETED /\ 0 \in Int /\ 1 \in Int
        /\ 0 + 1 <= 1 + 0
    BY SMT DEF States, INPROC, IDLE, COMPLETED
  <1>7. /\ MapTasks' \in [MapTask -> States] /\ ReduceTasks' \in [ReduceTask -> States]
        /\ Completed(MapTasks') <= NMapped' /\ Completed(ReduceTasks') <= nReduce - NReduce'
        /\ (Begun(MapTasks) + Begun(ReduceTasks)) + 1 <= Begun(MapTasks') + Begun(ReduceTasks')
    <2>0. Completed(MapTasks) <= NMapped /\ Completed(ReduceTasks) <= nReduce - NReduce
      BY <1>0 DEF Counted
    <2>n. nReduce \in Nat BY MapReduceAssumption
    <2>1. CASE MapPhase
      <3>1. /\ MapTasks' \in [MapTask -> States] /\ Completed(MapTasks') \in Nat
            /\ Begun(MapTasks') \in Nat
            /\ Completed(MapTasks') <= Completed(MapTasks) /\ Begun(MapTasks) + 1 <= Begun(MapTasks')
        <4>1. /\ MapTasks' = [MapTasks EXCEPT ![t.TaskNum] = INPROC] /\ t.TaskNum \in MapTask
              /\ MapTasks[t.TaskNum] = IDLE
          BY <2>1, <1>2
        <4>2. IsFiniteSet(MapTask) BY Finite
        <4>3. /\ MapTasks' \in [MapTask -> States] /\ MapTasks'[t.TaskNum] = INPROC
              /\ \A i \in MapTask : i # t.TaskNum => MapTasks'[i] = MapTasks[i]
          BY <4>1, <1>6, <1>t
        <4> QED BY <4>1, <4>2, <4>3, <1>6, <1>t, Entry
      <3>2. ReduceTasks' = ReduceTasks BY <2>1, <1>2
      <3>3. Completed(MapTasks') <= NMapped BY <2>0, <3>1, <1>0, <1>t, TablesCount, SMT
      <3>4. (Begun(MapTasks) + Begun(ReduceTasks)) + 1 <= Begun(MapTasks') + Begun(ReduceTasks)
        BY <3>1, <1>0, TablesCount, SMT
      <3> QED BY <3>1, <3>2, <3>3, <3>4, <2>0, <1>1, <1>t
    <2>2. CASE ~MapPhase
      <3>1. /\ ReduceTasks' \in [ReduceTask -> States] /\ Completed(ReduceTasks') \in Nat
            /\ Begun(ReduceTasks') \in Nat
            /\ Completed(ReduceTasks') <= Completed(ReduceTasks)
            /\ Begun(ReduceTasks) + 1 <= Begun(ReduceTasks')
        <4>1. /\ ReduceTasks' = [ReduceTasks EXCEPT ![t.TaskNum] = INPROC]
              /\ t.TaskNum \in ReduceTask /\ ReduceTasks[t.TaskNum] = IDLE
          BY <2>2, <1>2
        <4>2. IsFiniteSet(ReduceTask) BY Finite
        <4>3. /\ ReduceTasks' \in [ReduceTask -> States] /\ ReduceTasks'[t.TaskNum] = INPROC
              /\ \A i \in ReduceTask : i # t.TaskNum => ReduceTasks'[i] = ReduceTasks[i]
          BY <4>1, <1>6, <1>t
        <4> QED BY <4>1, <4>2, <4>3, <1>6, <1>t, Entry
      <3>2. MapTasks' = MapTasks BY <2>2, <1>2
      <3>3. Completed(ReduceTasks') <= nReduce - NReduce
        BY <2>0, <2>n, <3>1, <1>0, <1>t, TablesCount, SMT
      <3>4. (Begun(MapTasks) + Begun(ReduceTasks)) + 1 <= Begun(MapTasks) + Begun(ReduceTasks')
        BY <3>1, <1>0, TablesCount, SMT
      <3> QED BY <3>1, <3>2, <3>3, <3>4, <2>0, <1>1, <1>t
    <2> QED BY <2>1, <2>2
  <1>8. Types' BY <1>0, <1>1, <1>3, <1>4, <1>7 DEF Types
  <1>9. Placed'
    <2>0. Told(w) BY <1>0 DEF Placed
    <2>1. Told(w)' BY <2>0, <1>1, <1>2, <1>4, <1>t DEF Told, IsMap, Num
    <2>2. Status[w] # WORK BY <1>1, NotAtWork
    <2>3. At(w)' BY <1>1, <1>3, <2>2 DEF At, Lost
    <2> QED BY <1>5, <2>1, <2>3, OthersPlaced
  <1>10. Written'
    <2>1. Wrote(w)' BY <1>3 DEF Wrote
    <2>2. \A v \in Worker : Wrote(v)' BY <1>1, <1>5, <2>1, OthersWrote
    <2> QED BY <2>2, <1>0, <1>1 DEF Written, Named
  <1>11. \A v \in Worker : v # w => /\ (Holds(v))' <=> Holds(v)
                                    /\ (Owns(v))' <=> Owns(v)
                                    /\ (IsMap(v))' <=> IsMap(v)
                                    /\ (Num(v))' = Num(v)
    BY <1>5, OthersHold
  <1>12. Balance'
    <2>1. Balance BY <1>0, <1>1 DEF Counted
    <2>2. Held' \subseteq Held \cup {w} BY <1>11 DEF Held
    <2>3. Cardinality(Held') <= Cardinality(Held) + 1 BY <2>2, HeldFinite, OneMore
    <2>4. PICK c : c = NMapped + (nReduce - NReduce) OBVIOUS
    <2>5. c \in Int BY <2>4, <1>t, MapReduceAssumption, SMT
    <2>6. c <= c + 0 BY <2>5, SMT
    <2>7. NMapped' + (nReduce - NReduce') <= (NMapped + (nReduce - NReduce)) + 0
      BY <1>1, <2>4, <2>6
    <2>8. misjudged' = misjudged + 0 BY <1>1, <1>t, SMT
    <2> QED BY <2>1, <2>3, <2>7, <2>8, <1>0, <1>6, <1>7, <1>8, BalanceStep
  <1>13. InHand'
    <2>1. InHand BY <1>0, <1>1 DEF Counted
    <2>2. ~Owns(w)
      <3>1. Status[w] # WORK BY <1>1, NotAtWork
      <3> QED BY <3>1, <1>1 DEF Owns
    <2>3. (Owns(w))' /\ (Num(w))' = t.TaskNum /\ ((IsMap(w))' <=> MapPhase)
      BY <1>2, <1>3, <1>4 DEF Owns, Num, IsMap
    <2>4. ASSUME NEW m \in MapTask, MapTasks'[m] = INPROC
          PROVE  \E v \in Worker : (Owns(v))' /\ (IsMap(v))' /\ (Num(v))' = m
      <3>1. CASE MapPhase /\ m = t.TaskNum BY <3>1, <2>3
      <3>2. CASE ~(MapPhase /\ m = t.TaskNum)
        <4>1. MapTasks[m] = INPROC BY <3>2, <2>4, <1>2, <1>t
        <4>2. PICK v \in Worker : Owns(v) /\ IsMap(v) /\ Num(v) = m BY <4>1, <2>1 DEF InHand
        <4> QED BY <4>2, <2>2, <1>11
      <3> QED BY <3>1, <3>2
    <2>5. ASSUME NEW r \in ReduceTask, ReduceTasks'[r] = INPROC
          PROVE  \E v \in Worker : (Owns(v))' /\ ~(IsMap(v))' /\ (Num(v))' = r
      <3>1. CASE ~MapPhase /\ r = t.TaskNum BY <3>1, <2>3
      <3>2. CASE ~(~MapPhase /\ r = t.TaskNum)
        <4>1. ReduceTasks[r] = INPROC BY <3>2, <2>5, <1>2, <1>t
        <4>2. PICK v \in Worker : Owns(v) /\ ~IsMap(v) /\ Num(v) = r BY <4>1, <2>1 DEF InHand
        <4> QED BY <4>2, <2>2, <1>11
      <3> QED BY <3>1, <3>2
    <2> QED BY <2>4, <2>5 DEF InHand
  <1>14. Counted' BY <1>1, <1>7, <1>12, <1>13 DEF Counted, Up
  <1> QED BY <1>8, <1>9, <1>10, <1>14 DEF Tables

\* The partitions that doMap writes are those of the job, in ascending order, and none is left out.
LEMMA PartitionsIn ==
  ASSUME NEW t, t.TaskType = MAP, t.TaskNum \in MapTask, t.NReduce \in Int, t.NReduce <= nReduce,
         ~MapPanics(t)
  PROVE  /\ Partitions(t) \subseteq ReduceTask
         /\ Ascending(Partitions(t)) \in Seq(ReduceTask)
         /\ \A i \in Partitions(t) : i \in Elems(Ascending(Partitions(t)))
  <1> DEFINE S == Partitions(t)
             a == Ascending(S)
  <1>1. S \subseteq ReduceTask
    <2>1. CASE Emits[t.TaskNum] = {} BY <2>1 DEF Partitions
    <2>2. CASE Emits[t.TaskNum] # {}
      <3>1. PICK k : k = t.NReduce OBVIOUS
      <3>2. k \in Int /\ k <= nReduce /\ nReduce \in Nat BY <3>1, MapReduceAssumption
      <3>3. ~(k < 0) /\ k # 0 BY <2>2, <3>1 DEF MapPanics
      <3>4. \A h \in Nat : h % k \in 0..(nReduce - 1) BY <3>2, <3>3, SMT
      <3>5. \A h \in Emits[t.TaskNum] : h \in Nat BY MapReduceAssumption
      <3>6. S = {h % k : h \in Emits[t.TaskNum]} BY <2>2, <3>1 DEF Partitions
      <3> QED BY <3>4, <3>5, <3>6 DEF ReduceTask
    <2> QED BY <2>1, <2>2
  <1> HIDE DEF S
  <1>2. S \subseteq Nat BY <1>1, TasksNat
  <1>3. IsFiniteSet(S) BY <1>1, Finite, FS_Subset
  <1>4. /\ a \in [1..Cardinality(S) -> S] /\ Cardinality(S) \in Nat
        /\ \A x \in S : \E k \in 1..Cardinality(S) : a[k] = x
    BY <1>2, <1>3, Sorted
  <1> HIDE DEF a
  <1>5. a \in Seq(ReduceTask) BY <1>1, <1>4, SMT
  <1>6. \A x \in S : x \in Elems(a) BY <1>4 DEF Elems
  <1> QED BY <1>1, <1>5, <1>6 DEF a, S

\* The worker is recorded and starts on its task (Task, coordinator.go; doMap and doReduce), or
\* doMap panics.
LEMMA RecordTables ==
  ASSUME Tables, NEW w \in Worker, TaskRecord(w)
  PROVE  /\ Tables'
         /\ Others(w)
         /\ pc'[w] \in {"map", "reduce", "dead"} /\ Status'[w] = WORK
         /\ pc'[w] = "reduce" => todo'[w] = task[w].Filename /\ inter'[w] = Once({})
  <1> DEFINE t == task[w]
             rest == CASE t.TaskType = REDUCE -> t.Filename
                       [] MapPanics(t) -> <<>>
                       [] OTHER -> Ascending(Partitions(t))
             to == Back(w, CASE t.TaskType = REDUCE -> "reduce"
                             [] MapPanics(t) -> "dead" [] OTHER -> "map")
             last == [TaskType |-> t.TaskType, TaskNum |-> t.TaskNum]
  <1>0. Types /\ Placed /\ Written /\ Counted BY DEF Tables
  <1>t. /\ pc \in [Worker -> Label] /\ Status \in [Worker -> {FREE, WORK, CRASH}]
        /\ Last \in [Worker -> [TaskType : {MAP, REDUCE}, TaskNum : Nat]]
        /\ todo \in [Worker -> Seq(Nat)] /\ DOMAIN inter = Worker /\ alive \in [Worker -> BOOLEAN]
        /\ task \in [Worker -> Task]
    BY <1>0 DEF Types
  <1>1. /\ pc[w] = "assigned" /\ Goto(w, to)
        /\ Status' = [Status EXCEPT ![w] = WORK] /\ Last' = [Last EXCEPT ![w] = last]
        /\ todo' = [todo EXCEPT ![w] = rest] /\ inter' = [inter EXCEPT ![w] = Once({})]
        /\ alive' = [alive EXCEPT ![w] = alive[w] /\ ~MapPanics(t)]
        /\ UNCHANGED <<MapTasks, ReduceTasks, Filename, NMapped, NReduce, Workers, beat, Mu, task,
                       files, out, coordinator, misjudged>>
    BY DEF TaskRecord, taskVars, fileVars
  <1>2. /\ t \in Task /\ t.TaskType \in {MAP, REDUCE} /\ t.TaskNum \in Nat
        /\ t.Filename \in Seq(MapTask) /\ t.NReduce \in Int
    <2>1. t \in Task BY <1>t
    <2> QED BY <2>1 DEF Task
  <1>3. /\ Told(w) /\ Told(w)'
    <2>1. Told(w) BY <1>0 DEF Placed
    <2>2. Last'[w] = last /\ last.TaskType = t.TaskType /\ last.TaskNum = t.TaskNum BY <1>1, <1>t
    <2>3. Told(w)' BY <2>1, <2>2, <1>1 DEF Told, IsMap, Num
    <2> QED BY <2>1, <2>3
  <1>4. MAP # REDUCE BY SMT DEF MAP, REDUCE
  <1>5. /\ to \in {"map", "reduce", "dead"} /\ to \in Label /\ rest \in Seq(Nat)
        /\ to = "map" => /\ IsMap(w) /\ rest \in Seq(ReduceTask)
                         /\ \A i \in Partitions(t) : i \in Elems(rest)
        /\ to = "reduce" => ~IsMap(w) /\ rest = t.Filename
    <2>1. CASE t.TaskType = REDUCE
      <3>0. ~MapPanics(t) BY <2>1, <1>4 DEF MapPanics
      <3>1. rest = t.Filename /\ to \in {"reduce", "dead"} BY <2>1, <3>0 DEF Back
      <3>2. ~IsMap(w) BY <2>1, <1>4 DEF IsMap
      <3>3. t.Filename \in Seq(Nat) BY <1>2, SeqSubset, TasksNat
      <3> HIDE DEF rest, to
      <3> QED BY <3>1, <3>2, <3>3 DEF Label
    <2>2. CASE t.TaskType # REDUCE /\ MapPanics(t)
      <3>1. rest = <<>> BY <2>2
      <3>4. to = "dead" BY <2>2 DEF Back
      <3>2. <<>> \in Seq(Nat) BY SMT
      <3> HIDE DEF rest, to
      <3> QED BY <3>1, <3>2, <3>4 DEF Label
    <2>3. CASE t.TaskType # REDUCE /\ ~MapPanics(t)
      <3>0. t.TaskType = MAP BY <2>3, <1>2
      <3>1. /\ Ascending(Partitions(t)) \in Seq(ReduceTask)
            /\ \A i \in Partitions(t) : i \in Elems(Ascending(Partitions(t)))
        BY <1>2, <1>3, <2>3, <3>0, PartitionsIn DEF Told, IsMap, Num
      <3>2. rest = Ascending(Partitions(t)) /\ to \in {"map", "dead"} BY <2>3 DEF Back
      <3>3. rest \in Seq(ReduceTask) /\ \A i \in Partitions(t) : i \in Elems(rest) BY <3>1, <3>2
      <3> HIDE DEF rest, to
      <3>4. rest \in Seq(Nat) BY <3>3, SeqSubset, TasksNat
      <3> QED BY <3>0, <3>2, <3>3, <3>4 DEF Label, IsMap
    <2> QED BY <2>1, <2>2, <2>3
  <1> HIDE DEF rest, to
  <1>6. /\ pc' \in [Worker -> Label] /\ pc'[w] = to /\ \A v \in Worker : v # w => pc'[v] = pc[v]
    BY <1>t, <1>1, <1>5, GotoMoves
  <1>7. /\ Status' \in [Worker -> {FREE, WORK, CRASH}] /\ Status'[w] = WORK
        /\ \A v \in Worker : v # w => Status'[v] = Status[v]
    BY <1>t, <1>1
  <1>8. /\ todo' \in [Worker -> Seq(Nat)] /\ todo'[w] = rest
        /\ \A v \in Worker : v # w => todo'[v] = todo[v]
    BY <1>t, <1>1, <1>5
  <1>9. /\ DOMAIN inter' = Worker /\ inter'[w] = Once({})
        /\ \A v \in Worker : v # w => inter'[v] = inter[v]
    BY <1>t, <1>1
  <1>10. /\ Last' \in [Worker -> [TaskType : {MAP, REDUCE}, TaskNum : Nat]] /\ Last'[w] = last
         /\ last.TaskType = t.TaskType /\ last.TaskNum = t.TaskNum
         /\ \A v \in Worker : v # w => Last'[v] = Last[v]
    <2>1. last \in [TaskType : {MAP, REDUCE}, TaskNum : Nat] BY <1>2
    <2> QED BY <2>1, <1>t, <1>1
  <1>11. alive' \in [Worker -> BOOLEAN] BY <1>t, <1>1
  <1>12. Others(w) BY <1>1, <1>6, <1>7, <1>8, <1>9, <1>10 DEF Others
  <1>13. Types' BY <1>0, <1>1, <1>6, <1>7, <1>8, <1>9, <1>10, <1>11 DEF Types
  <1>14. ((IsMap(w))' <=> IsMap(w)) /\ (Num(w))' = Num(w) BY <1>1 DEF IsMap, Num
  <1>15. Placed'
    <2>1. At(w)' BY <1>5, <1>6, <1>10, <1>1, <1>14 DEF At, Num
    <2> QED BY <1>3, <1>12, <2>1, OthersPlaced
  <1>16. Written'
    <2>1. Wrote(w)' BY <1>1, <1>5, <1>6, <1>8, <1>14 DEF Wrote
    <2>2. \A v \in Worker : Wrote(v)' BY <1>1, <1>12, <2>1, OthersWrote
    <2> QED BY <2>2, <1>0, <1>1 DEF Written, Named
  <1>17. \A v \in Worker : v # w => ((Holds(v))' <=> Holds(v)) /\ ((Owns(v))' <=> Owns(v))
    BY <1>12, OthersHold
  <1>18. Holds(w) /\ (Owns(w))' BY <1>1, <1>5, <1>6, <1>7 DEF Holds, Owns
  <1>19. Counted' BY <1>0, <1>1, <1>13, <1>17, <1>18, CountedKept DEF Up
  <1>20. Tables' BY <1>13, <1>15, <1>16, <1>19 DEF Tables
  <1> QED BY <1>12, <1>20, <1>5, <1>6, <1>7, <1>8, <1>9

-----------------------------------------------------------------------------
(* The worker                                                              *)

\* A worker that works on its task keeps it, and the files stay.
LEMMA WorkKept ==
  ASSUME Tables, NEW w \in Worker, Others(w), Types', pc[w] \in {"map", "reduce"},
         pc'[w] \in {pc[w], "commit"}, Wrote(w)',
         UNCHANGED <<MapTasks, ReduceTasks, Filename, NMapped, NReduce, misjudged, task, Last,
                     Status, coordinator>>,
         \A m \in MapTask, i \in ReduceTask : files[m][i] # Nil => files'[m][i] # Nil
  PROVE  Tables'
  <1>0. Types /\ Placed /\ Written /\ Counted BY DEF Tables
  <1>1. Told(w) /\ At(w) BY <1>0 DEF Placed
  <1>2. ((IsMap(w))' <=> IsMap(w)) /\ (Num(w))' = Num(w) BY DEF IsMap, Num
  <1>3. Told(w)' BY <1>1, <1>2 DEF Told
  <1>4. At(w)' BY <1>1, <1>2 DEF At, Lost
  <1>5. Placed' BY <1>3, <1>4, OthersPlaced
  <1>6. \A v \in Worker : Wrote(v)' BY OthersWrote
  <1>7. Named'
    <2>1. \A r \in ReduceTask : Filename[r] \in Seq(MapTask) BY <1>0 DEF Types
    <2>2. \A r \in ReduceTask : \A k \in DOMAIN Filename[r] : Filename[r][k] \in MapTask
      BY <2>1, SMT
    <2> QED BY <2>2, <1>0 DEF Written, Named
  <1>8. Written' BY <1>6, <1>7 DEF Written
  <1>9. \A v \in Worker : v # w => ((Holds(v))' <=> Holds(v)) /\ ((Owns(v))' <=> Owns(v))
    BY OthersHold
  <1>10. Holds(w) /\ (Owns(w) => (Owns(w))') BY DEF Holds, Owns
  <1>11. Counted' BY <1>0, <1>9, <1>10, CountedKept DEF Up
  <1> QED BY <1>5, <1>8, <1>11 DEF Tables

\* doMap names an intermediate file (worker.go).
LEMMA WriteTables ==
  ASSUME Tables, NEW w \in Worker, WriteIntermediate(w)
  PROVE  /\ Tables'
         /\ Others(w) /\ pc' = pc /\ todo'[w] = Tail(todo[w])
         /\ Head(todo[w]) \in ReduceTask /\ Num(w) \in MapTask
         /\ \A i : i \in Elems(todo[w]) <=> i = Head(todo[w]) \/ i \in Elems(Tail(todo[w]))
         /\ files'[Num(w)][Head(todo[w])]
              = {h \in Emits[Num(w)] : h % task[w].NReduce = Head(todo[w])}
         /\ \A m \in MapTask, i \in ReduceTask :
              m # Num(w) \/ i # Head(todo[w]) => files'[m][i] = files[m][i]
  <1> DEFINE m == Num(w)
             i == Head(todo[w])
             c == {h \in Emits[m] : h % task[w].NReduce = i}
  <1>1. /\ pc[w] = "map" /\ todo[w] # <<>> /\ files' = [files EXCEPT ![m][i] = c]
        /\ todo' = [todo EXCEPT ![w] = Tail(todo[w])]
        /\ UNCHANGED <<MapTasks, ReduceTasks, Filename, NMapped, NReduce, Workers, beat, Status, Last,
                       Mu, pc, task, inter, out, coordinator, alive, misjudged>>
    BY DEF WriteIntermediate, taskVars, workerVars, faultVars, Num
  <1>0. Types /\ Wrote(w) /\ Told(w) /\ At(w) BY DEF Tables, Placed, Written
  <1>t. /\ todo \in [Worker -> Seq(Nat)]
        /\ files \in [MapTask -> [ReduceTask -> {Nil} \cup SUBSET Nat]]
    BY <1>0 DEF Types
  <1>2. todo[w] \in Seq(ReduceTask) BY <1>0, <1>1 DEF Wrote
  <1>3. /\ i \in ReduceTask /\ Tail(todo[w]) \in Seq(ReduceTask)
        /\ \A x : x \in Elems(todo[w]) <=> x = i \/ x \in Elems(Tail(todo[w]))
    BY <1>1, <1>2, Rest
  <1>4. IsMap(w) /\ m \in MapTask BY <1>0, <1>1 DEF At, Told
  <1>5. c \in SUBSET Nat /\ c # Nil
    <2>1. c \in SUBSET Emits[m] OBVIOUS
    <2> HIDE DEF c
    <2> QED BY <2>1, <1>4, MapReduceAssumption
  <1> HIDE DEF m, i, c
  <1>6. /\ files' \in [MapTask -> [ReduceTask -> {Nil} \cup SUBSET Nat]]
        /\ files'[m][i] = c
        /\ \A k \in MapTask, j \in ReduceTask : k # m \/ j # i => files'[k][j] = files[k][j]
    BY <1>1, <1>3, <1>4, <1>5, <1>t
  <1>7. /\ todo' \in [Worker -> Seq(Nat)] /\ todo'[w] = Tail(todo[w])
        /\ \A v \in Worker : v # w => todo'[v] = todo[v]
    <2>1. Tail(todo[w]) \in Seq(Nat) BY <1>3, SeqSubset, TasksNat
    <2> QED BY <2>1, <1>1, <1>t
  <1>8. Others(w) BY <1>1, <1>7 DEF Others
  <1>9. Types' BY <1>0, <1>1, <1>6, <1>7 DEF Types
  <1>10. \A k \in MapTask, j \in ReduceTask : files[k][j] # Nil => files'[k][j] # Nil
    BY <1>5, <1>6
  <1>11. (Num(w))' = m BY <1>1 DEF Num, m
  <1>12. Wrote(w)'
    <2>1. ASSUME NEW j \in ReduceTask, j \in Partitions(task[w])
          PROVE  j \in Elems(Tail(todo[w])) \/ files'[m][j] # Nil
      <3>1. j \in Elems(todo[w]) \/ files[m][j] # Nil BY <1>0, <1>1, <2>1 DEF Wrote, m
      <3>2. CASE j = i BY <3>2, <1>5, <1>6
      <3>3. CASE j # i BY <3>1, <3>3, <1>3, <1>4, <1>10
      <3> QED BY <3>2, <3>3
    <2> QED BY <2>1, <1>1, <1>3, <1>7, <1>11 DEF Wrote
  <1>13. Tables' BY <1>1, <1>8, <1>9, <1>10, <1>12, WorkKept
  <1> QED BY <1>1, <1>3, <1>4, <1>6, <1>7, <1>8, <1>13 DEF m, i, c

\* doReduce reads an intermediate file (worker.go).
LEMMA ReadTables ==
  ASSUME Tables, NEW w \in Worker, ReadIntermediate(w)
  PROVE  /\ Tables'
         /\ Others(w) /\ pc' = pc /\ todo'[w] = Tail(todo[w])
         /\ inter'[w] = Appended(inter[w], {<<Head(todo[w]), h>> :
                                            h \in files[Head(todo[w])][Num(w)]})
  <1> DEFINE b == Appended(inter[w], {<<Head(todo[w]), h>> : h \in files[Head(todo[w])][Num(w)]})
  <1>1. /\ pc[w] = "reduce" /\ todo[w] # <<>> /\ inter' = [inter EXCEPT ![w] = b]
        /\ todo' = [todo EXCEPT ![w] = Tail(todo[w])]
        /\ UNCHANGED <<MapTasks, ReduceTasks, Filename, NMapped, NReduce, Workers, beat, Status, Last,
                       Mu, pc, task, files, out, coordinator, alive, misjudged>>
    BY DEF ReadIntermediate, taskVars, workerVars, fileVars, faultVars, Num
  <1> HIDE DEF b
  <1>0. Types BY DEF Tables
  <1>t. todo \in [Worker -> Seq(Nat)] /\ DOMAIN inter = Worker BY <1>0 DEF Types
  <1>2. Tail(todo[w]) \in Seq(Nat)
    <2>1. todo[w] \in Seq(Nat) BY <1>t
    <2> QED BY <2>1, <1>1, Rest
  <1>3. /\ todo' \in [Worker -> Seq(Nat)] /\ todo'[w] = Tail(todo[w])
        /\ \A v \in Worker : v # w => todo'[v] = todo[v]
    BY <1>1, <1>2, <1>t
  <1>4. /\ DOMAIN inter' = Worker /\ inter'[w] = b
        /\ \A v \in Worker : v # w => inter'[v] = inter[v]
    BY <1>1, <1>t
  <1>5. Others(w) BY <1>1, <1>3, <1>4 DEF Others
  <1>6. Types' BY <1>0, <1>1, <1>3, <1>4 DEF Types
  <1>7. Wrote(w)' BY <1>1 DEF Wrote
  <1>8. Tables' BY <1>1, <1>5, <1>6, <1>7, WorkKept
  <1> QED BY <1>1, <1>3, <1>4, <1>5, <1>8 DEF b

\* doReduce names its output file, or doMap has written all its files (worker.go).
LEMMA DoneTables ==
  ASSUME Tables, NEW w \in Worker, WriteOutput(w) \/ MapOver(w)
  PROVE  Tables' /\ Others(w) /\ pc'[w] = "commit"
  <1>0. Types /\ Wrote(w) /\ Told(w) /\ At(w) BY DEF Tables, Placed, Written
  <1>t. pc \in [Worker -> Label] /\ DOMAIN out = ReduceTask BY <1>0 DEF Types
  <1>1. /\ pc[w] \in {"map", "reduce"} /\ todo[w] = <<>> /\ Goto(w, "commit")
        /\ DOMAIN out' = ReduceTask
        /\ UNCHANGED <<MapTasks, ReduceTasks, Filename, NMapped, NReduce, Workers, beat, Status, Last,
                       Mu, task, todo, inter, files, coordinator, alive, misjudged>>
    BY <1>t DEF WriteOutput, MapOver, taskVars, workerVars, localVars, fileVars, faultVars
  <1>2. /\ pc' \in [Worker -> Label] /\ pc'[w] = "commit"
        /\ \A v \in Worker : v # w => pc'[v] = pc[v]
    BY <1>1, <1>t, GotoMoves DEF Label
  <1>3. Others(w) BY <1>1, <1>2 DEF Others
  <1>4. Types' BY <1>0, <1>1, <1>2 DEF Types
  <1>5. ((IsMap(w))' <=> IsMap(w)) /\ (Num(w))' = Num(w) BY <1>1 DEF IsMap, Num
  <1>6. Wrote(w)'
    <2>1. \A j : j \notin Elems(<<>>)
      <3>1. DOMAIN <<>> = {} BY SMT
      <3> QED BY <3>1 DEF Elems
    <2>2. CASE pc[w] = "map" BY <2>1, <2>2, <1>0, <1>1, <1>2, <1>5 DEF Wrote
    <2>3. CASE pc[w] = "reduce"
      <3>1. ~IsMap(w) BY <2>3, <1>0 DEF At
      <3> QED BY <3>1, <1>2, <1>5 DEF Wrote
    <2> QED BY <2>2, <2>3, <1>1
  <1>7. Tables' BY <1>1, <1>2, <1>3, <1>4, <1>6, WorkKept
  <1> QED BY <1>2, <1>3, <1>7

-----------------------------------------------------------------------------
(* Coordinator.CommitOK                                                    *)

\* A file name is added to a list.
LEMMA Appending ==
  ASSUME NEW S, NEW s \in Seq(S), NEW x \in S
  PROVE  /\ Append(s, x) \in Seq(S)
         /\ \A k \in DOMAIN Append(s, x) : \/ k \in DOMAIN s /\ Append(s, x)[k] = s[k]
                                           \/ Append(s, x)[k] = x
         /\ Elems(Append(s, x)) = Elems(s) \cup {x}
  <1>1. /\ Append(s, x) \in Seq(S) /\ Len(s) \in Nat /\ DOMAIN s = 1..Len(s)
        /\ DOMAIN Append(s, x) = 1..(Len(s) + 1)
        /\ \A k \in 1..Len(s) : Append(s, x)[k] = s[k]
        /\ Append(s, x)[Len(s) + 1] = x
    BY SMT
  <1>2. \A k \in 1..(Len(s) + 1) : k \in 1..Len(s) \/ k = Len(s) + 1 BY <1>1, SMT
  <1>3. \A k \in DOMAIN Append(s, x) : \/ k \in DOMAIN s /\ Append(s, x)[k] = s[k]
                                       \/ Append(s, x)[k] = x
    BY <1>1, <1>2
  <1>4. \A k \in DOMAIN s : k \in DOMAIN Append(s, x) /\ Append(s, x)[k] = s[k]
    <2>1. \A k \in 1..Len(s) : k \in 1..(Len(s) + 1) BY <1>1, SMT
    <2> QED BY <2>1, <1>1
  <1>5. Len(s) + 1 \in DOMAIN Append(s, x)
    <2>1. Len(s) + 1 \in 1..(Len(s) + 1) BY <1>1, SMT
    <2> QED BY <2>1, <1>1
  <1>6. Elems(Append(s, x)) = Elems(s) \cup {x} BY <1>1, <1>3, <1>4, <1>5 DEF Elems
  <1> QED BY <1>1, <1>3, <1>6

\* The state of the task and the counter of its kind change together.
LEMMA CommitCounts ==
  ASSUME Tables, NEW w \in Worker, Commit(w)
  PROVE  /\ MapTasks' \in [MapTask -> States] /\ ReduceTasks' \in [ReduceTask -> States]
         /\ NMapped' \in Nat /\ NReduce' \in Int /\ NReduce' <= nReduce
         /\ Completed(MapTasks') <= NMapped' /\ Completed(ReduceTasks') <= nReduce - NReduce'
         /\ NMapped' + (nReduce - NReduce') <= (NMapped + (nReduce - NReduce)) + 1
         /\ (Begun(MapTasks) + Begun(ReduceTasks)) + 0 <= Begun(MapTasks') + Begun(ReduceTasks')
         /\ IsMap(w) => /\ ReduceTasks' = ReduceTasks /\ NReduce' = NReduce /\ NMapped' = NMapped + 1
                        /\ MapTasks'[Num(w)] = COMPLETED
                        /\ \A m \in MapTask : m # Num(w) => MapTasks'[m] = MapTasks[m]
         /\ ~IsMap(w) => /\ MapTasks' = MapTasks /\ NReduce' = NReduce - 1 /\ NMapped' = NMapped
                         /\ ReduceTasks'[Num(w)] = COMPLETED
                         /\ \A r \in ReduceTask : r # Num(w) => ReduceTasks'[r] = ReduceTasks[r]
  <1>0. Types /\ Told(w) /\ Counted BY DEF Tables, Placed
  <1>t. /\ MapTasks \in [MapTask -> States] /\ ReduceTasks \in [ReduceTask -> States]
        /\ NMapped \in Nat /\ NReduce \in Int /\ NReduce <= nReduce /\ nReduce \in Nat
        /\ task \in [Worker -> Task]
    BY <1>0, MapReduceAssumption DEF Types
  <1>1. COMPLETED \in States /\ COMPLETED # IDLE /\ MAP # REDUCE
    BY SMT DEF States, COMPLETED, IDLE, MAP, REDUCE
  <1>2. IsMap(w) <=> task[w].TaskType # REDUCE
    <2>1. task[w] \in Task BY <1>t
    <2> QED BY <2>1, <1>1 DEF IsMap, Task
  <1>3. Completed(MapTasks) <= NMapped /\ Completed(ReduceTasks) <= nReduce - NReduce
    BY <1>0 DEF Counted
  <1>4. /\ Completed(MapTasks) \in Nat /\ Completed(ReduceTasks) \in Nat
        /\ Begun(MapTasks) \in Nat /\ Begun(ReduceTasks) \in Nat
    BY <1>0, TablesCount
  <1>5. CASE IsMap(w)
    <2>1. /\ NMapped' = NMapped + 1 /\ MapTasks' = [MapTasks EXCEPT ![Num(w)] = COMPLETED]
          /\ ReduceTasks' = ReduceTasks /\ NReduce' = NReduce
      BY <1>2, <1>5 DEF Commit, CommitMap, Num
    <2>2. Num(w) \in MapTask BY <1>0, <1>5 DEF Told
    <2>3. /\ MapTasks' \in [MapTask -> States] /\ MapTasks'[Num(w)] = COMPLETED
          /\ \A m \in MapTask : m # Num(w) => MapTasks'[m] = MapTasks[m]
      BY <2>1, <2>2, <1>1, <1>t
    <2>4. /\ Completed(MapTasks') \in Nat /\ Begun(MapTasks') \in Nat
          /\ Completed(MapTasks') <= Completed(MapTasks) + 1 /\ Begun(MapTasks) <= Begun(MapTasks')
      <3>1. IsFiniteSet(MapTask) BY Finite
      <3> QED BY <3>1, <2>2, <2>3, <1>1, <1>t, Entry
    <2>5. NMapped' \in Nat BY <2>1, <1>t, SMT
    <2>6. Completed(MapTasks') <= NMapped' BY <2>1, <2>4, <1>3, <1>4, <1>t, SMT
    <2>7. (Begun(MapTasks) + Begun(ReduceTasks)) + 0 <= Begun(MapTasks') + Begun(ReduceTasks)
      BY <2>4, <1>4, SMT
    <2>8. (NMapped + 1) + (nReduce - NReduce) <= (NMapped + (nReduce - NReduce)) + 1 BY <1>t, SMT
    <2> QED BY <1>5, <2>1, <2>3, <2>5, <2>6, <2>7, <2>8, <1>t, <1>3
  <1>6. CASE ~IsMap(w)
    <2>1. /\ NReduce' = NReduce - 1 /\ ReduceTasks' = [ReduceTasks EXCEPT ![Num(w)] = COMPLETED]
          /\ MapTasks' = MapTasks /\ NMapped' = NMapped
      BY <1>2, <1>6 DEF Commit, CommitReduce, Num
    <2>2. Num(w) \in ReduceTask BY <1>0, <1>6 DEF Told
    <2>3. /\ ReduceTasks' \in [ReduceTask -> States] /\ ReduceTasks'[Num(w)] = COMPLETED
          /\ \A r \in ReduceTask : r # Num(w) => ReduceTasks'[r] = ReduceTasks[r]
      BY <2>1, <2>2, <1>1, <1>t
    <2>4. /\ Completed(ReduceTasks') \in Nat /\ Begun(ReduceTasks') \in Nat
          /\ Completed(ReduceTasks') <= Completed(ReduceTasks) + 1
          /\ Begun(ReduceTasks) <= Begun(ReduceTasks')
      <3>1. IsFiniteSet(ReduceTask) BY Finite
      <3> QED BY <3>1, <2>2, <2>3, <1>1, <1>t, Entry
    <2>5. NReduce' \in Int /\ NReduce' <= nReduce BY <2>1, <1>t, SMT
    <2>6. Completed(ReduceTasks') <= nReduce - NReduce' BY <2>1, <2>4, <1>3, <1>4, <1>t, SMT
    <2>7. (Begun(MapTasks) + Begun(ReduceTasks)) + 0 <= Begun(MapTasks) + Begun(ReduceTasks')
      BY <2>4, <1>4, SMT
    <2>8. NMapped + (nReduce - (NReduce - 1)) <= (NMapped + (nReduce - NReduce)) + 1 BY <1>t, SMT
    <2> QED BY <1>6, <2>1, <2>3, <2>5, <2>6, <2>7, <2>8, <1>t, <1>3
  <1> QED BY <1>5, <1>6

\* A task is committed (CommitOK, coordinator.go).
LEMMA CommitTables ==
  ASSUME Tables, NEW w \in Worker, Commit(w)
  PROVE  Tables' /\ Others(w) /\ pc'[w] = "committing"
  <1>0. Types /\ Told(w) /\ At(w) /\ Wrote(w) /\ Named /\ Counted BY DEF Tables, Placed, Written
  <1>t. /\ pc \in [Worker -> Label] /\ Filename \in [ReduceTask -> Seq(MapTask)] /\ misjudged \in Nat
        /\ task \in [Worker -> Task]
    BY <1>0 DEF Types
  <1>1. /\ pc[w] = "commit" /\ Up /\ Goto(w, "committing") /\ Mu' = w
        /\ UNCHANGED <<Workers, beat, Status, Last, task, todo, inter, files, out, coordinator, alive,
                       misjudged>>
    BY DEF Commit, workerVars, localVars, fileVars, faultVars
  <1>2. /\ MapTasks' \in [MapTask -> States] /\ ReduceTasks' \in [ReduceTask -> States]
        /\ NMapped' \in Nat /\ NReduce' \in Int /\ NReduce' <= nReduce
        /\ Completed(MapTasks') <= NMapped' /\ Completed(ReduceTasks') <= nReduce - NReduce'
        /\ NMapped' + (nReduce - NReduce') <= (NMapped + (nReduce - NReduce)) + 1
        /\ (Begun(MapTasks) + Begun(ReduceTasks)) + 0 <= Begun(MapTasks') + Begun(ReduceTasks')
    BY CommitCounts
  <1>3. /\ pc' \in [Worker -> Label] /\ pc'[w] = "committing"
        /\ \A v \in Worker : v # w => pc'[v] = pc[v]
    BY <1>1, <1>t, GotoMoves DEF Label
  <1>4. Others(w) BY <1>1, <1>3 DEF Others
  <1>5. ((IsMap(w))' <=> IsMap(w)) /\ (Num(w))' = Num(w) BY <1>1 DEF IsMap, Num
  <1>6. /\ Filename' \in [ReduceTask -> Seq(MapTask)] /\ Named'
    <2>1. CASE IsMap(w)
      <3>1. MAP # REDUCE BY SMT DEF MAP, REDUCE
      <3>2. Num(w) \in MapTask BY <1>0, <2>1 DEF Told
      <3>3. Filename' = [i \in ReduceTask |-> IF i \in Partitions(task[w])
                                              THEN Append(Filename[i], Num(w)) ELSE Filename[i]]
        BY <2>1, <3>1 DEF Commit, CommitMap, Num, IsMap
      <3>4. ASSUME NEW r \in ReduceTask
            PROVE  /\ Filename'[r] \in Seq(MapTask)
                   /\ \A k \in DOMAIN Filename'[r] : files'[Filename'[r][k]][r] # Nil
        <4>1. /\ Filename[r] \in Seq(MapTask)
              /\ \A k \in DOMAIN Filename[r] : files'[Filename[r][k]][r] # Nil
          BY <1>0, <1>1, <1>t DEF Named
        <4>2. CASE r \in Partitions(task[w])
          <5>1. Filename'[r] = Append(Filename[r], Num(w)) BY <3>3, <4>2
          <5>2. files'[Num(w)][r] # Nil BY <4>2, <2>1, <1>0, <1>1 DEF Wrote
          <5>3. /\ Filename'[r] \in Seq(MapTask)
                /\ \A k \in DOMAIN Filename'[r] :
                     \/ k \in DOMAIN Filename[r] /\ Filename'[r][k] = Filename[r][k]
                     \/ Filename'[r][k] = Num(w)
            <6>1. PICK s, n : s = Filename[r] /\ n = Num(w) OBVIOUS
            <6>2. /\ Append(s, n) \in Seq(MapTask)
                  /\ \A k \in DOMAIN Append(s, n) :
                       \/ k \in DOMAIN s /\ Append(s, n)[k] = s[k]
                       \/ Append(s, n)[k] = n
              <7>1. s \in Seq(MapTask) /\ n \in MapTask BY <4>1, <6>1, <3>2
              <7> QED BY <7>1, Appending, SMT
            <6> QED BY <5>1, <6>1, <6>2
          <5> QED BY <4>1, <5>2, <5>3
        <4>3. CASE r \notin Partitions(task[w]) BY <3>3, <4>1, <4>3
        <4> QED BY <4>2, <4>3
      <3>5. Filename' \in [ReduceTask -> Seq(MapTask)]
        <4>1. DOMAIN Filename' = ReduceTask BY <3>3
        <4>2. Filename' = [i \in DOMAIN Filename' |-> Filename'[i]] BY <3>3
        <4> QED BY <3>4, <4>1, <4>2
      <3> QED BY <3>4, <3>5 DEF Named
    <2>2. CASE ~IsMap(w)
      <3>1. task[w].TaskType = REDUCE
        <4>1. task[w] \in Task BY <1>t
        <4> QED BY <4>1, <2>2 DEF Task, IsMap
      <3>2. Filename' = Filename BY <3>1 DEF Commit, CommitReduce
      <3> QED BY <3>2, <1>0, <1>1, <1>t DEF Named
    <2> QED BY <2>1, <2>2
  <1>7. Types' BY <1>0, <1>1, <1>2, <1>3, <1>6 DEF Types
  <1>8. Placed'
    <2>1. Told(w)' BY <1>0, <1>1, <1>5 DEF Told
    <2>2. At(w)' BY <1>3 DEF At, Lost
    <2> QED BY <2>1, <2>2, <1>4, OthersPlaced
  <1>9. Written'
    <2>1. Wrote(w)' BY <1>3 DEF Wrote
    <2>2. \A v \in Worker : Wrote(v)' BY <2>1, <1>1, <1>4, OthersWrote
    <2> QED BY <2>2, <1>6 DEF Written
  <1>10. \A v \in Worker : v # w => /\ (Holds(v))' <=> Holds(v)
                                    /\ (Owns(v))' <=> Owns(v)
                                    /\ (IsMap(v))' <=> IsMap(v)
                                    /\ (Num(v))' = Num(v)
    BY <1>4, OthersHold
  <1>11. Balance'
    <2>1. Balance BY <1>0, <1>1 DEF Counted
    <2>2. w \notin Held' /\ w \in Held BY <1>1, <1>3 DEF Held, Holds, Lost
    <2>3. Held' \cup {w} \subseteq Held BY <1>10, <2>2 DEF Held
    <2>4. Cardinality(Held') + 1 <= Cardinality(Held) BY <2>2, <2>3, HeldFinite, OneMore
    <2>5. Cardinality(Held') <= Cardinality(Held) + (-1) BY <2>4, HeldFinite, SMT
    <2>6. misjudged' = misjudged + 0 BY <1>1, <1>t, SMT
    <2>7. 0 \in Int /\ 1 \in Int /\ -1 \in Int /\ 1 + (-1) <= 0 + 0 BY SMT
    <2> QED BY <2>1, <2>5, <2>6, <2>7, <1>0, <1>2, <1>7, BalanceStep
  <1>12. InHand'
    <2>1. InHand BY <1>0, <1>1 DEF Counted
    <2>c. COMPLETED # INPROC BY SMT DEF COMPLETED, INPROC
    <2>2. ASSUME NEW m \in MapTask, MapTasks'[m] = INPROC
          PROVE  \E v \in Worker : (Owns(v))' /\ (IsMap(v))' /\ (Num(v))' = m
      <3>1. MapTasks[m] = INPROC /\ ~(IsMap(w) /\ m = Num(w)) BY <2>2, <2>c, CommitCounts
      <3>2. PICK v \in Worker : Owns(v) /\ IsMap(v) /\ Num(v) = m BY <3>1, <2>1 DEF InHand
      <3> QED BY <3>1, <3>2, <1>10
    <2>3. ASSUME NEW r \in ReduceTask, ReduceTasks'[r] = INPROC
          PROVE  \E v \in Worker : (Owns(v))' /\ ~(IsMap(v))' /\ (Num(v))' = r
      <3>1. ReduceTasks[r] = INPROC /\ ~(~IsMap(w) /\ r = Num(w)) BY <2>3, <2>c, CommitCounts
      <3>2. PICK v \in Worker : Owns(v) /\ ~IsMap(v) /\ Num(v) = r BY <3>1, <2>1 DEF InHand
      <3> QED BY <3>1, <3>2, <1>10
    <2> QED BY <2>2, <2>3 DEF InHand
  <1>13. Counted' BY <1>1, <1>2, <1>11, <1>12 DEF Counted, Up
  <1>14. Tables' BY <1>7, <1>8, <1>9, <1>13 DEF Tables
  <1> QED BY <1>3, <1>4, <1>14

-----------------------------------------------------------------------------
(* Heart                                                                   *)

\* Heart marks a worker and wakes the handlers.
LEMMA HeartMoves ==
  ASSUME Tables, NEW w \in Worker, Heart(w)
  PROVE  /\ Up /\ Status[w] # CRASH
         /\ Status' \in [Worker -> {FREE, WORK, CRASH}] /\ Status'[w] = CRASH
         /\ \A v \in Worker : v # w => Status'[v] = Status[v]
         /\ pc' \in [Worker -> Label]
         /\ \A v \in Worker : pc'[v] = pc[v] \/ (pc[v] = "waiting" /\ pc'[v] = "woken")
         /\ \A v \in Worker : pc'[v] # "waiting"
         /\ UNCHANGED <<Filename, NMapped, NReduce, Workers, beat, Last, Mu, task, todo, inter, files,
                        out, coordinator, alive>>
  <1>t. pc \in [Worker -> Label] /\ Status \in [Worker -> {FREE, WORK, CRASH}]
    BY DEF Tables, Types
  <1> DEFINE l == IF pc[w] = "waiting" THEN "woken" ELSE pc[w]
  <1>1. /\ Up /\ Status[w] # CRASH /\ Status' = [Status EXCEPT ![w] = CRASH]
        /\ Broadcast(w, l)
        /\ UNCHANGED <<Filename, NMapped, NReduce, Workers, beat, Last, Mu, task, todo, inter, files,
                       out, coordinator, alive>>
    BY DEF Heart, GiveUp, localVars, fileVars
  <1>2. l \in Label /\ l # "waiting" /\ (l = pc[w] \/ (pc[w] = "waiting" /\ l = "woken"))
    <2>1. "woken" \in Label /\ "woken" # "waiting" BY DEF Label
    <2>2. CASE pc[w] = "waiting" BY <2>1, <2>2
    <2>3. CASE pc[w] # "waiting" BY <2>3, <1>t
    <2> QED BY <2>2, <2>3
  <1> HIDE DEF l
  <1>3. /\ pc' \in [Worker -> Label] /\ pc'[w] = l
        /\ \A v \in Worker : v # w => \/ pc'[v] = pc[v]
                                      \/ pc[v] = "waiting" /\ pc'[v] = "woken"
    BY <1>1, <1>2, <1>t, BroadcastMoves
  <1>4. \A v \in Worker : v # w => pc'[v] # "waiting" BY <1>1 DEF Broadcast
  <1> QED BY <1>1, <1>2, <1>3, <1>4, <1>t

\* The task that c.Workers has for the worker is idle again.
LEMMA HeartResets ==
  ASSUME Tables, NEW w \in Worker, Heart(w)
  PROVE  /\ MapTasks' \in [MapTask -> States] /\ ReduceTasks' \in [ReduceTask -> States]
         /\ Completed(MapTasks') <= NMapped /\ Completed(ReduceTasks') <= nReduce - NReduce
         /\ (Begun(MapTasks) + Begun(ReduceTasks)) + (-1) <= Begun(MapTasks') + Begun(ReduceTasks')
         /\ Last[w].TaskType = MAP =>
              /\ ReduceTasks' = ReduceTasks /\ MapTasks'[Last[w].TaskNum] = IDLE
              /\ \A m \in MapTask : m # Last[w].TaskNum => MapTasks'[m] = MapTasks[m]
         /\ Last[w].TaskType # MAP =>
              /\ MapTasks' = MapTasks /\ ReduceTasks'[Last[w].TaskNum] = IDLE
              /\ \A r \in ReduceTask : r # Last[w].TaskNum => ReduceTasks'[r] = ReduceTasks[r]
  <1> DEFINE n == Last[w].TaskNum
  <1>0. Types /\ Told(w) /\ Counted BY DEF Tables, Placed
  <1>t. /\ MapTasks \in [MapTask -> States] /\ ReduceTasks \in [ReduceTask -> States]
        /\ NMapped \in Nat /\ NReduce \in Int /\ nReduce \in Nat
        /\ Last \in [Worker -> [TaskType : {MAP, REDUCE}, TaskNum : Nat]]
    BY <1>0, MapReduceAssumption DEF Types
  <1>1. IDLE \in States /\ IDLE # COMPLETED /\ MAP # REDUCE
    BY SMT DEF States, COMPLETED, IDLE, MAP, REDUCE
  <1>2. Last[w].TaskType \in {MAP, REDUCE} BY <1>t
  <1>3. Completed(MapTasks) <= NMapped /\ Completed(ReduceTasks) <= nReduce - NReduce
    BY <1>0 DEF Counted
  <1>4. /\ Completed(MapTasks) \in Nat /\ Completed(ReduceTasks) \in Nat
        /\ Begun(MapTasks) \in Nat /\ Begun(ReduceTasks) \in Nat
    BY <1>0, TablesCount
  <1>5. CASE Last[w].TaskType = MAP
    <2>1. MapTasks' = [MapTasks EXCEPT ![n] = IDLE] /\ ReduceTasks' = ReduceTasks
      BY <1>1, <1>5 DEF Heart, GiveUp
    <2>2. n \in MapTask BY <1>0, <1>5 DEF Told
    <2>3. /\ MapTasks' \in [MapTask -> States] /\ MapTasks'[n] = IDLE
          /\ \A m \in MapTask : m # n => MapTasks'[m] = MapTasks[m]
      BY <2>1, <2>2, <1>1, <1>t
    <2>4. /\ Completed(MapTasks') \in Nat /\ Begun(MapTasks') \in Nat
          /\ Completed(MapTasks') <= Completed(MapTasks) /\ Begun(MapTasks) <= Begun(MapTasks') + 1
      <3>1. IsFiniteSet(MapTask) BY Finite
      <3> HIDE DEF n
      <3> QED BY <3>1, <2>2, <2>3, <1>1, <1>t, Entry
    <2>5. Completed(MapTasks') <= NMapped BY <2>4, <1>3, <1>4, <1>t, SMT
    <2>6. (Begun(MapTasks) + Begun(ReduceTasks)) + (-1) <= Begun(MapTasks') + Begun(ReduceTasks)
      BY <2>4, <1>4, SMT
    <2> QED BY <1>5, <2>1, <2>3, <2>5, <2>6, <1>t, <1>3
  <1>6. CASE Last[w].TaskType # MAP
    <2>1. ReduceTasks' = [ReduceTasks EXCEPT ![n] = IDLE] /\ MapTasks' = MapTasks
      BY <1>2, <1>6 DEF Heart, GiveUp
    <2>2. n \in ReduceTask BY <1>0, <1>6 DEF Told
    <2>3. /\ ReduceTasks' \in [ReduceTask -> States] /\ ReduceTasks'[n] = IDLE
          /\ \A r \in ReduceTask : r # n => ReduceTasks'[r] = ReduceTasks[r]
      BY <2>1, <2>2, <1>1, <1>t
    <2>4. /\ Completed(ReduceTasks') \in Nat /\ Begun(ReduceTasks') \in Nat
          /\ Completed(ReduceTasks') <= Completed(ReduceTasks)
          /\ Begun(ReduceTasks) <= Begun(ReduceTasks') + 1
      <3>1. IsFiniteSet(ReduceTask) BY Finite
      <3> HIDE DEF n
      <3> QED BY <3>1, <2>2, <2>3, <1>1, <1>t, Entry
    <2>5. Completed(ReduceTasks') <= nReduce - NReduce BY <2>4, <1>3, <1>4, <1>t, SMT
    <2>6. (Begun(MapTasks) + Begun(ReduceTasks)) + (-1) <= Begun(MapTasks) + Begun(ReduceTasks')
      BY <2>4, <1>4, SMT
    <2> QED BY <1>6, <2>1, <2>3, <2>5, <2>6, <1>t, <1>3
  <1> QED BY <1>5, <1>6

\* Heart takes the task of a worker (coordinator.go): fewer tasks are begun, and a worker fewer has
\* one, or one more is misjudged.
LEMMA HeartTables ==
  ASSUME Tables, NEW w \in Worker, Heart(w)
  PROVE  /\ Tables'
         /\ \A v \in Worker : (v # w \/ ~Lost(w)) => ((Holds(v))' <=> Holds(v))
         /\ ~(Lost(w))'
         /\ misjudged' = misjudged => Lost(w)
  <1>0. Types /\ Placed /\ Written /\ Counted BY DEF Tables
  <1>1. /\ Up /\ Status[w] # CRASH
        /\ Status' \in [Worker -> {FREE, WORK, CRASH}] /\ Status'[w] = CRASH
        /\ \A v \in Worker : v # w => Status'[v] = Status[v]
        /\ pc' \in [Worker -> Label]
        /\ \A v \in Worker : pc'[v] = pc[v] \/ (pc[v] = "waiting" /\ pc'[v] = "woken")
        /\ UNCHANGED <<Filename, NMapped, NReduce, Workers, beat, Last, Mu, task, todo, inter, files,
                       out, coordinator, alive>>
    BY HeartMoves
  <1>2. /\ MapTasks' \in [MapTask -> States] /\ ReduceTasks' \in [ReduceTask -> States]
        /\ Completed(MapTasks') <= NMapped /\ Completed(ReduceTasks') <= nReduce - NReduce
        /\ (Begun(MapTasks) + Begun(ReduceTasks)) + (-1) <= Begun(MapTasks') + Begun(ReduceTasks')
    BY HeartResets
  <1>3. /\ misjudged \in Nat
        /\ \/ Lost(w) /\ misjudged' = misjudged
           \/ ~Lost(w) /\ misjudged' = misjudged + 1
    BY <1>0 DEF Heart, Types
  <1>4. misjudged' \in Nat /\ misjudged # misjudged + 1 BY <1>3, SMT
  <1>5. Types' BY <1>0, <1>1, <1>2, <1>4 DEF Types
  <1>6. \A v \in Worker : ((IsMap(v))' <=> IsMap(v)) /\ (Num(v))' = Num(v) BY <1>1 DEF IsMap, Num
  <1>7. CRASH # WORK BY SMT DEF CRASH, WORK
  <1>8. /\ \A v \in Worker : v # w => ((Lost(v))' <=> Lost(v)) /\ ((Owns(v))' <=> Owns(v))
        /\ ~(Lost(w))'
        /\ \A l \in {"assigned", "map", "reduce", "commit"}, v \in Worker : pc'[v] = l <=> pc[v] = l
    <2>1. ~(Lost(w))' BY <1>1, <1>7 DEF Lost
    <2>2. \A v \in Worker : v # w => ((Lost(v))' <=> Lost(v)) BY <1>1 DEF Lost
    <2>3. \A l \in {"assigned", "map", "reduce", "commit"}, v \in Worker : pc'[v] = l <=> pc[v] = l
      BY <1>1
    <2>4. \A v \in Worker : v # w => ((Owns(v))' <=> Owns(v)) BY <1>1 DEF Owns
    <2> QED BY <2>1, <2>2, <2>3, <2>4
  <1>9. \A v \in Worker : (v # w \/ ~Lost(w)) => ((Holds(v))' <=> Holds(v)) BY <1>8 DEF Holds
  <1>10. Placed'
    <2> SUFFICES ASSUME NEW v \in Worker PROVE Told(v)' /\ At(v)' BY DEF Placed
    <2>1. Told(v) /\ At(v) BY <1>0 DEF Placed
    <2>2. Told(v)' BY <2>1, <1>1, <1>6 DEF Told
    <2>3. Status'[v] = WORK => v # w /\ Status[v] = WORK BY <1>1, <1>7
    <2>4. (Lost(v))' => Lost(v) BY <1>8
    <2>5. Status'[v] = WORK => pc'[v] = pc[v] BY <2>1, <2>3, <1>1 DEF At
    <2>6. pc'[v] \in {"map", "reduce", "commit"} => pc'[v] = pc[v] BY <1>1
    <2>7. At(v)' BY <2>1, <2>3, <2>4, <2>5, <2>6, <1>1, <1>6 DEF At
    <2> QED BY <2>2, <2>7
  <1>11. Written'
    <2>1. \A v \in Worker : Wrote(v)' BY <1>0, <1>1, <1>6, <1>8 DEF Written, Wrote
    <2> QED BY <2>1, <1>0, <1>1 DEF Written, Named
  <1>12. Balance'
    <2>1. Balance BY <1>0, <1>1 DEF Counted
    <2>2. PICK c : c = NMapped + (nReduce - NReduce) OBVIOUS
    <2>3. c \in Int
      <3>1. NMapped \in Nat /\ NReduce \in Int /\ nReduce \in Nat
        BY <1>0, MapReduceAssumption DEF Types
      <3> QED BY <2>2, <3>1, SMT
    <2>4. c <= c + 0 BY <2>3, SMT
    <2>5. NMapped' + (nReduce - NReduce') <= (NMapped + (nReduce - NReduce)) + 0
      BY <1>1, <2>2, <2>4
    <2>6. /\ 0 \in Int /\ 1 \in Int /\ -1 \in Int /\ 0 + (-1) <= (-1) + 0 /\ 0 + 0 <= (-1) + 1
      BY SMT
    <2>7. CASE Lost(w)
      <3>1. w \in Held /\ w \notin Held' BY <2>7, <1>8 DEF Held, Holds, Lost
      <3>2. Held' \cup {w} \subseteq Held BY <3>1, <1>9 DEF Held
      <3>3. Cardinality(Held') + 1 <= Cardinality(Held) BY <3>1, <3>2, HeldFinite, OneMore
      <3>4. Cardinality(Held') <= Cardinality(Held) + (-1) BY <3>3, HeldFinite, SMT
      <3>5. misjudged' = misjudged + 0
        <4>1. misjudged' = misjudged BY <2>7, <1>3
        <4> QED BY <4>1, <1>3, SMT
      <3> QED BY <2>1, <2>5, <2>6, <3>4, <3>5, <1>0, <1>2, <1>5, BalanceStep
    <2>8. CASE ~Lost(w)
      <3>1. Held' = Held BY <2>8, <1>9 DEF Held
      <3>2. Cardinality(Held') <= Cardinality(Held) + 0 BY <3>1, HeldFinite, SMT
      <3>3. misjudged' = misjudged + 1 BY <2>8, <1>3
      <3> QED BY <2>1, <2>5, <2>6, <3>2, <3>3, <1>0, <1>2, <1>5, BalanceStep
    <2> QED BY <2>7, <2>8
  <1>13. InHand'
    <2>1. InHand BY <1>0, <1>1 DEF Counted
    <2>2. IDLE # INPROC BY SMT DEF IDLE, INPROC
    <2>3. At(w) BY <1>0 DEF Placed
    <2>4. \A v \in Worker : Owns(v) /\ (v # w \/ pc[v] = "assigned") => (Owns(v))'
      BY <1>8 DEF Owns
    <2>5. Owns(w) /\ pc[w] # "assigned" => /\ Last[w].TaskType = task[w].TaskType
                                           /\ Last[w].TaskNum = Num(w)
      BY <2>3 DEF Owns, At, Lost
    <2>6. ASSUME NEW m \in MapTask, MapTasks'[m] = INPROC
          PROVE  \E v \in Worker : (Owns(v))' /\ (IsMap(v))' /\ (Num(v))' = m
      <3>1. MapTasks[m] = INPROC /\ ~(Last[w].TaskType = MAP /\ m = Last[w].TaskNum)
        BY <2>2, <2>6, HeartResets
      <3>2. PICK v \in Worker : Owns(v) /\ IsMap(v) /\ Num(v) = m BY <3>1, <2>1 DEF InHand
      <3>3. v # w \/ pc[v] = "assigned" BY <3>1, <3>2, <2>5 DEF IsMap
      <3> QED BY <3>2, <3>3, <2>4, <1>6
    <2>7. ASSUME NEW r \in ReduceTask, ReduceTasks'[r] = INPROC
          PROVE  \E v \in Worker : (Owns(v))' /\ ~(IsMap(v))' /\ (Num(v))' = r
      <3>1. ReduceTasks[r] = INPROC /\ ~(Last[w].TaskType # MAP /\ r = Last[w].TaskNum)
        BY <2>2, <2>7, HeartResets
      <3>2. PICK v \in Worker : Owns(v) /\ ~IsMap(v) /\ Num(v) = r BY <3>1, <2>1 DEF InHand
      <3>3. v # w \/ pc[v] = "assigned" BY <3>1, <3>2, <2>5 DEF IsMap
      <3> QED BY <3>2, <3>3, <2>4, <1>6
    <2> QED BY <2>6, <2>7 DEF InHand
  <1>14. Counted' BY <1>1, <1>2, <1>12, <1>13 DEF Counted, Up
  <1>15. Tables' BY <1>5, <1>10, <1>11, <1>14 DEF Tables
  <1> QED BY <1>3, <1>4, <1>8, <1>9, <1>15

-----------------------------------------------------------------------------
(* Every step                                                              *)

\* At the start nothing is done and nobody has a task (MakeCoordinator).
LEMMA InitTables == Init => Tables
  <1> SUFFICES ASSUME Init PROVE Tables OBVIOUS
  <1>1. /\ MapTasks = [m \in MapTask |-> IDLE] /\ ReduceTasks = [r \in ReduceTask |-> IDLE]
        /\ Filename = [r \in ReduceTask |-> <<>>] /\ NMapped = 0 /\ NReduce = nReduce
        /\ Workers = {} /\ beat = [w \in Worker |-> FALSE] /\ Status = [w \in Worker |-> FREE]
        /\ Last = [w \in Worker |-> [TaskType |-> MAP, TaskNum |-> 0]] /\ Mu = Nil
        /\ pc = [w \in Worker |-> "off"] /\ task = [w \in Worker |-> NoTask]
        /\ todo = [w \in Worker |-> <<>>] /\ inter = [w \in Worker |-> Once({})]
        /\ files = [m \in MapTask |-> [i \in ReduceTask |-> Nil]]
        /\ out = [r \in ReduceTask |-> Nil] /\ coordinator = "up"
        /\ alive = [w \in Worker |-> TRUE] /\ misjudged = 0
    BY DEF Init
  <1>2. /\ Nfile \in Nat \ {0} /\ nReduce \in Nat BY MapReduceAssumption
  <1>3. /\ 0 \in Nat /\ nReduce \in Int /\ nReduce <= nReduce /\ 0 <= nReduce /\ 0 \in MapTask
        /\ <<>> \in Seq(Nat) /\ <<>> \in Seq(MapTask) /\ DOMAIN <<>> = {} /\ 0 \in Int
        /\ IDLE # COMPLETED /\ IDLE # INPROC /\ IDLE \in States /\ FREE # WORK
    BY <1>2, SMT DEF MapTask, IDLE, COMPLETED, INPROC, States, FREE, WORK
  <1>4. /\ NoTask \in Task /\ NoTask.TaskType = MAP /\ NoTask.TaskNum = 0 /\ NoTask.NReduce = 0
    BY <1>3 DEF NoTask, Task
  <1>5. Types BY <1>1, <1>3, <1>4 DEF Types, Label
  <1>6. Placed
    <2> SUFFICES ASSUME NEW w \in Worker PROVE Told(w) /\ At(w) BY DEF Placed
    <2>1. Told(w) BY <1>1, <1>3, <1>4 DEF Told, IsMap, Num
    <2>2. At(w) BY <1>1, <1>3 DEF At, Lost
    <2> QED BY <2>1, <2>2
  <1>7. Written
    <2>1. \A w \in Worker : Wrote(w) BY <1>1 DEF Wrote
    <2>2. Named BY <1>1, <1>3 DEF Named
    <2> QED BY <2>1, <2>2 DEF Written
  <1>8. /\ Completed(MapTasks) = 0 /\ Completed(ReduceTasks) = 0
        /\ Begun(MapTasks) = 0 /\ Begun(ReduceTasks) = 0
    <2>1. /\ {i \in DOMAIN MapTasks : MapTasks[i] = COMPLETED} = {}
          /\ {i \in DOMAIN ReduceTasks : ReduceTasks[i] = COMPLETED} = {}
          /\ {i \in DOMAIN MapTasks : MapTasks[i] # IDLE} = {}
          /\ {i \in DOMAIN ReduceTasks : ReduceTasks[i] # IDLE} = {}
      BY <1>1, <1>3
    <2> QED BY <2>1, FS_EmptySet DEF Completed, Begun
  <1>9. Cardinality(Held) = 0
    <2>1. Held = {} BY <1>1 DEF Held, Holds, Lost
    <2> QED BY <2>1, FS_EmptySet
  <1>10. 0 <= 0 /\ nReduce - nReduce = 0 /\ 0 + 0 + 0 <= 0 + 0 + 0 BY <1>2, SMT
  <1>11. Balance
    <2>1. 0 + (nReduce - nReduce) + 0 <= 0 + 0 + 0 BY <1>10
    <2> QED BY <2>1, <1>1, <1>8, <1>9 DEF Balance
  <1>12. InHand BY <1>1, <1>3 DEF InHand
  <1>13. Counted BY <1>1, <1>8, <1>10, <1>11, <1>12 DEF Counted, Up
  <1> QED BY <1>5, <1>6, <1>7, <1>13 DEF Tables

\* No step breaks the tables.
LEMMA StepTables ==
  ASSUME Tables, [Next]_vars
  PROVE  Tables'
  <1>1. CASE Exit \/ UNCHANGED vars BY <1>1, ExitQuiet, Quiet
  <1>2. CASE \E w \in Worker : \/ Start(w) \/ TaskStep(w) \/ WorkStep(w) \/ CommitStep(w)
                               \/ BeatStep(w) \/ Heart(w) \/ Crash(w) \/ CallFails(w)
                               \/ ConcurrentMapAccess(w)
    <2>1. PICK w \in Worker : \/ Start(w) \/ TaskStep(w) \/ WorkStep(w) \/ CommitStep(w)
                              \/ BeatStep(w) \/ Heart(w) \/ Crash(w) \/ CallFails(w)
                              \/ ConcurrentMapAccess(w)
      BY <1>2
    <2>2. CASE \/ Start(w) \/ TaskNothing(w) \/ CondWait(w) \/ CondWoken(w) \/ CommitFree(w)
               \/ BeatStep(w) \/ CallFails(w) \/ ConcurrentMapAccess(w) \/ Crash(w)
      BY <2>2, QuietSteps, Quiet
    <2>3. CASE TaskAssign(w) BY <2>3, AssignTables
    <2>4. CASE TaskRecord(w) BY <2>4, RecordTables
    <2>5. CASE WriteIntermediate(w) BY <2>5, WriteTables
    <2>6. CASE ReadIntermediate(w) BY <2>6, ReadTables
    <2>7. CASE WriteOutput(w) \/ MapOver(w) BY <2>7, DoneTables
    <2>8. CASE Commit(w) BY <2>8, CommitTables
    <2>9. CASE Heart(w) BY <2>9, HeartTables
    <2> QED BY <2>1, <2>2, <2>3, <2>4, <2>5, <2>6, <2>7, <2>8, <2>9
            DEF TaskStep, WorkStep, CommitStep
  <1> QED BY <1>1, <1>2 DEF Next

\* What the coordinator's tables say in every behaviour: Told and At, so that Heart resets the task
\* that a worker has; Named, so that doReduce finds the files; and Counted, how far the counters are
\* from the tasks (coordinator.go, worker.go).
THEOREM TablesInvariant == Spec => []Tables
  <1>1. Tables /\ [Next]_vars => Tables' BY StepTables
  <1> QED BY <1>1, InitTables, PTL DEF Spec

\* The coordinator's variables keep their types, and its counters count every completed task and at
\* most as many more as Heart has misjudged workers: they are what Task and Done end a phase by
\* (coordinator.go).
THEOREM CountersRight == Spec => [](TypeOK /\ CountersExact)
  <1>1. Tables => TypeOK BY DEF Tables, Types, TypeOK
  <1>2. Tables => CountersExact BY CountedExact DEF Tables
  <1> QED BY <1>1, <1>2, TablesInvariant, PTL

\* The files that CommitOK names to the reduce tasks exist, whoever Heart takes for crashed
\* (coordinator.go, worker.go).
THEOREM FilesExist == Spec => []IntermediatesExist
  <1>1. ASSUME Tables PROVE IntermediatesExist
    <2>1. \A r \in ReduceTask : Filename[r] \in Seq(MapTask) BY <1>1 DEF Tables, Types
    <2>2. \A r \in ReduceTask : DOMAIN Filename[r] = 1..Len(Filename[r]) BY <2>1, SMT
    <2> QED BY <1>1, <2>2 DEF Tables, Written, Named, IntermediatesExist
  <1> QED BY <1>1, TablesInvariant, PTL

=============================================================================
