# Specifications of 6.5840-24Spring

TLA+ modules for the distributed-systems labs in this repository, checked with TLC on small
instances and, where a result should hold for every instance, proved with TLAPS.  Paths below
are relative to the repository; the Go code lives in `src/`, the author's notes in `labNotes/`.

## 1. The system

| part | source | state | operations |
|---|---|---|---|
| Raft peer | `src/raft/raft.go` | the struct `Raft` | ElectLauncher, SendRequestVote, RequestVoteHandler, HeartBeatLauncher, SendHeartbeat, HeartbeatHandler, SendSnapshot, InstallSnapshot, Snapshot, Start, ApplyGoroutine, persist/readPersist, Make, Kill |
| persister | `src/raft/persister.go` | Raft state and snapshot as bytes | Save, ReadRaftState, ReadSnapshot, Copy |
| test service of Raft | `src/raft/config.go` | applied logs, saved persisters | applier, applierSnap, ingestSnap, crash1, start1, connect, disconnect |
| RPC network | `src/labrpc/labrpc.go` | ends, servers, connections, reliable/long-delay flags | Call, processReq, isServerDead, Server.dispatch, Enable, AddServer, DeleteServer |
| MapReduce coordinator | `src/mr/coordinator.go` | tasks, workers, counters of finished tasks | Task, CommitOK, Heartbeat, Heart, Done |
| MapReduce worker | `src/mr/worker.go` | current task | doMap, doReduce, AskTasks, CommitTask, SendHeartbeat |
| key/value server | `src/kvsrv/server.go`, `client.go` | store, per-client reply cache | Get, Put, Append, Clear; Clerk.Get, Clerk.PutAppend |
| linearizability checker | `src/porcupine/` | linked list of calls and returns, cache of states | makeEntries, lift, unlift, checkSingle, checkParallel |
| key/value model for it | `src/models/kv.go` | - | Partition, Init, Step |
| tester of the replicated services | `src/kvraft/config.go` | servers, their persisters, names of ends, clerks | StartServer, ShutdownServer, partition, ConnectAll, makeClient, ConnectClient |
| `main/`, `mrapps/`, labgob, debug output, visualization | | - | command lines, plug-ins, encoding, printing |
| kvraft, shardctrler, shardkv servers | | - | skeletons without an implementation |

**How the parts interact.**  A Raft peer reaches the others only through `labrpc`, whose network
loses, delays and reorders calls, and keeps its durable state in a `Persister`.  It hands
committed commands and snapshots to a service through `ApplyCh`, and the service calls back
`Start` and `Snapshot`.  The MapReduce workers and the key/value clerks are clients of one server
each; the clerks use `labrpc` too, so their calls are retried.  The tests record the histories of
clerks and give them to `porcupine`.

**What makes it hard.**  Every RPC of Raft runs in a goroutine of its own that takes and drops
`rf.mu` several times; some fields are read without it; two goroutines write to `ApplyCh`
after releasing it; a crash can come between any two of these steps.  The coordinator's
timeout goroutine and the handlers share state under different locks.  The key/value server
must execute a retried Append once.  The porcupine search mutates and restores a linked list.

## 2. Modules

| module | contents |
|---|---|
| `Raft` | the Raft peer, its persister, its service and the network between peers |
| `RaftProperties` | what the peer promises: types, invariants, action properties |
| `MCRaft` | starting situations and symmetry for TLC |
| `RaftElectionProofs` | the steps that preserve the types and the invariant of the elections |
| `RaftLogProofs` | the steps that preserve the invariants of the logs, of the disk and of the apply goroutine |
| `RaftTheorems` | what is proved of the peers: elections, logs in memory and on disk, matching logs, the apply goroutine |
| `Labrpc` | the network: its tables and the stages of a call |
| `KVStore` | the abstract store: each operation takes effect once, in one step |
| `KVServer` | key/value server and clerks over `Labrpc` |
| `KVProperties` | `KVServer` implements `KVStore`; the inductive invariant; liveness |
| `KVProofs` | the invariant and the refinement, proved |
| `Harness`, `HarnessProperties`, `MCHarness` | the tester of the replicated services over `Labrpc`, with the persisters |
| `HarnessSteps`, `HarnessProofs` | the invariant of the tester, the steps that preserve it, the theorems |
| `MapReduce`, `MapReduceProperties`, `MCMapReduce` | coordinator, workers and main loop |
| `MapReduceTables` | what the coordinator's tables say in every behaviour, proved |
| `MapReduceProofs` | the invariant of a job and what follows from it, proved |
| `Porcupine`, `PorcupineProperties`, `MCPorcupine` | the linearizability checker and the definition it is checked against |

`Labrpc` has no next-state relation of its own: it is composed with the servers and clients of
`KVServer` and of `Harness`, which add the handlers and the callers.  The operators named
`...Never`, `...Again`, `...Silent` and so on, each marked "Mutant" in its comment, are wrong variants of the
definition that follows them and are used by no specification; they show that a property
notices the mistake.

## 3. The Raft model

### State

The variables have the names of the struct's fields, as functions from peers.
`rf.LogLength` is `LogLength(s)`, computed from the log and the snapshot index: the source
assigns it after every change of either, under the same lock.  `rf.Log[p]` is `Log[s][p+1]`.
`persister[s]` is what `persist` last saved.  A snapshot is the sequence of commands it stands
for, so its label can be compared with its content.

`voteCalls`, `appendCalls` and `snapshotCalls` hold one record per RPC goroutine: arguments,
reply and the stage the goroutine is in (`request`, `reply`, and the stages between two of its
critical sections).  A call nobody advances is a lost request or reply; nothing orders the calls.
`labrpc` delivers a request at most once, and so does the model.  Two calls with
equal contents to the same peer are one record.

`vote[s][t]` is the variable `vote` of `ElectLauncher` that the goroutines of one election share.
`applyMsg` is the message ApplyGoroutine is blocked on; an InstallSnapshot handler that
is blocked on `ApplyCh` is a call in stage `installing`.  `applied` and `saving` are the state
of `applierSnap`: what it has applied, and the index of the `Snapshot` call it has decided to
make.  `granted` and `reigns` are history variables no action reads, except that elections are
counted with the first to bound them.

### Actions

An action is one critical section of `rf.mu`, or one access without it, with all it does before
the lock is released, `persist` included.

| source | actions |
|---|---|
| `ElectionGoroutine`, `ElectLauncher` | `ElectLauncher` |
| `RequestVoteHandler` | `RequestVoteHandler` |
| `SendRequestVote` | `VoteReplyStale`, `VoteReplyCurrent` (the check of the term), `CountVote` (atomic counter and the unlocked read of `VotedFor`), `BecomeLeader` (second critical section, with HeartBeatLauncher, which it hands the lock to), `VoteRefused` |
| `HeartBeatGoroutine`, `HeartBeatLauncher` | `HeartBeatGoroutine`, `ReadSnapshotData` (the unlocked read of `rf.SnapshotData`) |
| `HeartbeatHandler` | `HeartbeatRefused`, `HeartbeatMissing`, `HeartbeatConflict`, `HeartbeatAccepted`, `HeartbeatPanics` |
| `SendHeartbeat` | `HeartbeatReplyStale`, `HeartbeatReplyDeposes`, `HeartbeatReplySuccess`, `HeartbeatReplyFailure`, `HeartbeatReplyPanics` |
| `Start` | `Start` |
| `Snapshot` | `Snapshot`, `SnapshotPanics` |
| `InstallSnapshot` | `InstallRefused`, `InstallSnapshot`, then `ServiceInstalls` or `ServiceMismatch` when the service receives the message |
| `SendSnapshot` | `SnapshotReply` |
| `ApplyGoroutine` | `ApplyGoroutine`, `ApplyPanics` |
| `applierSnap`, `ingestSnap` | `ServiceApplies`, `ServiceOutOfOrder`, `ServiceInstalls`, `ServiceMismatch` |
| `crash1`, `start1`, `Make`, `readPersist` | `Restart`, `Init` |

A slice index out of range and a `log.Fatalf` of the service end the process: the action `Stop`
records what happened in `fault`, and nothing runs afterwards.

### What is abstracted

* Timers.  `LastRPC` and the random timeouts decide when an election or a heartbeat starts; in
  the model it can start at any time the state allows.
* The state `CANDIDATE` exists in the source and is never entered; `TypeOK` says so.
* `checkLogs` of the test service compares logs across servers; it is not a fault of the model
  but follows from the invariant `StateMachineSafety`.
* A crash ends every goroutine of the peer.  In the tests `Kill` only sets a flag and the old
  instance runs on without a network until its loops see it.
* `connect` and `disconnect` are covered by losing calls.
* `GetState` and the debugging output change nothing.

### Bounds and scheduling

`MaxTerm`, `MaxElections`, `MaxIndex`, `MaxCalls`, `MaxOverlap` and `MaxRestarts` bound the
state space; each is a conjunct of the guard it limits.  `MaxCalls` is the number of append and
snapshot calls in flight between all peers; `MaxOverlap` is the number of append
calls one peer has in flight to another.  `RunToCompletion` is a scheduling assumption and not
something the code enforces: a goroutine whose RPC has returned, the apply goroutine and the service
finish before a timer fires or a message arrives.  Runs that need depth set it to TRUE, and
runs about preemption set it to FALSE.  The properties that depend on it are named below.

The runs of logs and snapshots start from situations in `MCRaft` (a leader in office; two
leaders with diverging logs, one of them re-elected and the other stale; all peers restarted from
compacted logs).
Every one of them is reachable from `Init` by elections, `Start`, snapshots and crashes.

Deadlock is not checked: with bounded elections, lost messages and panics the bounded system
may stop.

## 4. The other models

### The network (`Labrpc`)

`calls[c]` is the goroutine `processReq` that serves the call of caller `c`, and its stage:
`sent`, `forwarded` (readEndnameInfo found a server, and remembered whether the network is
reliable), `executing`, `executed`, `answering`, `returned`.  The tester may change the tables
between any two of them.  A request or a reply may be dropped when the call saw an unreliable
network.  When the server is deleted, replaced or cut off while a handler runs, `SeeServerDead`
fails the call and leaves the handler among the `orphans`, where it still takes effect.  Sleeps
are arbitrary delays, so longDelays and longReordering add nothing.  `Decode` is what labgob
does to a reply variable that is used twice: a zero value is not transmitted.

### The key/value service (`KVServer`, `KVStore`)

Each handler is one action, since it holds `kv.mu` throughout.  A clerk is in its `operation` loop
or in the `clear` loop after it.  The numbers of `nrand` are pairs of a clerk and a counter: the model does not repeat
one (`client.go:14` puts that at 1e-19).  The history variable `effect` is what the server
answered when the operation of a clerk ran.  The refinement mapping is `store <- data`,
`pending <- op`, `result <- effect`, `returned <- value`; a lost message, a retry, a duplicate
that is answered from the cache and the Clear are stuttering steps.

### The tester (`Harness`)

Every operation of the network takes its lock alone, so a function of the tester is a sequence
of operations, put into `script` and performed one at a time while calls go on.  An instance
`<<i, g>>` is the g-th incarnation of server i; a killed one goes on, because Kill sets a
flag.  The state of an instance is the set of updates it has accepted, which the handler saves
before it answers, as the handlers of `raft.go` do.  `partition` takes any two lists of `Group`
that split the servers, as `make_partition` and the random partitioner of the tests make them; how
they choose is left out.  It is called while all servers are up, as in the tests.  The history
variable `linked` has the pairs of servers that the last `partition` or `ConnectAll` put into one
group, without those that were shut down since.

### MapReduce

`pc[w]` is where a worker, or the handler that serves its call, has got to.  `c.Mu` is a
variable because two of the critical sections are interrupted by steps that do not take it: `Heart` changes task
states and calls Broadcast with the lock of the worker only, and the worker is recorded by
`Task` after `c.Mu` is released.  A reader sees an intermediate file only after its
rename.  `ConcurrentMapAccess` is the abort of the Go runtime when the map of workers is
written while `Heart` ranges over it.

A worker may die at any point.  When it dies with a call under way, the request may have been sent
or not, and the handler of one that was goes on to its end without it (`alive`, `Back`): a task is
then handed to a dead worker, or its commit still counts.  `Heart` looks at the last heartbeat and
at nothing else, so besides a worker that has died with its task (`Lost`) it gives up one that has
died after its commit, during a call, or before it had a task (the zero value says map task 0), and
one that lives and whose first heartbeat is not yet recorded.  In all these cases it makes a task
idle that is completed or in somebody's hands.  The history variable `misjudged` counts them; the
actions do not read it, except that `MaxMisjudged` bounds it.  `missed` says that `Heart` has
called Broadcast between the check of a handler and its Wait.

### Porcupine

`checkSingle` is one round of its loop per step, for every partition at once, with the
receive loop, the timer and the kill flag of `checkParallel` in between.  The doubly linked
list is kept as in the source, with its dangling pointers.  Entries of equal time and kind come in
any order of their operations, the same one for calls and for returns (the sort of the source is
free to use different ones).  `IsLinearization` and `Linearizable` of `PorcupineProperties` are the definition
over whole histories, all keys together.

## 5. Runs

Server sets are symmetric, and so are commands.  T, E, I, C, O, R are the bounds in the order
above; S is `SnapShotInterval`.

| run | from | T E I C O R S | preemption | states | properties |
|---|---|---|---|---|---|
| `RaftVotes` | Init, 3 peers | 2 2 0 1 1 1 0 | yes | 274,266 | TypeOK, OneVotePerTerm, ElectedByMajority, OneWinnerPerTerm, VotesOnDisk, ElectionInv |
| `RaftLog` | diverged, 3 peers | 4 4 2 1 1 0 0 | no | 383,446 | LogMatching, MatchIndexSound, CommittedOnMajority, LeaderCompleteness, StateMachineSafety, LeaderAppendOnly |
| `RaftSnapshot` | led, 2 peers | 2 2 2 2 2 0 1 | yes | 1,159,924 | ApplyAboveSnapshot, SnapshotTermInLog, LogOnDisk, SnapshotCovers |
| `RaftRestarted` | restarted, 3 peers | 2 2 5 1 1 1 3 | no | 949,633 | ApplyAboveSnapshot, AppliedInOrder |

| run | instance | states | properties |
|---|---|---|---|
| `KVServer` | 2 clerks, 2 operations each, 1 key | 141,657 | CacheBounded, KVInv, Linearizable (refinement), OperationsReturn (liveness) |
| `MapReduce` | 2 workers, both may die, 1 mistake of Heart, 2 map and 2 reduce tasks | 648,952 | TypeOK, OutputCorrect, CountersExact, IntermediatesExist, NobodySleepsOverWork, ExitIsFinal, JobEnds (liveness) |
| `Harness` | 3 servers, 1 clerk, 1 restart each, 3 functions of the tester after the start, 1 call | 407,478 | TypeOK, AckedPersisted, OldInstanceDisabled, PartitionIsolates, CallNotStuck (liveness) |
| `Porcupine` | 3 operations of five kinds at four intervals on one key; 2 with a third on another key; the empty history | 766,112 | VerdictRight, PartialsLongest, ListIntact, Terminates (liveness) |

`RaftLog` keeps one append call in flight in the whole system, so a call of the old leader and
one of the new leader do not race in it.  The same configuration with `MaxCalls = 2` was run by
hand and shows no violation (6,484,984 states, 12 minutes with four workers).  Two calls between the
same two peers are the subject of `RaftOverlap`.  `MapReduce` was run by hand too, for its
invariants: with three workers, one death and one mistake of `Heart` (9,442,959 states), and with
two workers, two deaths and two mistakes (4,556,048 states), without a violation.

Why the bounds are enough for the cases they are for.  Raft: two elections and a crash let a voter be
asked again in a term it has voted in; in the diverged situation the leader of term 3 spreads an entry of term 1, and the
stale leader of term 2, whose entry is later, can still win term 4 and overwrite it, unless a
command of term 3 was committed on top; entries are told apart by their terms, so one command is
enough except in `RaftSnapshot`, where the content of snapshots is compared with logs; two calls in
flight between two peers make a late heartbeat meet a snapshot; an interval of 1 compacts at every index, and 3 with five
entries restarts with a snapshot and a tail and takes a second snapshot.  Pairwise behaviour
(snapshots) is checked with two peers, elections and commits with three.  Key/value: two
operations per clerk let a number be drawn while the messages of the operation before are
still around, two clerks interleave on one key, and pieces are distinguished by their number.  MapReduce: two tasks
per phase let one be done while another is open, one worker can take over from the other and die in
turn, and one mistake of `Heart` is enough to count a task twice.
Tester: three functions are a shutdown, a restart and one more around a call, and two partitions
with different borders follow one another.  Porcupine: three
operations on a key are the smallest that make the search backtrack over two calls and meet the
cache.

### Fairness

* `KVServer`: clerks, network and handlers run (weak fairness).  A request or reply is lost
  with probability 0.1, independently of the others, so among infinitely many
  attempts one is forwarded and one is answered (strong fairness of the two steps).
* `MapReduce`: the job does not stop while some worker, handler or `main` can go on
  (`ProgressSpec`, weak fairness of all of them together).  `MapReduceRecovery` and `MapReduceDone` assume more, so that the
  behaviour they find is not one where somebody merely stops: every process and goroutine
  runs, and `Heart` visits the workers (`FairSpec`).  No fairness for crashes or for the abort of
  the runtime.
* `Harness`: the goroutines of the network and the tester run; handlers need not return.
* `Porcupine`: the goroutines run, and a timer that was set fires.

The Raft runs check safety only: with timers that may fire at any time no fairness keeps
a leader in office, and a timing assumption is not something the code gives.

### What the runs show

* **Elections.**  Votes survive crashes and are given once per term.  The unlocked counting
  never makes a leader without a majority, and one peer wins the election of a term.
* **Replication.**  With one append call in flight at a time, goroutines that are not preempted
  and no crashes, logs match, the leader's
  `MatchIndex` never exceeds what a follower has, a commit is on a majority and in the log of
  every later leader, a leader only appends to its own log, and peers have
  committed the same entry at every index.  Matching logs and the leader that only appends do
  not depend on those conditions: they are proved without them (section 6).
* **Snapshots.**  The log and the snapshot in memory are those on disk after every step (the term
  need not be, after a refused vote).  The apply goroutine never
  reaches below the snapshot and entry 0 of the log always has the term of the snapshot.  The data
  of a snapshot may be newer than its index when the leader is preempted, but it never
  lacks a committed command up to that index.  After a restart the services see each index once
  and in order, when goroutines are not preempted.
* **Key/value service.**  It is linearizable and executes each operation once, the cache is
  empty when no update is in progress, and every operation returns.
* **Tester and network.**  No caller has a positive reply for an update the next instance does
  not start with; an instance that was replaced stays cut off; a partition cuts exactly the pairs it should, end by end as
  the tester goes through them, and after restarts too;
  a call waits only for a handler that runs on a live server.
* **MapReduce.**  Wherever workers die, a completed task is counted, a reduce task finds its
  files, and the counters are too high by at most the number of times `Heart` took a task from a
  worker that had not died with it.  As long as it does not do that, a job that ends has the right
  output although tasks are repeated, and nothing is written after an exit.  It can do that in ordinary runs:
  a worker that dies between two tasks is enough (`MapReduceDone`).  Without deaths and such
  mistakes the job ends.
* **Porcupine.**  Verdicts are right, for every key order, timeout and kill; the partial
  linearizations are the longest; the only call that hangs is one with an empty
  history and no timeout.

### Disagreements

Four runs are expected to be violated.  Each states what a note, a comment or an error of the
tests says, and TLC shows the code doing otherwise:

| run | claim | what happens |
|---|---|---|
| `RaftElectionSafety` | `labNotes/lab3b.md:48`: at most one leader per term | `SendRequestVote` checks the term, drops the lock and becomes leader in the term it is in by then, which may have a leader |
| `RaftOverlap` | `raft.go:46`, `lab3b.md:64`: a committed entry is on a majority and not lost | with two append calls in flight, the older one served last truncates entries the leader has counted |
| `MapReduceDone` | `lab1.md:222`: the two counters tell whether all tasks are done | `Heart` makes the last task idle again of a worker that has died after its commit, or lives without a recorded heartbeat; it is done and counted twice |
| `MapReduceRecovery` | `lab1.md:371`, `coordinator.go:278`: the task of a crashed worker goes to another one | `Heart` resets the task and broadcasts without `c.Mu`, between the check and the wait of a handler: the wakeup is lost |

The model shows others, for which there is no run of its own.  `RequestVoteHandler` does not
persist a later term when it refuses the vote (`raft.go:546` against `lab3a.md:80`).
Heartbeats and replies adopt a later term and keep `VotedFor` (`raft.go:758` against the
same note).  `InstallSnapshot` installs a snapshot older than the follower's own (`raft.go:331` against
`lab3.md:304`).  With preemption, a snapshot call carries newer data than its index
(`raft.go:630`) and a command reaches the service after a snapshot that covers it
(`raft.go:976`): the actions `ServiceMismatch` and `ServiceOutOfOrder`, where the test service
stops with `config.go:205` and `config.go:235`, happen in `RaftSnapshot`, and so do the panics
`HeartbeatPanics`, `SnapshotPanics` and `ApplyPanics`; `HeartbeatReplyPanics` happens in `RaftRestarted`.

## 6. Proofs

**Types.**  `RaftTheorems` proves `TypeCorrect`: `Spec => []TypeOK` for any finite set of peers,
any commands and any bounds.  `TypeOK` is inductive as it stands.  It is more than types: logs are
never empty, every slice the actions take is in range outside the panics they name, and the search
for the first entry of a term always finds one.

**Elections.**  `RaftTheorems` proves `OneWinner`: `Spec => []OneWinnerPerTerm`, from the
step-by-step lemmas of `RaftElectionProofs`, for any number of peers, elections, crashes and
preemptions.  The invariant `ElectionInv` is needed because the property says nothing of the
goroutines that are on their way to win an election.  It adds

* `VotesRemembered` and `VotesOnDisk`: a granted vote is in memory and on disk until a later term
  is, so neither a step nor a restart makes room for a second one;
* `TermsUsedOnDisk`: the term of every request and every vote was persisted by the candidate
  first, so a restarted candidate does not start an election of a term again;
* `AskedOnce`: a peer has one call per election and has not voted for the candidate before it is
  served;
* `CountedVotesGranted`: the counter plus the votes that have arrived and are not yet counted
  stays within the votes granted, and a goroutine about to become leader has seen a majority.

A win then has a majority of voters (`MajorityElects`), two majorities share a voter, and that
voter has one candidate per term (`OneVote`).  The proof has a step for each action that touches
votes or terms and one lemma (`QuietInv`) for all the others.

**Logs on disk.**  `RaftTheorems` proves `LogSurvives` and `SnapshotTermKept`.  `LogOnDisk` is not
inductive alone: `HeartbeatHandler` writes the snapshot's term into entry 0 and may return without
persisting, so memory and disk stay equal only because entry 0 has that term already.  `DiskInv`
joins the two facts.  Append, conflict, Start, Snapshot, InstallSnapshot and Restart have a lemma
each for what they do to entry 0 and to the disk; every other step changes no log.

**Logs across peers.**  `RaftTheorems` proves `LogsMatch` (`Spec => []LogMatching`) and
`LeaderAppends` (`Spec => LeaderAppendOnly`), for any peers and commands, with preemption,
crashes, snapshots and any number of calls in flight.  Both properties are about the time before a
term has had two leaders; `RaftElectionSafety` shows that it can come to that, and two leaders of
a term may put different entries at one index.  Logs overlap only in part, because each peer
compacts on its own, and entries travel: the proof therefore speaks of pieces, an index (`base`)
and the entries from there on, where of the entry at the base only the term is known.  The log of
a peer is a piece, and so is what an append call carries with its `PrevLogIndex` and
`PrevLogTerm`, and the label of a snapshot call.  The invariant `LogInv` says

* `Appointed`: a leader, and the sender of an append or snapshot call, was made leader of the term
  in question, and nobody sends to itself;

and, unless a term has had two leaders,

* `AllMatch`: any two pieces with the same term at an index have the same entries up to there;
* `Created`: every entry was made by somebody who was leader of its term;
* `Newest`: a leader's log reaches beyond every entry of its term as long as its disk has no later
  term, and there is no entry of a term before that term is on its leader's disk.

The last one is what makes `Start` safe: no log and no call has an entry of the term at the index
it fills.  A step cuts a piece (`Sub`), grafts an append call on a log at an entry of the same
term (`Grafted`), or adds an entry of the leader's term (`Extended`); a lemma for each says that
matching is kept, and every action is shown to be of one of these forms or to leave logs and calls
alone.  A leader's own log is not reached by `HeartbeatHandler` or `InstallSnapshot` in its term,
since the sender would be a second leader.

**The apply goroutine.**  `ApplyAbove` proves `Spec => []ApplyAboveSnapshot`.  `ApplyInv` adds
what the service does between two of its steps: the index it is about to save, and the one it is
being sent, are not above `LastApplied`.

**Key/value service.**  `KVProofs` proves `ServiceRefinesStore`: `Spec => Linearizable`, that is,
`KVServer` implements `KVStore`, for any clerks, keys and values, any number of operations and any
losses.  The inductive invariant `KVInv` says that the call in progress is the one the clerk's
loop makes (`CallMatches`); that an update has run exactly when its number is in the cache, with
the value it found, until the clerk has its answer (`EffectKept`); and that nothing else is in the
cache (`CacheBounded`, the theorem `CacheStaysBounded`).  From it, the first execution of a
handler maps to `TakeEffect`, a duplicate and a Clear to a stutter, and the return of an operation
to `Respond` with the value it found.

**MapReduce.**  The theorems are about every behaviour of the model, with any workers, numbers of
files and partitions, keys, deaths and mistakes of `Heart`.  `MapReduceTables` proves what holds
whatever `Heart` does: `FilesExist` and `CountersRight`.  The invariant `Tables` has

* `Placed`: a worker has a task of the job, and what `Heart` reads of it in `c.Workers` is the task
  it is at;
* `Written`: a partition that doMap has not left to write is written, and so is every file that
  CommitOK has named;
* `Counted`: a task in progress is somebody's, and the tasks that are not idle are as many as the
  counters and the workers with a task say, but for one each time `Heart` was mistaken.  The last
  part (`Balance`) is needed because `Heart` makes a task idle long before it is counted again.

`MapReduceProofs` proves `JobCorrect`, `DoneRight`, `NoLostWakeup` and `ExitFinal`, which speak of
the time before the first mistake; for `NoLostWakeup` also before a Broadcast of `Heart` has come
between a check and its Wait.  These are what `MapReduceDone` and
`MapReduceRecovery` show, and the theorems say that nothing else breaks these properties.  `JobInv` adds to `Tables`

* `HeldInProc`, `HeldOnce`, `CrashRight`: a task some worker has is in progress, no two workers
  have the same one, and only dead workers are marked;
* `PhasesApart`: no reduce task is handed out before the map tasks are completed;
* `FilesRight`, `NamesRight`: an intermediate file is complete or absent, and CommitOK has named
  each non-empty partition of each completed map task exactly once;
* `ReduceProgress`, `OutputRight`: doReduce has read the pairs of the files that it has left
  behind, each once, and a completed reduce task has the output of the sequential program;
* `EndRight`, `LockRight`, `SleepRight`: when workers are told to exit, who holds `c.Mu`, and that
  a sleeping handler has nothing to do or will be woken by the commit that ends the phase.

The counters are cardinalities of sets that grow and shrink by one task, so the steps of `Task`,
`CommitOK` and `Heart` that change a task's state have lemmas about those cardinalities.

**Tester and network.**  `HarnessProofs` proves `AckedNotLost`, `OldInstancesCut`,
`PartitionsHold` and `HarnessTyped` for any number of servers, any clerks, groups, calls and
restarts, and any sequence of functions of the tester.  `HarnessSteps` has the invariant and the
steps of the network.  The invariant `HarnessInv` describes the tester in
the middle of a function by the operations it has left:

* `Lives`: which operations on a server are left determines whether it runs, whether the network
  knows it and which persister is the next one;
* `DisksRight`, `CallsRight`: what an instance has in memory is in its own persister, and an
  update whose reply is on its way is in the persister the next instance will get.  The reply
  leaves `executed` only when the server is not dead, that is, before `DeleteServer` and so before
  `Copy`;
* `EndsRight`, `DownRight`: only ends of clerks and of current instances will be enabled, and a
  server is disconnected before it is killed;
* `GroupsRight`: an end between two current instances is as `linked` wants it, or what is left to
  do will make it so, whatever was restarted in between.

The operations of a function are a concatenation over loops.  What a concatenation contains, and
in which order, is proved by considering the shortest one for which it would fail, since the
library's induction rules cannot be used.

Assumptions: `ServerAssumption` (the peers are a finite set without `Nil`) and `BoundAssumption`
(the bounds are natural numbers) for Raft; for the key/value service `ClerkAssumption` and
`ServerAssumption` (one end per clerk, one server), `MaxOpsAssumption`, and `NilAssumption` (`Nil`
is neither a value nor an operation); `MapReduceAssumption` (there is a map and a reduce task,
keys are hash values); `HarnessAssumption` (there is a server, groups are lists of servers, and names are made of
servers, incarnations and clerks).  TLC evaluates
them in the runs.

Only model-checked:

* `MatchIndexSound`, `CommittedOnMajority`, `LeaderCompleteness` and `StateMachineSafety`: when
  append calls overlap, what the leader has counted can be lost again (`RaftOverlap`), so commits
  are safe under the bounds of `RaftLog` and not in general;
* `SnapshotCovers`, which needs the agreement on committed entries, and `AppliedInOrder`, which
  needs goroutines that are not preempted and one snapshot call in flight;
* Porcupine, whose properties speak of all linearizations of a history and of recursive
  definitions;
* liveness (`OperationsReturn`, `JobEnds`, `CallNotStuck`, `Terminates`) and everything about
  `ENABLED`, which the installed provers do not handle.

## 7. What is not modelled

* kvraft's, shardctrler's and shardkv's servers and clerks: the handlers are empty
  ("Your code here."), so there is no behaviour.  The testers of shardctrler and shardkv repeat
  kvraft's.
* `porcupine/visualization.go`, debugging output, labgob's warnings about types: output only.
* Porcupine's interface for events (`checkEvents`, `renumber`, `convertEntries`): nothing in the
  repository calls it.
* The applications in `mrapps/` other than the crashes of `crash.go`: the constant `Emits` stands
  for any Map (the runs use one, with an empty partition of the second file), and the output of
  Reduce is a function of the pairs it is given.
* Commands in `main/` for packages that are not in the repository.
* Liveness of Raft, for the reason given under fairness.
* Statistics, time limits and `DisconnectClient` of the testers, `DeleteEnd` and `Cleanup` of the
  network.
