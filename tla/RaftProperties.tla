--------------------------- MODULE RaftProperties ---------------------------
(***************************************************************************)
(* What the Raft peer promises, and what its documents say it promises.    *)
(***************************************************************************)
EXTENDS Raft

Terms == 0..MaxTerm
Commands == Command \cup {Nil}
Entry == [LogTerm : Terms, Command : Commands]
Logs == Seq(Entry) \ {<<>>}
Grant == [voter : Server, term : Terms, candidate : Server]
Reign == [leader : Server, elected : Terms, term : Terms]

VoteCall == [from : Server, to : Server, Term : 1..MaxTerm, LastLogIndex : Nat,
             LastLogTerm : Terms, stage : {"request", "reply", "checked", "elected"},
             waited : BOOLEAN, VoteGranted : BOOLEAN, replyTerm : Terms]

AppendReply == [Term : Terms, Success : BOOLEAN, XTerm : Terms \cup {-1}, XLen : Nat, XIndex : Nat]
AppendCall == [from : Server, to : Server, Term : Terms, PrevLogIndex : Nat, PrevLogTerm : Terms,
               Entries : Seq(Entry), LeaderCommit : Nat, stage : {"request", "reply"},
               waited : BOOLEAN, reply : AppendReply]
SnapCall == [from : Server, to : Server, Term : Terms, LastIncludedIndex : Nat,
             LastIncludedTerm : Terms, Snapdata : Seq(Commands),
             stage : {"unread", "request", "installing", "reply"},
             waited : BOOLEAN, replyTerm : Terms]

PersistedState == [CurrentTerm : Terms, VotedFor : Server \cup {Nil}, Log : Logs,
                   LastIncludedIndex : Nat, LastIncludedTerm : Terms, Snapshot : Seq(Commands)]
ApplyMsg == [CommandIndex : Nat, Command : Commands]

\* The fields of Raft that persist() saves.
DurableOK ==
  /\ CurrentTerm \in [Server -> Terms]
  /\ VotedFor \in [Server -> Server \cup {Nil}]
  /\ Log \in [Server -> Logs]
  /\ LastIncludedIndex \in [Server -> Nat]
  /\ LastIncludedTerm \in [Server -> Terms]
  /\ SnapshotData \in [Server -> Seq(Commands)]

\* Every variable has the type its Go declaration gives it; rf.Log always has entry 0 and
\* the state CANDIDATE is never entered.
TypeOK ==
  /\ DurableOK
  /\ persister \in [Server -> PersistedState]
  /\ State \in [Server -> {FOLLOWER, LEADER}]
  /\ CommitIndex \in [Server -> Nat]
  /\ LastApplied \in [Server -> Nat]
  /\ NextIndex \in [Server -> [Server -> Nat]]
  /\ MatchIndex \in [Server -> [Server -> Int]]
  /\ vote \in [Server -> [1..MaxTerm -> Nat]]
  /\ voteCalls \subseteq VoteCall
  /\ granted \subseteq Grant
  /\ reigns \subseteq Reign
  /\ appendCalls \subseteq AppendCall
  /\ snapshotCalls \subseteq SnapCall
  /\ applyMsg \in [Server -> ApplyMsg \cup {Nil}]
  /\ applied \in [Server -> Seq(Commands)]
  /\ saving \in [Server -> Nat]
  /\ restarts \in 0..MaxRestarts

-----------------------------------------------------------------------------
(* Elections                                                               *)

\* RequestVoteHandler and ElectLauncher, across crashes: a peer votes for at most one
\* candidate in a term.
OneVotePerTerm ==
  \A g, h \in granted : g.voter = h.voter /\ g.term = h.term => g.candidate = h.candidate

Voters(c, t) == {v \in Server : [voter |-> v, term |-> t, candidate |-> c] \in granted}

\* SendRequestVote: whoever becomes leader was voted for by a majority in the term of the
\* election, although the counter is shared by goroutines and counts without the lock.
ElectedByMajority == \A r \in reigns : IsMajority(Cardinality(Voters(r.leader, r.elected)))

\* At most one peer wins the election of a term.
OneWinnerPerTerm == \A r, q \in reigns : r.elected = q.elected => r.leader = q.leader

\* RequestVoteHandler and ElectLauncher persist before they answer: a vote that was granted
\* is on disk until a later term is.
VotesOnDisk ==
  \A g \in granted :
    \/ persister[g.voter].CurrentTerm > g.term
    \/ persister[g.voter].CurrentTerm = g.term /\ persister[g.voter].VotedFor = g.candidate

\* The votes are in memory too: nothing but a later term displaces one.
VotesRemembered ==
  \A g \in granted :
    \/ CurrentTerm[g.voter] > g.term
    \/ CurrentTerm[g.voter] = g.term /\ VotedFor[g.voter] = g.candidate

\* A candidate persists its term before it asks for a vote in it, so no term is asked for
\* twice, not even by a candidate that has restarted.
TermsUsedOnDisk ==
  /\ \A s \in Server : persister[s].CurrentTerm <= CurrentTerm[s]
  /\ \A m \in voteCalls : m.Term <= persister[m.from].CurrentTerm
  /\ \A g \in granted : g.term <= persister[g.candidate].CurrentTerm

\* A peer is asked once per election, and has not voted for the candidate until it answers.
AskedOnce ==
  /\ \A m, n \in voteCalls : m.from = n.from /\ m.to = n.to /\ m.Term = n.Term => m = n
  /\ \A m \in voteCalls : m.stage = "request" =>
       [voter |-> m.to, term |-> m.Term, candidate |-> m.from] \notin granted

\* The peers whose votes have arrived at candidate c and have not been counted.
Uncounted(c, t) ==
  {v \in Server : \E m \in voteCalls : /\ m.from = c /\ m.to = v /\ m.Term = t
                                       /\ m.VoteGranted /\ m.stage \in {"reply", "checked"}}

\* The counter never exceeds the votes that were granted, and a goroutine that is about to
\* make its peer leader has seen a majority of them.
CountedVotesGranted ==
  /\ \A s \in Server, t \in 1..MaxTerm :
       vote[s][t] + Cardinality(Uncounted(s, t)) <= Cardinality(Voters(s, t))
  /\ \A m \in voteCalls : m.stage = "elected" => IsMajority(Cardinality(Voters(m.from, m.Term)))

\* The inductive invariant of the elections, without the types.
ElectionInv == /\ OneVotePerTerm
               /\ VotesOnDisk
               /\ VotesRemembered
               /\ TermsUsedOnDisk
               /\ AskedOnce
               /\ CountedVotesGranted
               /\ ElectedByMajority

\* Two peers have been leader of one term.
TwoLeaders == \E r, q \in reigns : r.term = q.term /\ r.leader # q.leader

\* labNotes/lab3b.md: at most one leader per term.
ElectionSafety == ~TwoLeaders

-----------------------------------------------------------------------------
(* Logs                                                                    *)

\* The indices of the entries in a log, entry 0 apart, which stands for the snapshot.
Held(s) == (LastIncludedIndex[s] + 1)..(LogLength(s) - 1)
Holds(s, i) == i \in Held(s)
EntryAt(s, i) == Log[s][V2PIndex(s, i) + 1]

\* persist() follows every change of rf.Log, of the snapshot and of its index: a restart
\* brings back exactly the log the peer had acknowledged.
LogOnDisk ==
  \A s \in Server :
    /\ persister[s].Log = Log[s]
    /\ persister[s].LastIncludedIndex = LastIncludedIndex[s]
    /\ persister[s].LastIncludedTerm = LastIncludedTerm[s]
    /\ persister[s].Snapshot = SnapshotData[s]

\* labNotes/lab3b.md, Log Matching: while no term has had two leaders, logs that agree on
\* the term of an entry agree on it and on everything before it.
LogMatching ==
  \/ \A s \in Server : \A t \in Peers(s) : \A j \in Held(s) \cap Held(t) :
       EntryAt(s, j) # EntryAt(t, j) =>
         \A i \in Held(s) \cap Held(t) : i >= j => EntryAt(s, i).LogTerm # EntryAt(t, i).LogTerm
  \/ TwoLeaders

\* labNotes/lab3b.md, Leader Append-Only: while no term has had two leaders, a leader that
\* stays in office keeps every entry it does not compact.
LeaderAppendOnly ==
  [][\A s \in Server :
       /\ ~TwoLeaders
       /\ State[s] = LEADER /\ State'[s] = LEADER /\ CurrentTerm'[s] = CurrentTerm[s]
       => \A i \in Held(s) : i > LastIncludedIndex'[s] =>
            Holds(s, i)' /\ EntryAt(s, i)' = EntryAt(s, i)]_vars

\* raft.go, MatchIndex: what a leader believes replicated to a peer of its term is there,
\* while at most one append call per pair of peers is in flight.
MatchIndexSound ==
  \/ \A s \in Server : State[s] = LEADER =>
       \A t \in Peers(s) : CurrentTerm[t] = CurrentTerm[s] =>
         \A i \in 1..MatchIndex[s][t] :
           Holds(s, i) => \/ LastIncludedIndex[t] >= i
                          \/ Holds(t, i) /\ EntryAt(t, i) = EntryAt(s, i)
  \/ TwoLeaders

\* The peers that have entry i of leader s, in the log or behind a snapshot.
Keepers(s, i) ==
  {t \in Server : \/ LastIncludedIndex[t] >= i
                  \/ Holds(t, i) /\ Holds(s, i) /\ EntryAt(t, i) = EntryAt(s, i)}

\* raft.go, CommitIndex: an entry counts as committed once a majority have it in their logs.
CommittedOnMajority ==
  \/ \A s \in Server : State[s] = LEADER =>
       \A i \in (LastIncludedIndex[s] + 1)..CommitIndex[s] : IsMajority(Cardinality(Keepers(s, i)))
  \/ TwoLeaders

\* labNotes/lab3b.md, Leader Completeness: a leader has every entry that a peer of its own
\* or an earlier term has committed.
LeaderCompleteness ==
  \/ \A t \in Server : State[t] = LEADER =>
       \A s \in Server : CurrentTerm[t] >= CurrentTerm[s] =>
         \A i \in 1..CommitIndex[s] :
           \/ LastIncludedIndex[t] >= i
           \/ Holds(t, i) /\ (Holds(s, i) => EntryAt(t, i) = EntryAt(s, i))
  \/ TwoLeaders

\* config.go, checkLogs: no two services apply different commands at an index, because no two
\* peers have committed different entries there.
StateMachineSafety ==
  \A s \in Server : \A t \in Peers(s) : \A i \in Held(s) \cap Held(t) :
    i <= CommitIndex[s] /\ i <= CommitIndex[t] => EntryAt(s, i) = EntryAt(t, i)

-----------------------------------------------------------------------------
(* Snapshots and the apply channel                                         *)

\* HeartbeatHandler and SendHeartbeat raise LastApplied with CommitIndex, since a restarted
\* peer has LastApplied = 0: the apply goroutine never reaches below the snapshot.
ApplyAboveSnapshot ==
  \A s \in Server : CommitIndex[s] > LastApplied[s] => LastApplied[s] >= LastIncludedIndex[s]

\* The data has the committed commands up to the label, at least.
Covers(data, label) ==
  /\ Len(data) >= label
  /\ \A i \in 1..label, t \in Server :
       Holds(t, i) /\ i <= CommitIndex[t] => data[i] = EntryAt(t, i).Command

\* HeartBeatLauncher reads the data of a call without the lock, after the index: it may get
\* newer data under an older index, and the follower keeps both as they come (InstallSnapshot).
\* No command up to the index is missing from it all the same, and none differs from what any
\* peer has committed there.
SnapshotCovers ==
  /\ \A s \in Server : Covers(SnapshotData[s], LastIncludedIndex[s])
  /\ \A m \in snapshotCalls : m.stage # "unread" => Covers(m.Snapdata, m.LastIncludedIndex)

\* config.go, applierSnap: commands and snapshots reach the service in index order, over a
\* restart too, while one snapshot call is in flight and no goroutine is preempted.
AppliedInOrder == fault # "apply out of order"

\* labNotes/lab3.md is not sure of it and keeps LastIncludedTerm apart: entry 0 of the log
\* has the term of the last entry in the snapshot.
SnapshotTermInLog == \A s \in Server : Log[s][1].LogTerm = LastIncludedTerm[s]

=============================================================================
