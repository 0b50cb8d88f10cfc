-------------------------------- MODULE Raft --------------------------------
(***************************************************************************)
(* The Raft peer of src/raft/raft.go, with the service of src/raft/config.go *)
(* that consumes its apply channel.                                        *)
(*                                                                         *)
(* An action is what one goroutine does between taking rf.mu and releasing *)
(* it, or one access it makes without the lock.  A call is one RPC         *)
(* goroutine of the source: the record holds the arguments, the reply and  *)
(* the stage the goroutine has reached.  A call that is never advanced is  *)
(* one whose request or reply the network lost, so calls are delivered in  *)
(* any order, late, or never.                                              *)
(***************************************************************************)
EXTENDS Integers, Sequences, FiniteSets

CONSTANTS Server,            \* the peers
          Command,           \* the commands the service submits
          Nil,               \* -1 in VotedFor, nil elsewhere
          RunToCompletion,   \* scheduling: a goroutine that is past its RPC is not preempted
          SnapShotInterval,  \* the service snapshots when (index+1) is a multiple; 0: never
          MaxTerm,           \* bound: highest term a candidate starts
          MaxElections,      \* bound: elections started
          MaxIndex,          \* bound: highest log index Start creates
          MaxCalls,          \* bound: append and snapshot calls in flight
          MaxOverlap,        \* bound: append calls in flight from one peer to another
          MaxRestarts        \* bound: crashes with restart

ASSUME ServerAssumption == IsFiniteSet(Server) /\ Nil \notin Server
ASSUME BoundAssumption == /\ MaxTerm \in Nat /\ MaxElections \in Nat /\ MaxIndex \in Nat
                          /\ MaxCalls \in Nat /\ MaxOverlap \in Nat /\ MaxRestarts \in Nat
                          /\ SnapShotInterval \in Nat /\ RunToCompletion \in BOOLEAN

FOLLOWER == 0
LEADER == 1

VARIABLES CurrentTerm, VotedFor, State,
          Log, LastIncludedIndex, LastIncludedTerm, SnapshotData,
          CommitIndex, LastApplied, NextIndex, MatchIndex,
          persister,      \* what survives a crash
          vote,           \* vote[s][t]: the counter shared by the goroutines of s's election of term t
          voteCalls, appendCalls, snapshotCalls,
          applyMsg,       \* the command ApplyGoroutine is blocked on sending, or Nil
          applied,        \* the service: the commands it has applied, in order
          saving,         \* the service: index of the Snapshot() call it is about to make, or 0
          fault,          \* what stopped the process: the function that panicked or the apply error
          restarts,       \* number of restarts so far
          granted,        \* history: every vote ever granted
          reigns          \* history: every time a peer became leader

termVars == <<CurrentTerm, VotedFor, State>>
logVars == <<Log, LastIncludedIndex, LastIncludedTerm, SnapshotData>>
commitVars == <<CommitIndex, LastApplied>>
leaderVars == <<NextIndex, MatchIndex>>
voteVars == <<vote, voteCalls, granted, reigns>>
applyVars == <<applyMsg, applied, saving>>
peerVars == <<termVars, logVars, commitVars, leaderVars, persister>>
vars == <<peerVars, voteVars, appendCalls, snapshotCalls, applyVars, fault, restarts>>

-----------------------------------------------------------------------------
(* Index arithmetic.  rf.Log[p] of the source is Log[s][p+1].              *)

Min(a, b) == IF a > b THEN b ELSE a
Max(a, b) == IF a > b THEN a ELSE b

LogLength(s) == Len(Log[s]) + LastIncludedIndex[s]
V2PIndex(s, idx) == idx - LastIncludedIndex[s]
P2VIndex(s, idx) == idx + LastIncludedIndex[s]
InRange(s, p) == p \in 0..(Len(Log[s]) - 1)
LastLogTerm(s) == Log[s][Len(Log[s])].LogTerm

Peers(s) == Server \ {s}
IsMajority(n) == n > Cardinality(Server) \div 2

Durable(s) == [CurrentTerm |-> CurrentTerm[s], VotedFor |-> VotedFor[s], Log |-> Log[s],
               LastIncludedIndex |-> LastIncludedIndex[s],
               LastIncludedTerm |-> LastIncludedTerm[s], Snapshot |-> SnapshotData[s]]

\* rf.persist(), called after the assignments of the handler.
Persist(s) == persister' = [persister EXCEPT ![s] = Durable(s)']
\* Mutant: the handler forgets to persist.
PersistIfNever(s, cond) == UNCHANGED persister
PersistIf(s, cond) == IF cond THEN Persist(s) ELSE UNCHANGED persister

\* Mutant: the network delivers a request twice.
AnswerKeeps(calls, m, r) == calls \cup (IF m.waited THEN {r} ELSE {})

\* The goroutine of call m reaches stage r.  Nobody waits for the answer to a
\* call whose caller has restarted.
Answer(calls, m, r) == (calls \ {m}) \cup (IF m.waited THEN {r} ELSE {})

\* A Go run-time panic or a log.Fatalf ends the process in the middle of the step.
Stop(what) ==
  /\ fault' = what
  /\ UNCHANGED <<peerVars, voteVars, appendCalls, snapshotCalls, applyVars, restarts>>

-----------------------------------------------------------------------------
(* Elections                                                               *)

RequestVoteCall(s, i, term) ==
  [from |-> s, to |-> i, Term |-> term, LastLogIndex |-> LogLength(s) - 1,
   LastLogTerm |-> LastLogTerm(s), stage |-> "request", waited |-> TRUE,
   VoteGranted |-> FALSE, replyTerm |-> 0]

\* Mutant: the unused state CANDIDATE is entered.
ElectLauncherCandidate(s) ==
  LET term == CurrentTerm[s] + 1 IN
  /\ State[s] = FOLLOWER
  /\ term <= MaxTerm
  /\ CurrentTerm' = [CurrentTerm EXCEPT ![s] = term]
  /\ State' = [State EXCEPT ![s] = 2]
  /\ VotedFor' = [VotedFor EXCEPT ![s] = s]
  /\ UNCHANGED <<logVars, commitVars, leaderVars, voteVars, appendCalls, snapshotCalls, applyVars,
                 fault, restarts>>
  /\ Persist(s)

\* The election timer of follower s fires.
ElectLauncher(s) ==
  LET term == CurrentTerm[s] + 1 IN
  /\ State[s] = FOLLOWER
  /\ term <= MaxTerm
  /\ Cardinality({g \in granted : g.voter = g.candidate}) < MaxElections
  /\ CurrentTerm' = [CurrentTerm EXCEPT ![s] = term]
  /\ VotedFor' = [VotedFor EXCEPT ![s] = s]
  /\ vote' = [vote EXCEPT ![s][term] = 1]
  /\ voteCalls' = voteCalls \cup {RequestVoteCall(s, i, term) : i \in Peers(s)}
  /\ granted' = granted \cup {[voter |-> s, term |-> term, candidate |-> s]}
  /\ UNCHANGED <<State, logVars, commitVars, leaderVars, reigns, appendCalls, snapshotCalls,
                 applyVars, fault, restarts>>
  /\ Persist(s)

\* Mutant: only the lengths of the logs are compared.
UpToDateByIndex(s, m) == m.LastLogIndex >= LogLength(s) - 1

UpToDate(s, m) == \/ m.LastLogTerm > LastLogTerm(s)
                  \/ /\ m.LastLogTerm = LastLogTerm(s)
                     /\ m.LastLogIndex >= LogLength(s) - 1

\* Mutant: the vote of the current term is forgotten as well.
RememberedVoteNever(s, t) == IF CurrentTerm[s] <= t THEN Nil ELSE VotedFor[s]

\* The vote a peer with this term and vote remembers when it handles a request of term t.
RememberedVote(s, t) == IF CurrentTerm[s] < t THEN Nil ELSE VotedFor[s]

\* Mutant: an earlier vote is not looked at.
GrantsTwice(s, m) == CurrentTerm[s] <= m.Term /\ UpToDate(s, m)

Grants(s, m) == /\ CurrentTerm[s] <= m.Term
                /\ RememberedVote(s, m.Term) \in {Nil, m.from}
                /\ UpToDate(s, m)

RequestVoteHandler(m) ==
  LET s == m.to
      grant == Grants(s, m) IN
  /\ m.stage = "request"
  /\ CurrentTerm' = [CurrentTerm EXCEPT ![s] = Max(@, m.Term)]
  /\ State' = IF CurrentTerm[s] < m.Term THEN [State EXCEPT ![s] = FOLLOWER] ELSE State
  /\ VotedFor' = [VotedFor EXCEPT ![s] = IF grant THEN m.from ELSE RememberedVote(s, m.Term)]
  /\ voteCalls' = Answer(voteCalls, m, [m EXCEPT !.stage = "reply", !.VoteGranted = grant,
                                                 !.replyTerm = CurrentTerm[s]])
  /\ granted' = IF grant THEN granted \cup {[voter |-> s, term |-> m.Term, candidate |-> m.from]}
                ELSE granted
  /\ UNCHANGED <<logVars, commitVars, leaderVars, vote, reigns, appendCalls, snapshotCalls,
                 applyVars, fault, restarts>>
  \* the second disjunct of the source's condition is tested after the term was raised
  /\ PersistIf(s, grant \/ CurrentTerm'[s] < m.Term)

\* SendRequestVote, 1: the reply is only used in the term that asked for it.
VoteReplyStale(m) ==
  /\ m.stage = "reply"
  /\ CurrentTerm[m.from] # m.Term
  /\ State' = [State EXCEPT ![m.from] = FOLLOWER]
  /\ voteCalls' = voteCalls \ {m}
  /\ UNCHANGED <<CurrentTerm, VotedFor, logVars, commitVars, leaderVars, persister, vote, granted,
                 reigns, appendCalls, snapshotCalls, applyVars, fault, restarts>>

VoteReplyCurrent(m) ==
  /\ m.stage = "reply"
  /\ CurrentTerm[m.from] = m.Term
  /\ voteCalls' = (voteCalls \ {m}) \cup {[m EXCEPT !.stage = "checked"]}
  /\ UNCHANGED <<peerVars, vote, granted, reigns, appendCalls, snapshotCalls, applyVars, fault,
                 restarts>>

\* Mutant: refusals are counted as votes.
CountVoteAlways(m) ==
  LET s == m.from
      votes == vote[s][m.Term] + 1 IN
  /\ m.stage = "checked"
  /\ vote' = [vote EXCEPT ![s][m.Term] = votes]
  /\ voteCalls' = (voteCalls \ {m}) \cup
                    (IF IsMajority(votes) /\ VotedFor[s] = s
                     THEN {[m EXCEPT !.stage = "elected"]} ELSE {})
  /\ UNCHANGED <<peerVars, granted, reigns, appendCalls, snapshotCalls, applyVars, fault, restarts>>

\* 2: the vote is counted and rf.VotedFor read, without the lock.
CountVote(m) ==
  LET s == m.from
      votes == vote[s][m.Term] + 1 IN
  /\ m.stage = "checked"
  /\ m.VoteGranted
  /\ vote' = [vote EXCEPT ![s][m.Term] = votes]
  /\ voteCalls' = (voteCalls \ {m}) \cup
                    (IF IsMajority(votes) /\ VotedFor[s] = s
                     THEN {[m EXCEPT !.stage = "elected"]} ELSE {})
  /\ UNCHANGED <<peerVars, granted, reigns, appendCalls, snapshotCalls, applyVars, fault, restarts>>

\* 3: a refusal from a peer in a later term.
VoteRefused(m) ==
  LET s == m.from
      later == m.replyTerm > CurrentTerm[s] IN
  /\ m.stage = "checked"
  /\ ~m.VoteGranted
  /\ CurrentTerm' = [CurrentTerm EXCEPT ![s] = Max(@, m.replyTerm)]
  /\ State' = IF later THEN [State EXCEPT ![s] = FOLLOWER] ELSE State
  /\ voteCalls' = voteCalls \ {m}
  /\ UNCHANGED <<VotedFor, logVars, commitVars, leaderVars, vote, granted, reigns, appendCalls,
                 snapshotCalls, applyVars, fault, restarts>>
  /\ PersistIf(s, later)

-----------------------------------------------------------------------------
(* Heartbeats and log replication                                          *)

NoReply == [Term |-> 0, Success |-> FALSE, XTerm |-> 0, XLen |-> 0, XIndex |-> 0]

HeartbeatCall(s, i, next) ==
  [from |-> s, to |-> i, Term |-> CurrentTerm[s], PrevLogIndex |-> next - 1,
   PrevLogTerm |-> Log[s][V2PIndex(s, next)].LogTerm,
   Entries |-> SubSeq(Log[s], V2PIndex(s, next) + 1, Len(Log[s])),
   LeaderCommit |-> CommitIndex[s], stage |-> "request", waited |-> TRUE, reply |-> NoReply]

SnapshotCall(s, i, stage, data) ==
  [from |-> s, to |-> i, Term |-> CurrentTerm[s], LastIncludedIndex |-> LastIncludedIndex[s],
   LastIncludedTerm |-> LastIncludedTerm[s], Snapdata |-> data, stage |-> stage,
   waited |-> TRUE, replyTerm |-> 0]

Overlap(calls, s, i) == Cardinality({c \in calls : c.from = s /\ c.to = i /\ c.waited})
NetworkBound(appends, snapshots) ==
  /\ Cardinality(appends) + Cardinality(snapshots) <= MaxCalls
  /\ \A c \in appends : Overlap(appends, c.from, c.to) <= MaxOverlap

NeedsSnapshot(s, next) == V2PIndex(s, next) - 1 < 0

\* The leader arranges one call per peer under the lock.  The network loses any of
\* them.  The data of a snapshot call is read later, without the lock.
HeartBeatLauncher(s, next) ==
  LET behind == {i \in Peers(s) : NeedsSnapshot(s, next[i])}
      heartbeats == {HeartbeatCall(s, i, next[i]) : i \in Peers(s) \ behind}
      snapshots == {SnapshotCall(s, i, "unread", <<>>) : i \in behind} IN
  \E sent \in SUBSET heartbeats, sentSnapshots \in SUBSET snapshots :
    /\ NetworkBound(appendCalls \cup sent, snapshotCalls \cup sentSnapshots)
    /\ appendCalls' = appendCalls \cup sent
    /\ snapshotCalls' = snapshotCalls \cup sentSnapshots

\* SendRequestVote, 2, with the lock taken again: the peer becomes leader in whatever
\* term it is in by now and hands the lock over to HeartBeatLauncher.
BecomeLeader(m) ==
  LET s == m.from
      next == [i \in Server |-> LogLength(s)] IN
  /\ m.stage = "elected"
  /\ State' = [State EXCEPT ![s] = LEADER]
  /\ NextIndex' = [NextIndex EXCEPT ![s] = next]
  /\ MatchIndex' = [MatchIndex EXCEPT ![s] = [i \in Server |-> -1]]
  /\ HeartBeatLauncher(s, next)
  /\ voteCalls' = voteCalls \ {m}
  /\ reigns' = reigns \cup {[leader |-> s, elected |-> m.Term, term |-> CurrentTerm[s]]}
  /\ UNCHANGED <<CurrentTerm, VotedFor, logVars, commitVars, persister, vote, granted, applyVars,
                 fault, restarts>>

\* rf.Log[rf.V2PIndex(rf.NextIndex[i])-1] must not be past the end of the log.
HeartBeatGoroutine(s) ==
  /\ State[s] = LEADER
  /\ IF \A i \in Peers(s) : NextIndex[s][i] <= LogLength(s)
     THEN /\ HeartBeatLauncher(s, NextIndex[s])
          /\ UNCHANGED <<peerVars, voteVars, applyVars, fault, restarts>>
     ELSE Stop("HeartBeatLauncher panics")

\* The goroutine started by the heartbeat fills in rf.SnapshotData without the lock.
ReadSnapshotData(m) ==
  /\ m.stage = "unread"
  /\ snapshotCalls' = (snapshotCalls \ {m}) \cup
                        {[m EXCEPT !.stage = "request", !.Snapdata = SnapshotData[m.from]]}
  /\ UNCHANGED <<peerVars, voteVars, appendCalls, applyVars, fault, restarts>>

\* Mutant: heartbeats of earlier terms are served too.
ServesAny(m) == TRUE

\* HeartbeatHandler serves a heartbeat whose term has not passed.
Serves(m) == m.Term >= CurrentTerm[m.to]

\* HeartbeatHandler, 0: a later term is adopted; VotedFor is left as it is.
AdoptTerm(s, t) ==
  /\ CurrentTerm' = [CurrentTerm EXCEPT ![s] = Max(@, t)]
  /\ State' = IF t > CurrentTerm[s] THEN [State EXCEPT ![s] = FOLLOWER] ELSE State
  /\ UNCHANGED VotedFor

\* The reply reaches the caller's goroutine or is lost.
HeartbeatReply(m, reply) ==
  appendCalls' \in {Answer(appendCalls, m, [m EXCEPT !.stage = "reply", !.reply = reply]),
                    appendCalls \ {m}}

\* 1: the leader's term has passed.
HeartbeatRefused(m) ==
  /\ m.stage = "request"
  /\ m.Term < CurrentTerm[m.to]
  /\ HeartbeatReply(m, [NoReply EXCEPT !.Term = CurrentTerm[m.to]])
  /\ UNCHANGED <<peerVars, voteVars, snapshotCalls, applyVars, fault, restarts>>

\* 2a: the entry to check does not exist.
HeartbeatMissing(m) ==
  LET s == m.to IN
  /\ m.stage = "request"
  /\ Serves(m)
  /\ m.PrevLogIndex > LogLength(s) - 1
  /\ AdoptTerm(s, m.Term)
  /\ HeartbeatReply(m, [NoReply EXCEPT !.Term = CurrentTerm[s], !.XTerm = -1,
                                       !.XLen = LogLength(s)])
  /\ UNCHANGED <<logVars, commitVars, leaderVars, voteVars, snapshotCalls, applyVars, fault,
                 restarts>>
  /\ PersistIf(s, m.Term > CurrentTerm[s])

\* The entry to check is below the follower's snapshot: a negative slice index.
HeartbeatPanics(m) ==
  /\ m.stage = "request"
  /\ Serves(m)
  /\ V2PIndex(m.to, m.PrevLogIndex) < 0
  /\ Stop("HeartbeatHandler panics")

ToBeChecked(s, p) == IF p = 0 THEN LastIncludedTerm[s] ELSE Log[s][p + 1].LogTerm

\* rf.Log after rf.Log[0].LogTerm = rf.LastIncludedTerm when entry 0 is the one checked
CheckedLog(s, p) == IF p = 0 THEN [Log[s] EXCEPT ![1].LogTerm = LastIncludedTerm[s]] ELSE Log[s]

\* The physical index of the first entry of a term, as the loops over rf.Log find it.
FirstOfTerm(log, term) ==
  CHOOSE i \in 0..(Len(log) - 1) : /\ log[i + 1].LogTerm = term
                                   /\ \A j \in 0..(i - 1) : log[j + 1].LogTerm # term

\* 2b: the entry to check has another term; it and all that follow are deleted.
HeartbeatConflict(m) ==
  LET s == m.to
      p == V2PIndex(s, m.PrevLogIndex)
      log == CheckedLog(s, p)
      term == ToBeChecked(s, p) IN
  /\ m.stage = "request"
  /\ Serves(m)
  /\ InRange(s, p)
  /\ m.PrevLogTerm # term
  /\ AdoptTerm(s, m.Term)
  /\ Log' = [Log EXCEPT ![s] = SubSeq(log, 1, Max(p, 1))]
  /\ HeartbeatReply(m, [NoReply EXCEPT !.Term = CurrentTerm[s], !.XTerm = term,
                                       !.XIndex = P2VIndex(s, FirstOfTerm(log, term))])
  /\ UNCHANGED <<LastIncludedIndex, LastIncludedTerm, SnapshotData, commitVars, leaderVars,
                 voteVars, snapshotCalls, applyVars, fault, restarts>>
  /\ Persist(s)

\* Mutant: the entries are appended without deleting what follows the checked one.
AppendedLogKeeps(log, p, entries) == log \o entries

\* append(rf.Log[:tobeCheckIndex+1], args.Entries...), unless there are no entries
AppendedLog(log, p, entries) == IF entries = <<>> THEN log ELSE SubSeq(log, 1, p + 1) \o entries

\* Mutants: LastApplied stays below the snapshot after a restart, or skips an entry.
RaisedLastAppliedNot(s) == LastApplied[s]
RaisedLastAppliedSkips(s) == Max(LastApplied[s], LastIncludedIndex[s] + 1)

\* LastApplied after CommitIndex has moved: a restarted peer has LastApplied = 0.
RaisedLastApplied(s) == Max(LastApplied[s], LastIncludedIndex[s])

\* The checks pass: everything after the checked entry is replaced by the leader's entries.
HeartbeatAccepted(m) ==
  LET s == m.to
      p == V2PIndex(s, m.PrevLogIndex)
      new == AppendedLog(CheckedLog(s, p), p, m.Entries)
      commits == m.LeaderCommit > CommitIndex[s] IN
  /\ m.stage = "request"
  /\ Serves(m)
  /\ InRange(s, p)
  /\ m.PrevLogTerm = ToBeChecked(s, p)
  /\ AdoptTerm(s, m.Term)
  /\ Log' = [Log EXCEPT ![s] = new]
  /\ CommitIndex' = IF commits
                    THEN [CommitIndex EXCEPT ![s] = Min(m.LeaderCommit, P2VIndex(s, Len(new)) - 1)]
                    ELSE CommitIndex
  /\ LastApplied' = IF commits
                    THEN [LastApplied EXCEPT ![s] = RaisedLastApplied(s)]
                    ELSE LastApplied
  /\ HeartbeatReply(m, [NoReply EXCEPT !.Term = CurrentTerm[s], !.Success = TRUE])
  /\ UNCHANGED <<LastIncludedIndex, LastIncludedTerm, SnapshotData, leaderVars, voteVars,
                 snapshotCalls, applyVars, fault, restarts>>
  /\ PersistIf(s, m.Term > CurrentTerm[s] \/ m.Entries # <<>>)

\* SendHeartbeat: the reply to a heartbeat of an earlier term is dropped.
HeartbeatReplyStale(m) ==
  /\ m.stage = "reply"
  /\ CurrentTerm[m.from] # m.Term
  /\ appendCalls' = appendCalls \ {m}
  /\ UNCHANGED <<peerVars, voteVars, snapshotCalls, applyVars, fault, restarts>>

\* The follower was in a later term: the leader steps down.
HeartbeatReplyDeposes(m) ==
  LET s == m.from IN
  /\ m.stage = "reply"
  /\ CurrentTerm[s] = m.Term
  /\ m.Term < m.reply.Term
  /\ CurrentTerm' = [CurrentTerm EXCEPT ![s] = m.reply.Term]
  /\ State' = [State EXCEPT ![s] = FOLLOWER]
  /\ appendCalls' = appendCalls \ {m}
  /\ UNCHANGED <<VotedFor, logVars, commitVars, leaderVars, voteVars, snapshotCalls, applyVars,
                 fault, restarts>>
  /\ Persist(s)

\* Mutant: a peer counts that is one entry short.
HoldersAhead(s, N, match) ==
  {j \in Server : \/ j = s
                  \/ /\ match[j] >= N - 1
                     /\ InRange(s, V2PIndex(s, N))
                     /\ Log[s][V2PIndex(s, N) + 1].LogTerm = CurrentTerm[s]}

\* Mutant: entries of earlier terms are counted as well.
HoldersAnyTerm(s, N, match) ==
  {j \in Server : \/ j = s
                  \/ match[j] >= N /\ InRange(s, V2PIndex(s, N))}

\* The peers that count for committing index N, given the leader's match indices.
Holders(s, N, match) ==
  {j \in Server : \/ j = s
                  \/ /\ match[j] >= N
                     /\ InRange(s, V2PIndex(s, N))
                     /\ Log[s][V2PIndex(s, N) + 1].LogTerm = CurrentTerm[s]}

Committable(s, match) ==
  {N \in (CommitIndex[s] + 1)..(LogLength(s) - 1) : IsMajority(Cardinality(Holders(s, N, match)))}

\* The loop of SendHeartbeat goes down to CommitIndex + 1; it indexes rf.Log below the
\* snapshot when nothing above it can be committed.
CommitScanPanics(s, match) ==
  /\ Committable(s, match) = {}
  /\ \E N \in (CommitIndex[s] + 1)..(LastIncludedIndex[s] - 1), j \in Peers(s) : match[j] >= N

\* Mutant: off by one.
MatchAfterBeyond(m) == [MatchIndex[m.from] EXCEPT ![m.to] = m.PrevLogIndex + Len(m.Entries) + 1]

MatchAfter(m) == [MatchIndex[m.from] EXCEPT ![m.to] = m.PrevLogIndex + Len(m.Entries)]

Succeeds(m) == /\ m.stage = "reply"
               /\ CurrentTerm[m.from] = m.Term
               /\ m.Term >= m.reply.Term
               /\ m.reply.Success

HeartbeatReplySuccess(m) ==
  LET s == m.from
      match == MatchAfter(m)
      N == IF m.Entries = <<>> THEN {} ELSE Committable(s, match) IN
  /\ Succeeds(m)
  /\ m.Entries # <<>> => ~CommitScanPanics(s, match)
  /\ MatchIndex' = [MatchIndex EXCEPT ![s] = match]
  /\ NextIndex' = [NextIndex EXCEPT ![s][m.to] = match[m.to] + 1]
  /\ \/ /\ N = {}
        /\ UNCHANGED commitVars
     \/ \E n \in N : /\ \A k \in N : k <= n
                     /\ CommitIndex' = [CommitIndex EXCEPT ![s] = n]
                     /\ LastApplied' = [LastApplied EXCEPT ![s] = RaisedLastApplied(s)]
  /\ appendCalls' = appendCalls \ {m}
  /\ UNCHANGED <<termVars, logVars, persister, voteVars, snapshotCalls, applyVars, fault, restarts>>

HeartbeatReplyPanics(m) ==
  /\ Succeeds(m)
  /\ m.Entries # <<>>
  /\ CommitScanPanics(m.from, MatchAfter(m))
  /\ Stop("SendHeartbeat panics")

\* Fast backup: where the leader resumes after a failed consistency check.
BackupIndex(s, reply) ==
  IF reply.XTerm = -1 THEN reply.XLen
  ELSE IF \E e \in 1..Len(Log[s]) : Log[s][e].LogTerm = reply.XTerm
       THEN P2VIndex(s, FirstOfTerm(Log[s], reply.XTerm)) + 1
       ELSE reply.XIndex

HeartbeatReplyFailure(m) ==
  LET s == m.from
      next == BackupIndex(s, m.reply)
      snapshot == IF next <= LastIncludedIndex[s]
                  THEN {SnapshotCall(s, m.to, "request", SnapshotData[s])} ELSE {} IN
  /\ m.stage = "reply"
  /\ CurrentTerm[s] = m.Term
  /\ m.Term >= m.reply.Term
  /\ ~m.reply.Success
  /\ NextIndex' = [NextIndex EXCEPT ![s][m.to] = next]
  /\ appendCalls' = appendCalls \ {m}
  /\ \E sent \in SUBSET snapshot :
       /\ NetworkBound(appendCalls \ {m}, snapshotCalls \cup sent)
       /\ snapshotCalls' = snapshotCalls \cup sent
  /\ UNCHANGED <<termVars, logVars, commitVars, MatchIndex, persister, voteVars, applyVars, fault,
                 restarts>>

\* The service hands a command to the leader.
Start(s, command) ==
  /\ State[s] = LEADER
  /\ LogLength(s) <= MaxIndex
  /\ Log' = [Log EXCEPT ![s] = Append(@, [LogTerm |-> CurrentTerm[s], Command |-> command])]
  /\ UNCHANGED <<termVars, LastIncludedIndex, LastIncludedTerm, SnapshotData, commitVars,
                 leaderVars, voteVars, appendCalls, snapshotCalls, applyVars, fault, restarts>>
  /\ Persist(s)

-----------------------------------------------------------------------------
(* Snapshots                                                               *)

\* Mutant: the data of the last snapshot is kept under the new index.
SnapshotKeepsData(s) ==
  LET p == V2PIndex(s, saving[s]) IN
  /\ saving[s] > 0
  /\ InRange(s, p)
  /\ LastIncludedTerm' = [LastIncludedTerm EXCEPT ![s] = Log[s][p + 1].LogTerm]
  /\ Log' = [Log EXCEPT ![s] = SubSeq(@, p + 1, Len(@))]
  /\ LastIncludedIndex' = [LastIncludedIndex EXCEPT ![s] = saving[s]]
  /\ saving' = [saving EXCEPT ![s] = 0]
  /\ UNCHANGED <<termVars, SnapshotData, commitVars, leaderVars, voteVars, appendCalls,
                 snapshotCalls, applyMsg, applied, fault, restarts>>
  /\ Persist(s)

\* The service's call of Snapshot(index), with the commands it has applied.
Snapshot(s) ==
  LET p == V2PIndex(s, saving[s]) IN
  /\ saving[s] > 0
  /\ InRange(s, p)
  /\ LastIncludedTerm' = [LastIncludedTerm EXCEPT ![s] = Log[s][p + 1].LogTerm]
  /\ Log' = [Log EXCEPT ![s] = SubSeq(@, p + 1, Len(@))]
  /\ LastIncludedIndex' = [LastIncludedIndex EXCEPT ![s] = saving[s]]
  /\ SnapshotData' = [SnapshotData EXCEPT ![s] = applied[s]]
  /\ saving' = [saving EXCEPT ![s] = 0]
  /\ UNCHANGED <<termVars, commitVars, leaderVars, voteVars, appendCalls, snapshotCalls, applyMsg,
                 applied, fault, restarts>>
  /\ Persist(s)

SnapshotPanics(s) ==
  /\ saving[s] > 0
  /\ ~InRange(s, V2PIndex(s, saving[s]))
  /\ Stop("Snapshot panics")

InstallRefused(m) ==
  /\ m.stage = "request"
  /\ m.Term < CurrentTerm[m.to]
  /\ snapshotCalls' \in {Answer(snapshotCalls, m, [m EXCEPT !.stage = "reply",
                                                           !.replyTerm = CurrentTerm[m.to]]),
                         snapshotCalls \ {m}}
  /\ UNCHANGED <<peerVars, voteVars, appendCalls, applyVars, fault, restarts>>

\* Mutant: the fresh log starts with term 0, as the one of a new peer does.
KeptLogFresh(s, m) ==
  LET p == V2PIndex(s, m.LastIncludedIndex) IN
  IF InRange(s, p) /\ Log[s][p + 1].LogTerm = m.LastIncludedTerm
  THEN SubSeq(Log[s], p + 1, Len(Log[s]))
  ELSE <<[LogTerm |-> 0, Command |-> Nil]>>

\* The log entries a peer keeps after installing the snapshot of m.
KeptLog(s, m) ==
  LET p == V2PIndex(s, m.LastIncludedIndex) IN
  IF InRange(s, p) /\ Log[s][p + 1].LogTerm = m.LastIncludedTerm
  THEN SubSeq(Log[s], p + 1, Len(Log[s]))
  ELSE <<[LogTerm |-> m.LastIncludedTerm, Command |-> Nil]>>

\* Mutant: LastApplied is left to the apply goroutine.
AppliedWithSnapshotNot(s, m) == LastApplied[s]

\* LastApplied after the snapshot of m is installed.
AppliedWithSnapshot(s, m) == Max(LastApplied[s], m.LastIncludedIndex)

\* The handler up to the point where it blocks on ApplyCh, without the lock.
InstallSnapshot(m) ==
  LET s == m.to
      later == m.Term > CurrentTerm[s] IN
  /\ m.stage = "request"
  /\ m.Term >= CurrentTerm[s]
  /\ CurrentTerm' = [CurrentTerm EXCEPT ![s] = m.Term]
  /\ VotedFor' = IF later THEN [VotedFor EXCEPT ![s] = Nil] ELSE VotedFor
  /\ State' = IF later THEN [State EXCEPT ![s] = FOLLOWER] ELSE State
  /\ Log' = [Log EXCEPT ![s] = KeptLog(s, m)]
  /\ LastIncludedIndex' = [LastIncludedIndex EXCEPT ![s] = m.LastIncludedIndex]
  /\ LastIncludedTerm' = [LastIncludedTerm EXCEPT ![s] = m.LastIncludedTerm]
  /\ LastApplied' = [LastApplied EXCEPT ![s] = AppliedWithSnapshot(s, m)]
  /\ CommitIndex' = [CommitIndex EXCEPT ![s] = Max(@, m.LastIncludedIndex)]
  /\ SnapshotData' = [SnapshotData EXCEPT ![s] = m.Snapdata]
  /\ snapshotCalls' = (snapshotCalls \ {m}) \cup {[m EXCEPT !.stage = "installing",
                                                            !.replyTerm = CurrentTerm[s]]}
  /\ UNCHANGED <<leaderVars, voteVars, appendCalls, applyVars, fault, restarts>>
  /\ Persist(s)

\* SendSnapshot: there is no return after stepping down.
SnapshotReply(m) ==
  LET s == m.from
      current == CurrentTerm[s] = m.Term
      later == current /\ m.replyTerm > CurrentTerm[s] IN
  /\ m.stage = "reply"
  /\ CurrentTerm' = IF later THEN [CurrentTerm EXCEPT ![s] = m.replyTerm] ELSE CurrentTerm
  /\ State' = IF later THEN [State EXCEPT ![s] = FOLLOWER] ELSE State
  /\ NextIndex' = IF current THEN [NextIndex EXCEPT ![s][m.to] = LastIncludedIndex[s] + 1]
                  ELSE NextIndex
  /\ snapshotCalls' = snapshotCalls \ {m}
  /\ UNCHANGED <<VotedFor, logVars, commitVars, MatchIndex, voteVars, appendCalls, applyVars,
                 fault, restarts>>
  /\ PersistIf(s, later)

-----------------------------------------------------------------------------
(* The apply channel and the service that reads it                         *)

\* ApplyGoroutine takes the next committed entry and blocks on ApplyCh, without the lock.
ApplyGoroutine(s) ==
  LET index == LastApplied[s] + 1 IN
  /\ applyMsg[s] = Nil
  /\ CommitIndex[s] > LastApplied[s]
  /\ InRange(s, V2PIndex(s, index))
  /\ LastApplied' = [LastApplied EXCEPT ![s] = index]
  /\ applyMsg' = [applyMsg EXCEPT ![s] =
                    [CommandIndex |-> index, Command |-> Log[s][V2PIndex(s, index) + 1].Command]]
  /\ UNCHANGED <<termVars, logVars, CommitIndex, leaderVars, persister, voteVars, appendCalls,
                 snapshotCalls, applied, saving, fault, restarts>>

ApplyPanics(s) ==
  /\ applyMsg[s] = Nil
  /\ CommitIndex[s] > LastApplied[s]
  /\ ~InRange(s, V2PIndex(s, LastApplied[s] + 1))
  /\ Stop("ApplyGoroutine panics")

\* applierSnap receives a command; at every SnapShotInterval-th it goes on to call Snapshot().
ServiceApplies(s) ==
  LET index == applyMsg[s].CommandIndex IN
  /\ saving[s] = 0
  /\ applyMsg[s] # Nil
  /\ index = Len(applied[s]) + 1
  /\ applied' = [applied EXCEPT ![s] = Append(@, applyMsg[s].Command)]
  /\ saving' = [saving EXCEPT ![s] =
                  IF SnapShotInterval > 0 /\ (index + 1) % SnapShotInterval = 0 THEN index ELSE 0]
  /\ applyMsg' = [applyMsg EXCEPT ![s] = Nil]
  /\ UNCHANGED <<peerVars, voteVars, appendCalls, snapshotCalls, fault, restarts>>

ServiceOutOfOrder(s) ==
  /\ saving[s] = 0
  /\ applyMsg[s] # Nil
  /\ applyMsg[s].CommandIndex # Len(applied[s]) + 1
  /\ Stop("apply out of order")

\* applierSnap receives the snapshot an InstallSnapshot handler is blocked on.
ServiceInstalls(m) ==
  LET s == m.to IN
  /\ m.stage = "installing"
  /\ saving[s] = 0
  /\ Len(m.Snapdata) = m.LastIncludedIndex
  /\ applied' = [applied EXCEPT ![s] = m.Snapdata]
  /\ snapshotCalls' \in {Answer(snapshotCalls, m, [m EXCEPT !.stage = "reply"]),
                         snapshotCalls \ {m}}
  /\ UNCHANGED <<peerVars, voteVars, appendCalls, applyMsg, saving, fault, restarts>>

ServiceMismatch(m) ==
  /\ m.stage = "installing"
  /\ saving[m.to] = 0
  /\ Len(m.Snapdata) # m.LastIncludedIndex
  /\ Stop("snapshot doesn't match m.SnapshotIndex")

-----------------------------------------------------------------------------
(* Crash and restart                                                       *)

\* What is left of the calls when s crashes: requests of s already in the network, and
\* the calls of the others, except the handlers that s was running.
CallsAfterCrash(calls, s) ==
  {[c EXCEPT !.waited = @ /\ c.from # s] :
     c \in {d \in calls : /\ d.from = s => d.stage \in {"request", "installing"}
                          /\ d.stage = "installing" => d.to # s}}

\* crash1, then start1 and Make: the peer starts from its persister, the service from the
\* persisted snapshot.
Restart(s) ==
  LET saved == persister[s] IN
  /\ restarts < MaxRestarts
  /\ restarts' = restarts + 1
  /\ CurrentTerm' = [CurrentTerm EXCEPT ![s] = saved.CurrentTerm]
  /\ VotedFor' = [VotedFor EXCEPT ![s] = saved.VotedFor]
  /\ State' = [State EXCEPT ![s] = FOLLOWER]
  /\ Log' = [Log EXCEPT ![s] = saved.Log]
  /\ LastIncludedIndex' = [LastIncludedIndex EXCEPT ![s] = saved.LastIncludedIndex]
  /\ LastIncludedTerm' = [LastIncludedTerm EXCEPT ![s] = saved.LastIncludedTerm]
  /\ SnapshotData' = [SnapshotData EXCEPT ![s] = saved.Snapshot]
  /\ CommitIndex' = [CommitIndex EXCEPT ![s] = 0]
  /\ LastApplied' = [LastApplied EXCEPT ![s] = 0]
  /\ NextIndex' = [NextIndex EXCEPT ![s] = [i \in Server |-> 0]]
  /\ MatchIndex' = [MatchIndex EXCEPT ![s] = [i \in Server |-> 0]]
  /\ vote' = [vote EXCEPT ![s] = [t \in 1..MaxTerm |-> 0]]
  /\ voteCalls' = CallsAfterCrash(voteCalls, s)
  /\ appendCalls' = CallsAfterCrash(appendCalls, s)
  /\ snapshotCalls' = CallsAfterCrash(snapshotCalls, s)
  /\ applyMsg' = [applyMsg EXCEPT ![s] = Nil]
  /\ applied' = [applied EXCEPT ![s] = saved.Snapshot]
  /\ saving' = [saving EXCEPT ![s] = 0]
  /\ UNCHANGED <<persister, fault, granted, reigns>>

-----------------------------------------------------------------------------
\* Make on a fresh persister.
Init ==
  /\ CurrentTerm = [s \in Server |-> 0]
  /\ VotedFor = [s \in Server |-> Nil]
  /\ State = [s \in Server |-> FOLLOWER]
  /\ Log = [s \in Server |-> <<[LogTerm |-> 0, Command |-> Nil]>>]
  /\ LastIncludedIndex = [s \in Server |-> 0]
  /\ LastIncludedTerm = [s \in Server |-> 0]
  /\ SnapshotData = [s \in Server |-> <<>>]
  /\ CommitIndex = [s \in Server |-> 0]
  /\ LastApplied = [s \in Server |-> 0]
  /\ NextIndex = [s \in Server |-> [i \in Server |-> 0]]
  /\ MatchIndex = [s \in Server |-> [i \in Server |-> 0]]
  /\ persister = [s \in Server |-> Durable(s)]
  /\ vote = [s \in Server |-> [t \in 1..MaxTerm |-> 0]]
  /\ voteCalls = {}
  /\ appendCalls = {}
  /\ snapshotCalls = {}
  /\ applyMsg = [s \in Server |-> Nil]
  /\ applied = [s \in Server |-> <<>>]
  /\ saving = [s \in Server |-> 0]
  /\ fault = "none"
  /\ restarts = 0
  /\ granted = {}
  /\ reigns = {}

\* Nothing runs any more once the process has stopped.
Running(S) == IF fault = "none" THEN S ELSE {}

\* Some goroutine is between two of its critical sections.
Unfinished == \/ \E m \in voteCalls : m.stage \in {"checked", "elected"}
              \/ \E m \in snapshotCalls : m.stage \in {"unread", "installing"}
              \/ \E s \in Server : \/ CommitIndex[s] > LastApplied[s]
                                   \/ applyMsg[s] # Nil
                                   \/ saving[s] > 0

\* What may begin: anything, or nothing until the goroutines under way are done.
Scheduled(S) == IF RunToCompletion /\ Unfinished THEN {} ELSE Running(S)

\* A goroutine that is past its RPC, or the service, goes on.
GoroutineStep ==
  \/ \E m \in Running(voteCalls) : CountVote(m)
  \/ \E m \in Running(voteCalls) : VoteRefused(m)
  \/ \E m \in Running(voteCalls) : BecomeLeader(m)
  \/ \E m \in Running(snapshotCalls) : ReadSnapshotData(m)
  \/ \E m \in Running(snapshotCalls) : ServiceInstalls(m)
  \/ \E m \in Running(snapshotCalls) : ServiceMismatch(m)
  \/ \E s \in Running(Server) : ApplyGoroutine(s)
  \/ \E s \in Running(Server) : ApplyPanics(s)
  \/ \E s \in Running(Server) : ServiceApplies(s)
  \/ \E s \in Running(Server) : ServiceOutOfOrder(s)
  \/ \E s \in Running(Server) : Snapshot(s)
  \/ \E s \in Running(Server) : SnapshotPanics(s)

\* A timer fires, a command arrives, a peer crashes.
LocalStep ==
  \/ \E s \in Scheduled(Server) : ElectLauncher(s)
  \/ \E s \in Scheduled(Server) : HeartBeatGoroutine(s)
  \/ \E s \in Scheduled(Server), command \in Command : Start(s, command)
  \/ \E s \in Scheduled(Server) : Restart(s)

\* The network delivers a request or a reply.
NetworkStep ==
  \/ \E m \in Scheduled(voteCalls) : RequestVoteHandler(m)
  \/ \E m \in Scheduled(voteCalls) : VoteReplyStale(m)
  \/ \E m \in Scheduled(voteCalls) : VoteReplyCurrent(m)
  \/ \E m \in Scheduled(appendCalls) : HeartbeatRefused(m)
  \/ \E m \in Scheduled(appendCalls) : HeartbeatMissing(m)
  \/ \E m \in Scheduled(appendCalls) : HeartbeatPanics(m)
  \/ \E m \in Scheduled(appendCalls) : HeartbeatConflict(m)
  \/ \E m \in Scheduled(appendCalls) : HeartbeatAccepted(m)
  \/ \E m \in Scheduled(appendCalls) : HeartbeatReplyStale(m)
  \/ \E m \in Scheduled(appendCalls) : HeartbeatReplyDeposes(m)
  \/ \E m \in Scheduled(appendCalls) : HeartbeatReplySuccess(m)
  \/ \E m \in Scheduled(appendCalls) : HeartbeatReplyPanics(m)
  \/ \E m \in Scheduled(appendCalls) : HeartbeatReplyFailure(m)
  \/ \E m \in Scheduled(snapshotCalls) : InstallRefused(m)
  \/ \E m \in Scheduled(snapshotCalls) : InstallSnapshot(m)
  \/ \E m \in Scheduled(snapshotCalls) : SnapshotReply(m)

Next == GoroutineStep \/ LocalStep \/ NetworkStep

Spec == Init /\ [][Next]_vars

=============================================================================
