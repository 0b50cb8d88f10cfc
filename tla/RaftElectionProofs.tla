------------------------- MODULE RaftElectionProofs -------------------------
(***************************************************************************)
(* Types and elections.  Every step of the Raft peers preserves TypeOK and *)
(* the invariant of the elections, for any set of peers, any commands and  *)
(* any bounds.                                                             *)
(*                                                                         *)
(* For the types, the index computations of the handlers carry the proof:  *)
(* every read and slice of a log that is not one of the modelled panics    *)
(* stays inside the log.  For the elections, a vote is on disk before it   *)
(* is sent, a peer is asked once per election, and the counter of votes    *)
(* never runs ahead of the votes that were granted.                        *)
(***************************************************************************)
EXTENDS RaftProperties, TLAPS

-----------------------------------------------------------------------------
(* Numbers and finite sets                                                 *)

\* What the proofs use of numbers and finite sets, as hypotheses of the lemmas that need it:
\* RaftTheorems proves both formulas.
LeastNumber == \A S \in SUBSET Nat : S # {} => \E i \in S : \A j \in S : i <= j
FiniteSetsCount ==
  /\ IsFiniteSet({}) /\ Cardinality({}) = 0
  /\ \A x : IsFiniteSet({x}) /\ Cardinality({x}) = 1
  /\ \A S : IsFiniteSet(S) =>
       /\ Cardinality(S) \in Nat
       /\ \A T \in SUBSET S : IsFiniteSet(T) /\ Cardinality(T) <= Cardinality(S)
       /\ \A x : /\ Cardinality(S \cup {x}) = IF x \in S THEN Cardinality(S) ELSE Cardinality(S) + 1
                 /\ Cardinality(S \ {x}) = IF x \in S THEN Cardinality(S) - 1 ELSE Cardinality(S)
                 /\ IsFiniteSet(S \cup {x}) /\ IsFiniteSet(S \ {x})

\* A part of a finite set is finite and not larger.
LEMMA CountSubset ==
  ASSUME FiniteSetsCount, NEW S, IsFiniteSet(S), NEW T \in SUBSET S
  PROVE  IsFiniteSet(T) /\ Cardinality(T) <= Cardinality(S)
  BY Zenon DEF FiniteSetsCount

\* A finite set has a number of elements.
LEMMA CountType ==
  ASSUME FiniteSetsCount, NEW S, IsFiniteSet(S)
  PROVE  Cardinality(S) \in Nat
  BY Zenon DEF FiniteSetsCount

\* The empty set has none.
LEMMA CountEmpty ==
  ASSUME FiniteSetsCount
  PROVE  IsFiniteSet({}) /\ Cardinality({}) = 0
  BY Zenon DEF FiniteSetsCount

\* A set of one element has one.
LEMMA CountSingle ==
  ASSUME FiniteSetsCount, NEW x
  PROVE  IsFiniteSet({x}) /\ Cardinality({x}) = 1
  BY Zenon DEF FiniteSetsCount

\* One more element.
LEMMA CountAdd ==
  ASSUME FiniteSetsCount, NEW S, NEW x, IsFiniteSet(S)
  PROVE  /\ IsFiniteSet(S \cup {x})
         /\ Cardinality(S \cup {x}) = IF x \in S THEN Cardinality(S) ELSE Cardinality(S) + 1
  BY Zenon DEF FiniteSetsCount

\* One element less.
LEMMA CountRemove ==
  ASSUME FiniteSetsCount, NEW S, NEW x, IsFiniteSet(S)
  PROVE  /\ IsFiniteSet(S \ {x})
         /\ Cardinality(S \ {x}) = IF x \in S THEN Cardinality(S) - 1 ELSE Cardinality(S)
  BY Zenon DEF FiniteSetsCount

\* persist() writes the term and the vote it finds.
LEMMA DurableVote ==
  ASSUME NEW s
  PROVE  /\ Durable(s)'.CurrentTerm = CurrentTerm'[s] /\ Durable(s)'.VotedFor = VotedFor'[s]
  BY SMT DEF Durable

\* rf.Log[i] is an entry for every i in range, and rf.Log is never empty.
LEMMA LogEntries ==
  ASSUME NEW log \in Logs
  PROVE  /\ log \in Seq(Entry)
         /\ Len(log) \in Nat /\ Len(log) >= 1
         /\ \A i \in 1..Len(log) : /\ log[i] \in Entry
                                   /\ log[i].LogTerm \in Terms
                                   /\ log[i].Command \in Commands
<1>1. log \in Seq(Entry) /\ log # <<>>
  BY Zenon DEF Logs
<1>2. Len(log) \in Nat /\ Len(log) # 0
  BY <1>1
<1>3. \A i \in 1..Len(log) : log[i] \in Entry
  BY <1>1
<1> QED
  BY <1>1, <1>2, <1>3 DEF Entry

\* rf.Log[:p] with p >= 1 and rf.Log[p:] inside the log are logs; rf.Log[p:] at the end
\* of the log is a possibly empty sequence of entries.
LEMMA LogSlices ==
  ASSUME NEW log \in Logs, NEW p \in 1..Len(log)
  PROVE  /\ SubSeq(log, 1, p) \in Logs
         /\ SubSeq(log, p, Len(log)) \in Logs
         /\ SubSeq(log, p + 1, Len(log)) \in Seq(Entry)
<1>1. log \in Seq(Entry) /\ Len(log) \in Nat /\ Len(log) >= 1
  BY LogEntries, Zenon
<1>2. /\ SubSeq(log, 1, p) \in Seq(Entry) /\ Len(SubSeq(log, 1, p)) = p
      /\ SubSeq(log, p, Len(log)) \in Seq(Entry)
      /\ Len(SubSeq(log, p, Len(log))) = Len(log) - p + 1
      /\ SubSeq(log, p + 1, Len(log)) \in Seq(Entry)
  BY <1>1
<1>3. SubSeq(log, 1, p) # <<>> /\ SubSeq(log, p, Len(log)) # <<>>
  <2>1. p # 0 /\ Len(log) - p + 1 # 0
    BY <1>1
  <2> QED
    BY <1>2, <2>1, Zenon
<1> QED
  BY <1>2, <1>3, Zenon DEF Logs

\* The loop that looks for the first entry of a term finds one in a log that has the term.
LEMMA FirstOfTermInLog ==
  ASSUME LeastNumber, NEW log \in Logs, NEW term, NEW e \in 1..Len(log), log[e].LogTerm = term
  PROVE  FirstOfTerm(log, term) \in 0..(Len(log) - 1)
<1> DEFINE S == {i \in 0..(Len(log) - 1) : log[i + 1].LogTerm = term}
<1>1. Len(log) \in Nat
  BY LogEntries, Zenon
<1>2. e - 1 \in S /\ S \subseteq Nat
  BY <1>1
<1>3. PICK i \in S : \A j \in S : i <= j
  BY <1>2, Zenon DEF LeastNumber
<1>4. i \in 0..(Len(log) - 1) /\ log[i + 1].LogTerm = term
  BY <1>3, Zenon
<1>5. \A j \in 0..(i - 1) : log[j + 1].LogTerm # term
  <2> SUFFICES ASSUME NEW j \in 0..(i - 1), log[j + 1].LogTerm = term PROVE FALSE
    BY Zenon
  <2>1. j \in S
    BY <1>1, <1>4
  <2> QED
    BY <2>1, <1>3, <1>4
<1> QED
  BY <1>4, <1>5, Zenon DEF FirstOfTerm

-----------------------------------------------------------------------------
(* Calls                                                                   *)

\* Terms are natural numbers.
LEMMA TermsNat == Terms \subseteq Nat /\ 0 \in Terms /\ 1..MaxTerm \subseteq Terms
  BY BoundAssumption DEF Terms

\* persist() saves well-typed fields.
LEMMA PersistType ==
  ASSUME NEW s \in Server, NEW cond, persister \in [Server -> PersistedState], DurableOK',
         PersistIf(s, cond) \/ Persist(s)
  PROVE  persister' \in [Server -> PersistedState]
<1>1. Durable(s)' \in PersistedState
  BY Zenon DEF Durable, PersistedState, DurableOK
<1> QED
  BY <1>1, Zenon DEF PersistIf, Persist

\* A vote call that moves on to its next stage is a vote call.
LEMMA RequestVoteCallType ==
  ASSUME TypeOK, NEW s \in Server, NEW i \in Server, NEW term \in 1..MaxTerm
  PROVE  RequestVoteCall(s, i, term) \in VoteCall
<1>1. Log[s] \in Logs /\ LastIncludedIndex[s] \in Nat
  BY Zenon DEF TypeOK, DurableOK
<1>2. LogLength(s) - 1 \in Nat
  BY <1>1, LogEntries DEF LogLength
<1>3. LastLogTerm(s) \in Terms
  BY <1>1, LogEntries DEF LastLogTerm
<1> QED
  BY <1>2, <1>3, TermsNat, Zenon DEF RequestVoteCall, VoteCall

\* The call AppendEntries sends is an append call.
LEMMA HeartbeatCallType ==
  ASSUME TypeOK, NEW s \in Server, NEW i \in Server, NEW next \in Nat,
         V2PIndex(s, next) \in 1..Len(Log[s])
  PROVE  HeartbeatCall(s, i, next) \in AppendCall
<1>1. Log[s] \in Logs /\ LastIncludedIndex[s] \in Nat /\ CommitIndex[s] \in Nat
      /\ CurrentTerm[s] \in Terms
  BY Zenon DEF TypeOK, DurableOK
<1> DEFINE p == V2PIndex(s, next)
<1>2. next - 1 \in Nat
  BY <1>1, LogEntries DEF V2PIndex
<1>3. Log[s][p].LogTerm \in Terms
  BY <1>1, LogEntries, Zenon
<1>4. SubSeq(Log[s], p + 1, Len(Log[s])) \in Seq(Entry)
  BY <1>1, LogSlices, Zenon
<1>5. NoReply \in AppendReply
  BY TermsNat, Zenon DEF NoReply, AppendReply
<1> QED
  BY <1>1, <1>2, <1>3, <1>4, <1>5, Zenon DEF HeartbeatCall, AppendCall

\* The call InstallSnapshot sends is a snapshot call.
LEMMA SnapshotCallType ==
  ASSUME TypeOK, NEW s \in Server, NEW i \in Server, NEW stage \in {"unread", "request"},
         NEW data \in Seq(Commands)
  PROVE  SnapshotCall(s, i, stage, data) \in SnapCall
  BY TermsNat, Zenon DEF TypeOK, DurableOK, SnapshotCall, SnapCall

\* HeartBeatLauncher slices the log inside its bounds when NextIndex is not past the log.
LEMMA HeartBeatLauncherType ==
  ASSUME TypeOK, NEW s \in Server, NEW next \in [Server -> Nat],
         \A i \in Peers(s) : next[i] <= LogLength(s),
         HeartBeatLauncher(s, next)
  PROVE  appendCalls' \subseteq AppendCall /\ snapshotCalls' \subseteq SnapCall
<1> DEFINE behind == {i \in Peers(s) : NeedsSnapshot(s, next[i])}
           heartbeats == {HeartbeatCall(s, i, next[i]) : i \in Peers(s) \ behind}
           snapshots == {SnapshotCall(s, i, "unread", <<>>) : i \in behind}
<1>1. heartbeats \subseteq AppendCall
  <2> SUFFICES ASSUME NEW i \in Peers(s), ~NeedsSnapshot(s, next[i])
               PROVE  HeartbeatCall(s, i, next[i]) \in AppendCall
    BY Zenon
  <2>1. i \in Server /\ next[i] \in Nat /\ next[i] <= LogLength(s)
    BY Zenon DEF Peers
  <2>2. Log[s] \in Logs /\ LastIncludedIndex[s] \in Nat
    BY Zenon DEF TypeOK, DurableOK
  <2>3. V2PIndex(s, next[i]) \in 1..Len(Log[s])
    BY <2>1, <2>2, LogEntries DEF NeedsSnapshot, V2PIndex, LogLength
  <2> QED
    BY <2>1, <2>3, HeartbeatCallType, Zenon
<1>2. snapshots \subseteq SnapCall
  <2>1. <<>> \in Seq(Commands)
    OBVIOUS
  <2> QED
    BY <2>1, SnapshotCallType, Zenon DEF Peers
<1>3. PICK sent \in SUBSET heartbeats, sentSnapshots \in SUBSET snapshots :
        /\ appendCalls' = appendCalls \cup sent
        /\ snapshotCalls' = snapshotCalls \cup sentSnapshots
  BY Zenon DEF HeartBeatLauncher
<1> HIDE DEF heartbeats, snapshots
<1> QED
  BY <1>1, <1>2, <1>3, Zenon DEF TypeOK

\* What an answered or a crashed call leaves behind is a set of calls again.
LEMMA HeartbeatReplyType ==
  ASSUME TypeOK, NEW m \in appendCalls, NEW reply \in AppendReply, HeartbeatReply(m, reply)
  PROVE  appendCalls' \subseteq AppendCall
<1>1. m \in AppendCall
  BY Zenon DEF TypeOK
<1>2. [m EXCEPT !.stage = "reply", !.reply = reply] \in AppendCall
  BY <1>1, Zenon DEF AppendCall
<1> QED
  BY <1>2, Zenon DEF HeartbeatReply, Answer, TypeOK

\* Log checks at an index that is in range.
LEMMA CheckedLogType ==
  ASSUME TypeOK, NEW s \in Server, NEW p, InRange(s, p)
  PROVE  /\ p \in Nat /\ p + 1 \in 1..Len(Log[s])
         /\ ToBeChecked(s, p) \in Terms
         /\ CheckedLog(s, p) \in Logs
         /\ Len(CheckedLog(s, p)) = Len(Log[s])
         /\ CheckedLog(s, p)[p + 1].LogTerm = ToBeChecked(s, p)
<1>1. Log[s] \in Logs /\ LastIncludedTerm[s] \in Terms
  BY Zenon DEF TypeOK, DurableOK
<1>2. /\ Log[s] \in Seq(Entry) /\ Len(Log[s]) \in Nat /\ Len(Log[s]) >= 1
      /\ \A i \in 1..Len(Log[s]) : Log[s][i] \in Entry /\ Log[s][i].LogTerm \in Terms
  BY <1>1, LogEntries, Zenon
<1>3. p \in Nat /\ p + 1 \in 1..Len(Log[s])
  BY <1>2 DEF InRange
<1>4. CASE p # 0
  BY <1>1, <1>2, <1>3, <1>4, Zenon DEF CheckedLog, ToBeChecked
<1>5. CASE p = 0
  <2> DEFINE new == [Log[s][1] EXCEPT !.LogTerm = LastIncludedTerm[s]]
  <2>1. new \in Entry /\ new.LogTerm = LastIncludedTerm[s]
    BY <1>1, <1>2 DEF Entry
  <2>2. CheckedLog(s, p) = [Log[s] EXCEPT ![1] = new]
    BY <1>5, Zenon DEF CheckedLog
  <2> HIDE DEF new
  <2>3. /\ CheckedLog(s, p) \in Seq(Entry)
        /\ Len(CheckedLog(s, p)) = Len(Log[s])
        /\ CheckedLog(s, p)[1] = new
    BY <1>2, <2>1, <2>2
  <2>4. CheckedLog(s, p) # <<>>
    BY <1>2, <2>3
  <2> QED
    BY <1>1, <1>3, <1>5, <2>1, <2>3, <2>4 DEF Logs, ToBeChecked
<1> QED
  BY <1>4, <1>5, Zenon

\* Appending the leader's entries to a prefix of the log gives a log.
LEMMA AppendedLogType ==
  ASSUME NEW log \in Logs, NEW p \in Nat, p + 1 \in 1..Len(log), NEW entries \in Seq(Entry)
  PROVE  AppendedLog(log, p, entries) \in Logs
<1>1. SubSeq(log, 1, p + 1) \in Logs
  BY LogSlices, Zenon
<1> DEFINE head == SubSeq(log, 1, p + 1)
<1> HIDE DEF head
<1>2. head \in Seq(Entry) /\ Len(head) \in Nat /\ Len(head) >= 1
  BY <1>1, LogEntries, Zenon DEF head
<1>3. head \o entries \in Seq(Entry) /\ Len(head \o entries) = Len(head) + Len(entries)
      /\ Len(entries) \in Nat
  BY <1>2
<1>4. head \o entries # <<>>
  BY <1>2, <1>3
<1> QED
  BY <1>3, <1>4, Zenon DEF AppendedLog, Logs, head

\* Fast backup resumes at a natural index.
LEMMA BackupIndexType ==
  ASSUME LeastNumber, TypeOK, NEW s \in Server, NEW reply \in AppendReply
  PROVE  BackupIndex(s, reply) \in Nat
<1>1. Log[s] \in Logs /\ LastIncludedIndex[s] \in Nat
  BY Zenon DEF TypeOK, DurableOK
<1>2. CASE \E e \in 1..Len(Log[s]) : Log[s][e].LogTerm = reply.XTerm
  <2>1. FirstOfTerm(Log[s], reply.XTerm) \in 0..(Len(Log[s]) - 1)
    BY <1>1, <1>2, FirstOfTermInLog, Zenon
  <2>2. P2VIndex(s, FirstOfTerm(Log[s], reply.XTerm)) + 1 \in Nat
    BY <1>1, <2>1, LogEntries DEF P2VIndex
  <2> QED
    BY <2>2, Zenon DEF BackupIndex, AppendReply
<1>3. CASE ~ \E e \in 1..Len(Log[s]) : Log[s][e].LogTerm = reply.XTerm
  BY <1>3, Zenon DEF BackupIndex, AppendReply
<1> QED
  BY <1>2, <1>3, Zenon

\* Adopting the term of a call keeps the types of the term and the state.
LEMMA AdoptTermType ==
  ASSUME TypeOK, NEW s \in Server, NEW t \in Terms, AdoptTerm(s, t)
  PROVE  /\ CurrentTerm' \in [Server -> Terms]
         /\ VotedFor' \in [Server -> Server \cup {Nil}]
         /\ State' \in [Server -> {FOLLOWER, LEADER}]
  BY Zenon DEF TypeOK, DurableOK, AdoptTerm, Max

\* What InstallSnapshot keeps of a log is a log.
LEMMA KeptLogType ==
  ASSUME TypeOK, NEW s \in Server, NEW m \in SnapCall
  PROVE  KeptLog(s, m) \in Logs
<1>1. Log[s] \in Logs /\ LastIncludedIndex[s] \in Nat
  BY Zenon DEF TypeOK, DurableOK
<1> DEFINE p == V2PIndex(s, m.LastIncludedIndex)
           e == [LogTerm |-> m.LastIncludedTerm, Command |-> Nil]
<1>2. CASE InRange(s, p) /\ Log[s][p + 1].LogTerm = m.LastIncludedTerm
  <2>1. p + 1 \in 1..Len(Log[s])
    BY <1>1, <1>2, LogEntries DEF InRange
  <2> QED
    BY <1>1, <1>2, <2>1, LogSlices, Zenon DEF KeptLog
<1>3. CASE ~(InRange(s, p) /\ Log[s][p + 1].LogTerm = m.LastIncludedTerm)
  <2>1. e \in Entry
    BY Zenon DEF Entry, Commands, SnapCall
  <2>2. <<e>> \in Logs
    BY <2>1 DEF Logs
  <2> QED
    BY <1>3, <2>2, Zenon DEF KeptLog
<1> QED
  BY <1>2, <1>3, Zenon

-----------------------------------------------------------------------------
(* Elections                                                               *)

\* The vote calls keep the types.
LEMMA ElectionTypes ==
  ASSUME TypeOK, NEW m \in voteCalls,
         \/ RequestVoteHandler(m) \/ VoteReplyStale(m) \/ VoteReplyCurrent(m)
         \/ CountVote(m) \/ VoteRefused(m) \/ BecomeLeader(m)
  PROVE  TypeOK'
<1> USE TermsNat
<1>0. /\ m \in VoteCall /\ m.from \in Server /\ m.to \in Server
      /\ m.Term \in 1..MaxTerm /\ m.replyTerm \in Terms
  BY Zenon DEF TypeOK, VoteCall
<1>1. CASE RequestVoteHandler(m)
  <2> USE <1>1 DEF RequestVoteHandler
  <2>1. DurableOK' /\ State' \in [Server -> {FOLLOWER, LEADER}]
    BY <1>0, Zenon DEF TypeOK, DurableOK, logVars, Max, RememberedVote
  <2>2. persister' \in [Server -> PersistedState]
    BY <1>0, <2>1, PersistType, Zenon DEF TypeOK
  <2>3. voteCalls' \subseteq VoteCall
    <3> DEFINE r == [m EXCEPT !.stage = "reply", !.VoteGranted = Grants(m.to, m),
                              !.replyTerm = CurrentTerm[m.to]]
    <3>1. Grants(m.to, m) \in BOOLEAN
      BY Zenon DEF Grants
    <3>2. r \in VoteCall
      BY <1>0, <3>1, Zenon DEF TypeOK, DurableOK, VoteCall
    <3> QED
      BY <3>2, Zenon DEF TypeOK, Answer
  <2>4. granted' \subseteq Grant
    <3>1. [voter |-> m.to, term |-> m.Term, candidate |-> m.from] \in Grant
      BY <1>0, Zenon DEF Grant
    <3> QED
      BY <3>1, Zenon DEF TypeOK
  <2> QED
    BY <2>1, <2>2, <2>3, <2>4, Zenon DEF TypeOK, commitVars, leaderVars, applyVars
<1>2. CASE VoteReplyStale(m)
  BY <1>0, <1>2, Zenon DEF VoteReplyStale, TypeOK, DurableOK, logVars, commitVars, leaderVars, applyVars
<1>3. CASE VoteReplyCurrent(m)
  <2>1. [m EXCEPT !.stage = "checked"] \in VoteCall
    BY <1>0, Zenon DEF VoteCall
  <2> QED
    BY <1>3, <2>1, Zenon DEF VoteReplyCurrent, TypeOK, DurableOK, peerVars, termVars, logVars, commitVars,
                      leaderVars, applyVars
<1>4. CASE CountVote(m)
  <2>1. [m EXCEPT !.stage = "elected"] \in VoteCall
    BY <1>0, Zenon DEF VoteCall
  <2>2. vote' \in [Server -> [1..MaxTerm -> Nat]]
    <3>0. vote[m.from] \in [1..MaxTerm -> Nat]
      BY <1>0, Zenon DEF TypeOK
    <3>1. vote[m.from][m.Term] + 1 \in Nat
      <4>1. vote[m.from][m.Term] \in Nat
        BY <1>0, <3>0, Zenon
      <4> QED
        BY <4>1
    <3>2. vote' = [vote EXCEPT ![m.from] = [vote[m.from] EXCEPT ![m.Term] = vote[m.from][m.Term] + 1]]
      BY <1>4, Zenon DEF CountVote
    <3> QED
      BY <1>0, <3>0, <3>1, <3>2, Zenon DEF TypeOK
  <2> QED
    BY <1>4, <2>1, <2>2, Zenon DEF CountVote, TypeOK, DurableOK, peerVars, termVars, logVars, commitVars,
                            leaderVars, applyVars
<1>5. CASE VoteRefused(m)
  <2> USE <1>5 DEF VoteRefused
  <2>1. DurableOK' /\ State' \in [Server -> {FOLLOWER, LEADER}]
    BY <1>0, Zenon DEF TypeOK, DurableOK, logVars, Max
  <2>2. persister' \in [Server -> PersistedState]
    BY <1>0, <2>1, PersistType, Zenon DEF TypeOK
  <2> QED
    BY <2>1, <2>2, Zenon DEF TypeOK, commitVars, leaderVars, applyVars
<1>6. CASE BecomeLeader(m)
  <2> DEFINE next == [i \in Server |-> LogLength(m.from)]
  <2>1. LogLength(m.from) \in Nat
    <3>1. Log[m.from] \in Logs /\ LastIncludedIndex[m.from] \in Nat
      BY <1>0, Zenon DEF TypeOK, DurableOK
    <3> QED
      BY <3>1, LogEntries DEF LogLength
  <2>2. next \in [Server -> Nat] /\ \A i \in Peers(m.from) : next[i] <= LogLength(m.from)
    BY <2>1 DEF Peers
  <2>3. HeartBeatLauncher(m.from, next)
    BY <1>6, Zenon DEF BecomeLeader
  <2>4. appendCalls' \subseteq AppendCall /\ snapshotCalls' \subseteq SnapCall
    <3> HIDE DEF next
    <3> QED
      BY <1>0, <2>2, <2>3, HeartBeatLauncherType, Zenon
  <2>5. reigns' \subseteq Reign
    <3>1. [leader |-> m.from, elected |-> m.Term, term |-> CurrentTerm[m.from]] \in Reign
      BY <1>0, Zenon DEF TypeOK, DurableOK, Reign
    <3> QED
      BY <1>6, <3>1, Zenon DEF BecomeLeader, TypeOK
  <2>6. NextIndex' \in [Server -> [Server -> Nat]] /\ MatchIndex' \in [Server -> [Server -> Int]]
    <3>1. /\ NextIndex' = [NextIndex EXCEPT ![m.from] = next]
          /\ MatchIndex' = [MatchIndex EXCEPT ![m.from] = [i \in Server |-> -1]]
      BY <1>6, Zenon DEF BecomeLeader
    <3>2. [i \in Server |-> -1] \in [Server -> Int]
      OBVIOUS
    <3> HIDE DEF next
    <3> QED
      BY <1>0, <2>2, <3>1, <3>2, Zenon DEF TypeOK
  <2> QED
    BY <1>0, <1>6, <2>4, <2>5, <2>6, Zenon DEF BecomeLeader, TypeOK, DurableOK, logVars, commitVars,
                                        applyVars
<1> QED
  BY <1>1, <1>2, <1>3, <1>4, <1>5, <1>6, Zenon

\* ElectLauncher keeps the types.
LEMMA ElectLauncherType ==
  ASSUME TypeOK, NEW s \in Server, ElectLauncher(s)
  PROVE  TypeOK'
<1>0. CurrentTerm[s] \in Terms /\ CurrentTerm[s] + 1 <= MaxTerm /\ vote \in [Server -> [1..MaxTerm -> Nat]]
  BY Zenon DEF TypeOK, DurableOK, ElectLauncher
<1>1. CurrentTerm[s] + 1 \in 1..MaxTerm
  BY <1>0, BoundAssumption, SMTT(20) DEF Terms
<1> USE TermsNat DEF ElectLauncher
<1>2. DurableOK'
  BY <1>1, Zenon DEF TypeOK, DurableOK, logVars
<1>3. persister' \in [Server -> PersistedState]
  BY <1>2, PersistType, Zenon DEF TypeOK
<1>4. vote' \in [Server -> [1..MaxTerm -> Nat]] /\ granted' \subseteq Grant
  <2>1. /\ vote' = [vote EXCEPT ![s] = [vote[s] EXCEPT ![CurrentTerm[s] + 1] = 1]]
        /\ granted' = granted \cup {[voter |-> s, term |-> CurrentTerm[s] + 1, candidate |-> s]}
    BY Zenon
  <2>2. 1 \in Nat /\ granted \subseteq Grant
    BY Zenon DEF TypeOK
  <2>3. vote' \in [Server -> [1..MaxTerm -> Nat]]
    <3>1. [vote[s] EXCEPT ![CurrentTerm[s] + 1] = 1] \in [1..MaxTerm -> Nat]
      <4>1. vote[s] \in [1..MaxTerm -> Nat]
        BY <1>0, Zenon
      <4> QED
        BY <1>1, <2>2, <4>1, Zenon
    <3> QED
      BY <1>0, <2>1, <3>1, Zenon
  <2>4. [voter |-> s, term |-> CurrentTerm[s] + 1, candidate |-> s] \in Grant
    BY <1>1, Zenon DEF Grant
  <2> QED
    BY <2>1, <2>2, <2>3, <2>4, Zenon
<1>5. voteCalls' \subseteq VoteCall
  <2>1. \A i \in Peers(s) : RequestVoteCall(s, i, CurrentTerm[s] + 1) \in VoteCall
    BY <1>1, RequestVoteCallType, Zenon DEF Peers
  <2> QED
    BY <2>1 DEF TypeOK
<1> QED
  BY <1>2, <1>3, <1>4, <1>5, Zenon DEF TypeOK, commitVars, leaderVars, applyVars

-----------------------------------------------------------------------------
(* Log replication                                                         *)

\* HeartbeatHandler keeps the types.
LEMMA HeartbeatTypes ==
  ASSUME LeastNumber, TypeOK, NEW m \in appendCalls,
         \/ HeartbeatRefused(m) \/ HeartbeatMissing(m) \/ HeartbeatConflict(m)
         \/ HeartbeatAccepted(m)
  PROVE  TypeOK'
<1> USE TermsNat
<1>0. /\ m.from \in Server /\ m.to \in Server /\ m.Term \in Terms /\ m.PrevLogIndex \in Nat
      /\ m.Entries \in Seq(Entry) /\ m.LeaderCommit \in Nat
  BY Zenon DEF TypeOK, AppendCall
<1> DEFINE s == m.to
           p == V2PIndex(s, m.PrevLogIndex)
<1>a. /\ Log[s] \in Logs /\ LastIncludedIndex[s] \in Nat /\ CurrentTerm[s] \in Terms
      /\ Len(Log[s]) \in Nat /\ Len(Log[s]) >= 1
  BY <1>0, LogEntries, Zenon DEF TypeOK, DurableOK
<1>1. CASE HeartbeatRefused(m)
  <2>1. [NoReply EXCEPT !.Term = CurrentTerm[s]] \in AppendReply
    BY <1>a, Zenon DEF NoReply, AppendReply
  <2>2. appendCalls' \subseteq AppendCall
    BY <1>1, <2>1, HeartbeatReplyType, Zenon DEF HeartbeatRefused
  <2> QED
    BY <1>1, <2>2, Zenon DEF HeartbeatRefused, TypeOK, DurableOK, peerVars, termVars, logVars, commitVars,
                      leaderVars, voteVars, applyVars
<1>2. CASE HeartbeatMissing(m)
  <2>1. [NoReply EXCEPT !.Term = CurrentTerm[s], !.XTerm = -1, !.XLen = LogLength(s)] \in AppendReply
    <3>1. LogLength(s) \in Nat
      BY <1>a DEF LogLength
    <3> QED
      BY <1>a, <3>1, Zenon DEF NoReply, AppendReply
  <2>2. appendCalls' \subseteq AppendCall
    BY <1>2, <2>1, HeartbeatReplyType, Zenon DEF HeartbeatMissing
  <2>3. DurableOK' /\ State' \in [Server -> {FOLLOWER, LEADER}]
    BY <1>0, <1>2, AdoptTermType, Zenon DEF HeartbeatMissing, TypeOK, DurableOK, logVars
  <2>4. persister' \in [Server -> PersistedState]
    BY <1>0, <1>2, <2>3, PersistType, Zenon DEF HeartbeatMissing, TypeOK
  <2> QED
    BY <1>2, <2>2, <2>3, <2>4, Zenon DEF HeartbeatMissing, TypeOK, commitVars, leaderVars, voteVars,
                                  applyVars
<1>3. CASE HeartbeatConflict(m)
  <2> DEFINE log == CheckedLog(s, p)
             term == ToBeChecked(s, p)
             reply == [NoReply EXCEPT !.Term = CurrentTerm[s], !.XTerm = term,
                                      !.XIndex = P2VIndex(s, FirstOfTerm(log, term))]
  <2>1. InRange(s, p)
    BY <1>3, Zenon DEF HeartbeatConflict
  <2>2. /\ p \in Nat /\ p + 1 \in 1..Len(log) /\ term \in Terms /\ log \in Logs
        /\ log[p + 1].LogTerm = term
    BY <1>0, <2>1, CheckedLogType, Zenon
  <2>3. FirstOfTerm(log, term) \in 0..(Len(log) - 1)
    BY <2>2, FirstOfTermInLog, Zenon
  <2>4. reply \in AppendReply
    <3> HIDE DEF log, term
    <3>1. P2VIndex(s, FirstOfTerm(log, term)) \in Nat
      BY <1>a, <2>2, <2>3, LogEntries DEF P2VIndex
    <3> QED
      BY <1>a, <2>2, <3>1, Zenon DEF NoReply, AppendReply
  <2>5. appendCalls' \subseteq AppendCall
    BY <1>3, <2>4, HeartbeatReplyType, Zenon DEF HeartbeatConflict
  <2>6. Log' \in [Server -> Logs]
    <3>1. Max(p, 1) \in 1..Len(log)
      BY <2>2, LogEntries DEF Max
    <3>2. SubSeq(log, 1, Max(p, 1)) \in Logs
      BY <2>2, <3>1, LogSlices, Zenon
    <3> QED
      BY <1>0, <1>3, <3>2, Zenon DEF HeartbeatConflict, TypeOK, DurableOK
  <2>7. DurableOK' /\ State' \in [Server -> {FOLLOWER, LEADER}]
    BY <1>0, <1>3, <2>6, AdoptTermType, Zenon DEF HeartbeatConflict, TypeOK, DurableOK
  <2>8. persister' \in [Server -> PersistedState]
    BY <1>0, <1>3, <2>7, PersistType, Zenon DEF HeartbeatConflict, TypeOK
  <2> QED
    BY <1>3, <2>5, <2>7, <2>8, Zenon DEF HeartbeatConflict, TypeOK, commitVars, leaderVars, voteVars,
                                  applyVars
<1>4. CASE HeartbeatAccepted(m)
  <2> DEFINE log == CheckedLog(s, p)
             new == AppendedLog(log, p, m.Entries)
  <2>1. InRange(s, p)
    BY <1>4, Zenon DEF HeartbeatAccepted
  <2>2. p \in Nat /\ p + 1 \in 1..Len(log) /\ log \in Logs
    BY <1>0, <2>1, CheckedLogType, Zenon
  <2>3. new \in Logs
    BY <1>0, <2>2, AppendedLogType, Zenon
  <2>4. [NoReply EXCEPT !.Term = CurrentTerm[s], !.Success = TRUE] \in AppendReply
    BY <1>a, Zenon DEF NoReply, AppendReply
  <2>5. appendCalls' \subseteq AppendCall
    BY <1>4, <2>4, HeartbeatReplyType, Zenon DEF HeartbeatAccepted
  <2>6. Log' \in [Server -> Logs]
    BY <1>0, <1>4, <2>3, Zenon DEF HeartbeatAccepted, TypeOK, DurableOK
  <2>7. DurableOK' /\ State' \in [Server -> {FOLLOWER, LEADER}]
    BY <1>0, <1>4, <2>6, AdoptTermType, Zenon DEF HeartbeatAccepted, TypeOK, DurableOK
  <2>8. persister' \in [Server -> PersistedState]
    BY <1>0, <1>4, <2>7, PersistType, Zenon DEF HeartbeatAccepted, TypeOK
  <2>9. CommitIndex' \in [Server -> Nat]
    <3>1. P2VIndex(s, Len(new)) - 1 \in Nat
      <4> HIDE DEF new
      <4> QED
        BY <1>a, <2>3, LogEntries DEF P2VIndex
    <3>2. Min(m.LeaderCommit, P2VIndex(s, Len(new)) - 1) \in Nat
      <4> HIDE DEF new
      <4> QED
        BY <1>0, <3>1, Zenon DEF Min
    <3> QED
      BY <1>0, <1>4, <3>2, Zenon DEF HeartbeatAccepted, TypeOK
  <2>10. LastApplied' \in [Server -> Nat]
    <3>1. RaisedLastApplied(s) \in Nat
      BY <1>0, <1>a, Zenon DEF RaisedLastApplied, Max, TypeOK
    <3> QED
      BY <1>0, <1>4, <3>1, Zenon DEF HeartbeatAccepted, TypeOK
  <2> QED
    BY <1>4, <2>5, <2>7, <2>8, <2>9, <2>10, Zenon DEF HeartbeatAccepted, TypeOK, leaderVars, voteVars,
                                               applyVars
<1> QED
  BY <1>1, <1>2, <1>3, <1>4, Zenon

\* SendHeartbeat keeps the types, whatever the reply says.
LEMMA HeartbeatReplyTypes ==
  ASSUME LeastNumber, TypeOK, NEW m \in appendCalls,
         \/ HeartbeatReplyStale(m) \/ HeartbeatReplyDeposes(m) \/ HeartbeatReplySuccess(m)
         \/ HeartbeatReplyFailure(m)
  PROVE  TypeOK'
<1>0. /\ m.from \in Server /\ m.to \in Server /\ m.Term \in Terms /\ m.PrevLogIndex \in Nat
      /\ m.Entries \in Seq(Entry) /\ m.reply \in AppendReply /\ m.reply.Term \in Terms
  BY Zenon DEF TypeOK, AppendCall, AppendReply
<1> DEFINE s == m.from
<1>a. /\ Log[s] \in Logs /\ LastIncludedIndex[s] \in Nat /\ Len(Log[s]) \in Nat
      /\ CommitIndex[s] \in Nat
  BY <1>0, LogEntries, Zenon DEF TypeOK, DurableOK
<1>1. CASE HeartbeatReplyStale(m)
  BY <1>1, Zenon DEF HeartbeatReplyStale, TypeOK, DurableOK, peerVars, termVars, logVars, commitVars,
              leaderVars, voteVars, applyVars
<1>2. CASE HeartbeatReplyDeposes(m)
  <2>1. DurableOK' /\ State' \in [Server -> {FOLLOWER, LEADER}]
    BY <1>0, <1>2, Zenon DEF HeartbeatReplyDeposes, TypeOK, DurableOK, logVars
  <2>2. persister' \in [Server -> PersistedState]
    BY <1>0, <1>2, <2>1, PersistType, Zenon DEF HeartbeatReplyDeposes, TypeOK
  <2> QED
    BY <1>2, <2>1, <2>2, Zenon DEF HeartbeatReplyDeposes, TypeOK, commitVars, leaderVars, voteVars,
                            applyVars
<1>3. CASE HeartbeatReplySuccess(m)
  <2> DEFINE match == MatchAfter(m)
             N == IF m.Entries = <<>> THEN {} ELSE Committable(s, match)
  <2>1. m.PrevLogIndex + Len(m.Entries) \in Nat
    BY <1>0
  <2>2. match \in [Server -> Int] /\ match[m.to] = m.PrevLogIndex + Len(m.Entries)
    <3>1. MatchIndex[m.from] \in [Server -> Int]
      BY <1>0, Zenon DEF TypeOK
    <3> QED
      BY <1>0, <2>1, <3>1 DEF MatchAfter
  <2>3. N \subseteq Nat
    BY <1>a DEF Committable, LogLength
  <2>4. MatchIndex' \in [Server -> [Server -> Int]]
    <3> HIDE DEF match
    <3>1. MatchIndex' = [MatchIndex EXCEPT ![s] = match]
      BY <1>3, Zenon DEF HeartbeatReplySuccess, match
    <3> QED
      BY <1>0, <2>2, <3>1, Zenon DEF TypeOK
  <2>5. NextIndex' \in [Server -> [Server -> Nat]]
    <3> HIDE DEF match
    <3>1. NextIndex' = [NextIndex EXCEPT ![s] = [NextIndex[s] EXCEPT ![m.to] = match[m.to] + 1]]
      BY <1>3, Zenon DEF HeartbeatReplySuccess, match
    <3>2. NextIndex[s] \in [Server -> Nat]
      BY <1>0, Zenon DEF TypeOK
    <3>3. [NextIndex[s] EXCEPT ![m.to] = match[m.to] + 1] \in [Server -> Nat]
      BY <1>0, <2>1, <2>2, <3>2
    <3> QED
      BY <1>0, <3>1, <3>3, Zenon DEF TypeOK
  <2>6. CommitIndex' \in [Server -> Nat] /\ LastApplied' \in [Server -> Nat]
    <3>1. RaisedLastApplied(s) \in Nat
      BY <1>0, <1>a, Zenon DEF RaisedLastApplied, Max, TypeOK
    <3>2. \/ UNCHANGED commitVars
          \/ \E n \in N : /\ CommitIndex' = [CommitIndex EXCEPT ![s] = n]
                          /\ LastApplied' = [LastApplied EXCEPT ![s] = RaisedLastApplied(s)]
      BY <1>3, Zenon DEF HeartbeatReplySuccess
    <3> HIDE DEF N
    <3>3. /\ CommitIndex \in [Server -> Nat] /\ LastApplied \in [Server -> Nat]
          /\ UNCHANGED commitVars => CommitIndex' = CommitIndex /\ LastApplied' = LastApplied
      BY Zenon DEF TypeOK, commitVars
    <3>4. \A n \in N : n \in Nat
      BY <2>3, Zenon
    <3> QED
      BY <1>0, <3>1, <3>2, <3>3, <3>4, Zenon
  <2> QED
    BY <1>3, <2>4, <2>5, <2>6, Zenon DEF HeartbeatReplySuccess, TypeOK, DurableOK, termVars, logVars,
                                  voteVars, applyVars
<1>4. CASE HeartbeatReplyFailure(m)
  <2> DEFINE next == BackupIndex(s, m.reply)
             call == SnapshotCall(s, m.to, "request", SnapshotData[s])
  <2>1. next \in Nat
    BY <1>0, BackupIndexType, Zenon
  <2>2. call \in SnapCall
    BY <1>0, SnapshotCallType, Zenon DEF TypeOK, DurableOK
  <2>3. NextIndex' \in [Server -> [Server -> Nat]]
    <3> HIDE DEF next
    <3>1. NextIndex' = [NextIndex EXCEPT ![s] = [NextIndex[s] EXCEPT ![m.to] = next]]
      BY <1>4, Zenon DEF HeartbeatReplyFailure, next
    <3>2. NextIndex[s] \in [Server -> Nat]
      BY <1>0, Zenon DEF TypeOK
    <3> QED
      BY <1>0, <2>1, <3>1, <3>2, Zenon DEF TypeOK
  <2>4. snapshotCalls' \subseteq SnapCall
    <3>1. \E sent \in SUBSET {call} : snapshotCalls' = snapshotCalls \cup sent
      BY <1>4, Zenon DEF HeartbeatReplyFailure
    <3> HIDE DEF call
    <3> QED
      BY <2>2, <3>1, Zenon DEF TypeOK
  <2> QED
    BY <1>4, <2>3, <2>4, Zenon DEF HeartbeatReplyFailure, TypeOK, DurableOK, termVars, logVars, commitVars,
                            voteVars, applyVars
<1> QED
  BY <1>1, <1>2, <1>3, <1>4, Zenon

\* Start and the heartbeat goroutine keep the types.
LEMMA LeaderTypes ==
  ASSUME TypeOK, NEW s \in Server,
         HeartBeatGoroutine(s) \/ \E command \in Command : Start(s, command)
  PROVE  TypeOK'
<1>1. CASE HeartBeatGoroutine(s)
  <2>1. CASE \A i \in Peers(s) : NextIndex[s][i] <= LogLength(s)
    <3>1. NextIndex[s] \in [Server -> Nat]
      BY Zenon DEF TypeOK
    <3>2. appendCalls' \subseteq AppendCall /\ snapshotCalls' \subseteq SnapCall
      BY <1>1, <2>1, <3>1, HeartBeatLauncherType, Zenon DEF HeartBeatGoroutine
    <3> QED
      BY <1>1, <2>1, <3>2, Zenon DEF HeartBeatGoroutine, TypeOK, DurableOK, peerVars, termVars, logVars,
                              commitVars, leaderVars, voteVars, applyVars
  <2>2. CASE ~ \A i \in Peers(s) : NextIndex[s][i] <= LogLength(s)
    BY <1>1, <2>2, Zenon DEF HeartBeatGoroutine, Stop, TypeOK, DurableOK, peerVars, termVars, logVars,
                      commitVars, leaderVars, voteVars, applyVars
  <2> QED
    BY <2>1, <2>2, Zenon
<1>2. ASSUME NEW command \in Command, Start(s, command)
      PROVE  TypeOK'
  <2> DEFINE e == [LogTerm |-> CurrentTerm[s], Command |-> command]
  <2>1. e \in Entry /\ Log[s] \in Logs /\ Log[s] \in Seq(Entry) /\ Len(Log[s]) \in Nat
    BY LogEntries, Zenon DEF TypeOK, DurableOK, Entry, Commands
  <2>2. Append(Log[s], e) \in Logs
    <3> HIDE DEF e
    <3>1. Append(Log[s], e) \in Seq(Entry) /\ Append(Log[s], e) # <<>>
      BY <2>1
    <3> QED
      BY <3>1, Zenon DEF Logs
  <2>3. DurableOK'
    BY <1>2, <2>2, Zenon DEF Start, TypeOK, DurableOK, termVars
  <2>4. persister' \in [Server -> PersistedState]
    BY <1>2, <2>3, PersistType, Zenon DEF Start, TypeOK
  <2> QED
    BY <1>2, <2>3, <2>4, Zenon DEF Start, TypeOK, termVars, commitVars, leaderVars, voteVars, applyVars
<1> QED
  BY <1>1, <1>2, Zenon

-----------------------------------------------------------------------------
(* Snapshots, the apply channel, restarts                                  *)

\* InstallSnapshot and SendSnapshot keep the types.
LEMMA SnapshotCallTypes ==
  ASSUME TypeOK, NEW m \in snapshotCalls,
         \/ ReadSnapshotData(m) \/ InstallRefused(m) \/ InstallSnapshot(m) \/ SnapshotReply(m)
         \/ ServiceInstalls(m)
  PROVE  TypeOK'
<1>0. /\ m \in SnapCall /\ m.from \in Server /\ m.to \in Server /\ m.Term \in Terms
      /\ m.LastIncludedIndex \in Nat /\ m.LastIncludedTerm \in Terms
      /\ m.Snapdata \in Seq(Commands) /\ m.replyTerm \in Terms
  BY Zenon DEF TypeOK, SnapCall
<1>1. CASE ReadSnapshotData(m)
  <2>1. [m EXCEPT !.stage = "request", !.Snapdata = SnapshotData[m.from]] \in SnapCall
    BY <1>0, Zenon DEF SnapCall, TypeOK, DurableOK
  <2> QED
    BY <1>1, <2>1, Zenon DEF ReadSnapshotData, TypeOK, DurableOK, peerVars, termVars, logVars, commitVars,
                      leaderVars, voteVars, applyVars
<1>2. CASE InstallRefused(m)
  <2>1. [m EXCEPT !.stage = "reply", !.replyTerm = CurrentTerm[m.to]] \in SnapCall
    BY <1>0, Zenon DEF SnapCall, TypeOK, DurableOK
  <2> QED
    BY <1>2, <2>1, Zenon DEF InstallRefused, Answer, TypeOK, DurableOK, peerVars, termVars, logVars,
                      commitVars, leaderVars, voteVars, applyVars
<1>3. CASE InstallSnapshot(m)
  <2> USE <1>3 DEF InstallSnapshot
  <2>1. KeptLog(m.to, m) \in Logs
    BY <1>0, KeptLogType, Zenon
  <2>2. DurableOK' /\ State' \in [Server -> {FOLLOWER, LEADER}]
    BY <1>0, <2>1, Zenon DEF TypeOK, DurableOK
  <2>3. persister' \in [Server -> PersistedState]
    BY <1>0, <2>2, PersistType, Zenon DEF TypeOK
  <2>4. [m EXCEPT !.stage = "installing", !.replyTerm = CurrentTerm[m.to]] \in SnapCall
    BY <1>0, Zenon DEF SnapCall, TypeOK, DurableOK
  <2>5. snapshotCalls' \subseteq SnapCall
    BY <2>4, Zenon DEF TypeOK
  <2>6. CommitIndex' \in [Server -> Nat] /\ LastApplied' \in [Server -> Nat]
    BY <1>0, Zenon DEF TypeOK, AppliedWithSnapshot, Max
  <2> QED
    BY <2>2, <2>3, <2>5, <2>6, Zenon DEF TypeOK, leaderVars, voteVars, applyVars
<1>4. CASE SnapshotReply(m)
  <2> USE <1>4 DEF SnapshotReply
  <2>1. DurableOK' /\ State' \in [Server -> {FOLLOWER, LEADER}]
    BY <1>0, Zenon DEF TypeOK, DurableOK, logVars
  <2>2. persister' \in [Server -> PersistedState]
    BY <1>0, <2>1, PersistType, Zenon DEF TypeOK
  <2>3. NextIndex' \in [Server -> [Server -> Nat]]
    <3>1. LastIncludedIndex[m.from] + 1 \in Nat
      <4>1. LastIncludedIndex[m.from] \in Nat
        BY <1>0, Zenon DEF TypeOK, DurableOK
      <4> HIDE <1>4
      <4> QED
        BY <4>1
    <3>2. [NextIndex[m.from] EXCEPT ![m.to] = LastIncludedIndex[m.from] + 1] \in [Server -> Nat]
      BY <1>0, <3>1, Zenon DEF TypeOK
    <3> QED
      BY <1>0, <3>2, Zenon DEF TypeOK
  <2> QED
    BY <2>1, <2>2, <2>3, Zenon DEF TypeOK, commitVars, voteVars, applyVars
<1>5. CASE ServiceInstalls(m)
  <2>1. [m EXCEPT !.stage = "reply"] \in SnapCall
    BY <1>0, Zenon DEF SnapCall
  <2>2. snapshotCalls' \subseteq SnapCall
    BY <1>5, <2>1, Zenon DEF ServiceInstalls, Answer, TypeOK
  <2>3. applied' \in [Server -> Seq(Commands)]
    BY <1>0, <1>5, Zenon DEF ServiceInstalls, TypeOK
  <2> QED
    BY <1>5, <2>2, <2>3, Zenon DEF ServiceInstalls, TypeOK, DurableOK, peerVars, termVars, logVars,
                            commitVars, leaderVars, voteVars
<1> QED
  BY <1>1, <1>2, <1>3, <1>4, <1>5, Zenon

\* The apply goroutine, the service and its snapshots keep the types.
LEMMA ServiceTypes ==
  ASSUME TypeOK, NEW s \in Server, Snapshot(s) \/ ApplyGoroutine(s) \/ ServiceApplies(s)
  PROVE  TypeOK'
<1>0. /\ Log[s] \in Logs /\ Len(Log[s]) \in Nat /\ LastIncludedIndex[s] \in Nat
      /\ \A i \in 1..Len(Log[s]) : Log[s][i].LogTerm \in Terms /\ Log[s][i].Command \in Commands
      /\ saving[s] \in Nat /\ LastApplied[s] \in Nat
  BY LogEntries, Zenon DEF TypeOK, DurableOK
<1>1. CASE Snapshot(s)
  <2> DEFINE p == V2PIndex(s, saving[s])
  <2>0. p \in 0..(Len(Log[s]) - 1)
    BY <1>1, Zenon DEF Snapshot, InRange
  <2> HIDE DEF p
  <2>1. p + 1 \in 1..Len(Log[s])
    BY <1>0, <2>0
  <2>2. Log[s][p + 1].LogTerm \in Terms /\ SubSeq(Log[s], p + 1, Len(Log[s])) \in Logs
    BY <1>0, <2>1, LogSlices, Zenon
  <2>3. DurableOK'
    BY <1>0, <1>1, <2>2, Zenon DEF Snapshot, TypeOK, DurableOK, termVars, p
  <2>4. persister' \in [Server -> PersistedState]
    BY <1>1, <2>3, PersistType, Zenon DEF Snapshot, TypeOK
  <2> QED
    BY <1>1, <2>3, <2>4, Zenon DEF Snapshot, TypeOK, termVars, commitVars, leaderVars, voteVars
<1>2. CASE ApplyGoroutine(s)
  <2> DEFINE p == V2PIndex(s, LastApplied[s] + 1)
             msg == [CommandIndex |-> LastApplied[s] + 1, Command |-> Log[s][p + 1].Command]
  <2>0. p \in 0..(Len(Log[s]) - 1)
    BY <1>2, Zenon DEF ApplyGoroutine, InRange
  <2> HIDE DEF p
  <2>1. p + 1 \in 1..Len(Log[s]) /\ LastApplied[s] + 1 \in Nat
    BY <1>0, <2>0
  <2>2. msg \in ApplyMsg
    BY <1>0, <2>1, Zenon DEF ApplyMsg
  <2>3. applyMsg' \in [Server -> ApplyMsg \cup {Nil}]
    BY <1>2, <2>2, Zenon DEF ApplyGoroutine, TypeOK, p
  <2>4. LastApplied' \in [Server -> Nat]
    BY <1>2, <2>1, Zenon DEF ApplyGoroutine, TypeOK
  <2> QED
    BY <1>2, <2>3, <2>4, Zenon DEF ApplyGoroutine, TypeOK, DurableOK, termVars, logVars, leaderVars,
                            voteVars
<1>3. CASE ServiceApplies(s)
  <2>1. applyMsg[s].CommandIndex \in Nat /\ applyMsg[s].Command \in Commands
    BY <1>3, Zenon DEF ServiceApplies, TypeOK, ApplyMsg
  <2>2. saving' \in [Server -> Nat]
    BY <1>3, <2>1, Zenon DEF ServiceApplies, TypeOK
  <2>3. applyMsg' \in [Server -> ApplyMsg \cup {Nil}]
    BY <1>3, Zenon DEF ServiceApplies, TypeOK
  <2>4. applied' \in [Server -> Seq(Commands)]
    <3>1. Append(applied[s], applyMsg[s].Command) \in Seq(Commands)
      BY <2>1 DEF TypeOK
    <3> QED
      BY <1>3, <3>1, Zenon DEF ServiceApplies, TypeOK
  <2> QED
    BY <1>3, <2>2, <2>3, <2>4, Zenon DEF ServiceApplies, TypeOK, DurableOK, peerVars, termVars, logVars,
                                  commitVars, leaderVars, voteVars
<1> QED
  BY <1>1, <1>2, <1>3, Zenon

\* A restart keeps the types.
LEMMA RestartType ==
  ASSUME TypeOK, NEW s \in Server, Restart(s)
  PROVE  TypeOK'
<1>1. persister[s] \in PersistedState
  BY Zenon DEF TypeOK
<1>2. DurableOK' /\ State' \in [Server -> {FOLLOWER, LEADER}]
  BY <1>1, Zenon DEF Restart, TypeOK, DurableOK, PersistedState
<1>3. CommitIndex' \in [Server -> Nat] /\ LastApplied' \in [Server -> Nat]
  BY Zenon DEF Restart, TypeOK
<1>4. NextIndex' \in [Server -> [Server -> Nat]] /\ MatchIndex' \in [Server -> [Server -> Int]]
  <2>1. [i \in Server |-> 0] \in [Server -> Nat] /\ [i \in Server |-> 0] \in [Server -> Int]
    OBVIOUS
  <2> QED
    BY <2>1, Zenon DEF Restart, TypeOK
<1>5. vote' \in [Server -> [1..MaxTerm -> Nat]]
  <2>1. [t \in 1..MaxTerm |-> 0] \in [1..MaxTerm -> Nat]
    BY Zenon
  <2> QED
    BY <2>1, Zenon DEF Restart, TypeOK
<1>6. /\ applyMsg' \in [Server -> ApplyMsg \cup {Nil}]
      /\ applied' \in [Server -> Seq(Commands)]
      /\ saving' \in [Server -> Nat]
      /\ restarts' \in 0..MaxRestarts
  <2>1. applyMsg' \in [Server -> ApplyMsg \cup {Nil}]
    BY Zenon DEF Restart, TypeOK
  <2>2. applied' \in [Server -> Seq(Commands)]
    BY <1>1, Zenon DEF Restart, TypeOK, PersistedState
  <2>3. saving' \in [Server -> Nat]
    BY Zenon DEF Restart, TypeOK
  <2>4. restarts \in 0..MaxRestarts /\ restarts < MaxRestarts /\ restarts' = restarts + 1
    BY Zenon DEF Restart, TypeOK
  <2>5. restarts' \in 0..MaxRestarts
    BY <2>4, BoundAssumption
  <2> QED
    BY <2>1, <2>2, <2>3, <2>5, Zenon
<1>7. voteCalls' \subseteq VoteCall
  <2>1. \A c \in voteCalls : [c EXCEPT !.waited = @ /\ c.from # s] \in VoteCall
    BY ZenonT(20) DEF TypeOK, VoteCall
  <2> QED
    BY <2>1, Zenon DEF Restart, CallsAfterCrash
<1>8. appendCalls' \subseteq AppendCall
  <2>1. \A c \in appendCalls : [c EXCEPT !.waited = @ /\ c.from # s] \in AppendCall
    BY ZenonT(20) DEF TypeOK, AppendCall
  <2> QED
    BY <2>1, Zenon DEF Restart, CallsAfterCrash
<1>9. snapshotCalls' \subseteq SnapCall
  <2>1. \A c \in snapshotCalls : [c EXCEPT !.waited = @ /\ c.from # s] \in SnapCall
    BY ZenonT(20) DEF TypeOK, SnapCall
  <2> QED
    BY <2>1, Zenon DEF Restart, CallsAfterCrash
<1> QED
  BY <1>2, <1>3, <1>4, <1>5, <1>6, <1>7, <1>8, <1>9, Zenon DEF Restart, TypeOK

\* A panic or log.Fatalf changes nothing but fault.
LEMMA StopType ==
  ASSUME TypeOK, NEW what, Stop(what)
  PROVE  TypeOK'
  BY Zenon DEF Stop, TypeOK, DurableOK, peerVars, termVars, logVars, commitVars, leaderVars, voteVars,
         applyVars

-----------------------------------------------------------------------------
\* The types hold when all peers start.
LEMMA TypeInit == Init => TypeOK
<1> SUFFICES ASSUME Init PROVE TypeOK
  BY Zenon
<1>1. <<[LogTerm |-> 0, Command |-> Nil]>> \in Logs
  BY TermsNat DEF Logs, Entry, Commands
<1>2. DurableOK
  BY <1>1, TermsNat DEF Init, DurableOK
<1>3. persister \in [Server -> PersistedState]
  BY <1>2, Zenon DEF Init, Durable, DurableOK, PersistedState
<1> QED
  BY <1>2, <1>3, BoundAssumption DEF Init, TypeOK

\* Every step keeps the types.
LEMMA TypeStep ==
  ASSUME LeastNumber
  PROVE  TypeOK /\ [Next]_vars => TypeOK'
<1> SUFFICES ASSUME TypeOK, [Next]_vars PROVE TypeOK'
  BY Zenon
<1>0. \A S : Running(S) \subseteq S /\ Scheduled(S) \subseteq S
  BY Zenon DEF Running, Scheduled
<1>1. CASE GoroutineStep
  BY <1>0, <1>1, ElectionTypes, SnapshotCallTypes, ServiceTypes, StopType, Zenon
     DEF GoroutineStep, ServiceMismatch, ApplyPanics, ServiceOutOfOrder, SnapshotPanics
<1>2. CASE LocalStep
  BY <1>0, <1>2, ElectLauncherType, LeaderTypes, RestartType, Zenon DEF LocalStep
<1>3. CASE NetworkStep
  BY <1>0, <1>3, ElectionTypes, HeartbeatTypes, HeartbeatReplyTypes, SnapshotCallTypes, StopType, Zenon
     DEF NetworkStep, HeartbeatPanics, HeartbeatReplyPanics
<1>4. CASE UNCHANGED vars
  BY <1>4, Zenon DEF vars, TypeOK, DurableOK, peerVars, termVars, logVars, commitVars, leaderVars, voteVars,
              applyVars
<1> QED
  BY <1>1, <1>2, <1>3, <1>4, Zenon DEF Next

\* The term of a new election is later than every term at or below the candidate's own.
LEMMA NewTermLater == \A t, d, c \in Nat : t = c + 1 => ~(t <= d /\ d <= c)
  OBVIOUS

\* No votes are at most no votes.
LEMMA NoVotes == \A a, b, c : a = 0 /\ b = 0 /\ c = 0 => a + b <= c
  OBVIOUS

\* A vote is only displaced by a later term, and persist() saves the term and vote in memory.
TermsAdvance ==
  \A s \in Server :
    /\ CurrentTerm'[s] >= CurrentTerm[s]
    /\ CurrentTerm'[s] = CurrentTerm[s] /\ VotedFor[s] # Nil => VotedFor'[s] = VotedFor[s]
    /\ \/ persister'[s] = persister[s]
       \/ /\ persister'[s].CurrentTerm = CurrentTerm'[s]
          /\ persister'[s].VotedFor = VotedFor'[s]

\* persist() saves the term and the vote that are in memory, or nothing is saved.
LEMMA PersistSaves ==
  ASSUME TypeOK, NEW s \in Server, NEW cond, PersistIf(s, cond) \/ Persist(s)
  PROVE  \A i \in Server : \/ persister'[i] = persister[i]
                           \/ /\ persister'[i].CurrentTerm = CurrentTerm'[i]
                              /\ persister'[i].VotedFor = VotedFor'[i]
<1>1. persister' = persister \/ persister' = [persister EXCEPT ![s] = Durable(s)']
  BY Zenon DEF PersistIf, Persist
<1>2. persister \in [Server -> PersistedState]
  BY Zenon DEF TypeOK
<1>3. \A i \in Server : persister'[i] = persister[i] \/ (i = s /\ persister'[i] = Durable(s)')
  BY <1>1, <1>2, Zenon
<1>4. Durable(s)'.CurrentTerm = CurrentTerm'[s] /\ Durable(s)'.VotedFor = VotedFor'[s]
  BY DurableVote, Zenon
<1> QED
  BY <1>3, <1>4, Zenon

\* A term that a handler sets to a later one advances, and the other peers' terms stay.
LEMMA SetTerm ==
  ASSUME TypeOK, NEW s \in Server, NEW t \in Nat, t >= CurrentTerm[s],
         CurrentTerm' = [CurrentTerm EXCEPT ![s] = t]
  PROVE  /\ \A i \in Server : i # s => CurrentTerm'[i] = CurrentTerm[i]
         /\ CurrentTerm'[s] = t
         /\ \A i \in Server : CurrentTerm'[i] >= CurrentTerm[i]
<1>1. /\ \A i \in Server : i # s => CurrentTerm'[i] = CurrentTerm[i]
      /\ CurrentTerm'[s] = t
  BY Zenon DEF TypeOK, DurableOK
<1>2. \A i \in Server : CurrentTerm[i] \in Nat
  BY TermsNat, Zenon DEF TypeOK, DurableOK
<1>3. ASSUME NEW i \in Server
      PROVE  CurrentTerm'[i] >= CurrentTerm[i]
  <2>1. CASE i = s
    BY <1>1, <2>1, Zenon
  <2>2. CASE i # s
    <3>1. CurrentTerm'[i] = CurrentTerm[i] /\ CurrentTerm[i] \in Nat
      BY <1>1, <1>2, <2>2, Zenon
    <3> QED
      BY <3>1
  <2> QED
    BY <2>1, <2>2, Zenon
<1> QED
  BY <1>1, <1>3, Zenon

\* The form most handlers use.
LEMMA RaisedTerm ==
  ASSUME TypeOK, NEW s \in Server, NEW t \in Nat,
         CurrentTerm' = [CurrentTerm EXCEPT ![s] = Max(@, t)]
  PROVE  /\ \A i \in Server : i # s => CurrentTerm'[i] = CurrentTerm[i]
         /\ CurrentTerm'[s] = Max(CurrentTerm[s], t)
         /\ \A i \in Server : CurrentTerm'[i] >= CurrentTerm[i]
<1>1. CurrentTerm[s] \in Nat
  BY TermsNat, Zenon DEF TypeOK, DurableOK
<1>2. Max(CurrentTerm[s], t) \in Nat /\ Max(CurrentTerm[s], t) >= CurrentTerm[s]
  BY <1>1 DEF Max
<1> QED
  BY <1>2, SetTerm, Zenon

\* HeartbeatHandler adopts a later term and keeps the vote.
LEMMA AdoptTermAdvances ==
  ASSUME TypeOK, NEW s \in Server, NEW t \in Terms, AdoptTerm(s, t),
         NEW cond, PersistIf(s, cond) \/ Persist(s)
  PROVE  TermsAdvance
<1>1. t \in Nat
  BY TermsNat, Zenon
<1>2. \A i \in Server : CurrentTerm'[i] >= CurrentTerm[i]
  BY <1>1, RaisedTerm, Zenon DEF AdoptTerm
<1> QED
  BY <1>2, PersistSaves, Zenon DEF AdoptTerm, TermsAdvance

\* The actions that leave term, vote and disk alone.
LEMMA TermsUnchanged ==
  ASSUME TypeOK, UNCHANGED <<CurrentTerm, VotedFor, persister>>
  PROVE  TermsAdvance
<1>1. \A i \in Server : CurrentTerm[i] \in Nat
  BY TermsNat, Zenon DEF TypeOK, DurableOK
<1> QED
  BY <1>1 DEF TermsAdvance

\* The vote actions only let terms advance.
LEMMA VoteTermsAdvance ==
  ASSUME TypeOK, NEW m \in voteCalls,
         \/ RequestVoteHandler(m) \/ VoteReplyStale(m) \/ VoteReplyCurrent(m)
         \/ CountVote(m) \/ VoteRefused(m) \/ BecomeLeader(m)
  PROVE  TermsAdvance
<1>0. /\ m.from \in Server /\ m.to \in Server /\ m.Term \in Nat /\ m.replyTerm \in Nat
      /\ \A i \in Server : CurrentTerm[i] \in Nat
  BY TermsNat, ZenonT(30) DEF TypeOK, DurableOK, VoteCall
<1>1. CASE RequestVoteHandler(m)
  <2>1. \A i \in Server : CurrentTerm'[i] >= CurrentTerm[i]
    BY <1>0, <1>1, RaisedTerm, ZenonT(30) DEF RequestVoteHandler
  <2>2. ASSUME NEW i \in Server, CurrentTerm'[i] = CurrentTerm[i], VotedFor[i] # Nil
        PROVE  VotedFor'[i] = VotedFor[i]
    <3>1. CASE i # m.to
      BY <1>1, <3>1, Zenon DEF RequestVoteHandler, TypeOK, DurableOK
    <3>2. CASE i = m.to
      <4>1. ~(CurrentTerm[i] < m.Term)
        <5>1. CurrentTerm[i] = Max(CurrentTerm[i], m.Term)
          BY <1>0, <1>1, <2>2, <3>2, RaisedTerm, ZenonT(30) DEF RequestVoteHandler
        <5> QED
          BY <1>0, <5>1, SMTT(20) DEF Max
      <4>2. RememberedVote(i, m.Term) = VotedFor[i]
        BY <4>1, Zenon DEF RememberedVote
      <4>3. VotedFor'[i] = IF Grants(i, m) THEN m.from ELSE RememberedVote(i, m.Term)
        BY <1>0, <1>1, <3>2, Zenon DEF RequestVoteHandler, TypeOK, DurableOK
      <4> QED
        BY <2>2, <4>2, <4>3, Zenon DEF Grants
    <3> QED
      BY <3>1, <3>2, Zenon
  <2> QED
    BY <1>0, <1>1, <2>1, <2>2, PersistSaves, Zenon DEF RequestVoteHandler, TermsAdvance
<1>2. CASE VoteReplyStale(m) \/ VoteReplyCurrent(m) \/ CountVote(m) \/ BecomeLeader(m)
  BY <1>2, TermsUnchanged, ZenonT(30) DEF VoteReplyStale, VoteReplyCurrent, CountVote, BecomeLeader, peerVars,
                              termVars
<1>3. CASE VoteRefused(m)
  <2>1. \A i \in Server : CurrentTerm'[i] >= CurrentTerm[i]
    BY <1>0, <1>3, RaisedTerm, ZenonT(30) DEF VoteRefused
  <2> QED
    BY <1>0, <1>3, <2>1, PersistSaves, Zenon DEF VoteRefused, TermsAdvance
<1> QED
  BY <1>1, <1>2, <1>3, Zenon

\* ElectLauncher starts a term the peer has not been in, and persists it.
LEMMA LaunchTermsAdvance ==
  ASSUME TypeOK, NEW s \in Server, ElectLauncher(s)
  PROVE  TermsAdvance
<1>0. \A i \in Server : CurrentTerm[i] \in Nat
  BY TermsNat, ZenonT(30) DEF TypeOK, DurableOK
<1>1. /\ CurrentTerm'[s] = CurrentTerm[s] + 1
      /\ \A i \in Server : i # s => /\ CurrentTerm'[i] = CurrentTerm[i]
                                    /\ VotedFor'[i] = VotedFor[i]
  BY Zenon DEF ElectLauncher, TypeOK, DurableOK
<1>2. ASSUME NEW i \in Server
      PROVE  /\ CurrentTerm'[i] >= CurrentTerm[i]
             /\ CurrentTerm'[i] = CurrentTerm[i] => VotedFor'[i] = VotedFor[i]
  <2>1. CASE i = s
    BY <1>0, <1>1, <2>1, SMTT(20)
  <2>2. CASE i # s
    <3>1. CurrentTerm'[i] = CurrentTerm[i] /\ CurrentTerm[i] \in Nat /\ VotedFor'[i] = VotedFor[i]
      BY <1>0, <1>1, <2>2, Zenon
    <3> QED
      BY <3>1
  <2> QED
    BY <2>1, <2>2, Zenon
<1> QED
  BY <1>2, PersistSaves, Zenon DEF ElectLauncher, TermsAdvance

-----------------------------------------------------------------------------
(* The actions that have nothing to do with votes                          *)

Quiet == TermsAdvance /\ UNCHANGED voteVars

\* A panic leaves terms and votes as they are.
LEMMA StopQuiet ==
  ASSUME TypeOK, NEW what, Stop(what)
  PROVE  Quiet
  BY TermsUnchanged, Zenon DEF Stop, Quiet, peerVars, termVars

\* HeartbeatHandler and SendHeartbeat touch no vote.
LEMMA HeartbeatQuiet ==
  ASSUME TypeOK, NEW m \in appendCalls,
         \/ HeartbeatRefused(m) \/ HeartbeatMissing(m) \/ HeartbeatPanics(m)
         \/ HeartbeatConflict(m) \/ HeartbeatAccepted(m) \/ HeartbeatReplyStale(m)
         \/ HeartbeatReplyDeposes(m) \/ HeartbeatReplySuccess(m) \/ HeartbeatReplyPanics(m)
         \/ HeartbeatReplyFailure(m)
  PROVE  Quiet
<1>0. /\ m.from \in Server /\ m.to \in Server /\ m.Term \in Terms /\ m.Term \in Nat
      /\ m.reply.Term \in Nat
  BY TermsNat, ZenonT(30) DEF TypeOK, AppendCall, AppendReply
<1>1. CASE HeartbeatRefused(m) \/ HeartbeatReplyStale(m) \/ HeartbeatReplySuccess(m)
             \/ HeartbeatReplyFailure(m)
  BY <1>1, TermsUnchanged, Zenon DEF HeartbeatRefused, HeartbeatReplyStale, HeartbeatReplySuccess,
                              HeartbeatReplyFailure, Quiet, peerVars, termVars
<1>2. CASE HeartbeatPanics(m) \/ HeartbeatReplyPanics(m)
  BY <1>2, StopQuiet, ZenonT(30) DEF HeartbeatPanics, HeartbeatReplyPanics
<1>3. CASE HeartbeatMissing(m)
  BY <1>0, <1>3, AdoptTermAdvances, Zenon DEF HeartbeatMissing, Quiet
<1>4. CASE HeartbeatConflict(m)
  BY <1>0, <1>4, AdoptTermAdvances, Zenon DEF HeartbeatConflict, Quiet
<1>5. CASE HeartbeatAccepted(m)
  BY <1>0, <1>5, AdoptTermAdvances, Zenon DEF HeartbeatAccepted, Quiet
<1>6. CASE HeartbeatReplyDeposes(m)
  <2>1. m.reply.Term >= CurrentTerm[m.from]
    BY <1>0, <1>6, SMTT(20) DEF HeartbeatReplyDeposes
  <2>2. \A i \in Server : CurrentTerm'[i] >= CurrentTerm[i]
    BY <1>0, <1>6, <2>1, SetTerm, ZenonT(30) DEF HeartbeatReplyDeposes
  <2> QED
    BY <1>0, <1>6, <2>2, PersistSaves, Zenon DEF HeartbeatReplyDeposes, TermsAdvance, Quiet
<1> QED
  BY <1>1, <1>2, <1>3, <1>4, <1>5, <1>6, Zenon

\* InstallSnapshot and SendSnapshot touch no vote.
LEMMA SnapshotQuiet ==
  ASSUME TypeOK, NEW m \in snapshotCalls,
         \/ ReadSnapshotData(m) \/ InstallRefused(m) \/ InstallSnapshot(m) \/ SnapshotReply(m)
         \/ ServiceInstalls(m) \/ ServiceMismatch(m)
  PROVE  Quiet
<1>0. /\ m.from \in Server /\ m.to \in Server /\ m.Term \in Nat /\ m.replyTerm \in Nat
      /\ \A i \in Server : CurrentTerm[i] \in Nat
  BY TermsNat, ZenonT(30) DEF TypeOK, DurableOK, SnapCall
<1>1. CASE ReadSnapshotData(m) \/ InstallRefused(m) \/ ServiceInstalls(m)
  BY <1>1, TermsUnchanged, Zenon DEF ReadSnapshotData, InstallRefused, ServiceInstalls, Quiet, peerVars,
                              termVars
<1>2. CASE ServiceMismatch(m)
  BY <1>2, StopQuiet, ZenonT(30) DEF ServiceMismatch
<1>3. CASE InstallSnapshot(m)
  <2>1. /\ CurrentTerm'[m.to] = m.Term
        /\ \A i \in Server : CurrentTerm'[i] >= CurrentTerm[i]
    BY <1>0, <1>3, SetTerm, ZenonT(30) DEF InstallSnapshot
  <2>2. ASSUME NEW i \in Server, CurrentTerm'[i] = CurrentTerm[i]
        PROVE  VotedFor'[i] = VotedFor[i]
    <3>1. CASE m.Term > CurrentTerm[m.to]
      <4>1. i # m.to
        BY <1>0, <2>1, <2>2, <3>1, SMTT(20)
      <4> QED
        BY <1>3, <4>1, Zenon DEF InstallSnapshot, TypeOK, DurableOK
    <3>2. CASE ~(m.Term > CurrentTerm[m.to])
      BY <1>3, <3>2, Zenon DEF InstallSnapshot
    <3> QED
      BY <3>1, <3>2, Zenon
  <2> QED
    BY <1>0, <1>3, <2>1, <2>2, PersistSaves, Zenon DEF InstallSnapshot, TermsAdvance, Quiet
<1>4. CASE SnapshotReply(m)
  <2>1. \A i \in Server : CurrentTerm'[i] >= CurrentTerm[i]
    <3>1. CASE CurrentTerm[m.from] = m.Term /\ m.replyTerm > CurrentTerm[m.from]
      BY <1>0, <1>4, <3>1, SetTerm, SMTT(20) DEF SnapshotReply
    <3>2. CASE ~(CurrentTerm[m.from] = m.Term /\ m.replyTerm > CurrentTerm[m.from])
      <4>1. CurrentTerm' = CurrentTerm
        BY <1>4, <3>2, Zenon DEF SnapshotReply
      <4> QED
        BY <1>0, <4>1, SMTT(20)
    <3> QED
      BY <3>1, <3>2, Zenon
  <2> QED
    BY <1>0, <1>4, <2>1, PersistSaves, Zenon DEF SnapshotReply, TermsAdvance, Quiet
<1> QED
  BY <1>1, <1>2, <1>3, <1>4, Zenon

\* Start, Snapshot, the heartbeat and apply goroutines and the service touch no vote.
LEMMA PeerQuiet ==
  ASSUME TypeOK, NEW s \in Server,
         \/ HeartBeatGoroutine(s) \/ \E command \in Command : Start(s, command)
         \/ ApplyGoroutine(s) \/ ApplyPanics(s) \/ ServiceApplies(s) \/ ServiceOutOfOrder(s)
         \/ Snapshot(s) \/ SnapshotPanics(s)
  PROVE  Quiet
<1>0. \A i \in Server : CurrentTerm[i] \in Nat
  BY TermsNat, ZenonT(30) DEF TypeOK, DurableOK
<1>1. CASE ApplyGoroutine(s) \/ ServiceApplies(s)
  BY <1>1, TermsUnchanged, Zenon DEF ApplyGoroutine, ServiceApplies, Quiet, peerVars, termVars
<1>2. CASE ApplyPanics(s) \/ ServiceOutOfOrder(s) \/ SnapshotPanics(s)
  BY <1>2, StopQuiet, ZenonT(30) DEF ApplyPanics, ServiceOutOfOrder, SnapshotPanics
<1>3. CASE HeartBeatGoroutine(s)
  BY <1>3, TermsUnchanged, StopQuiet, ZenonT(30) DEF HeartBeatGoroutine, Quiet, peerVars, termVars
<1>4. CASE Snapshot(s) \/ \E command \in Command : Start(s, command)
  <2>1. UNCHANGED <<termVars, voteVars>> /\ Persist(s)
    BY <1>4, ZenonT(30) DEF Snapshot, Start
  <2> QED
    BY <1>0, <2>1, PersistSaves DEF TermsAdvance, Quiet, termVars
<1> QED
  BY <1>1, <1>2, <1>3, <1>4, Zenon

-----------------------------------------------------------------------------
(* Votes once granted stay granted                                         *)

\* When terms only advance, a granted vote stays remembered and on disk.
LEMMA KeptVotes ==
  ASSUME TypeOK, TypeOK', TermsAdvance, ElectionInv
  PROVE  /\ \A g \in granted :
              /\ \/ persister'[g.voter].CurrentTerm > g.term
                 \/ /\ persister'[g.voter].CurrentTerm = g.term
                    /\ persister'[g.voter].VotedFor = g.candidate
              /\ \/ CurrentTerm'[g.voter] > g.term
                 \/ CurrentTerm'[g.voter] = g.term /\ VotedFor'[g.voter] = g.candidate
         /\ \A s \in Server : /\ persister[s].CurrentTerm \in Nat
                              /\ persister'[s].CurrentTerm \in Nat
                              /\ CurrentTerm[s] \in Nat /\ CurrentTerm'[s] \in Nat
                              /\ persister[s].CurrentTerm <= persister'[s].CurrentTerm
                              /\ persister'[s].CurrentTerm <= CurrentTerm'[s]
<1>1. \A s \in Server : /\ persister[s].CurrentTerm \in Nat
                        /\ persister'[s].CurrentTerm \in Nat
                        /\ CurrentTerm[s] \in Nat /\ CurrentTerm'[s] \in Nat
  BY TermsNat, ZenonT(30) DEF TypeOK, DurableOK, PersistedState
<1>2. ASSUME NEW s \in Server
      PROVE  /\ persister[s].CurrentTerm <= persister'[s].CurrentTerm
             /\ persister'[s].CurrentTerm <= CurrentTerm'[s]
  <2>1. CurrentTerm'[s] >= CurrentTerm[s] /\ persister[s].CurrentTerm <= CurrentTerm[s]
    BY Zenon DEF TermsAdvance, ElectionInv, TermsUsedOnDisk
  <2>2. persister'[s] = persister[s] \/ persister'[s].CurrentTerm = CurrentTerm'[s]
    BY Zenon DEF TermsAdvance
  <2> QED
    BY <1>1, <2>1, <2>2
<1>3. ASSUME NEW g \in granted
      PROVE  /\ \/ persister'[g.voter].CurrentTerm > g.term
                \/ /\ persister'[g.voter].CurrentTerm = g.term
                   /\ persister'[g.voter].VotedFor = g.candidate
             /\ \/ CurrentTerm'[g.voter] > g.term
                \/ CurrentTerm'[g.voter] = g.term /\ VotedFor'[g.voter] = g.candidate
  <2> DEFINE v == g.voter
  <2>1. v \in Server /\ g.term \in Nat /\ g.candidate \in Server /\ g.candidate # Nil
    BY TermsNat, ServerAssumption, ZenonT(30) DEF TypeOK, Grant
  <2>2. \/ CurrentTerm[v] > g.term
        \/ CurrentTerm[v] = g.term /\ VotedFor[v] = g.candidate
    BY Zenon DEF ElectionInv, VotesRemembered
  <2>3. \/ CurrentTerm'[v] > g.term
        \/ CurrentTerm'[v] = g.term /\ VotedFor'[v] = g.candidate
    <3>1. CurrentTerm'[v] >= CurrentTerm[v]
      BY <2>1, Zenon DEF TermsAdvance
    <3>2. CASE CurrentTerm'[v] > g.term
      BY <3>2, Zenon
    <3>3. CASE ~(CurrentTerm'[v] > g.term)
      <4>1. CurrentTerm'[v] = CurrentTerm[v] /\ CurrentTerm[v] = g.term
        BY <1>1, <2>1, <2>2, <3>1, <3>3, SMTT(20)
      <4>2. VotedFor[v] = g.candidate
        BY <1>1, <2>1, <2>2, <4>1, SMTT(20)
      <4> QED
        BY <2>1, <4>1, <4>2, Zenon DEF TermsAdvance
    <3> QED
      BY <3>2, <3>3, Zenon
  <2>4. \/ persister[v].CurrentTerm > g.term
        \/ persister[v].CurrentTerm = g.term /\ persister[v].VotedFor = g.candidate
    BY Zenon DEF ElectionInv, VotesOnDisk
  <2>5. \/ persister'[v] = persister[v]
        \/ persister'[v].CurrentTerm = CurrentTerm'[v] /\ persister'[v].VotedFor = VotedFor'[v]
    BY <2>1, Zenon DEF TermsAdvance
  <2>6. \/ persister'[v].CurrentTerm > g.term
        \/ persister'[v].CurrentTerm = g.term /\ persister'[v].VotedFor = g.candidate
    BY <2>3, <2>4, <2>5, Zenon
  <2> QED
    BY <2>3, <2>6, Zenon
<1> QED
  BY <1>1, <1>2, <1>3, ZenonT(30)

-----------------------------------------------------------------------------
(* Counting                                                                *)

\* The sets that are counted are finite.
LEMMA VotersFinite ==
  ASSUME FiniteSetsCount, NEW c, NEW t
  PROVE  /\ IsFiniteSet(Voters(c, t)) /\ Cardinality(Voters(c, t)) \in Nat
         /\ IsFiniteSet(Uncounted(c, t)) /\ Cardinality(Uncounted(c, t)) \in Nat
<1>1. Voters(c, t) \subseteq Server /\ Uncounted(c, t) \subseteq Server
  BY Zenon DEF Voters, Uncounted
<1> QED
  BY <1>1, ServerAssumption, CountSubset, CountType, Zenon

\* They are finite after a step too.
LEMMA VotersFinitePrime ==
  ASSUME FiniteSetsCount, NEW c, NEW t
  PROVE  /\ IsFiniteSet(Voters(c, t)') /\ Cardinality(Voters(c, t)') \in Nat
         /\ IsFiniteSet(Uncounted(c, t)') /\ Cardinality(Uncounted(c, t)') \in Nat
<1>1. Voters(c, t)' \subseteq Server /\ Uncounted(c, t)' \subseteq Server
  BY Zenon DEF Voters, Uncounted
<1> QED
  BY <1>1, ServerAssumption, CountSubset, CountType, Zenon

\* A majority stays a majority when votes are added.
LEMMA VotersGrow ==
  ASSUME FiniteSetsCount, NEW c, NEW t, granted \subseteq granted'
  PROVE  /\ Cardinality(Voters(c, t)) <= Cardinality(Voters(c, t)')
         /\ IsMajority(Cardinality(Voters(c, t))) => IsMajority(Cardinality(Voters(c, t)'))
<1>1. Voters(c, t) \subseteq Voters(c, t)'
  BY Zenon DEF Voters
<1>2. Cardinality(Voters(c, t)) <= Cardinality(Voters(c, t)')
  BY <1>1, VotersFinitePrime, CountSubset, Zenon
<1>3. Cardinality(Server) \in Nat
  BY ServerAssumption, CountType, Zenon
<1> QED
  BY <1>2, <1>3, VotersFinite, VotersFinitePrime, SMTT(20) DEF IsMajority

-----------------------------------------------------------------------------
(* One step of each kind                                                   *)

\* No vote is granted: what is known of the votes carries over.
LEMMA SameGrants ==
  ASSUME TypeOK, TypeOK', TermsAdvance, ElectionInv, granted' = granted
  PROVE  /\ OneVotePerTerm' /\ VotesOnDisk' /\ VotesRemembered'
         /\ \A s \in Server : persister'[s].CurrentTerm <= CurrentTerm'[s]
         /\ \A g \in granted' : g.term <= persister'[g.candidate].CurrentTerm
<1>1. OneVotePerTerm'
  BY Zenon DEF ElectionInv, OneVotePerTerm
<1>2. VotesOnDisk' /\ VotesRemembered'
  BY KeptVotes, Zenon DEF VotesOnDisk, VotesRemembered
<1>3. \A s \in Server : persister'[s].CurrentTerm <= CurrentTerm'[s]
  BY KeptVotes, Zenon
<1>4. ASSUME NEW g \in granted
      PROVE  g.term <= persister'[g.candidate].CurrentTerm
  <2>1. g.candidate \in Server /\ g.term \in Nat
    BY TermsNat, Zenon DEF TypeOK, Grant
  <2>2. g.term <= persister[g.candidate].CurrentTerm
    BY Zenon DEF ElectionInv, TermsUsedOnDisk
  <2>3. /\ persister[g.candidate].CurrentTerm <= persister'[g.candidate].CurrentTerm
        /\ persister[g.candidate].CurrentTerm \in Nat /\ persister'[g.candidate].CurrentTerm \in Nat
    BY <2>1, KeptVotes, Zenon
  <2> QED
    BY <2>1, <2>2, <2>3
<1> QED
  BY <1>1, <1>2, <1>3, <1>4, Zenon

\* The terms of calls that were under way stay on disk.
LEMMA CallTermsKept ==
  ASSUME TypeOK, TypeOK', TermsAdvance, ElectionInv
  PROVE  \A m \in voteCalls : m.Term <= persister'[m.from].CurrentTerm
<1> SUFFICES ASSUME NEW m \in voteCalls PROVE m.Term <= persister'[m.from].CurrentTerm
  BY Zenon
<1>1. m.from \in Server /\ m.Term \in Nat
  BY TermsNat, Zenon DEF TypeOK, VoteCall
<1>2. m.Term <= persister[m.from].CurrentTerm
  BY Zenon DEF ElectionInv, TermsUsedOnDisk
<1>3. /\ persister[m.from].CurrentTerm <= persister'[m.from].CurrentTerm
      /\ persister[m.from].CurrentTerm \in Nat /\ persister'[m.from].CurrentTerm \in Nat
  BY <1>1, KeptVotes, Zenon
<1> QED
  BY <1>1, <1>2, <1>3

\* A step that touches no vote keeps the invariant.
LEMMA QuietInv ==
  ASSUME TypeOK, TypeOK', Quiet, ElectionInv
  PROVE  ElectionInv'
<1>1. UNCHANGED <<vote, voteCalls, granted, reigns>> /\ TermsAdvance
  BY Zenon DEF Quiet, voteVars
<1>2. \A c, t : Voters(c, t)' = Voters(c, t) /\ Uncounted(c, t)' = Uncounted(c, t)
  BY <1>1, Zenon DEF Voters, Uncounted
<1>3. CountedVotesGranted' /\ ElectedByMajority'
  BY <1>1, <1>2, Zenon DEF ElectionInv, CountedVotesGranted, ElectedByMajority
<1>4. TermsUsedOnDisk'
  BY <1>1, SameGrants, CallTermsKept, Zenon DEF TermsUsedOnDisk
<1>5. AskedOnce'
  BY <1>1, Zenon DEF ElectionInv, AskedOnce
<1> QED
  BY <1>1, <1>3, <1>4, <1>5, SameGrants, Zenon DEF ElectionInv

\* The goroutine of call m goes on to r or ends; at most the vote that m asks for is granted.
LEMMA CallAdvances ==
  ASSUME TypeOK, TypeOK', TermsAdvance, ElectionInv,
         NEW m \in voteCalls, NEW r, NEW R \in SUBSET {r},
         r.from = m.from, r.to = m.to, r.Term = m.Term, r.stage # "request",
         voteCalls' = (voteCalls \ {m}) \cup R,
         granted' \subseteq
           granted \cup {[voter |-> m.to, term |-> m.Term, candidate |-> m.from]}
  PROVE  /\ AskedOnce'
         /\ \A n \in voteCalls' : n.Term <= persister'[n.from].CurrentTerm
<1>1. ASSUME NEW n \in voteCalls', NEW k \in voteCalls',
             n.from = k.from, n.to = k.to, n.Term = k.Term
      PROVE  n = k
  BY <1>1, Zenon DEF ElectionInv, AskedOnce
<1>2. ASSUME NEW n \in voteCalls', n.stage = "request"
      PROVE  [voter |-> n.to, term |-> n.Term, candidate |-> n.from] \notin granted'
  <2>1. n \in voteCalls /\ n # m
    BY <1>2, Zenon
  <2>2. ~(n.from = m.from /\ n.to = m.to /\ n.Term = m.Term)
    BY <2>1, Zenon DEF ElectionInv, AskedOnce
  <2>3. [voter |-> n.to, term |-> n.Term, candidate |-> n.from] \notin granted
    BY <1>2, <2>1, Zenon DEF ElectionInv, AskedOnce
  <2>4. [voter |-> n.to, term |-> n.Term, candidate |-> n.from] #
          [voter |-> m.to, term |-> m.Term, candidate |-> m.from]
    BY <2>2, Zenon
  <2> QED
    BY <2>3, <2>4, Zenon
<1>3. \A n \in voteCalls' : n.Term <= persister'[n.from].CurrentTerm
  BY CallTermsKept, Zenon
<1> QED
  BY <1>1, <1>2, <1>3, Zenon DEF AskedOnce

\* No vote is granted or counted, and no goroutine sees a majority.
LEMMA NothingCounted ==
  ASSUME FiniteSetsCount, ElectionInv, TypeOK, vote' = vote, granted' = granted,
         \A n \in voteCalls' :
           \/ n \in voteCalls
           \/ /\ n.stage = "checked"
              /\ \E k \in voteCalls : /\ k.from = n.from /\ k.to = n.to /\ k.Term = n.Term
                                      /\ k.VoteGranted = n.VoteGranted /\ k.stage = "reply"
  PROVE  CountedVotesGranted'
<1>1. \A c, t : Voters(c, t)' = Voters(c, t)
  BY Zenon DEF Voters
<1>2. \A c, t : Uncounted(c, t)' \subseteq Uncounted(c, t)
  BY DEF Uncounted
<1>3. ASSUME NEW s \in Server, NEW t \in 1..MaxTerm
      PROVE  vote'[s][t] + Cardinality(Uncounted(s, t)') <= Cardinality(Voters(s, t)')
  <2>1. vote[s][t] + Cardinality(Uncounted(s, t)) <= Cardinality(Voters(s, t))
    BY Zenon DEF ElectionInv, CountedVotesGranted
  <2>2. Cardinality(Uncounted(s, t)') <= Cardinality(Uncounted(s, t))
    BY <1>2, VotersFinite, CountSubset, Zenon
  <2>3. vote[s][t] \in Nat
    BY ZenonT(30) DEF TypeOK
  <2>4. Cardinality(Voters(s, t)') = Cardinality(Voters(s, t)) /\ vote'[s][t] = vote[s][t]
    BY <1>1, Zenon
  <2> QED
    BY <2>1, <2>2, <2>3, <2>4, VotersFinite, VotersFinitePrime
<1>4. \A n \in voteCalls' : n.stage = "elected" => n \in voteCalls
  BY Zenon
<1>5. \A n \in voteCalls' :
        n.stage = "elected" => IsMajority(Cardinality(Voters(n.from, n.Term)'))
  BY <1>1, <1>4, Zenon DEF ElectionInv, CountedVotesGranted
<1> QED
  BY <1>3, <1>5, Zenon DEF CountedVotesGranted

\* SendRequestVote before and after counting: a call moves on, nothing is counted.
LEMMA ReplyInv ==
  ASSUME FiniteSetsCount, TypeOK, TypeOK', ElectionInv, NEW m \in voteCalls,
         VoteReplyStale(m) \/ VoteReplyCurrent(m) \/ VoteRefused(m) \/ BecomeLeader(m)
  PROVE  ElectionInv'
<1> DEFINE r == [m EXCEPT !.stage = "checked"]
<1>0. m \in VoteCall /\ TermsAdvance /\ granted' = granted /\ vote' = vote
  BY VoteTermsAdvance, Zenon DEF TypeOK, VoteReplyStale, VoteReplyCurrent, VoteRefused, BecomeLeader
<1>1. /\ r.from = m.from /\ r.to = m.to /\ r.Term = m.Term /\ r.VoteGranted = m.VoteGranted
      /\ r.stage = "checked"
  BY <1>0, Zenon DEF VoteCall
<1>2. PICK R \in SUBSET {r} : /\ voteCalls' = (voteCalls \ {m}) \cup R
                              /\ R # {} => m.stage = "reply"
  <2>1. CASE VoteReplyCurrent(m)
    BY <2>1, Zenon DEF VoteReplyCurrent
  <2>2. CASE VoteReplyStale(m) \/ VoteRefused(m) \/ BecomeLeader(m)
    <3>1. voteCalls' = (voteCalls \ {m}) \cup {}
      BY <2>2, Zenon DEF VoteReplyStale, VoteRefused, BecomeLeader
    <3> QED
      BY <3>1, ZenonT(30)
  <2> QED
    BY <2>1, <2>2, Zenon
<1> HIDE DEF r
<1>3. /\ AskedOnce'
      /\ \A n \in voteCalls' : n.Term <= persister'[n.from].CurrentTerm
  BY <1>0, <1>1, <1>2, CallAdvances, Zenon
<1>4. CountedVotesGranted'
  BY <1>0, <1>1, <1>2, NothingCounted, Zenon
<1>5. ElectedByMajority'
  <2>1. \A c, t : Voters(c, t)' = Voters(c, t)
    BY <1>0, Zenon DEF Voters
  <2>2. CASE ~BecomeLeader(m)
    <3>1. reigns' = reigns
      BY <2>2, Zenon DEF VoteReplyStale, VoteReplyCurrent, VoteRefused
    <3> QED
      BY <2>1, <3>1, Zenon DEF ElectionInv, ElectedByMajority
  <2>3. CASE BecomeLeader(m)
    <3> DEFINE q == [leader |-> m.from, elected |-> m.Term, term |-> CurrentTerm[m.from]]
    <3>1. reigns' = reigns \cup {q} /\ m.stage = "elected"
      BY <2>3, Zenon DEF BecomeLeader
    <3>2. IsMajority(Cardinality(Voters(m.from, m.Term)))
      BY <3>1, Zenon DEF ElectionInv, CountedVotesGranted
    <3>3. q.leader = m.from /\ q.elected = m.Term
      BY Zenon
    <3> HIDE DEF q
    <3> QED
      BY <2>1, <3>1, <3>2, <3>3, Zenon DEF ElectionInv, ElectedByMajority
  <2> QED
    BY <2>2, <2>3, Zenon
<1> QED
  BY <1>0, <1>3, <1>4, <1>5, SameGrants, Zenon DEF ElectionInv, TermsUsedOnDisk

\* The vote of m moves from the uncounted ones to the counter.
LEMMA CountVoteInv ==
  ASSUME FiniteSetsCount, TypeOK, TypeOK', ElectionInv, NEW m \in voteCalls, CountVote(m)
  PROVE  ElectionInv'
<1> DEFINE r == [m EXCEPT !.stage = "elected"]
           c == m.from
           votes == vote[c][m.Term] + 1
<1>0. /\ m \in VoteCall /\ TermsAdvance /\ granted' = granted /\ reigns' = reigns
      /\ m.stage = "checked" /\ m.VoteGranted
      /\ c \in Server /\ m.to \in Server /\ m.Term \in 1..MaxTerm
  BY VoteTermsAdvance, Zenon DEF TypeOK, CountVote, VoteCall
<1>1. r.from = c /\ r.to = m.to /\ r.Term = m.Term /\ r.stage = "elected"
  BY <1>0, Zenon DEF VoteCall
<1>2. PICK R \in SUBSET {r} : /\ voteCalls' = (voteCalls \ {m}) \cup R
                              /\ R # {} => IsMajority(votes)
  <2>1. CASE IsMajority(votes) /\ VotedFor[c] = c
    BY <2>1, Zenon DEF CountVote
  <2>2. CASE ~(IsMajority(votes) /\ VotedFor[c] = c)
    <3>1. voteCalls' = (voteCalls \ {m}) \cup {}
      BY <2>2, Zenon DEF CountVote
    <3> QED
      BY <3>1, ZenonT(30)
  <2> QED
    BY <2>1, <2>2, Zenon
<1> HIDE DEF r
<1>3. /\ AskedOnce'
      /\ \A n \in voteCalls' : n.Term <= persister'[n.from].CurrentTerm
  BY <1>0, <1>1, <1>2, CallAdvances, Zenon
<1>4. \A s, t : Voters(s, t)' = Voters(s, t)
  BY <1>0, Zenon DEF Voters
<1>5. m.to \in Uncounted(c, m.Term)
  BY <1>0, Zenon DEF Uncounted
<1>6. Uncounted(c, m.Term)' = Uncounted(c, m.Term) \ {m.to}
  <2>1. \A n \in voteCalls : n.from = c /\ n.to = m.to /\ n.Term = m.Term => n = m
    BY Zenon DEF ElectionInv, AskedOnce
  <2> QED
    BY <1>0, <1>1, <1>2, <2>1, Zenon DEF Uncounted
<1>7. \A s, t : ~(s = c /\ t = m.Term) => Uncounted(s, t)' = Uncounted(s, t)
  BY <1>0, <1>1, <1>2, Zenon DEF Uncounted
<1>8. /\ vote[c] \in [1..MaxTerm -> Nat] /\ vote[c][m.Term] \in Nat
      /\ vote'[c][m.Term] = votes
      /\ \A s \in Server, t \in 1..MaxTerm : ~(s = c /\ t = m.Term) => vote'[s][t] = vote[s][t]
  <2>1. vote \in [Server -> [1..MaxTerm -> Nat]]
    BY Zenon DEF TypeOK
  <2>2. vote[c] \in [1..MaxTerm -> Nat]
    BY <1>0, <2>1, Zenon
  <2>3. vote[c][m.Term] \in Nat
    BY <1>0, <2>2, Zenon
  <2>4. vote' = [vote EXCEPT ![c] = [vote[c] EXCEPT ![m.Term] = votes]]
    BY Zenon DEF CountVote
  <2> HIDE DEF votes
  <2>5. vote'[c][m.Term] = votes
    BY <1>0, <2>1, <2>2, <2>4, ZenonT(30)
  <2>6. \A s \in Server, t \in 1..MaxTerm : ~(s = c /\ t = m.Term) => vote'[s][t] = vote[s][t]
    BY <1>0, <2>1, <2>2, <2>4, Zenon
  <2> QED
    BY <2>2, <2>3, <2>5, <2>6, Zenon
<1>9. /\ votes + Cardinality(Uncounted(c, m.Term)') <= Cardinality(Voters(c, m.Term))
      /\ Cardinality(Uncounted(c, m.Term)') \in Nat
  <2>1. vote[c][m.Term] + Cardinality(Uncounted(c, m.Term)) <= Cardinality(Voters(c, m.Term))
    BY <1>0, Zenon DEF ElectionInv, CountedVotesGranted
  <2>2. Cardinality(Uncounted(c, m.Term)') = Cardinality(Uncounted(c, m.Term)) - 1
    <3>1. IsFiniteSet(Uncounted(c, m.Term))
      BY VotersFinite, Zenon
    <3>2. Cardinality(Uncounted(c, m.Term) \ {m.to}) = Cardinality(Uncounted(c, m.Term)) - 1
      BY <1>5, <3>1, CountRemove, ZenonT(30)
    <3> QED
      BY <1>6, <3>2, Zenon
  <2> QED
    BY <1>8, <2>1, <2>2, VotersFinite, VotersFinitePrime, SMTT(20)
<1>10. CountedVotesGranted'
  <2>1. ASSUME NEW s \in Server, NEW t \in 1..MaxTerm
        PROVE  vote'[s][t] + Cardinality(Uncounted(s, t)') <= Cardinality(Voters(s, t)')
    <3>1. CASE s = c /\ t = m.Term
      BY <1>4, <1>8, <1>9, <3>1, Zenon
    <3>2. CASE ~(s = c /\ t = m.Term)
      BY <1>4, <1>7, <1>8, <3>2, Zenon DEF ElectionInv, CountedVotesGranted
    <3> QED
      BY <3>1, <3>2, Zenon
  <2>2. ASSUME NEW n \in voteCalls', n.stage = "elected"
        PROVE  IsMajority(Cardinality(Voters(n.from, n.Term)'))
    <3>1. CASE n \in voteCalls
      BY <1>4, <2>2, <3>1, Zenon DEF ElectionInv, CountedVotesGranted
    <3>2. CASE n \notin voteCalls
      <4>1. n = r /\ IsMajority(votes)
        BY <1>2, <3>2, Zenon
      <4>2. votes <= Cardinality(Voters(c, m.Term)) /\ votes \in Nat
        BY <1>8, <1>9, VotersFinite
      <4>3. Cardinality(Server) \in Nat
        BY ServerAssumption, CountType, Zenon
      <4>4. IsMajority(Cardinality(Voters(c, m.Term)))
        BY <4>1, <4>2, <4>3, VotersFinite DEF IsMajority
      <4> QED
        BY <1>1, <1>4, <4>1, <4>4, Zenon
    <3> QED
      BY <3>1, <3>2, Zenon
  <2> QED
    BY <2>1, <2>2, Zenon DEF CountedVotesGranted
<1>11. ElectedByMajority'
  BY <1>0, <1>4, Zenon DEF ElectionInv, ElectedByMajority
<1> QED
  BY <1>0, <1>3, <1>10, <1>11, SameGrants, Zenon DEF ElectionInv, TermsUsedOnDisk

\* A vote that is granted after the term is raised, the vote recorded and both persisted is
\* the only one of that peer in the term.
LEMMA NewGrant ==
  ASSUME TypeOK, TypeOK', TermsAdvance, ElectionInv, NEW v \in Server, NEW c \in Server,
         NEW t \in Nat, NEW g, g = [voter |-> v, term |-> t, candidate |-> c],
         granted' = granted \cup {g},
         CurrentTerm'[v] = t, VotedFor'[v] = c,
         persister'[v].CurrentTerm = t, persister'[v].VotedFor = c,
         t <= persister'[c].CurrentTerm
  PROVE  /\ OneVotePerTerm' /\ VotesOnDisk' /\ VotesRemembered'
         /\ \A s \in Server : persister'[s].CurrentTerm <= CurrentTerm'[s]
         /\ \A h \in granted' : h.term <= persister'[h.candidate].CurrentTerm
<1>1. g.voter = v /\ g.term = t /\ g.candidate = c
  BY Zenon
<1>2. ASSUME NEW h \in granted, h.voter = v, h.term = t
      PROVE  h.candidate = c
  <2>1. \/ CurrentTerm'[h.voter] > h.term
        \/ CurrentTerm'[h.voter] = h.term /\ VotedFor'[h.voter] = h.candidate
    BY KeptVotes, Zenon
  <2> QED
    BY <1>2, <2>1
<1>3. OneVotePerTerm'
  BY <1>1, <1>2 DEF ElectionInv, OneVotePerTerm
<1>4. VotesOnDisk' /\ VotesRemembered'
  BY <1>1, KeptVotes, Zenon DEF VotesOnDisk, VotesRemembered
<1>5. \A s \in Server : persister'[s].CurrentTerm <= CurrentTerm'[s]
  BY KeptVotes, Zenon
<1>6. ASSUME NEW h \in granted
      PROVE  h.term <= persister'[h.candidate].CurrentTerm
  <2>1. h.candidate \in Server /\ h.term \in Nat
    BY TermsNat, ZenonT(30) DEF TypeOK, Grant
  <2>2. h.term <= persister[h.candidate].CurrentTerm
    BY Zenon DEF ElectionInv, TermsUsedOnDisk
  <2>3. /\ persister[h.candidate].CurrentTerm <= persister'[h.candidate].CurrentTerm
        /\ persister[h.candidate].CurrentTerm \in Nat /\ persister'[h.candidate].CurrentTerm \in Nat
    BY <2>1, KeptVotes, Zenon
  <2> QED
    BY <2>1, <2>2, <2>3
<1> QED
  BY <1>1, <1>3, <1>4, <1>5, <1>6, Zenon

\* RequestVoteHandler keeps the invariant, whether it grants the vote or refuses.
LEMMA RequestVoteInv ==
  ASSUME FiniteSetsCount, TypeOK, TypeOK', ElectionInv, NEW m \in voteCalls, RequestVoteHandler(m)
  PROVE  ElectionInv'
<1> DEFINE v == m.to
           c == m.from
           grant == Grants(v, m)
           r == [m EXCEPT !.stage = "reply", !.VoteGranted = grant, !.replyTerm = CurrentTerm[v]]
           g == [voter |-> v, term |-> m.Term, candidate |-> c]
<1>0. /\ m \in VoteCall /\ TermsAdvance /\ m.stage = "request" /\ vote' = vote /\ reigns' = reigns
      /\ c \in Server /\ v \in Server /\ m.Term \in 1..MaxTerm /\ m.Term \in Nat
      /\ CurrentTerm[v] \in Nat
  BY VoteTermsAdvance, TermsNat, Zenon DEF TypeOK, DurableOK, RequestVoteHandler, VoteCall
<1>1. /\ r.from = c /\ r.to = v /\ r.Term = m.Term /\ r.stage = "reply"
      /\ r.VoteGranted = grant
  BY <1>0, Zenon DEF VoteCall
<1>2. PICK R \in SUBSET {r} : voteCalls' = (voteCalls \ {m}) \cup R
  BY ZenonT(30) DEF RequestVoteHandler, Answer
<1>3. granted' = IF grant THEN granted \cup {g} ELSE granted
  BY Zenon DEF RequestVoteHandler
<1> HIDE DEF r
<1>4. /\ AskedOnce'
      /\ \A n \in voteCalls' : n.Term <= persister'[n.from].CurrentTerm
  BY <1>0, <1>1, <1>2, <1>3, CallAdvances, Zenon
<1>5. /\ OneVotePerTerm' /\ VotesOnDisk' /\ VotesRemembered'
      /\ \A s \in Server : persister'[s].CurrentTerm <= CurrentTerm'[s]
      /\ \A h \in granted' : h.term <= persister'[h.candidate].CurrentTerm
  <2>1. CASE ~grant
    BY <1>0, <1>3, <2>1, SameGrants, Zenon
  <2>2. CASE grant
    <3>1. CurrentTerm'[v] = m.Term
      <4>1. CurrentTerm'[v] = Max(CurrentTerm[v], m.Term)
        BY <1>0, RaisedTerm, ZenonT(30) DEF RequestVoteHandler
      <4>2. CurrentTerm[v] <= m.Term
        BY <2>2, Zenon DEF Grants
      <4> QED
        BY <1>0, <4>1, <4>2 DEF Max
    <3>2. VotedFor'[v] = c
      BY <1>0, <2>2, Zenon DEF RequestVoteHandler, TypeOK, DurableOK
    <3>3. persister'[v].CurrentTerm = CurrentTerm'[v] /\ persister'[v].VotedFor = VotedFor'[v]
      <4>1. PersistIf(v, grant \/ CurrentTerm'[v] < m.Term)
        BY Zenon DEF RequestVoteHandler
      <4>2. Persist(v)
        BY <2>2, <4>1, Zenon DEF PersistIf
      <4> QED
        BY <1>0, <4>2, ZenonT(30) DEF Persist, Durable, TypeOK
    <3>4. m.Term <= persister'[c].CurrentTerm
      BY <1>0, CallTermsKept, ZenonT(30)
    <3> QED
      BY <1>0, <1>3, <2>2, <3>1, <3>2, <3>3, <3>4, NewGrant, ZenonT(30)
  <2> QED
    BY <2>1, <2>2, Zenon
<1>6. ElectedByMajority'
  BY <1>0, <1>3, VotersGrow, Zenon DEF ElectionInv, ElectedByMajority
<1>7. \A s, t : ~(s = c /\ t = m.Term) => /\ Voters(s, t)' = Voters(s, t)
                                         /\ Uncounted(s, t)' = Uncounted(s, t)
  BY <1>0, <1>1, <1>2, <1>3, ZenonT(30) DEF Voters, Uncounted
<1>8. Cardinality(Uncounted(c, m.Term)') - Cardinality(Uncounted(c, m.Term)) <=
        Cardinality(Voters(c, m.Term)') - Cardinality(Voters(c, m.Term))
  <2>1. CASE ~grant
    <3>1. Uncounted(c, m.Term)' = Uncounted(c, m.Term) /\ Voters(c, m.Term)' = Voters(c, m.Term)
      BY <1>0, <1>1, <1>2, <1>3, <2>1, Zenon DEF Voters, Uncounted
    <3> QED
      BY <3>1, VotersFinite, SMTT(20)
  <2>2. CASE grant
    <3>1. g \notin granted
      BY <1>0, ZenonT(30) DEF ElectionInv, AskedOnce
    <3>2. v \notin Voters(c, m.Term) /\ Voters(c, m.Term)' = Voters(c, m.Term) \cup {v}
      BY <1>0, <1>3, <2>2, <3>1, ZenonT(30) DEF Voters
    <3>3. Uncounted(c, m.Term)' \subseteq Uncounted(c, m.Term) \cup {v}
      BY <1>0, <1>1, <1>2, Zenon DEF Uncounted
    <3>4. IsFiniteSet(Voters(c, m.Term)) /\ IsFiniteSet(Uncounted(c, m.Term))
      BY VotersFinite, Zenon
    <3>5. Cardinality(Voters(c, m.Term)') = Cardinality(Voters(c, m.Term)) + 1
      BY <3>2, <3>4, CountAdd, ZenonT(30)
    <3>6. /\ IsFiniteSet(Uncounted(c, m.Term) \cup {v})
          /\ Cardinality(Uncounted(c, m.Term) \cup {v}) <= Cardinality(Uncounted(c, m.Term)) + 1
      <4> DEFINE U == Uncounted(c, m.Term)
      <4>1. /\ IsFiniteSet(U \cup {v})
            /\ Cardinality(U \cup {v}) = IF v \in U THEN Cardinality(U) ELSE Cardinality(U) + 1
        BY <3>4, CountAdd, ZenonT(30)
      <4>2. Cardinality(U) \in Nat
        BY VotersFinite, Zenon
      <4> HIDE DEF U
      <4>3. Cardinality(U \cup {v}) <= Cardinality(U) + 1
        BY <4>1, <4>2
      <4> QED
        BY <4>1, <4>3, Zenon DEF U
    <3>7. Cardinality(Uncounted(c, m.Term)') <= Cardinality(Uncounted(c, m.Term) \cup {v})
      BY <3>3, <3>6, CountSubset, Zenon
    <3>8. Cardinality(Uncounted(c, m.Term) \cup {v}) \in Nat
      BY <3>6, CountType, Zenon
    <3> QED
      BY <3>5, <3>6, <3>7, <3>8, VotersFinite, VotersFinitePrime
  <2> QED
    BY <2>1, <2>2, Zenon
<1>9. CountedVotesGranted'
  <2>1. ASSUME NEW s \in Server, NEW t \in 1..MaxTerm
        PROVE  vote'[s][t] + Cardinality(Uncounted(s, t)') <= Cardinality(Voters(s, t)')
    <3>0. vote[s][t] + Cardinality(Uncounted(s, t)) <= Cardinality(Voters(s, t))
          /\ vote[s][t] \in Nat /\ vote'[s][t] = vote[s][t]
      BY <1>0, ZenonT(30) DEF ElectionInv, CountedVotesGranted, TypeOK
    <3>1. CASE s = c /\ t = m.Term
      BY <1>8, <3>0, <3>1, VotersFinite, VotersFinitePrime
    <3>2. CASE ~(s = c /\ t = m.Term)
      BY <1>7, <3>0, <3>2, ZenonT(30)
    <3> QED
      BY <3>1, <3>2, Zenon
  <2>2. \A n \in voteCalls' : n.stage = "elected" => n \in voteCalls
    BY <1>1, <1>2, Zenon
  <2>3. \A n \in voteCalls' :
          n.stage = "elected" => IsMajority(Cardinality(Voters(n.from, n.Term)'))
    BY <1>3, <2>2, VotersGrow, ZenonT(30) DEF ElectionInv, CountedVotesGranted
  <2> QED
    BY <2>1, <2>3, Zenon DEF CountedVotesGranted
<1> QED
  BY <1>4, <1>5, <1>6, <1>9, Zenon DEF ElectionInv, TermsUsedOnDisk

\* A candidate votes for itself and asks the others, in a term it has never used.
LEMMA ElectLauncherInv ==
  ASSUME FiniteSetsCount, TypeOK, TypeOK', ElectionInv, NEW s \in Server, ElectLauncher(s)
  PROVE  ElectionInv'
<1>p. PICK term : term = CurrentTerm[s] + 1
  BY Zenon
<1> DEFINE g == [voter |-> s, term |-> term, candidate |-> s]
           asked == {RequestVoteCall(s, i, term) : i \in Peers(s)}
<1>0. /\ TermsAdvance /\ reigns' = reigns /\ granted' = granted \cup {g}
      /\ voteCalls' = voteCalls \cup asked /\ CurrentTerm[s] \in Nat /\ term \in Nat
  <2>1. CurrentTerm[s] \in Nat
    BY TermsNat, ZenonT(30) DEF TypeOK, DurableOK
  <2>2. term \in Nat
    BY <1>p, <2>1
  <2>3. /\ reigns' = reigns /\ granted' = granted \cup {g}
        /\ voteCalls' = voteCalls \cup asked
    BY <1>p, Zenon DEF ElectLauncher
  <2> QED
    BY <2>1, <2>2, <2>3, LaunchTermsAdvance, Zenon
<1>a. term \in 1..MaxTerm
  BY <1>p, <1>0, BoundAssumption DEF ElectLauncher
<1>1. \A n \in voteCalls : ~(n.from = s /\ n.Term = term)
  <2> SUFFICES ASSUME NEW n \in voteCalls, n.from = s, n.Term = term PROVE FALSE
    BY Zenon
  <2>1. n.Term <= persister[s].CurrentTerm /\ persister[s].CurrentTerm <= CurrentTerm[s]
    BY ZenonT(30) DEF ElectionInv, TermsUsedOnDisk
  <2>2. persister[s].CurrentTerm \in Nat
    BY <1>0, KeptVotes, ZenonT(30)
  <2> QED
    BY <1>p, <1>0, <2>1, <2>2, NewTermLater, Zenon
<1>2. \A h \in granted : ~(h.candidate = s /\ h.term = term)
  <2> SUFFICES ASSUME NEW h \in granted, h.candidate = s, h.term = term PROVE FALSE
    BY Zenon
  <2>1. h.term <= persister[s].CurrentTerm /\ persister[s].CurrentTerm <= CurrentTerm[s]
    BY Zenon DEF ElectionInv, TermsUsedOnDisk
  <2>2. persister[s].CurrentTerm \in Nat
    BY <1>0, KeptVotes, ZenonT(30)
  <2> QED
    BY <1>p, <1>0, <2>1, <2>2, NewTermLater, Zenon
<1>3. \A n \in asked : n.from = s /\ n.Term = term /\ n.stage = "request" /\ n.to # s
  BY DEF RequestVoteCall, Peers
<1>4. \A n, k \in asked : n.to = k.to => n = k
  <2> SUFFICES ASSUME NEW i \in Peers(s), NEW j \in Peers(s),
                      RequestVoteCall(s, i, term).to = RequestVoteCall(s, j, term).to
               PROVE  RequestVoteCall(s, i, term) = RequestVoteCall(s, j, term)
    BY Zenon
  <2>1. i = j
    BY Zenon DEF RequestVoteCall
  <2> QED
    BY <2>1, Zenon
<1>5. /\ CurrentTerm'[s] = term /\ VotedFor'[s] = s
      /\ persister'[s].CurrentTerm = term /\ persister'[s].VotedFor = s
  <2>1. CurrentTerm'[s] = term /\ VotedFor'[s] = s
    BY <1>p, ZenonT(30) DEF ElectLauncher, TypeOK, DurableOK
  <2>2. persister'[s].CurrentTerm = CurrentTerm'[s] /\ persister'[s].VotedFor = VotedFor'[s]
    BY ZenonT(30) DEF ElectLauncher, Persist, Durable, TypeOK
  <2> QED
    BY <2>1, <2>2, Zenon
<1> HIDE DEF asked
<1>6. /\ OneVotePerTerm' /\ VotesOnDisk' /\ VotesRemembered'
      /\ \A i \in Server : persister'[i].CurrentTerm <= CurrentTerm'[i]
      /\ \A h \in granted' : h.term <= persister'[h.candidate].CurrentTerm
  <2>1. term <= persister'[s].CurrentTerm
    BY <1>0, <1>5
  <2> QED
    BY <1>0, <1>5, <2>1, NewGrant, ZenonT(30)
<1>7. \A n \in voteCalls' : n.Term <= persister'[n.from].CurrentTerm
  BY <1>0, <1>3, <1>5, CallTermsKept
<1>8. AskedOnce'
  <2>1. ASSUME NEW n \in voteCalls', NEW k \in voteCalls',
               n.from = k.from, n.to = k.to, n.Term = k.Term
        PROVE  n = k
    BY <1>0, <1>1, <1>3, <1>4, <2>1, Zenon DEF ElectionInv, AskedOnce
  <2>2. ASSUME NEW n \in voteCalls', n.stage = "request"
        PROVE  [voter |-> n.to, term |-> n.Term, candidate |-> n.from] \notin granted'
    <3> DEFINE h == [voter |-> n.to, term |-> n.Term, candidate |-> n.from]
    <3>1. CASE n \in voteCalls
      <4>1. h \notin granted
        BY <2>2, <3>1, Zenon DEF ElectionInv, AskedOnce
      <4>2. h # g
        BY <1>1, <3>1, Zenon
      <4> QED
        BY <1>0, <4>1, <4>2, Zenon
    <3>2. CASE n \in asked
      <4>1. h \notin granted
        BY <1>2, <1>3, <3>2, Zenon
      <4>2. h # g
        BY <1>3, <3>2, Zenon
      <4> QED
        BY <1>0, <4>1, <4>2, Zenon
    <3> QED
      BY <1>0, <3>1, <3>2, Zenon
  <2> QED
    BY <2>1, <2>2, Zenon DEF AskedOnce
<1>9. \A c, t : ~(c = s /\ t = term) => /\ Voters(c, t)' = Voters(c, t)
                                       /\ Uncounted(c, t)' = Uncounted(c, t)
  BY <1>0, <1>3, Zenon DEF Voters, Uncounted
<1>10. Uncounted(s, term)' = {} /\ {s} \subseteq Voters(s, term)'
  BY <1>0, <1>1, <1>3, Zenon DEF Voters, Uncounted
<1>11. Cardinality(Uncounted(s, term)') = 0 /\ 1 <= Cardinality(Voters(s, term)')
  BY <1>10, CountEmpty, CountSingle, CountSubset, VotersFinitePrime, Zenon
<1>12. /\ vote'[s][term] = 1
       /\ \A c \in Server, t \in 1..MaxTerm : ~(c = s /\ t = term) => vote'[c][t] = vote[c][t]
  <2>1. vote \in [Server -> [1..MaxTerm -> Nat]] /\ vote[s] \in [1..MaxTerm -> Nat]
    BY Zenon DEF TypeOK
  <2>2. vote' = [vote EXCEPT ![s] = [vote[s] EXCEPT ![term] = 1]]
    BY <1>p, Zenon DEF ElectLauncher
  <2> QED
    BY <1>a, <2>1, <2>2, Zenon
<1>13. CountedVotesGranted'
  <2>1. ASSUME NEW c \in Server, NEW t \in 1..MaxTerm
        PROVE  vote'[c][t] + Cardinality(Uncounted(c, t)') <= Cardinality(Voters(c, t)')
    <3>1. CASE c = s /\ t = term
      BY <1>11, <1>12, <3>1, SMTT(20)
    <3>2. CASE ~(c = s /\ t = term)
      BY <1>9, <1>12, <3>2, Zenon DEF ElectionInv, CountedVotesGranted
    <3> QED
      BY <3>1, <3>2, Zenon
  <2>2. \A n \in voteCalls' : n.stage = "elected" => n \in voteCalls
    BY <1>0, <1>3, Zenon
  <2>3. \A n \in voteCalls' :
          n.stage = "elected" => IsMajority(Cardinality(Voters(n.from, n.Term)'))
    BY <1>0, <2>2, VotersGrow, Zenon DEF ElectionInv, CountedVotesGranted
  <2> QED
    BY <2>1, <2>3, Zenon DEF CountedVotesGranted
<1>14. ElectedByMajority'
  BY <1>0, VotersGrow, Zenon DEF ElectionInv, ElectedByMajority
<1> QED
  BY <1>6, <1>7, <1>8, <1>13, <1>14, ZenonT(30) DEF ElectionInv, TermsUsedOnDisk

\* A restarted peer has the votes and the terms it had persisted, and counts from zero.
LEMMA RestartInv ==
  ASSUME FiniteSetsCount, TypeOK, TypeOK', ElectionInv, NEW s \in Server, Restart(s)
  PROVE  ElectionInv'
<1>0. UNCHANGED <<persister, granted, reigns>>
  BY Zenon DEF Restart
<1>1. /\ CurrentTerm'[s] = persister[s].CurrentTerm /\ VotedFor'[s] = persister[s].VotedFor
      /\ \A i \in Server : i # s => CurrentTerm'[i] = CurrentTerm[i] /\ VotedFor'[i] = VotedFor[i]
  BY ZenonT(30) DEF Restart, TypeOK, DurableOK
<1>2. \A n \in voteCalls' : \E k \in voteCalls :
        /\ n = [k EXCEPT !.waited = @ /\ k.from # s]
        /\ k.from = s => k.stage = "request"
  <2> SUFFICES ASSUME NEW n \in CallsAfterCrash(voteCalls, s)
               PROVE  \E k \in voteCalls : /\ n = [k EXCEPT !.waited = @ /\ k.from # s]
                                           /\ k.from = s => k.stage = "request"
    BY Zenon DEF Restart
  <2>1. PICK k \in voteCalls : /\ n = [k EXCEPT !.waited = @ /\ k.from # s]
                               /\ k.from = s => k.stage \in {"request", "installing"}
    BY Zenon DEF CallsAfterCrash
  <2>2. k.stage # "installing"
    BY Zenon DEF TypeOK, VoteCall
  <2> QED
    BY <2>1, <2>2, Zenon
<1>3. \A n \in voteCalls' : \E k \in voteCalls :
        /\ n = [k EXCEPT !.waited = @ /\ k.from # s]
        /\ n.from = k.from /\ n.to = k.to /\ n.Term = k.Term /\ n.stage = k.stage
        /\ n.VoteGranted = k.VoteGranted
        /\ n.from = s => n.stage = "request"
  <2> SUFFICES ASSUME NEW n \in voteCalls'
               PROVE  \E k \in voteCalls :
                        /\ n = [k EXCEPT !.waited = @ /\ k.from # s]
                        /\ n.from = k.from /\ n.to = k.to /\ n.Term = k.Term
                        /\ n.stage = k.stage /\ n.VoteGranted = k.VoteGranted
                        /\ n.from = s => n.stage = "request"
    BY Zenon
  <2>1. PICK k \in voteCalls : /\ n = [k EXCEPT !.waited = @ /\ k.from # s]
                               /\ k.from = s => k.stage = "request"
    BY <1>2, Zenon
  <2>2. k \in VoteCall
    BY Zenon DEF TypeOK
  <2>3. /\ n.from = k.from /\ n.to = k.to /\ n.Term = k.Term /\ n.stage = k.stage
        /\ n.VoteGranted = k.VoteGranted
    BY <2>1, <2>2, Zenon DEF VoteCall
  <2> QED
    BY <2>1, <2>3, Zenon
<1>4. VotesRemembered'
  <2> SUFFICES ASSUME NEW h \in granted
               PROVE  \/ CurrentTerm'[h.voter] > h.term
                      \/ CurrentTerm'[h.voter] = h.term /\ VotedFor'[h.voter] = h.candidate
    BY <1>0, Zenon DEF VotesRemembered
  <2>1. h.voter \in Server
    BY Zenon DEF TypeOK, Grant
  <2>2. CASE h.voter = s
    BY <1>1, <2>2, Zenon DEF ElectionInv, VotesOnDisk
  <2>3. CASE h.voter # s
    BY <1>1, <2>1, <2>3, Zenon DEF ElectionInv, VotesRemembered
  <2> QED
    BY <2>2, <2>3, Zenon
<1>5. OneVotePerTerm' /\ VotesOnDisk'
  BY <1>0, Zenon DEF ElectionInv, OneVotePerTerm, VotesOnDisk
<1>6. TermsUsedOnDisk'
  <2>1. ASSUME NEW i \in Server
        PROVE  persister[i].CurrentTerm <= CurrentTerm'[i]
    <3>1. persister[i].CurrentTerm \in Nat
      BY TermsNat, Zenon DEF TypeOK, PersistedState
    <3>2. CASE i = s
      BY <1>1, <3>1, <3>2
    <3>3. CASE i # s
      BY <1>1, <3>3, Zenon DEF ElectionInv, TermsUsedOnDisk
    <3> QED
      BY <3>2, <3>3, Zenon
  <2>2. \A n \in voteCalls' : n.Term <= persister[n.from].CurrentTerm
    BY <1>3, Zenon DEF ElectionInv, TermsUsedOnDisk
  <2>3. \A h \in granted : h.term <= persister[h.candidate].CurrentTerm
    BY Zenon DEF ElectionInv, TermsUsedOnDisk
  <2> QED
    BY <1>0, <2>1, <2>2, <2>3, Zenon DEF TermsUsedOnDisk
<1>7. AskedOnce'
  <2>1. ASSUME NEW n \in voteCalls', NEW k \in voteCalls',
               n.from = k.from, n.to = k.to, n.Term = k.Term
        PROVE  n = k
    <3>1. PICK x \in voteCalls : /\ n = [x EXCEPT !.waited = @ /\ x.from # s]
                                 /\ n.from = x.from /\ n.to = x.to /\ n.Term = x.Term
      BY <1>3, Zenon
    <3>2. PICK y \in voteCalls : /\ k = [y EXCEPT !.waited = @ /\ y.from # s]
                                 /\ k.from = y.from /\ k.to = y.to /\ k.Term = y.Term
      BY <1>3, Zenon
    <3>3. x = y
      BY <2>1, <3>1, <3>2 DEF ElectionInv, AskedOnce
    <3> QED
      BY <3>1, <3>2, <3>3, Zenon
  <2>2. \A n \in voteCalls' : n.stage = "request" =>
          [voter |-> n.to, term |-> n.Term, candidate |-> n.from] \notin granted
    BY <1>3 DEF ElectionInv, AskedOnce
  <2> QED
    BY <1>0, <2>1, <2>2, Zenon DEF AskedOnce
<1>8. \A c, t : /\ Voters(c, t)' = Voters(c, t)
                /\ Uncounted(c, t)' \subseteq Uncounted(c, t)
                /\ Uncounted(s, t)' = {}
  BY <1>0, <1>3 DEF Voters, Uncounted
<1>9. CountedVotesGranted'
  <2>1. ASSUME NEW c \in Server, NEW t \in 1..MaxTerm
        PROVE  vote'[c][t] + Cardinality(Uncounted(c, t)') <= Cardinality(Voters(c, t)')
    <3>0. vote[c][t] + Cardinality(Uncounted(c, t)) <= Cardinality(Voters(c, t))
          /\ vote[c][t] \in Nat
      BY Zenon DEF ElectionInv, CountedVotesGranted, TypeOK
    <3>1. CASE c = s
      <4>1. vote'[c][t] = 0
        BY <3>1, Zenon DEF Restart, TypeOK
      <4>2. Cardinality(Uncounted(c, t)') = 0
        BY <1>8, <3>1, CountEmpty, Zenon
      <4> QED
        BY <4>1, <4>2, VotersFinitePrime
    <3>2. CASE c # s
      <4>1. vote'[c][t] = vote[c][t]
        <5>1. vote' = [vote EXCEPT ![s] = [u \in 1..MaxTerm |-> 0]] /\ vote \in [Server -> [1..MaxTerm -> Nat]]
          BY Zenon DEF Restart, TypeOK
        <5> QED
          BY <3>2, <5>1, Zenon
      <4>2. Cardinality(Uncounted(c, t)') <= Cardinality(Uncounted(c, t))
        BY <1>8, VotersFinite, CountSubset, Zenon
      <4>3. Cardinality(Voters(c, t)') = Cardinality(Voters(c, t))
        BY <1>8, Zenon
      <4> QED
        BY <3>0, <4>1, <4>2, <4>3, VotersFinite, VotersFinitePrime, SMTT(20)
    <3> QED
      BY <3>1, <3>2, Zenon
  <2>2. \A n \in voteCalls' :
          n.stage = "elected" => IsMajority(Cardinality(Voters(n.from, n.Term)'))
    BY <1>3, <1>8 DEF ElectionInv, CountedVotesGranted
  <2> QED
    BY <2>1, <2>2, Zenon DEF CountedVotesGranted
<1>10. ElectedByMajority'
  BY <1>0, <1>8, Zenon DEF ElectionInv, ElectedByMajority
<1> QED
  BY <1>4, <1>5, <1>6, <1>7, <1>9, <1>10, Zenon DEF ElectionInv

-----------------------------------------------------------------------------
\* The invariant holds when all peers start.
LEMMA ElectionInit ==
  ASSUME FiniteSetsCount
  PROVE  Init => ElectionInv
<1> SUFFICES ASSUME Init PROVE ElectionInv
  BY Zenon
<1>1. \A c, t : Voters(c, t) = {} /\ Uncounted(c, t) = {}
  BY Zenon DEF Init, Voters, Uncounted
<1>2. \A s \in Server, t \in 1..MaxTerm :
        vote[s][t] + Cardinality(Uncounted(s, t)) <= Cardinality(Voters(s, t))
  <2> SUFFICES ASSUME NEW s \in Server, NEW t \in 1..MaxTerm
               PROVE  vote[s][t] + Cardinality(Uncounted(s, t)) <= Cardinality(Voters(s, t))
    BY Zenon
  <2>1. vote[s][t] = 0
    BY Zenon DEF Init
  <2>2. Cardinality(Uncounted(s, t)) = 0 /\ Cardinality(Voters(s, t)) = 0
    BY <1>1, CountEmpty, Zenon
  <2> QED
    BY <2>1, <2>2, NoVotes, Zenon
<1>3. \A s \in Server : persister[s].CurrentTerm <= CurrentTerm[s]
  BY DEF Init, Durable
<1> QED
  BY <1>2, <1>3, Zenon DEF Init, ElectionInv, OneVotePerTerm, VotesOnDisk, VotesRemembered,
                    TermsUsedOnDisk, AskedOnce, CountedVotesGranted, ElectedByMajority

\* Every step keeps the invariant.
LEMMA ElectionStep ==
  ASSUME FiniteSetsCount
  PROVE  TypeOK /\ TypeOK' /\ ElectionInv /\ [Next]_vars => ElectionInv'
<1> SUFFICES ASSUME TypeOK, TypeOK', ElectionInv, [Next]_vars PROVE ElectionInv'
  BY Zenon
<1>0. \A S : Running(S) \subseteq S /\ Scheduled(S) \subseteq S
  BY Zenon DEF Running, Scheduled
<1>1. CASE GoroutineStep
  BY <1>0, <1>1, CountVoteInv, ReplyInv, SnapshotQuiet, PeerQuiet, QuietInv, Zenon DEF GoroutineStep
<1>2. CASE LocalStep
  BY <1>0, <1>2, ElectLauncherInv, RestartInv, PeerQuiet, QuietInv, Zenon DEF LocalStep
<1>3. CASE NetworkStep
  BY <1>0, <1>3, RequestVoteInv, ReplyInv, HeartbeatQuiet, SnapshotQuiet, QuietInv, Zenon DEF NetworkStep
<1>4. CASE UNCHANGED vars
  <2>1. Quiet
    BY <1>4, TermsUnchanged, Zenon DEF vars, peerVars, termVars, Quiet
  <2> QED
    BY <2>1, QuietInv, Zenon
<1> QED
  BY <1>1, <1>2, <1>3, <1>4, Zenon DEF Next

=============================================================================
