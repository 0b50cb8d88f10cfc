---------------------------- MODULE RaftTheorems ----------------------------
(***************************************************************************)
(* What holds in every behaviour of the Raft peers, for any set of peers,  *)
(* any commands and any number of elections and crashes.  That each step   *)
(* preserves the invariants is shown in RaftElectionProofs (types, votes)  *)
(* and RaftLogProofs (logs); the two are put together here.                *)
(*                                                                         *)
(* The log a peer has in memory is the log it has on disk.  A heartbeat    *)
(* that brings nothing still writes the snapshot's term into entry 0 and   *)
(* does not persist it, so the proof needs that entry 0 has that term      *)
(* already: the two facts are preserved together.                          *)
(*                                                                         *)
(* Logs match, and a leader only appends to its own.  The proof looks at   *)
(* the logs of the peers and at what heartbeats and snapshots carry as     *)
(* pieces of logs, each known from an index on: any two pieces match, an   *)
(* entry was made by a leader of its term, whose own log reaches past it   *)
(* until the leader moves to a later term, and calls of a term come from   *)
(* its leader.  All this as long as no term has had two leaders, which     *)
(* SendRequestVote does not ensure.                                        *)
(*                                                                         *)
(* The apply goroutine stays above the snapshot, because whatever the      *)
(* service is about to save has been applied.                              *)
(***************************************************************************)
EXTENDS RaftElectionProofs, RaftLogProofs, FiniteSetTheorems

-----------------------------------------------------------------------------
(* What the lemmas assume of numbers and finite sets                       *)

\* A set of natural numbers that is not empty has a least one.
LEMMA LeastExists == LeastNumber
<1> SUFFICES ASSUME NEW S \in SUBSET Nat, S # {} PROVE \E i \in S : \A j \in S : i <= j
  BY Zenon DEF LeastNumber
<1>1. PICK x \in S : \A y \in S : ~(<<y, x>> \in OpToRel(<, Nat))
  BY NatLessThanWellFounded, WFMin, Zenon
<1>2. ASSUME NEW y \in S, y < x
      PROVE  FALSE
  <2> DEFINE yx == <<y, x>>
  <2>1. yx \in Nat \X Nat /\ yx[1] < yx[2]
    BY <1>2, Zenon
  <2>2. yx \in OpToRel(<, Nat)
    BY <2>1, Zenon DEF OpToRel
  <2> QED
    BY <1>1, <2>2, Zenon
<1>3. \A y \in S : x <= y
  BY <1>2
<1> QED
  BY <1>3, Zenon

\* Finite sets count as they should.
LEMMA CountsRight == FiniteSetsCount
<1>1. IsFiniteSet({}) /\ Cardinality({}) = 0 /\ \A x : IsFiniteSet({x}) /\ Cardinality({x}) = 1
  BY FS_EmptySet, FS_Singleton, Zenon
<1>2. ASSUME NEW S, IsFiniteSet(S)
      PROVE  /\ Cardinality(S) \in Nat
             /\ \A T \in SUBSET S : IsFiniteSet(T) /\ Cardinality(T) <= Cardinality(S)
             /\ \A x : /\ Cardinality(S \cup {x}) = IF x \in S THEN Cardinality(S) ELSE Cardinality(S) + 1
                       /\ Cardinality(S \ {x}) = IF x \in S THEN Cardinality(S) - 1 ELSE Cardinality(S)
                       /\ IsFiniteSet(S \cup {x}) /\ IsFiniteSet(S \ {x})
  <2>1. Cardinality(S) \in Nat /\ \A T \in SUBSET S : IsFiniteSet(T) /\ Cardinality(T) <= Cardinality(S)
    BY <1>2, FS_CardinalityType, FS_Subset, Zenon
  <2>2. ASSUME NEW x
        PROVE  /\ Cardinality(S \cup {x}) = IF x \in S THEN Cardinality(S) ELSE Cardinality(S) + 1
               /\ Cardinality(S \ {x}) = IF x \in S THEN Cardinality(S) - 1 ELSE Cardinality(S)
               /\ IsFiniteSet(S \cup {x}) /\ IsFiniteSet(S \ {x})
    BY <1>2, FS_AddElement, FS_RemoveElement, Zenon
  <2> QED
    BY <2>1, <2>2, Zenon
<1> QED
  BY <1>1, <1>2, Zenon DEF FiniteSetsCount

-----------------------------------------------------------------------------
(* Types and elections                                                     *)

\* Every field of the peer keeps its type, and no read or slice of rf.Log outside the
\* modelled panics leaves the log, in every behaviour of the peers.
THEOREM TypeCorrect == Spec => []TypeOK
<1>1. Init => TypeOK
  BY TypeInit, Zenon
<1>2. TypeOK /\ [Next]_vars => TypeOK'
  BY TypeStep, LeastExists, Zenon
<1> QED
  BY <1>1, <1>2, PTL DEF Spec

\* Two majorities of peers share a voter, who voted once.
LEMMA MajorityWins == TypeOK /\ ElectionInv => OneWinnerPerTerm
<1> SUFFICES ASSUME TypeOK, ElectionInv, NEW r \in reigns, NEW q \in reigns,
                    r.elected = q.elected
             PROVE  r.leader = q.leader
  BY Zenon DEF OneWinnerPerTerm
<1> DEFINE V == Voters(r.leader, r.elected)
           W == Voters(q.leader, q.elected)
<1>1. V \subseteq Server /\ W \subseteq Server
  BY Zenon DEF Voters
<1>2. IsMajority(Cardinality(V)) /\ IsMajority(Cardinality(W))
  BY Zenon DEF ElectionInv, ElectedByMajority
<1>3. V \cap W # {}
  <2>1. Cardinality(V) \in Nat /\ Cardinality(W) \in Nat /\ Cardinality(Server) \in Nat
    BY VotersFinite, CountsRight, ServerAssumption, CountType, Zenon
  <2>2. Cardinality(V) + Cardinality(W) > Cardinality(Server)
    BY <1>2, <2>1 DEF IsMajority
  <2> HIDE DEF V, W
  <2> QED
    BY <1>1, <2>2, ServerAssumption, FS_MajoritiesIntersect, Zenon
<1>4. PICK v : v \in V /\ v \in W
  BY <1>3, Zenon
<1> QED
  BY <1>4, Zenon DEF Voters, ElectionInv, OneVotePerTerm

\* SendRequestVote, RequestVoteHandler and ElectLauncher keep the invariant of the elections
\* in every interleaving with heartbeats, snapshots and restarts.
THEOREM ElectionsCorrect == Spec => []ElectionInv
<1>1. Init => ElectionInv
  BY ElectionInit, CountsRight, Zenon
<1>2. TypeOK /\ TypeOK' /\ ElectionInv /\ [Next]_vars => ElectionInv'
  BY ElectionStep, CountsRight, Zenon
<1>3. Spec => []TypeOK
  BY TypeCorrect, Zenon
<1> QED
  BY <1>1, <1>2, <1>3, PTL DEF Spec

\* At most one peer wins the election of a term: RequestVoteHandler never votes twice in a
\* term, whatever crashes, and SendRequestVote never counts a vote that was not given.
THEOREM OneWinner == Spec => []OneWinnerPerTerm
  BY TypeCorrect, ElectionsCorrect, MajorityWins, PTL

\* A peer votes for at most one candidate in a term, whatever crashes and restarts.
THEOREM OneVote == Spec => []OneVotePerTerm
<1>1. ElectionInv => OneVotePerTerm
  BY Zenon DEF ElectionInv
<1> QED
  BY <1>1, ElectionsCorrect, PTL

\* Every vote that RequestVoteHandler or ElectLauncher grants is on disk until a later term is.
THEOREM VotesSurvive == Spec => []VotesOnDisk
<1>1. ElectionInv => VotesOnDisk
  BY Zenon DEF ElectionInv
<1> QED
  BY <1>1, ElectionsCorrect, PTL

\* Whoever SendRequestVote makes leader has the votes of a majority in the election's term.
THEOREM MajorityElects == Spec => []ElectedByMajority
<1>1. ElectionInv => ElectedByMajority
  BY Zenon DEF ElectionInv
<1> QED
  BY <1>1, ElectionsCorrect, PTL

-----------------------------------------------------------------------------
(* Logs on disk                                                            *)

\* The log, the snapshot and its labels are on disk in every state, although HeartbeatHandler
\* writes entry 0 without persisting it, and entry 0 has the term of the snapshot.
THEOREM DiskCorrect == Spec => []DiskInv
  BY DiskInit, DiskStep, TypeCorrect, PTL DEF Spec

\* A restart brings back exactly the log the peer had (persist() and readPersist()).
THEOREM LogSurvives == Spec => []LogOnDisk
<1>1. DiskInv => LogOnDisk
  BY Zenon DEF DiskInv
<1> QED
  BY <1>1, DiskCorrect, PTL

\* Entry 0 of rf.Log has the term of the last entry in the snapshot.
THEOREM SnapshotTermKept == Spec => []SnapshotTermInLog
<1>1. DiskInv => SnapshotTermInLog
  BY Zenon DEF DiskInv
<1> QED
  BY <1>1, DiskCorrect, PTL

-----------------------------------------------------------------------------
(* Logs across peers                                                       *)

\* The disk follows the term in memory, which is never behind it.
LEMMA DiskFollows ==
  ASSUME TypeOK, TypeOK', ElectionInv, TermsAdvance
  PROVE  DiskRises
<1>1. ASSUME NEW s \in Server
      PROVE  /\ persister[s].CurrentTerm \in Nat /\ persister'[s].CurrentTerm \in Nat
             /\ persister[s].CurrentTerm <= persister'[s].CurrentTerm
  <2>1. PICK d, e, c, f : /\ d = persister[s].CurrentTerm /\ e = persister'[s].CurrentTerm
                          /\ c = CurrentTerm[s] /\ f = CurrentTerm'[s]
    BY Zenon
  <2>2. persister[s] \in PersistedState /\ persister'[s] \in PersistedState
        /\ c \in Terms /\ f \in Terms
    BY <2>1, Zenon DEF TypeOK, DurableOK
  <2>3. d \in Nat /\ e \in Nat /\ c \in Nat /\ f \in Nat
    <3>1. \A r \in PersistedState : r.CurrentTerm \in Terms
      BY Zenon DEF PersistedState
    <3>2. \A t \in Terms : t \in Nat
      BY TermsNat, Zenon
    <3> QED
      BY <2>1, <2>2, <3>1, <3>2, Zenon
  <2>4. d <= c /\ f >= c
    BY <2>1, Zenon DEF ElectionInv, TermsUsedOnDisk, TermsAdvance
  <2>5. e = d \/ e = f
    BY <2>1, Zenon DEF TermsAdvance
  <2>6. d <= e
    BY <2>3, <2>4, <2>5
  <2> QED
    BY <2>1, <2>3, <2>6, Zenon
<1> QED
  BY <1>1, Zenon DEF DiskRises

\* Every step keeps it.
LEMMA LogStep == TypeOK /\ TypeOK' /\ ElectionInv /\ DiskInv /\ LogInv /\ [Next]_vars => LogInv'
<1> SUFFICES ASSUME TypeOK, TypeOK', ElectionInv, DiskInv, LogInv, [Next]_vars PROVE LogInv'
  BY Zenon
<1>0. \A S : Running(S) \subseteq S /\ Scheduled(S) \subseteq S
  BY Zenon DEF Running, Scheduled
<1>1. ASSUME TermsAdvance, NoEntryStep /\ LogsStay PROVE LogInv'
  BY <1>1, DiskFollows, NoEntryKeeps, Zenon
<1>2. ASSUME NEW m \in voteCalls, \/ RequestVoteHandler(m) \/ VoteReplyStale(m) \/ VoteReplyCurrent(m)
                                  \/ CountVote(m) \/ VoteRefused(m)
      PROVE  LogInv'
  BY <1>1, <1>2, VoteNoEntry, VoteTermsAdvance, Zenon
<1>3. ASSUME NEW s \in Server, ElectLauncher(s) PROVE LogInv'
  BY <1>1, <1>3, LaunchNoEntry, LaunchTermsAdvance, Zenon
<1>4. ASSUME NEW m \in appendCalls,
             \/ HeartbeatRefused(m) \/ HeartbeatMissing(m) \/ HeartbeatPanics(m)
             \/ HeartbeatReplyStale(m) \/ HeartbeatReplyDeposes(m) \/ HeartbeatReplySuccess(m)
             \/ HeartbeatReplyPanics(m)
      PROVE  LogInv'
  BY <1>1, <1>4, HeartbeatNoEntry, HeartbeatQuiet, Zenon DEF Quiet
<1>5. ASSUME NEW m \in snapshotCalls,
             \/ ReadSnapshotData(m) \/ InstallRefused(m) \/ SnapshotReply(m)
             \/ ServiceInstalls(m) \/ ServiceMismatch(m)
      PROVE  LogInv'
  BY <1>1, <1>5, SnapshotNoEntry, SnapshotQuiet, Zenon DEF Quiet
<1>6. ASSUME NEW s \in Server, \/ ApplyGoroutine(s) \/ ApplyPanics(s) \/ ServiceApplies(s)
                               \/ ServiceOutOfOrder(s) \/ SnapshotPanics(s)
      PROVE  LogInv'
  BY <1>1, <1>6, ApplyNoEntry, PeerQuiet, Zenon DEF Quiet
<1>a. ASSUME NEW m \in voteCalls, BecomeLeader(m) PROVE LogInv'
  BY <1>a, VoteTermsAdvance, DiskFollows, BecomeLeaderKeeps, Zenon
<1>b. ASSUME NEW s \in Server,
             Snapshot(s) \/ HeartBeatGoroutine(s) \/ \E command \in Command : Start(s, command)
      PROVE  LogInv'
  <2>1. DiskRises
    BY <1>b, PeerQuiet, DiskFollows, Zenon DEF Quiet
  <2> QED
    BY <1>b, <2>1, SnapshotKeeps, HeartBeatKeeps, StartKeeps, Zenon
<1>c. ASSUME NEW m \in appendCalls,
             HeartbeatConflict(m) \/ HeartbeatAccepted(m) \/ HeartbeatReplyFailure(m)
      PROVE  LogInv'
  <2>1. DiskRises
    BY <1>c, HeartbeatQuiet, DiskFollows, Zenon DEF Quiet
  <2> QED
    BY <1>c, <2>1, HeartbeatKeeps, FailureKeeps, Zenon
<1>d. ASSUME NEW m \in snapshotCalls, InstallSnapshot(m) PROVE LogInv'
  <2>1. DiskRises
    BY <1>d, SnapshotQuiet, DiskFollows, Zenon DEF Quiet
  <2> QED
    BY <1>d, <2>1, InstallKeeps, Zenon
<1>7. CASE GoroutineStep
  BY <1>0, <1>2, <1>5, <1>6, <1>7, <1>a, <1>b, ZenonT(30) DEF GoroutineStep
<1>8. CASE LocalStep
  BY <1>0, <1>3, <1>8, <1>b, RestartKeeps, ZenonT(30) DEF LocalStep
<1>9. CASE NetworkStep
  BY <1>0, <1>2, <1>4, <1>5, <1>9, <1>c, <1>d, ZenonT(30) DEF NetworkStep
<1>10. CASE UNCHANGED vars
  <2>1. /\ CurrentTerm' = CurrentTerm /\ VotedFor' = VotedFor /\ persister' = persister
        /\ State' = State /\ reigns' = reigns /\ appendCalls' = appendCalls
        /\ snapshotCalls' = snapshotCalls /\ LogsStay
    BY <1>10, Zenon DEF vars, peerVars, termVars, voteVars, logVars, LogsStay
  <2>2. NoEntryStep
    BY <2>1, FewerCalls, SameLeaders, Zenon DEF NoEntryStep
  <2> QED
    BY <1>1, <2>1, <2>2, TermsUnchanged, Zenon
<1> QED
  BY <1>7, <1>8, <1>9, <1>10, Zenon DEF Next

\* Logs and calls match, every entry comes from a leader of its term, and a leader has all entries
\* of its term: HeartbeatHandler, InstallSnapshot, Snapshot, Start and restarts keep that.
THEOREM LogsCorrect == Spec => []LogInv
<1>1. Init => LogInv
  BY LogInit, Zenon
<1>2. TypeOK /\ TypeOK' /\ ElectionInv /\ DiskInv /\ LogInv /\ [Next]_vars => LogInv'
  BY LogStep, Zenon
<1>3. Spec => []TypeOK /\ []ElectionInv /\ []DiskInv
  BY TypeCorrect, ElectionsCorrect, DiskCorrect, PTL
<1> QED
  BY <1>1, <1>2, <1>3, PTL DEF Spec

\* While no term has had two leaders, logs that agree on the term of an entry agree on it and on
\* everything before it, in any schedule, over snapshots and restarts and with any number of
\* overlapping heartbeats.
THEOREM LogsMatch == Spec => []LogMatching
<1>1. TypeOK /\ LogInv => LogMatching
  <2> SUFFICES ASSUME TypeOK, LogsRight, NEW s \in Server, NEW t \in Peers(s),
                      NEW j \in Held(s) \cap Held(t), NEW i \in Held(s) \cap Held(t), i >= j,
                      EntryAt(s, i).LogTerm = EntryAt(t, i).LogTerm
               PROVE  EntryAt(s, j) = EntryAt(t, j)
    BY Zenon DEF LogInv, LogMatching
  <2>1. t \in Server
    BY Zenon DEF Peers
  <2>2. Match(LogPiece(s), LogPiece(t))
    BY <2>1, Zenon DEF LogsRight, AllMatch, Pieces
  <2>3. ASSUME NEW x \in Held(s) \cap Held(t)
        PROVE  /\ x \in Indices(LogPiece(s)) /\ x \in Indices(LogPiece(t)) /\ x \in Int
               /\ x > LogPiece(s).base /\ x > LogPiece(t).base
    <3>1. PICK a, b, l, k : /\ a = LastIncludedIndex[s] /\ b = LastIncludedIndex[t]
                            /\ l = LogLength(s) /\ k = LogLength(t)
      BY Zenon
    <3>2. a \in Nat /\ b \in Nat /\ l \in Nat /\ k \in Nat
      BY <2>1, <3>1, HeldPiece, Zenon
    <3>3. x \in (a + 1)..(l - 1) /\ x \in (b + 1)..(k - 1)
      BY <3>1, Zenon DEF Held
    <3>4. x \in a..(l - 1) /\ x \in b..(k - 1) /\ x \in Int /\ x > a /\ x > b
      BY <3>2, <3>3
    <3> QED
      BY <2>1, <3>1, <3>4, HeldPiece, Zenon
  <2>4. j <= i
    BY <2>3, Zenon
  <2>5. TermAt(LogPiece(s), i) = TermAt(LogPiece(t), i)
    BY <2>1, HeldPiece, Zenon DEF TermAt
  <2>6. PieceAt(LogPiece(s), j) = PieceAt(LogPiece(t), j)
    BY <2>2, <2>3, <2>4, <2>5, Zenon DEF Match
  <2> QED
    BY <2>1, <2>6, HeldPiece, Zenon
<1> QED
  BY <1>1, TypeCorrect, LogsCorrect, PTL

-----------------------------------------------------------------------------
(* Leaders                                                                 *)

\* While no term has had two leaders, a leader that stays in office keeps every entry it does not
\* compact: neither HeartbeatHandler nor InstallSnapshot reaches its log.
THEOREM LeaderAppends == Spec => LeaderAppendOnly
<1> DEFINE A == \A s \in Server :
                  /\ ~TwoLeaders
                  /\ State[s] = LEADER /\ State'[s] = LEADER /\ CurrentTerm'[s] = CurrentTerm[s]
                  => \A i \in Held(s) : i > LastIncludedIndex'[s] =>
                       Holds(s, i)' /\ EntryAt(s, i)' = EntryAt(s, i)
<1>1. TypeOK /\ TypeOK' /\ DiskInv /\ LogInv /\ [Next]_vars => [A]_vars
  BY LeaderStep, Zenon DEF Keeps
<1> HIDE DEF A
<1>2. Spec => []TypeOK /\ []DiskInv /\ []LogInv
  BY TypeCorrect, DiskCorrect, LogsCorrect, PTL
<1>3. Spec => [][A]_vars
  BY <1>1, <1>2, PTL DEF Spec
<1> QED
  BY <1>3, Zenon DEF A, LeaderAppendOnly

-----------------------------------------------------------------------------
(* The apply goroutine                                                     *)

\* The apply goroutine never reaches below the snapshot: nothing lowers LastApplied but a restart,
\* and CommitIndex does not pass it again before it is raised to the snapshot.
THEOREM ApplyAbove == Spec => []ApplyAboveSnapshot
<1>1. Init => ApplyInv
  <2> SUFFICES ASSUME Init, NEW s \in Server PROVE Above(CommitIndex[s], LastApplied[s],
                                               LastIncludedIndex[s], saving[s], applyMsg[s])
    BY Zenon DEF ApplyInv, AboveAt
  <2>1. ~(0 > 0) /\ 0 <= 0
    OBVIOUS
  <2>2. /\ CommitIndex[s] = 0 /\ LastApplied[s] = 0 /\ saving[s] = 0 /\ applyMsg[s] = Nil
    BY Zenon DEF Init
  <2> QED
    BY <2>1, <2>2, Zenon DEF Above
<1>2. ApplyInv => ApplyAboveSnapshot
  BY Zenon DEF ApplyInv, AboveAt, Above, ApplyAboveSnapshot
<1> QED
  BY <1>1, <1>2, ApplyStep, TypeCorrect, PTL DEF Spec

=============================================================================
