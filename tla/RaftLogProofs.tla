--------------------------- MODULE RaftLogProofs ---------------------------
(***************************************************************************)
(* Logs.  What every step of the Raft peers does to the logs in memory and *)
(* on disk, to the pieces of logs that calls carry, to the leaders' own    *)
(* logs and to the index of the last entry applied.  RaftTheorems combines *)
(* these lemmas with those of the elections.                               *)
(***************************************************************************)
EXTENDS RaftProperties, TLAPS
-----------------------------------------------------------------------------
(* Reading logs and terms                                                  *)

\* What concatenating two sequences gives.
LEMMA Joined ==
  ASSUME NEW S, NEW a \in Seq(S), NEW b \in Seq(S)
  PROVE  /\ a \o b \in Seq(S) /\ Len(a \o b) = Len(a) + Len(b)
         /\ \A i \in 1..(Len(a) + Len(b)) : (a \o b)[i] = IF i <= Len(a) THEN a[i] ELSE b[i - Len(a)]
  BY SMT

\* A number is at most itself.
LEMMA AtMostItself == \A x \in Nat : x <= x
  OBVIOUS

\* Terms are natural numbers.
LEMMA TermNumbers == Terms \subseteq Nat /\ 1..MaxTerm \subseteq Nat /\ 0 \in Terms
  BY BoundAssumption DEF Terms

\* What a log has at an index in range is an entry, and a log is never empty.
LEMMA LogReads ==
  ASSUME NEW log \in Logs
  PROVE  /\ log \in Seq(Entry)
         /\ Len(log) \in Nat /\ Len(log) >= 1
         /\ \A i \in 1..Len(log) : log[i] \in Entry /\ log[i].LogTerm \in Terms /\ log[i].Command \in Commands
<1>1. log \in Seq(Entry) /\ log # <<>>
  BY Zenon DEF Logs
<1>2. Len(log) \in Nat /\ Len(log) # 0 /\ \A i \in 1..Len(log) : log[i] \in Entry
  BY <1>1
<1> QED
  BY <1>1, <1>2 DEF Entry

\* A term and a command make an entry.
LEMMA EntryMade ==
  ASSUME NEW t \in Terms, NEW c \in Commands
  PROVE  /\ [LogTerm |-> t, Command |-> c] \in Entry
         /\ [LogTerm |-> t, Command |-> c].LogTerm = t
  BY Zenon DEF Entry

\* HeartbeatHandler and InstallSnapshot read the term of an entry that is in the log, after they
\* have written the snapshot's term into entry 0.
LEMMA CheckedReads ==
  ASSUME TypeOK, NEW s \in Server, NEW p, InRange(s, p)
  PROVE  /\ p \in Nat /\ p + 1 \in 1..Len(Log[s])
         /\ CheckedLog(s, p) \in Logs /\ Len(CheckedLog(s, p)) = Len(Log[s])
         /\ CheckedLog(s, p)[p + 1].LogTerm = ToBeChecked(s, p)
<1>1. Log[s] \in Logs /\ LastIncludedTerm[s] \in Terms
  BY Zenon DEF TypeOK, DurableOK
<1>2. /\ Log[s] \in Seq(Entry) /\ Len(Log[s]) \in Nat /\ Len(Log[s]) >= 1
      /\ Log[s][1] \in Entry /\ p \in Nat /\ p + 1 \in 1..Len(Log[s])
  BY <1>1, LogReads DEF InRange
<1>3. CASE p # 0
  BY <1>1, <1>2, <1>3, Zenon DEF CheckedLog, ToBeChecked
<1>4. CASE p = 0
  <2>1. PICK new : new = [Log[s][1] EXCEPT !.LogTerm = LastIncludedTerm[s]]
    BY Zenon
  <2>2. new \in Entry /\ new.LogTerm = LastIncludedTerm[s]
    BY <1>1, <1>2, <2>1, Zenon DEF Entry
  <2>3. CheckedLog(s, p) = [Log[s] EXCEPT ![1] = new]
    BY <1>4, <2>1, Zenon DEF CheckedLog
  <2>4. /\ CheckedLog(s, p) \in Seq(Entry) /\ Len(CheckedLog(s, p)) = Len(Log[s])
        /\ CheckedLog(s, p)[1] = new /\ CheckedLog(s, p) # <<>>
    BY <1>2, <2>2, <2>3
  <2> QED
    BY <1>2, <1>4, <2>2, <2>4 DEF Logs, ToBeChecked
<1> QED
  BY <1>3, <1>4, Zenon

\* The fields of the peers are arrays that the peers index.
LEMMA PeerArrays ==
  ASSUME TypeOK
  PROVE  /\ Log \in [Server -> Logs] /\ LastIncludedIndex \in [Server -> Nat]
         /\ State \in [Server -> {FOLLOWER, LEADER}] /\ CurrentTerm \in [Server -> Terms]
         /\ persister \in [Server -> PersistedState]
  BY Zenon DEF TypeOK, DurableOK

\* A handler sets the term of its peer only.
LEMMA TermSets ==
  ASSUME TypeOK, NEW s \in Server, NEW t, CurrentTerm' = [CurrentTerm EXCEPT ![s] = t]
  PROVE  CurrentTerm'[s] = t /\ \A i \in Server : i # s => CurrentTerm'[i] = CurrentTerm[i]
  BY Zenon DEF TypeOK, DurableOK

\* The same for a term that is only raised.
LEMMA TermRaises ==
  ASSUME TypeOK, NEW s \in Server, NEW t, CurrentTerm' = [CurrentTerm EXCEPT ![s] = Max(@, t)]
  PROVE  /\ CurrentTerm'[s] = Max(CurrentTerm[s], t)
         /\ \A i \in Server : i # s => CurrentTerm'[i] = CurrentTerm[i]
  BY TermSets, Zenon

-----------------------------------------------------------------------------
(* Logs on disk                                                            *)

DiskInv == LogOnDisk /\ SnapshotTermInLog

\* The log of peer s, its snapshot and the labels of the snapshot are left alone.
LogUntouched(s) == /\ Log'[s] = Log[s] /\ LastIncludedIndex'[s] = LastIncludedIndex[s]
                   /\ LastIncludedTerm'[s] = LastIncludedTerm[s]
                   /\ SnapshotData'[s] = SnapshotData[s]

\* persist() writes what the peer has in memory and nobody else's disk.
LEMMA PersistWrites ==
  ASSUME TypeOK, NEW s \in Server, Persist(s)
  PROVE  /\ persister'[s].Log = Log'[s]
         /\ persister'[s].LastIncludedIndex = LastIncludedIndex'[s]
         /\ persister'[s].LastIncludedTerm = LastIncludedTerm'[s]
         /\ persister'[s].Snapshot = SnapshotData'[s]
         /\ \A d \in Server : d # s => persister'[d] = persister[d]
<1>1. persister'[s] = Durable(s)'
  BY Zenon DEF Persist, TypeOK
<1>2. \A d \in Server : d # s => persister'[d] = persister[d]
  BY Zenon DEF Persist, TypeOK
<1> QED
  BY <1>1, <1>2, SMTT(20) DEF Durable

\* persist() writes the term on disk.
LEMMA PersistTerm ==
  ASSUME TypeOK, NEW s \in Server, Persist(s)
  PROVE  persister'[s].CurrentTerm = CurrentTerm'[s]
<1>1. persister' = [persister EXCEPT ![s] = Durable(s)']
  BY Zenon DEF Persist
<1>2. persister'[s] = Durable(s)'
  BY <1>1, PeerArrays, Zenon
<1> QED
  BY <1>2, SMT DEF Durable

\* A step that changes no log keeps the invariant, whether it persists or not.
LEMMA LogsUntouched ==
  ASSUME TypeOK, DiskInv, UNCHANGED logVars,
         \/ UNCHANGED persister
         \/ \E s \in Server : Persist(s)
  PROVE  DiskInv'
<1>1. /\ Log' = Log /\ LastIncludedIndex' = LastIncludedIndex
      /\ LastIncludedTerm' = LastIncludedTerm /\ SnapshotData' = SnapshotData
  BY Zenon DEF logVars
<1>2. SnapshotTermInLog'
  BY <1>1, Zenon DEF DiskInv, SnapshotTermInLog
<1>3. CASE UNCHANGED persister
  BY <1>1, <1>2, <1>3, Zenon DEF DiskInv, LogOnDisk
<1>4. ASSUME NEW s \in Server, Persist(s)
      PROVE  LogOnDisk'
  <2>1. ASSUME NEW d \in Server
        PROVE  /\ persister'[d].Log = Log'[d]
               /\ persister'[d].LastIncludedIndex = LastIncludedIndex'[d]
               /\ persister'[d].LastIncludedTerm = LastIncludedTerm'[d]
               /\ persister'[d].Snapshot = SnapshotData'[d]
    <3>1. CASE d = s
      BY <1>4, <3>1, PersistWrites, Zenon
    <3>2. CASE d # s
      <4>1. persister'[d] = persister[d]
        BY <1>4, <3>2, PersistWrites, Zenon
      <4> QED
        BY <1>1, <4>1, Zenon DEF DiskInv, LogOnDisk
    <3> QED
      BY <3>1, <3>2, Zenon
  <2> QED
    BY <2>1, Zenon DEF LogOnDisk
<1> QED
  BY <1>2, <1>3, <1>4, Zenon DEF DiskInv

\* A step that changes one peer's log, leaves the snapshot's term in entry 0 and persists
\* keeps the invariant.
LEMMA LogPersisted ==
  ASSUME TypeOK, DiskInv, NEW s \in Server, Persist(s),
         \A d \in Server : d # s => LogUntouched(d),
         Log'[s][1].LogTerm = LastIncludedTerm'[s]
  PROVE  DiskInv'
<1>1. ASSUME NEW d \in Server
      PROVE  /\ persister'[d].Log = Log'[d]
             /\ persister'[d].LastIncludedIndex = LastIncludedIndex'[d]
             /\ persister'[d].LastIncludedTerm = LastIncludedTerm'[d]
             /\ persister'[d].Snapshot = SnapshotData'[d]
             /\ Log'[d][1].LogTerm = LastIncludedTerm'[d]
  <2>1. CASE d = s
    BY <2>1, PersistWrites, Zenon
  <2>2. CASE d # s
    <3>1. persister'[d] = persister[d]
      BY <2>2, PersistWrites, Zenon
    <3>2. LogUntouched(d)
      BY <2>2, Zenon
    <3> QED
      BY <3>1, <3>2, Zenon DEF DiskInv, LogOnDisk, SnapshotTermInLog, LogUntouched
  <2> QED
    BY <2>1, <2>2, Zenon
<1> QED
  BY <1>1, Zenon DEF DiskInv, LogOnDisk, SnapshotTermInLog

-----------------------------------------------------------------------------
(* The handlers that change a log                                          *)

\* The assignment rf.Log[0].LogTerm = rf.LastIncludedTerm of HeartbeatHandler changes nothing.
LEMMA CheckedLogSame ==
  ASSUME TypeOK, SnapshotTermInLog, NEW s \in Server, NEW p, InRange(s, p)
  PROVE  CheckedLog(s, p) = Log[s]
<1>1. Log[s] \in Logs /\ Log[s][1].LogTerm = LastIncludedTerm[s]
  BY Zenon DEF TypeOK, DurableOK, SnapshotTermInLog
<1>2. Log[s] \in Seq(Entry) /\ Len(Log[s]) \in Nat /\ Len(Log[s]) >= 1 /\ Log[s][1] \in Entry
  <2>1. 1 \in 1..Len(Log[s])
    BY <1>1, LogReads, SMTT(20)
  <2> QED
    BY <1>1, <2>1, LogReads, Zenon
<1>3. [Log[s][1] EXCEPT !.LogTerm = LastIncludedTerm[s]] = Log[s][1]
  BY <1>1, <1>2, Zenon DEF Entry
<1>4. [Log[s] EXCEPT ![1].LogTerm = LastIncludedTerm[s]] = Log[s]
  BY <1>2, <1>3, SMTT(20)
<1> QED
  BY <1>4, Zenon DEF CheckedLog

\* What is left of a log in front, or appended to it, starts with the same entry.
LEMMA FirstEntryStays ==
  ASSUME NEW log \in Logs, NEW p \in 1..Len(log), NEW entries \in Seq(Entry)
  PROVE  /\ SubSeq(log, 1, p)[1] = log[1]
         /\ (SubSeq(log, 1, p) \o entries)[1] = log[1]
         /\ SubSeq(log, p, Len(log))[1] = log[p]
<1>1. log \in Seq(Entry) /\ Len(log) \in Nat /\ Len(log) >= 1
  BY LogReads, Zenon
<1>2. /\ SubSeq(log, 1, p) \in Seq(Entry) /\ Len(SubSeq(log, 1, p)) = p
      /\ SubSeq(log, 1, p)[1] = log[1]
      /\ SubSeq(log, p, Len(log))[1] = log[p]
  BY <1>1, SMTT(20)
<1>3. (SubSeq(log, 1, p) \o entries)[1] = SubSeq(log, 1, p)[1]
  BY <1>2, SMTT(20)
<1> QED
  BY <1>2, <1>3, Zenon

\* HeartbeatHandler deletes, replaces or appends entries behind entry 0.
LEMMA HeartbeatDisk ==
  ASSUME TypeOK, DiskInv, NEW m \in appendCalls, HeartbeatConflict(m) \/ HeartbeatAccepted(m)
  PROVE  DiskInv'
<1> DEFINE s == m.to
           p == V2PIndex(s, m.PrevLogIndex)
<1>1. s \in Server /\ m.Entries \in Seq(Entry)
  BY ZenonT(30) DEF TypeOK, AppendCall
<1>2. InRange(s, p)
  BY ZenonT(30) DEF HeartbeatConflict, HeartbeatAccepted
<1>3. CheckedLog(s, p) = Log[s]
  BY <1>1, <1>2, CheckedLogSame, Zenon DEF DiskInv
<1>4. p \in Nat /\ p + 1 \in 1..Len(Log[s])
  BY <1>1, <1>2, CheckedReads, Zenon
<1>5. Log[s] \in Logs /\ Len(Log[s]) \in Nat /\ Log[s][1].LogTerm = LastIncludedTerm[s]
  BY <1>1, LogReads, Zenon DEF TypeOK, DurableOK, DiskInv, SnapshotTermInLog
<1>6. UNCHANGED <<LastIncludedIndex, LastIncludedTerm, SnapshotData>>
  BY ZenonT(30) DEF HeartbeatConflict, HeartbeatAccepted
<1> HIDE DEF s, p
<1>7. CASE HeartbeatConflict(m)
  <2>1. Log' = [Log EXCEPT ![s] = SubSeq(Log[s], 1, Max(p, 1))] /\ Persist(s)
    BY <1>3, <1>7, Zenon DEF HeartbeatConflict, s, p
  <2>2. Max(p, 1) \in 1..Len(Log[s])
    <3> DEFINE n == Len(Log[s])
    <3>1. n \in Nat /\ p + 1 \in 1..n
      BY <1>4, <1>5, Zenon
    <3> HIDE DEF n
    <3>2. Max(p, 1) \in 1..n
      BY <1>4, <3>1, SMTT(20) DEF Max
    <3> QED
      BY <3>2, Zenon DEF n
  <2>3. SubSeq(Log[s], 1, Max(p, 1))[1] = Log[s][1]
    BY <1>1, <1>5, <2>2, FirstEntryStays, Zenon
  <2>4. Log'[s] = SubSeq(Log[s], 1, Max(p, 1)) /\ \A d \in Server : d # s => Log'[d] = Log[d]
    <3>1. Log \in [Server -> Logs]
      BY Zenon DEF TypeOK, DurableOK
    <3> QED
      BY <1>1, <2>1, <3>1, Zenon
  <2>5. \A d \in Server : d # s => LogUntouched(d)
    BY <1>6, <2>4, Zenon DEF LogUntouched
  <2> QED
    BY <1>1, <1>5, <1>6, <2>1, <2>3, <2>4, <2>5, LogPersisted, Zenon
<1>8. CASE HeartbeatAccepted(m)
  <2>1. /\ Log' = [Log EXCEPT ![s] = AppendedLog(Log[s], p, m.Entries)]
        /\ PersistIf(s, m.Term > CurrentTerm[s] \/ m.Entries # <<>>)
    BY <1>3, <1>8, Zenon DEF HeartbeatAccepted, s, p
  <2>2. CASE m.Entries = <<>>
    <3>1. Log' = Log
      BY <1>1, <2>1, <2>2, Zenon DEF AppendedLog, TypeOK, DurableOK
    <3>2. UNCHANGED logVars
      BY <1>6, <3>1, Zenon DEF logVars
    <3>3. UNCHANGED persister \/ Persist(s)
      BY <2>1, Zenon DEF PersistIf
    <3> QED
      BY <1>1, <3>2, <3>3, LogsUntouched, Zenon
  <2>3. CASE m.Entries # <<>>
    <3>1. Persist(s)
      BY <2>1, <2>3, Zenon DEF PersistIf
    <3>2. AppendedLog(Log[s], p, m.Entries)[1] = Log[s][1]
      BY <1>1, <1>4, <1>5, <2>3, FirstEntryStays, Zenon DEF AppendedLog
    <3>3. /\ Log'[s] = AppendedLog(Log[s], p, m.Entries)
          /\ \A d \in Server : d # s => Log'[d] = Log[d]
      BY <1>1, <2>1, Zenon DEF TypeOK, DurableOK
    <3>4. \A d \in Server : d # s => LogUntouched(d)
      BY <1>6, <3>3, Zenon DEF LogUntouched
    <3> QED
      BY <1>1, <1>5, <1>6, <3>1, <3>2, <3>3, <3>4, LogPersisted, Zenon
  <2> QED
    BY <2>2, <2>3, Zenon
<1> QED
  BY <1>7, <1>8, Zenon

\* Start appends behind entry 0, Snapshot makes the entry it is called with entry 0.
LEMMA LeaderDisk ==
  ASSUME TypeOK, DiskInv, NEW s \in Server,
         Snapshot(s) \/ \E command \in Command : Start(s, command)
  PROVE  DiskInv'
<1>1. Log[s] \in Logs /\ Log[s][1].LogTerm = LastIncludedTerm[s]
  BY Zenon DEF TypeOK, DurableOK, DiskInv, SnapshotTermInLog
<1>2. Log[s] \in Seq(Entry) /\ Len(Log[s]) \in Nat /\ Len(Log[s]) >= 1
  BY <1>1, LogReads, Zenon
<1>3. Persist(s)
  BY Zenon DEF Snapshot, Start
<1>4. ASSUME NEW command \in Command, Start(s, command)
      PROVE  DiskInv'
  <2> DEFINE e == [LogTerm |-> CurrentTerm[s], Command |-> command]
  <2>1. Log' = [Log EXCEPT ![s] = Append(Log[s], e)]
        /\ UNCHANGED <<LastIncludedIndex, LastIncludedTerm, SnapshotData>>
    BY <1>4, Zenon DEF Start
  <2>2. e \in Entry
    BY Zenon DEF Entry, Commands, TypeOK, DurableOK
  <2> HIDE DEF e
  <2>3. Append(Log[s], e)[1] = Log[s][1]
    BY <1>2, <2>2, SMTT(20)
  <2>4. Log'[s] = Append(Log[s], e) /\ \A d \in Server : d # s => Log'[d] = Log[d]
    BY <2>1, Zenon DEF TypeOK, DurableOK
  <2>5. \A d \in Server : d # s => LogUntouched(d)
    BY <2>1, <2>4, Zenon DEF LogUntouched
  <2> QED
    BY <1>1, <1>3, <2>1, <2>3, <2>4, <2>5, LogPersisted, Zenon
<1>5. CASE Snapshot(s)
  <2> DEFINE p == V2PIndex(s, saving[s])
             kept == SubSeq(Log[s], p + 1, Len(Log[s]))
  <2>1. /\ InRange(s, p)
        /\ LastIncludedTerm' = [LastIncludedTerm EXCEPT ![s] = Log[s][p + 1].LogTerm]
        /\ Log' = [Log EXCEPT ![s] = kept]
        /\ LastIncludedIndex' = [LastIncludedIndex EXCEPT ![s] = saving[s]]
        /\ SnapshotData' = [SnapshotData EXCEPT ![s] = applied[s]]
    BY <1>5, Zenon DEF Snapshot
  <2>2. p + 1 \in 1..Len(Log[s])
    BY <1>2, <2>1, SMTT(20) DEF InRange
  <2>3. kept[1] = Log[s][p + 1]
    <3>1. <<>> \in Seq(Entry)
      OBVIOUS
    <3> QED
      BY <1>1, <2>2, <3>1, FirstEntryStays, Zenon
  <2> HIDE DEF p, kept
  <2>4. /\ Log'[s] = kept /\ LastIncludedTerm'[s] = Log[s][p + 1].LogTerm
        /\ \A d \in Server : d # s => LogUntouched(d)
    BY <2>1, Zenon DEF TypeOK, DurableOK, LogUntouched
  <2> QED
    BY <1>3, <2>3, <2>4, LogPersisted, Zenon
<1> QED
  BY <1>4, <1>5, Zenon

\* InstallSnapshot keeps the log behind the entry of the snapshot or starts a fresh one.
LEMMA InstallDisk ==
  ASSUME TypeOK, DiskInv, NEW m \in snapshotCalls, InstallSnapshot(m)
  PROVE  DiskInv'
<1> DEFINE s == m.to
           p == V2PIndex(s, m.LastIncludedIndex)
<1>1. s \in Server
  BY ZenonT(30) DEF TypeOK, SnapCall
<1>2. /\ Log' = [Log EXCEPT ![s] = KeptLog(s, m)]
      /\ LastIncludedIndex' = [LastIncludedIndex EXCEPT ![s] = m.LastIncludedIndex]
      /\ LastIncludedTerm' = [LastIncludedTerm EXCEPT ![s] = m.LastIncludedTerm]
      /\ SnapshotData' = [SnapshotData EXCEPT ![s] = m.Snapdata]
      /\ Persist(s)
  BY Zenon DEF InstallSnapshot
<1>3. Log[s] \in Logs /\ Len(Log[s]) \in Nat
  BY <1>1, LogReads, Zenon DEF TypeOK, DurableOK
<1> HIDE DEF s
<1>4. KeptLog(s, m)[1].LogTerm = m.LastIncludedTerm
  <2>1. CASE InRange(s, p) /\ Log[s][p + 1].LogTerm = m.LastIncludedTerm
    <3>1. p + 1 \in 1..Len(Log[s])
      BY <1>3, <2>1, SMTT(20) DEF InRange
    <3>2. KeptLog(s, m) = SubSeq(Log[s], p + 1, Len(Log[s]))
      BY <2>1, Zenon DEF KeptLog
    <3>3. <<>> \in Seq(Entry)
      OBVIOUS
    <3>4. KeptLog(s, m)[1] = Log[s][p + 1]
      BY <1>3, <3>1, <3>2, <3>3, FirstEntryStays, Zenon
    <3> QED
      BY <2>1, <3>4, Zenon
  <2>2. CASE ~(InRange(s, p) /\ Log[s][p + 1].LogTerm = m.LastIncludedTerm)
    <3>1. KeptLog(s, m) = <<[LogTerm |-> m.LastIncludedTerm, Command |-> Nil]>>
      BY <2>2, Zenon DEF KeptLog
    <3> QED
      BY <3>1, SMTT(20)
  <2> QED
    BY <2>1, <2>2, Zenon
<1>5. /\ Log'[s] = KeptLog(s, m) /\ LastIncludedTerm'[s] = m.LastIncludedTerm
      /\ \A d \in Server : d # s => LogUntouched(d)
  BY <1>1, <1>2, Zenon DEF TypeOK, DurableOK, LogUntouched
<1> QED
  BY <1>1, <1>2, <1>4, <1>5, LogPersisted, Zenon

\* Restart reads back what the peer had.
LEMMA RestartDisk ==
  ASSUME TypeOK, DiskInv, NEW s \in Server, Restart(s)
  PROVE  DiskInv'
<1>1. /\ Log' = [Log EXCEPT ![s] = persister[s].Log]
      /\ LastIncludedIndex' = [LastIncludedIndex EXCEPT ![s] = persister[s].LastIncludedIndex]
      /\ LastIncludedTerm' = [LastIncludedTerm EXCEPT ![s] = persister[s].LastIncludedTerm]
      /\ SnapshotData' = [SnapshotData EXCEPT ![s] = persister[s].Snapshot]
      /\ UNCHANGED persister
  BY Zenon DEF Restart
<1>2. /\ persister[s].Log = Log[s] /\ persister[s].LastIncludedIndex = LastIncludedIndex[s]
      /\ persister[s].LastIncludedTerm = LastIncludedTerm[s]
      /\ persister[s].Snapshot = SnapshotData[s]
  BY Zenon DEF DiskInv, LogOnDisk
<1>3. /\ Log' = Log /\ LastIncludedIndex' = LastIncludedIndex
      /\ LastIncludedTerm' = LastIncludedTerm /\ SnapshotData' = SnapshotData
  BY <1>1, <1>2, Zenon DEF TypeOK, DurableOK
<1>4. UNCHANGED logVars
  BY <1>3, Zenon DEF logVars
<1> QED
  BY <1>1, <1>4, LogsUntouched, Zenon

-----------------------------------------------------------------------------
(* The handlers that do not                                                *)

\* A step that leaves the logs alone and persists the state of some peer or of none.
NoLogStep == /\ UNCHANGED logVars
             /\ UNCHANGED persister \/ \E s \in Server : Persist(s)

\* A panic leaves logs and disks as they are.
LEMMA StopNoLog ==
  ASSUME NEW what, Stop(what)
  PROVE  NoLogStep
  BY Zenon DEF Stop, peerVars, NoLogStep

\* Elections change no log.
LEMMA VoteNoLog ==
  ASSUME TypeOK, NEW m \in voteCalls,
         \/ RequestVoteHandler(m) \/ VoteReplyStale(m) \/ VoteReplyCurrent(m)
         \/ CountVote(m) \/ VoteRefused(m) \/ BecomeLeader(m)
  PROVE  NoLogStep
<1>0. m.from \in Server /\ m.to \in Server
  BY ZenonT(30) DEF TypeOK, VoteCall
<1>1. CASE RequestVoteHandler(m)
  BY <1>0, <1>1, Zenon DEF RequestVoteHandler, PersistIf, NoLogStep
<1>2. CASE VoteReplyStale(m)
  BY <1>2, Zenon DEF VoteReplyStale, NoLogStep
<1>3. CASE VoteReplyCurrent(m) \/ CountVote(m)
  BY <1>3, Zenon DEF VoteReplyCurrent, CountVote, peerVars, NoLogStep
<1>4. CASE VoteRefused(m)
  BY <1>0, <1>4, Zenon DEF VoteRefused, PersistIf, NoLogStep
<1>5. CASE BecomeLeader(m)
  BY <1>5, Zenon DEF BecomeLeader, NoLogStep
<1> QED
  BY <1>1, <1>2, <1>3, <1>4, <1>5, Zenon

\* The other heartbeat steps change no log.
LEMMA HeartbeatNoLog ==
  ASSUME TypeOK, NEW m \in appendCalls,
         \/ HeartbeatRefused(m) \/ HeartbeatMissing(m) \/ HeartbeatPanics(m)
         \/ HeartbeatReplyStale(m) \/ HeartbeatReplyDeposes(m) \/ HeartbeatReplySuccess(m)
         \/ HeartbeatReplyPanics(m) \/ HeartbeatReplyFailure(m)
  PROVE  NoLogStep
<1>0. m.from \in Server /\ m.to \in Server
  BY ZenonT(30) DEF TypeOK, AppendCall
<1>1. CASE HeartbeatRefused(m) \/ HeartbeatReplyStale(m)
  BY <1>1, Zenon DEF HeartbeatRefused, HeartbeatReplyStale, peerVars, NoLogStep
<1>2. CASE HeartbeatMissing(m)
  BY <1>0, <1>2, Zenon DEF HeartbeatMissing, PersistIf, NoLogStep
<1>3. CASE HeartbeatPanics(m) \/ HeartbeatReplyPanics(m)
  BY <1>3, StopNoLog, Zenon DEF HeartbeatPanics, HeartbeatReplyPanics
<1>4. CASE HeartbeatReplyDeposes(m)
  BY <1>0, <1>4, Zenon DEF HeartbeatReplyDeposes, NoLogStep
<1>5. CASE HeartbeatReplySuccess(m) \/ HeartbeatReplyFailure(m)
  BY <1>5, Zenon DEF HeartbeatReplySuccess, HeartbeatReplyFailure, NoLogStep
<1> QED
  BY <1>1, <1>2, <1>3, <1>4, <1>5, Zenon

\* The other steps of snapshot calls change no log.
LEMMA SnapshotNoLog ==
  ASSUME TypeOK, NEW m \in snapshotCalls,
         \/ ReadSnapshotData(m) \/ InstallRefused(m) \/ SnapshotReply(m)
         \/ ServiceInstalls(m) \/ ServiceMismatch(m)
  PROVE  NoLogStep
<1>0. m.from \in Server
  BY ZenonT(30) DEF TypeOK, SnapCall
<1>1. CASE ReadSnapshotData(m) \/ InstallRefused(m) \/ ServiceInstalls(m)
  BY <1>1, Zenon DEF ReadSnapshotData, InstallRefused, ServiceInstalls, peerVars, NoLogStep
<1>2. CASE ServiceMismatch(m)
  BY <1>2, StopNoLog, Zenon DEF ServiceMismatch
<1>3. CASE SnapshotReply(m)
  BY <1>0, <1>3, Zenon DEF SnapshotReply, PersistIf, NoLogStep
<1> QED
  BY <1>1, <1>2, <1>3, Zenon

\* Timers, the apply goroutine and the service change no log.
LEMMA PeerNoLog ==
  ASSUME NEW s \in Server,
         \/ ElectLauncher(s) \/ HeartBeatGoroutine(s) \/ ApplyGoroutine(s) \/ ApplyPanics(s)
         \/ ServiceApplies(s) \/ ServiceOutOfOrder(s) \/ SnapshotPanics(s)
  PROVE  NoLogStep
<1>1. CASE ElectLauncher(s)
  BY <1>1, Zenon DEF ElectLauncher, NoLogStep
<1>2. CASE HeartBeatGoroutine(s)
  BY <1>2, StopNoLog, Zenon DEF HeartBeatGoroutine, peerVars, NoLogStep
<1>3. CASE ApplyGoroutine(s)
  BY <1>3, Zenon DEF ApplyGoroutine, NoLogStep
<1>4. CASE ServiceApplies(s)
  BY <1>4, Zenon DEF ServiceApplies, peerVars, NoLogStep
<1>5. CASE ApplyPanics(s) \/ ServiceOutOfOrder(s) \/ SnapshotPanics(s)
  BY <1>5, StopNoLog, Zenon DEF ApplyPanics, ServiceOutOfOrder, SnapshotPanics
<1> QED
  BY <1>1, <1>2, <1>3, <1>4, <1>5, Zenon

-----------------------------------------------------------------------------

\* A new peer has an empty log in memory and on disk.
LEMMA DiskInit == Init => DiskInv
<1> SUFFICES ASSUME Init PROVE DiskInv
  BY Zenon
<1>1. LogOnDisk
  BY Zenon DEF Init, LogOnDisk, Durable
<1>2. SnapshotTermInLog
  BY Zenon DEF Init, SnapshotTermInLog
<1> QED
  BY <1>1, <1>2, Zenon DEF DiskInv

\* Every step keeps the logs on disk.
LEMMA DiskStep == TypeOK /\ DiskInv /\ [Next]_vars => DiskInv'
<1> SUFFICES ASSUME TypeOK, DiskInv, [Next]_vars PROVE DiskInv'
  BY Zenon
<1>0. \A S : Running(S) \subseteq S /\ Scheduled(S) \subseteq S
  BY Zenon DEF Running, Scheduled
<1>1. ASSUME NoLogStep PROVE DiskInv'
  BY <1>1, LogsUntouched, Zenon DEF NoLogStep
<1>2. CASE GoroutineStep
  BY <1>0, <1>1, <1>2, VoteNoLog, SnapshotNoLog, PeerNoLog, LeaderDisk, ZenonT(30)
     DEF GoroutineStep
<1>3. CASE LocalStep
  BY <1>0, <1>1, <1>3, PeerNoLog, LeaderDisk, RestartDisk, ZenonT(30) DEF LocalStep
<1>4. CASE NetworkStep
  BY <1>0, <1>1, <1>4, VoteNoLog, HeartbeatNoLog, HeartbeatDisk, SnapshotNoLog, InstallDisk,
     ZenonT(30) DEF NetworkStep
<1>5. CASE UNCHANGED vars
  <2>1. NoLogStep
    BY <1>5, Zenon DEF vars, peerVars, NoLogStep
  <2> QED
    BY <1>1, <2>1, Zenon
<1> QED
  BY <1>2, <1>3, <1>4, <1>5, Zenon DEF Next

\* A piece of a log: its first entry stands for everything up to index base, and only the term of
\* that entry counts.  Logs, append calls and snapshot calls are pieces.
LogPiece(s) == [base |-> LastIncludedIndex[s], log |-> Log[s]]

AppendPiece(m) == [base |-> m.PrevLogIndex,
                   log |-> <<[LogTerm |-> m.PrevLogTerm, Command |-> Nil]>> \o m.Entries]

SnapshotPiece(m) == [base |-> m.LastIncludedIndex,
                     log |-> <<[LogTerm |-> m.LastIncludedTerm, Command |-> Nil]>>]

Pieces == {LogPiece(s) : s \in Server} \cup {AppendPiece(m) : m \in appendCalls}
          \cup {SnapshotPiece(m) : m \in snapshotCalls}

Piece == [base : Nat, log : Logs]

Indices(p) == p.base..(p.base + Len(p.log) - 1)

PieceAt(p, i) == p.log[i - p.base + 1]

TermAt(p, i) == PieceAt(p, i).LogTerm

\* Two pieces with the same term at an index are the same up to there.
Match(p, q) ==
  \A i, j \in Indices(p) \cap Indices(q) :
    j <= i /\ TermAt(p, i) = TermAt(q, i) =>
      /\ TermAt(p, j) = TermAt(q, j)
      /\ j > p.base /\ j > q.base => PieceAt(p, j) = PieceAt(q, j)

AllMatch(P) == \A p, q \in P : Match(p, q)

\* What p says of an index, q says too.
Sub(p, q) ==
  \A i \in Indices(p) : /\ i \in Indices(q) /\ TermAt(p, i) = TermAt(q, i)
                        /\ i > p.base => i > q.base /\ PieceAt(p, i) = PieceAt(q, i)

\* n is piece f up to the base of m and then m, where the two have the same term at that base.
Grafted(n, f, m) ==
  /\ m.base \in Indices(f) /\ TermAt(f, m.base) = TermAt(m, m.base)
  /\ \A i \in Indices(n) :
       \/ /\ i <= m.base /\ i \in Indices(f) /\ TermAt(n, i) = TermAt(f, i)
          /\ i > n.base => i > f.base /\ PieceAt(n, i) = PieceAt(f, i)
       \/ i > m.base /\ i \in Indices(m) /\ PieceAt(n, i) = PieceAt(m, i)

\* n is piece p and one more entry, of term t at index k.
Extended(n, p, k, t) ==
  /\ TermAt(n, k) = t
  /\ \A i \in Indices(p) : i < k
  /\ \A i \in Indices(n) : i = k \/ /\ i \in Indices(p) /\ PieceAt(n, i) = PieceAt(p, i)
                                    /\ i > n.base => i > p.base

\* Every index and term in Q is in P.
NoNew(P, Q) == \A q \in Q : \A i \in Indices(q) : \E p \in P : i \in Indices(p) /\ TermAt(p, i) = TermAt(q, i)

\* The indices of a piece are an interval that starts with its base.
LEMMA PieceIndices ==
  ASSUME NEW p \in Piece
  PROVE  /\ p.base \in Nat /\ p.base \in Indices(p)
         /\ \A i \in Indices(p) : i \in Nat /\ p.base <= i
         /\ \A i, k \in Indices(p) : \A j \in Nat : i <= j /\ j <= k => j \in Indices(p)
<1>1. p.base \in Nat /\ p.log \in Logs
  BY Zenon DEF Piece
<1>2. Len(p.log) \in Nat /\ Len(p.log) >= 1
  BY <1>1, LogReads, Zenon
<1> QED
  BY <1>1, <1>2, SMTT(20) DEF Indices

\* Matching is symmetric.
LEMMA MatchSymmetric == \A p, q : Match(p, q) => Match(q, p)
  BY SMTT(20) DEF Match

\* A piece matches itself.
LEMMA MatchSelf == \A p : Match(p, p)
  BY Zenon DEF Match

\* What is part of a piece matches what the piece matches.
LEMMA SubMatch ==
  ASSUME NEW p, NEW q, NEW x, Sub(p, q), Match(q, x)
  PROVE  Match(p, x)
<1> SUFFICES ASSUME NEW i \in Indices(p) \cap Indices(x), NEW j \in Indices(p) \cap Indices(x),
                    j <= i, TermAt(p, i) = TermAt(x, i)
             PROVE  /\ TermAt(p, j) = TermAt(x, j)
                    /\ j > p.base /\ j > x.base => PieceAt(p, j) = PieceAt(x, j)
  BY Zenon DEF Match
<1>1. /\ i \in Indices(q) \cap Indices(x) /\ TermAt(p, i) = TermAt(q, i)
      /\ j \in Indices(q) \cap Indices(x) /\ TermAt(p, j) = TermAt(q, j)
      /\ j > p.base => j > q.base /\ PieceAt(p, j) = PieceAt(q, j)
  BY Zenon DEF Sub
<1>2. /\ TermAt(q, j) = TermAt(x, j)
      /\ j > q.base /\ j > x.base => PieceAt(q, j) = PieceAt(x, j)
  BY <1>1, Zenon DEF Match
<1> QED
  BY <1>1, <1>2, Zenon

\* Parts of pieces that match, match.
LEMMA SubsMatch ==
  ASSUME NEW P, NEW Q, AllMatch(P), \A q \in Q : \E p \in P : Sub(q, p)
  PROVE  AllMatch(Q) /\ NoNew(P, Q)
<1>1. ASSUME NEW a \in Q, NEW b \in Q
      PROVE  Match(a, b)
  <2>1. PICK p \in P : Sub(a, p)
    BY Zenon
  <2>2. PICK q \in P : Sub(b, q)
    BY Zenon
  <2>3. Match(p, q)
    BY Zenon DEF AllMatch
  <2>4. Match(b, p)
    BY <2>2, <2>3, MatchSymmetric, SubMatch, Zenon
  <2> QED
    BY <2>1, <2>4, MatchSymmetric, SubMatch, Zenon
<1>2. NoNew(P, Q)
  BY Zenon DEF NoNew, Sub
<1> QED
  BY <1>1, <1>2, Zenon DEF AllMatch

\* A graft matches what its two parts match.
LEMMA GraftMatch ==
  ASSUME NEW n, NEW f, NEW m \in Piece, NEW x \in Piece, Grafted(n, f, m), Match(f, x), Match(m, x)
  PROVE  Match(n, x)
<1> SUFFICES ASSUME NEW i \in Indices(n) \cap Indices(x), NEW j \in Indices(n) \cap Indices(x),
                    j <= i, TermAt(n, i) = TermAt(x, i)
             PROVE  /\ TermAt(n, j) = TermAt(x, j)
                    /\ j > n.base /\ j > x.base => PieceAt(n, j) = PieceAt(x, j)
  BY Zenon DEF Match
<1>0. i \in Nat /\ j \in Nat /\ m.base \in Nat /\ m.base \in Indices(m)
  BY PieceIndices, Zenon
<1>1. ASSUME NEW k \in Indices(n), k <= m.base
      PROVE  /\ k \in Indices(f) /\ TermAt(n, k) = TermAt(f, k)
             /\ k > n.base => k > f.base /\ PieceAt(n, k) = PieceAt(f, k)
  <2>1. ~(k > m.base)
    <3>1. k \in Indices(f) \/ k \in Indices(m)
      BY Zenon DEF Grafted
    <3>2. k > m.base /\ k \in Indices(m) => k \in Nat
      BY PieceIndices, Zenon
    <3> QED
      BY <1>0, <1>1, <3>2, SMTT(20) DEF Grafted
  <2> QED
    BY <2>1, Zenon DEF Grafted
<1>2. ASSUME NEW k \in Indices(n), k > m.base, k \in Nat
      PROVE  k \in Indices(m) /\ PieceAt(n, k) = PieceAt(m, k) /\ TermAt(n, k) = TermAt(m, k)
  <2>1. ~(k <= m.base)
    BY <1>0, <1>2
  <2> QED
    BY <2>1, Zenon DEF Grafted, TermAt
<1>3. CASE i <= m.base
  <2>1. j <= m.base
    BY <1>0, <1>3
  <2> QED
    BY <1>1, <1>3, <2>1, Zenon DEF Match
<1>4. CASE i > m.base /\ j > m.base
  <2>1. /\ i \in Indices(m) /\ TermAt(n, i) = TermAt(m, i)
        /\ j \in Indices(m) /\ TermAt(n, j) = TermAt(m, j) /\ PieceAt(n, j) = PieceAt(m, j)
    BY <1>0, <1>2, <1>4, Zenon
  <2> QED
    BY <1>4, <2>1, Zenon DEF Match
<1>5. CASE i > m.base /\ j <= m.base
  <2>1. i \in Indices(m) /\ TermAt(n, i) = TermAt(m, i)
    BY <1>0, <1>2, <1>5, Zenon
  <2>2. m.base <= i
    BY <1>0, <1>5
  <2>3. m.base \in Indices(x)
    BY <1>0, <1>5, <2>2, PieceIndices, Zenon
  <2>4. TermAt(m, m.base) = TermAt(x, m.base)
    BY <1>0, <2>1, <2>2, <2>3, Zenon DEF Match
  <2>5. m.base \in Indices(f) /\ TermAt(f, m.base) = TermAt(x, m.base)
    BY <2>4, Zenon DEF Grafted
  <2>6. /\ j \in Indices(f) /\ TermAt(n, j) = TermAt(f, j)
        /\ j > n.base => j > f.base /\ PieceAt(n, j) = PieceAt(f, j)
    BY <1>1, <1>5, Zenon
  <2> QED
    BY <1>5, <2>3, <2>5, <2>6, Zenon DEF Match
<1> QED
  BY <1>0, <1>3, <1>4, <1>5, SMTT(20)

\* A graft of two pieces may join the pieces that match.
LEMMA GraftsMatch ==
  ASSUME NEW P, P \subseteq Piece, AllMatch(P), NEW f \in P, NEW m \in P, NEW n, Grafted(n, f, m)
  PROVE  AllMatch(P \cup {n}) /\ NoNew(P, P \cup {n})
<1>1. \A x \in P : Match(n, x)
  BY GraftMatch, Zenon DEF AllMatch
<1>2. AllMatch(P \cup {n})
  BY <1>1, MatchSymmetric, MatchSelf, Zenon DEF AllMatch
<1>3. \A i \in Indices(n) : \E p \in P : i \in Indices(p) /\ TermAt(p, i) = TermAt(n, i)
  BY Zenon DEF Grafted, TermAt
<1>4. NoNew(P, P \cup {n})
  BY <1>3, Zenon DEF NoNew
<1> QED
  BY <1>2, <1>4, Zenon

\* An entry of a term that no piece has at its index or later may be appended.
LEMMA ExtendMatch ==
  ASSUME NEW p, NEW x, NEW n, NEW k \in Nat, NEW t, Extended(n, p, k, t), Match(p, x),
         p \in Piece, k \in Indices(x) => TermAt(x, k) # t
  PROVE  Match(n, x)
<1> SUFFICES ASSUME NEW i \in Indices(n) \cap Indices(x), NEW j \in Indices(n) \cap Indices(x),
                    j <= i, TermAt(n, i) = TermAt(x, i)
             PROVE  /\ TermAt(n, j) = TermAt(x, j)
                    /\ j > n.base /\ j > x.base => PieceAt(n, j) = PieceAt(x, j)
  BY Zenon DEF Match
<1>1. i # k
  BY Zenon DEF Extended
<1>2. i \in Indices(p) /\ i < k /\ i \in Nat /\ PieceAt(n, i) = PieceAt(p, i)
  BY <1>1, PieceIndices, Zenon DEF Extended
<1>3. j # k
  BY <1>2
<1>4. j \in Indices(p) /\ PieceAt(n, j) = PieceAt(p, j) /\ (j > n.base => j > p.base)
  BY <1>3, Zenon DEF Extended
<1> QED
  BY <1>2, <1>4, Zenon DEF Match, TermAt

-----------------------------------------------------------------------------
(* The invariant of the logs                                               *)

Reigned(R, s, t) == \E r \in R : r.leader = s /\ r.term = t

\* Every entry was made by a leader of its term.
Created(R, P) ==
  \A p \in P : \A i \in Indices(p) : TermAt(p, i) = 0 \/ \E s \in Server : Reigned(R, s, TermAt(p, i))

\* A leader of term t, with a disk of term d and a log of length l, has every entry of that term,
\* unless a later term is on its disk; before term t is on its disk there is no entry of it.
Newest(P, d, l, t) ==
  d <= t => \A p \in P : \A i \in Indices(p) : TermAt(p, i) = t => d = t /\ i < l

\* Leaders, and those who send entries and snapshots to others, have been made leader of the term.
Appointed == /\ \A s \in Server : State[s] = LEADER => Reigned(reigns, s, CurrentTerm[s])
             /\ \A m \in appendCalls : m.from # m.to /\ Reigned(reigns, m.from, m.Term)
             /\ \A m \in snapshotCalls : m.from # m.to /\ Reigned(reigns, m.from, m.Term)

LogsRight == /\ AllMatch(Pieces) /\ Created(reigns, Pieces)
             /\ \A s \in Server, t \in Terms : Reigned(reigns, s, t) =>
                  Newest(Pieces, persister[s].CurrentTerm, LogLength(s), t)

LogInv == Appointed /\ (TwoLeaders \/ LogsRight)

\* No disk goes back to an earlier term.
DiskRises == \A s \in Server : /\ persister[s].CurrentTerm \in Nat /\ persister'[s].CurrentTerm \in Nat
                               /\ persister[s].CurrentTerm <= persister'[s].CurrentTerm

\* Entries that disappear, a disk that rises and a log that grows do no harm; nor does a log that
\* shrinks when the disk of its peer is not of the term.
LEMMA NewestKept ==
  ASSUME NEW P, NEW Q, NoNew(P, Q), NEW d \in Nat, NEW e \in Nat, NEW l \in Nat, NEW m \in Nat,
         NEW t \in Nat, Newest(P, d, l, t), d <= e, l <= m \/ e # t,
         \A q \in Q : \A i \in Indices(q) : i \in Nat
  PROVE  Newest(Q, e, m, t)
<1> SUFFICES ASSUME e <= t, NEW q \in Q, NEW i \in Indices(q), TermAt(q, i) = t
             PROVE  e = t /\ i < m
  BY Zenon DEF Newest
<1>1. PICK p \in P : i \in Indices(p) /\ TermAt(p, i) = t
  BY Zenon DEF NoNew
<1>2. d <= t
  OBVIOUS
<1>3. d = t /\ i < l
  BY <1>1, <1>2, Zenon DEF Newest
<1>4. i \in Nat
  BY Zenon
<1> QED
  BY <1>3, <1>4

\* Entries that were there already, and further elections, keep the creators.
LEMMA CreatedKept ==
  ASSUME NEW P, NEW Q, NoNew(P, Q), NEW R, NEW S, R \subseteq S, Created(R, P)
  PROVE  Created(S, Q)
<1> SUFFICES ASSUME NEW q \in Q, NEW i \in Indices(q), TermAt(q, i) # 0
             PROVE  \E s \in Server : Reigned(S, s, TermAt(q, i))
  BY Zenon DEF Created
<1>1. PICK p \in P : i \in Indices(p) /\ TermAt(p, i) = TermAt(q, i)
  BY Zenon DEF NoNew
<1>2. PICK s \in Server : Reigned(R, s, TermAt(p, i))
  BY <1>1, Zenon DEF Created
<1>3. Reigned(S, s, TermAt(q, i))
  BY <1>1, <1>2, Zenon DEF Reigned
<1> QED
  BY <1>3, Zenon

\* Logs, append calls and snapshot calls are pieces.
LEMMA PiecesTyped == TypeOK => Pieces \subseteq Piece /\ \A s \in Server : LogLength(s) \in Nat
<1> SUFFICES ASSUME TypeOK
             PROVE  Pieces \subseteq Piece /\ \A s \in Server : LogLength(s) \in Nat
  BY Zenon
<1>1. ASSUME NEW s \in Server
      PROVE  LogPiece(s) \in Piece /\ LogLength(s) \in Nat
  <2>1. Log[s] \in Logs /\ LastIncludedIndex[s] \in Nat
    BY Zenon DEF TypeOK, DurableOK
  <2>2. Len(Log[s]) \in Nat
    BY <2>1, LogReads, Zenon
  <2> QED
    BY <2>1, <2>2, SMTT(20) DEF LogPiece, Piece, LogLength
<1>2. \A t \in Terms : <<[LogTerm |-> t, Command |-> Nil]>> \in Seq(Entry)
  BY DEF Entry, Commands
<1>3. ASSUME NEW m \in appendCalls
      PROVE  AppendPiece(m) \in Piece
  <2>1. m.PrevLogIndex \in Nat /\ m.PrevLogTerm \in Terms /\ m.Entries \in Seq(Entry)
    BY ZenonT(30) DEF TypeOK, AppendCall
  <2>2. PICK a, b : a = <<[LogTerm |-> m.PrevLogTerm, Command |-> Nil]>> /\ b = m.Entries
    BY Zenon
  <2>3. a \in Seq(Entry) /\ b \in Seq(Entry) /\ Len(a) = 1
    BY <1>2, <2>1, <2>2, Zenon
  <2>4. a \o b \in Seq(Entry) /\ Len(a \o b) = 1 + Len(b) /\ Len(b) \in Nat
    <3>1. Len(b) \in Nat
      BY <2>3
    <3>2. a \o b \in Seq(Entry) /\ Len(a \o b) = Len(a) + Len(b)
      BY <2>3, Joined, Zenon
    <3> QED
      BY <2>3, <3>1, <3>2, Zenon
  <2>5. a \o b \in Logs
    BY <2>4 DEF Logs
  <2> QED
    BY <2>1, <2>2, <2>5, Zenon DEF AppendPiece, Piece
<1>4. ASSUME NEW m \in snapshotCalls
      PROVE  SnapshotPiece(m) \in Piece
  <2>1. m.LastIncludedIndex \in Nat /\ m.LastIncludedTerm \in Terms
    BY ZenonT(30) DEF TypeOK, SnapCall
  <2>2. <<[LogTerm |-> m.LastIncludedTerm, Command |-> Nil]>> \in Logs
    BY <1>2, <2>1, Zenon DEF Logs
  <2> QED
    BY <2>1, <2>2, Zenon DEF SnapshotPiece, Piece
<1> QED
  BY <1>1, <1>3, <1>4, Zenon DEF Pieces

\* The same after a step.
LEMMA PiecesTypedNext ==
  ASSUME TypeOK'
  PROVE  Pieces' \subseteq Piece /\ \A s \in Server : LogLength(s)' \in Nat
<1>1. (TypeOK => Pieces \subseteq Piece /\ \A s \in Server : LogLength(s) \in Nat)'
  BY PiecesTyped, PTL
<1> QED
  BY <1>1, Zenon

\* A step that makes nobody leader keeps the invariant if the pieces still match and have no
\* entry that was not there.
LEMMA LogsKept ==
  ASSUME TypeOK, TypeOK', LogInv, DiskRises, reigns' = reigns, Appointed',
         LogsRight /\ ~TwoLeaders => /\ AllMatch(Pieces') /\ NoNew(Pieces, Pieces')
                      /\ \A s \in Server : \/ LogLength(s) <= LogLength(s)'
                                           \/ ~Reigned(reigns, s, persister'[s].CurrentTerm)
  PROVE  LogInv'
<1>1. CASE TwoLeaders
  BY <1>1, Zenon DEF LogInv, TwoLeaders
<1>2. CASE LogsRight /\ ~TwoLeaders
  <2>1. Pieces' \subseteq Piece /\ \A s \in Server : LogLength(s) \in Nat /\ LogLength(s)' \in Nat
    BY PiecesTyped, PiecesTypedNext, Zenon
  <2>2. \A q \in Pieces' : \A i \in Indices(q) : i \in Nat
    BY <2>1, PieceIndices, Zenon
  <2>3. Created(reigns, Pieces')
    BY <1>2, CreatedKept, Zenon DEF LogsRight
  <2>4. ASSUME NEW s \in Server, NEW t \in Terms, Reigned(reigns, s, t)
        PROVE  Newest(Pieces', persister'[s].CurrentTerm, LogLength(s)', t)
    <3>1. PICK d, e, l, m : /\ d = persister[s].CurrentTerm /\ e = persister'[s].CurrentTerm
                            /\ l = LogLength(s) /\ m = LogLength(s)'
      BY Zenon
    <3>2. d \in Nat /\ e \in Nat /\ d <= e /\ l \in Nat /\ m \in Nat /\ t \in Nat
      BY <2>1, <3>1, TermNumbers, Zenon DEF DiskRises
    <3>3. Newest(Pieces, d, l, t)
      BY <1>2, <2>4, <3>1, Zenon DEF LogsRight
    <3>4. l <= m \/ e # t
      BY <1>2, <2>4, <3>1, Zenon
    <3>5. Newest(Pieces', e, m, t)
      BY <1>2, <2>2, <3>2, <3>3, <3>4, NewestKept, Zenon
    <3> QED
      BY <3>1, <3>5, Zenon
  <2>5. LogsRight'
    BY <1>2, <2>3, <2>4, Zenon DEF LogsRight
  <2> QED
    BY <2>5, Zenon DEF LogInv
<1> QED
  BY <1>1, <1>2, Zenon DEF LogInv

-----------------------------------------------------------------------------
(* Slices of logs                                                          *)

\* What a piece says of an index.
LEMMA PieceParts ==
  ASSUME NEW b, NEW log
  PROVE  /\ [base |-> b, log |-> log].base = b
         /\ Indices([base |-> b, log |-> log]) = b..(b + Len(log) - 1)
         /\ \A i : PieceAt([base |-> b, log |-> log], i) = log[i - b + 1]
  BY Zenon DEF Indices, PieceAt

\* The entries of rf.Log[k-1:] and rf.Log[:k], of a heartbeat, and of a snapshot.
LEMMA SlicesSub ==
  ASSUME NEW log \in Logs, NEW b \in Nat, NEW k \in 1..Len(log)
  PROVE  LET first == <<[LogTerm |-> log[k].LogTerm, Command |-> Nil]>>
             whole == [base |-> b, log |-> log]
         IN  /\ Sub([base |-> b, log |-> SubSeq(log, 1, k)], whole)
             /\ Sub([base |-> b + k - 1, log |-> SubSeq(log, k, Len(log))], whole)
             /\ Sub([base |-> b + k - 1, log |-> first], whole)
             /\ Sub([base |-> b + k - 1, log |-> first \o SubSeq(log, k + 1, Len(log))], whole)
<1> DEFINE first == <<[LogTerm |-> log[k].LogTerm, Command |-> Nil]>>
           whole == [base |-> b, log |-> log]
<1>1. /\ log \in Seq(Entry) /\ Len(log) \in Nat /\ Len(log) >= 1
  BY LogReads, Zenon
<1>0. PICK L \in Nat : L = Len(log) /\ k \in 1..L
  BY <1>1, Zenon
<1>2. /\ Indices(whole) = b..(b + Len(log) - 1) /\ whole.base = b
      /\ \A i : PieceAt(whole, i) = log[i - b + 1]
  BY PieceParts, Zenon
<1>3. first \in Seq(Entry) /\ Len(first) = 1 /\ first[1].LogTerm = log[k].LogTerm
  <2>1. log[k].LogTerm \in Terms
    BY LogReads, Zenon
  <2> QED
    BY <2>1 DEF Entry, Commands
<1> HIDE DEF whole, first
<1>4. Sub([base |-> b, log |-> SubSeq(log, 1, k)], whole)
  <2> DEFINE a == SubSeq(log, 1, k)
             p == [base |-> b, log |-> a]
  <2>1. Len(a) = k /\ \A i \in 1..k : a[i] = log[i]
    BY <1>1, SMTT(20)
  <2>2. Indices(p) = b..(b + Len(a) - 1) /\ p.base = b /\ \A i : PieceAt(p, i) = a[i - b + 1]
    BY PieceParts, Zenon
  <2> HIDE DEF a, p
  <2>3. ASSUME NEW i \in Indices(p) PROVE i \in Indices(whole) /\ PieceAt(p, i) = PieceAt(whole, i)
    <3>1. i - b + 1 \in 1..k /\ i \in b..(b + Len(log) - 1)
      BY <1>1, <2>1, <2>2
    <3> QED
      BY <1>2, <2>1, <2>2, <3>1, Zenon
  <2>4. Sub(p, whole)
    BY <1>2, <2>2, <2>3, Zenon DEF Sub, TermAt
  <2> QED
    BY <2>4, Zenon DEF a, p
<1>5. Sub([base |-> b + k - 1, log |-> SubSeq(log, k, Len(log))], whole)
  <2> DEFINE a == SubSeq(log, k, Len(log))
             c == b + k - 1
             p == [base |-> c, log |-> a]
  <2>1. Len(a) = Len(log) - k + 1 /\ \A i \in 1..(Len(log) - k + 1) : a[i] = log[k + i - 1]
    BY <1>1, SMTT(20)
  <2>2. Indices(p) = c..(c + Len(a) - 1) /\ p.base = c /\ \A i : PieceAt(p, i) = a[i - c + 1]
    BY PieceParts, Zenon
  <2> HIDE DEF a, p
  <2>3. ASSUME NEW i \in Indices(p)
        PROVE  i \in Indices(whole) /\ PieceAt(p, i) = PieceAt(whole, i) /\ (i > c => i > b)
    <3>0. i \in c..(c + (L - k + 1) - 1)
      BY <1>0, <2>1, <2>2, Zenon
    <3>1. /\ i - c + 1 \in 1..(L - k + 1) /\ i \in b..(b + L - 1)
          /\ k + (i - c + 1) - 1 = i - b + 1 /\ (i > c => i > b)
      BY <1>0, <3>0
    <3>2. PieceAt(p, i) = log[k + (i - c + 1) - 1]
      BY <1>0, <2>1, <2>2, <3>1, Zenon
    <3> QED
      BY <1>0, <1>2, <3>1, <3>2, Zenon
  <2>4. Sub(p, whole)
    BY <1>2, <2>2, <2>3, Zenon DEF Sub, TermAt
  <2> QED
    BY <2>4, Zenon DEF a, p
<1>6. Sub([base |-> b + k - 1, log |-> first], whole)
  <2> DEFINE c == b + k - 1
             p == [base |-> c, log |-> first]
  <2>1. Indices(p) = c..(c + Len(first) - 1) /\ p.base = c /\ \A i : PieceAt(p, i) = first[i - c + 1]
    BY PieceParts, Zenon
  <2> HIDE DEF p
  <2>2. ASSUME NEW i \in Indices(p)
        PROVE  i \in Indices(whole) /\ TermAt(p, i) = TermAt(whole, i) /\ ~(i > c)
    <3>0. i \in c..(c + 1 - 1)
      BY <1>3, <2>1, Zenon
    <3>1. i = c /\ i - c + 1 = 1 /\ i \in b..(b + L - 1) /\ i - b + 1 = k /\ ~(i > c)
      BY <1>0, <3>0
    <3>2. PieceAt(p, i) = first[1] /\ PieceAt(whole, i) = log[k]
      BY <1>2, <2>1, <3>1, Zenon
    <3> QED
      BY <1>0, <1>2, <1>3, <3>1, <3>2, Zenon DEF TermAt
  <2>3. Sub(p, whole)
    BY <2>1, <2>2, Zenon DEF Sub
  <2> QED
    BY <2>3, Zenon DEF p
<1>7. Sub([base |-> b + k - 1, log |-> first \o SubSeq(log, k + 1, Len(log))], whole)
  <2> DEFINE r == SubSeq(log, k + 1, Len(log))
             a == first \o r
             c == b + k - 1
             p == [base |-> c, log |-> a]
  <2>1. r \in Seq(Entry) /\ Len(r) = Len(log) - k /\ \A i \in 1..(Len(log) - k) : r[i] = log[k + i]
    BY <1>1, SMTT(20)
  <2> HIDE DEF r
  <2>2. /\ Len(a) = 1 + (L - k) /\ a[1] = first[1]
        /\ \A i \in 2..(1 + (L - k)) : a[i] = r[i - 1]
    <3>1. /\ Len(a) = 1 + (L - k)
          /\ \A i \in 1..(1 + (L - k)) : a[i] = IF i <= 1 THEN first[i] ELSE r[i - 1]
      <4>1. /\ Len(a) = Len(first) + Len(r)
            /\ \A i \in 1..(Len(first) + Len(r)) :
                 a[i] = IF i <= Len(first) THEN first[i] ELSE r[i - Len(first)]
        BY <1>3, <2>1, Joined, Zenon
      <4>2. Len(first) = 1 /\ Len(r) = L - k
        BY <1>0, <1>3, <2>1, Zenon
      <4> QED
        BY <4>1, <4>2, Zenon
    <3>2. 1 \in 1..(1 + (L - k)) /\ 1 <= 1
      BY <1>0
    <3>3. \A i \in 2..(1 + (L - k)) : i \in 1..(1 + (L - k)) /\ ~(i <= 1)
      BY <1>0
    <3> QED
      BY <3>1, <3>2, <3>3, Zenon
  <2>3. Indices(p) = c..(c + Len(a) - 1) /\ p.base = c /\ \A i : PieceAt(p, i) = a[i - c + 1]
    BY PieceParts, Zenon
  <2> HIDE DEF a, p
  <2>4. ASSUME NEW i \in Indices(p)
        PROVE  /\ i \in Indices(whole) /\ TermAt(p, i) = TermAt(whole, i)
               /\ i > c => i > b /\ PieceAt(p, i) = PieceAt(whole, i)
    <3>0. i \in c..(c + (1 + (L - k)) - 1)
      BY <2>2, <2>3, Zenon
    <3>1. i \in c..(c + L - k) /\ i \in b..(b + L - 1)
      BY <1>0, <3>0
    <3>2. CASE i = c
      <4>1. i - c + 1 = 1 /\ i - b + 1 = k /\ ~(i > c)
        BY <1>0, <3>2
      <4>2. PieceAt(p, i) = first[1] /\ PieceAt(whole, i) = log[k]
        BY <1>2, <2>2, <2>3, <4>1, Zenon
      <4> QED
        BY <1>0, <1>2, <1>3, <3>1, <4>1, <4>2, Zenon DEF TermAt
    <3>3. CASE i # c
      <4>1. /\ i - c + 1 \in 2..(1 + (L - k)) /\ (i - c + 1) - 1 \in 1..(L - k)
            /\ k + ((i - c + 1) - 1) = i - b + 1 /\ i > b
        BY <1>0, <3>1, <3>3
      <4>2. PieceAt(p, i) = r[(i - c + 1) - 1]
        BY <2>2, <2>3, <4>1, Zenon
      <4>3. PieceAt(p, i) = log[k + ((i - c + 1) - 1)]
        BY <1>0, <2>1, <4>1, <4>2, Zenon
      <4>4. PieceAt(p, i) = PieceAt(whole, i)
        BY <1>2, <4>1, <4>3, Zenon
      <4> QED
        BY <1>0, <1>2, <3>1, <4>1, <4>4, Zenon DEF TermAt
    <3> QED
      BY <3>2, <3>3, Zenon
  <2>5. Sub(p, whole)
    BY <2>3, <2>4, <1>2, Zenon DEF Sub
  <2> QED
    BY <2>5, Zenon DEF r, a, p
<1> QED
  BY <1>4, <1>5, <1>6, <1>7, Zenon DEF first, whole

\* append(rf.Log[:k], entries...) is a graft of the heartbeat on the log.
LEMMA AppendGrafts ==
  ASSUME NEW log \in Logs, NEW b \in Nat, NEW k \in 1..Len(log), NEW entries \in Seq(Entry)
  PROVE  Grafted([base |-> b, log |-> SubSeq(log, 1, k) \o entries], [base |-> b, log |-> log],
                 [base |-> b + k - 1,
                  log |-> <<[LogTerm |-> log[k].LogTerm, Command |-> Nil]>> \o entries])
<1> DEFINE first == <<[LogTerm |-> log[k].LogTerm, Command |-> Nil]>>
           head == SubSeq(log, 1, k)
           c == b + k - 1
           a == head \o entries
           d == first \o entries
           n == [base |-> b, log |-> a]
           f == [base |-> b, log |-> log]
           m == [base |-> c, log |-> d]
<1>1. /\ log \in Seq(Entry) /\ Len(log) \in Nat /\ Len(log) >= 1
  BY LogReads, Zenon
<1>0. PICK L \in Nat : L = Len(log) /\ k \in 1..L
  BY <1>1, Zenon
<1>2. first \in Seq(Entry) /\ Len(first) = 1 /\ first[1].LogTerm = log[k].LogTerm
  <2>1. log[k].LogTerm \in Terms
    BY LogReads, Zenon
  <2> QED
    BY <2>1 DEF Entry, Commands
<1>3. head \in Seq(Entry) /\ Len(head) = k /\ \A i \in 1..k : head[i] = log[i]
  BY <1>1, SMTT(20)
<1>4. Len(entries) \in Nat
  OBVIOUS
<1> HIDE DEF head, first
<1>5. /\ Len(a) = k + Len(entries) /\ \A i \in 1..k : a[i] = log[i]
      /\ \A i \in (k + 1)..(k + Len(entries)) : a[i] = entries[i - k]
  <2>1. /\ Len(a) = k + Len(entries)
        /\ \A i \in 1..(k + Len(entries)) : a[i] = IF i <= k THEN head[i] ELSE entries[i - k]
    BY <1>3, Joined, Zenon
  <2>2. PICK E \in Nat : E = Len(entries)
    BY <1>4, Zenon
  <2>3. /\ \A i \in 1..k : i \in 1..(k + E) /\ i <= k
        /\ \A i \in (k + 1)..(k + E) : i \in 1..(k + E) /\ ~(i <= k)
    BY <1>0
  <2> QED
    BY <1>3, <2>1, <2>2, <2>3, Zenon
<1>6. /\ Len(d) = 1 + Len(entries) /\ d[1].LogTerm = log[k].LogTerm
      /\ \A i \in 2..(1 + Len(entries)) : d[i] = entries[i - 1]
  <2>1. /\ Len(d) = 1 + Len(entries)
        /\ \A i \in 1..(1 + Len(entries)) : d[i] = IF i <= 1 THEN first[i] ELSE entries[i - 1]
    <3>1. /\ Len(d) = Len(first) + Len(entries)
          /\ \A i \in 1..(Len(first) + Len(entries)) :
               d[i] = IF i <= Len(first) THEN first[i] ELSE entries[i - Len(first)]
      BY <1>2, Joined, Zenon
    <3>2. Len(first) = 1
      BY <1>2, Zenon
    <3> QED
      BY <3>1, <3>2, Zenon
  <2>2. PICK E \in Nat : E = Len(entries)
    BY <1>4, Zenon
  <2>3. /\ 1 \in 1..(1 + E) /\ 1 <= 1
        /\ \A i \in 2..(1 + E) : i \in 1..(1 + E) /\ ~(i <= 1)
    OBVIOUS
  <2> QED
    BY <1>2, <2>1, <2>2, <2>3, Zenon
<1>7. /\ Indices(n) = b..(b + Len(a) - 1) /\ n.base = b /\ \A i : PieceAt(n, i) = a[i - b + 1]
      /\ Indices(f) = b..(b + Len(log) - 1) /\ f.base = b /\ \A i : PieceAt(f, i) = log[i - b + 1]
      /\ Indices(m) = c..(c + Len(d) - 1) /\ m.base = c /\ \A i : PieceAt(m, i) = d[i - c + 1]
  BY PieceParts, Zenon
<1> HIDE DEF a, d, n, f, m
<1>8. c \in Indices(f) /\ TermAt(f, c) = TermAt(m, c)
  <2>1. c \in b..(b + Len(log) - 1) /\ c - b + 1 = k /\ c - c + 1 = 1
    BY <1>1
  <2> QED
    BY <1>6, <1>7, <2>1, Zenon DEF TermAt
<1>9. ASSUME NEW i \in Indices(n)
      PROVE  \/ i <= c /\ i \in Indices(f) /\ PieceAt(n, i) = PieceAt(f, i)
             \/ i > c /\ i \in Indices(m) /\ PieceAt(n, i) = PieceAt(m, i)
  <2>1. i \in b..(b + k + Len(entries) - 1)
    BY <1>1, <1>4, <1>5, <1>7
  <2>2. CASE i <= c
    <3>1. i - b + 1 \in 1..k /\ i \in b..(b + Len(log) - 1)
      BY <1>1, <2>1, <2>2
    <3> QED
      BY <1>5, <1>7, <2>2, <3>1, Zenon
  <2>3. CASE ~(i <= c)
    <3>1. /\ i > c /\ i - b + 1 \in (k + 1)..(k + Len(entries)) /\ i \in c..(c + Len(d) - 1)
          /\ i - c + 1 \in 2..(1 + Len(entries)) /\ (i - b + 1) - k = (i - c + 1) - 1
      BY <1>1, <1>4, <1>6, <2>1, <2>3
    <3>2. PieceAt(n, i) = entries[(i - b + 1) - k] /\ PieceAt(m, i) = entries[(i - c + 1) - 1]
      BY <1>5, <1>6, <1>7, <3>1, Zenon
    <3> QED
      BY <1>7, <3>1, <3>2, Zenon
  <2> QED
    BY <2>2, <2>3, Zenon
<1>10. Grafted(n, f, m)
  BY <1>7, <1>8, <1>9, Zenon DEF Grafted, TermAt
<1> QED
  BY <1>10, Zenon DEF first, head, a, d, n, f, m

\* Start appends one entry.
LEMMA StartExtends ==
  ASSUME NEW log \in Logs, NEW b \in Nat, NEW e \in Entry
  PROVE  Extended([base |-> b, log |-> Append(log, e)], [base |-> b, log |-> log], b + Len(log), e.LogTerm)
<1> DEFINE a == Append(log, e)
           n == [base |-> b, log |-> a]
           p == [base |-> b, log |-> log]
           k == b + Len(log)
<1>1. log \in Seq(Entry) /\ Len(log) \in Nat
  BY LogReads, Zenon
<1>2. Len(a) = Len(log) + 1 /\ (\A i \in 1..Len(log) : a[i] = log[i]) /\ a[Len(log) + 1] = e
  BY <1>1, SMTT(20)
<1>3. /\ Indices(n) = b..(b + Len(a) - 1) /\ n.base = b /\ \A i : PieceAt(n, i) = a[i - b + 1]
      /\ Indices(p) = b..(b + Len(log) - 1) /\ p.base = b /\ \A i : PieceAt(p, i) = log[i - b + 1]
  BY PieceParts, Zenon
<1> HIDE DEF a, n, p
<1>4. TermAt(n, k) = e.LogTerm
  <2>1. k - b + 1 = Len(log) + 1
    BY <1>1
  <2> QED
    BY <1>2, <1>3, <2>1, Zenon DEF TermAt
<1>5. \A i \in Indices(p) : i < k
  BY <1>1, <1>3
<1>6. ASSUME NEW i \in Indices(n), i # k PROVE i \in Indices(p) /\ PieceAt(n, i) = PieceAt(p, i)
  <2>0. PICK L \in Nat : L = Len(log)
    BY <1>1, Zenon
  <2>2. i \in b..(b + (L + 1) - 1) /\ i # b + L
    BY <1>2, <1>3, <1>6, <2>0, Zenon
  <2>3. i - b + 1 \in 1..L /\ i \in b..(b + L - 1)
    BY <2>2
  <2>1. i - b + 1 \in 1..Len(log) /\ i \in b..(b + Len(log) - 1)
    BY <2>0, <2>3, Zenon
  <2> QED
    BY <1>2, <1>3, <2>1, Zenon
<1>7. Extended(n, p, k, e.LogTerm)
  BY <1>3, <1>4, <1>5, <1>6, Zenon DEF Extended
<1> QED
  BY <1>7, Zenon DEF a, n, p

-----------------------------------------------------------------------------
(* Steps that leave the logs alone                                         *)

\* Nobody is made leader or stays leader in another term.
LeadersStay == \A s \in Server : State'[s] = LEADER => State[s] = LEADER /\ CurrentTerm'[s] = CurrentTerm[s]

\* The calls are those there were, perhaps at another stage.
AppendsKept ==
  \A m \in appendCalls' : \E c \in appendCalls :
    m.from = c.from /\ m.to = c.to /\ m.Term = c.Term /\ AppendPiece(m) = AppendPiece(c)

SnapshotsKept ==
  \A m \in snapshotCalls' : \E c \in snapshotCalls :
    m.from = c.from /\ m.to = c.to /\ m.Term = c.Term /\ SnapshotPiece(m) = SnapshotPiece(c)

LogsStay == Log' = Log /\ LastIncludedIndex' = LastIncludedIndex

\* A step of this kind.
NoEntryStep == reigns' = reigns /\ LeadersStay /\ AppendsKept /\ SnapshotsKept

\* Nobody who was not made leader of the term leads it or has calls of it.
LEMMA StayAppointed ==
  ASSUME Appointed, NoEntryStep
  PROVE  Appointed'
<1>1. \A s \in Server : State'[s] = LEADER => Reigned(reigns', s, CurrentTerm'[s])
  BY Zenon DEF Appointed, NoEntryStep, LeadersStay
<1>2. \A m \in appendCalls' : m.from # m.to /\ Reigned(reigns', m.from, m.Term)
  BY Zenon DEF Appointed, NoEntryStep, AppendsKept
<1>3. \A m \in snapshotCalls' : m.from # m.to /\ Reigned(reigns', m.from, m.Term)
  BY Zenon DEF Appointed, NoEntryStep, SnapshotsKept
<1> QED
  BY <1>1, <1>2, <1>3, Zenon DEF Appointed

\* Every piece is part of itself.
LEMMA SubSelf == \A p : Sub(p, p)
  BY Zenon DEF Sub

\* The pieces after a step are parts of P if the logs and the calls are.
LEMMA PiecesFollow ==
  ASSUME NEW P, \A s \in Server : \E p \in P : Sub(LogPiece(s)', p),
         \A m \in appendCalls' : \E p \in P : Sub(AppendPiece(m), p),
         \A m \in snapshotCalls' : \E p \in P : Sub(SnapshotPiece(m), p)
  PROVE  \A q \in Pieces' : \E p \in P : Sub(q, p)
  BY Zenon DEF Pieces

\* The calls under way after the step carry pieces that were there before it.
LEMMA CallsFollow ==
  ASSUME AppendsKept, SnapshotsKept
  PROVE  /\ \A m \in appendCalls' : \E p \in Pieces : Sub(AppendPiece(m), p)
         /\ \A m \in snapshotCalls' : \E p \in Pieces : Sub(SnapshotPiece(m), p)
  BY SubSelf, Zenon DEF AppendsKept, SnapshotsKept, Pieces

\* A step that leaves the logs alone and starts no call keeps the invariant.
LEMMA NoEntryKeeps ==
  ASSUME TypeOK, TypeOK', LogInv, DiskRises, NoEntryStep, LogsStay
  PROVE  LogInv'
<1>1. Appointed'
  BY StayAppointed, Zenon DEF LogInv
<1>2. \A s \in Server : LogPiece(s)' = LogPiece(s) /\ LogLength(s)' = LogLength(s)
  BY Zenon DEF LogPiece, LogLength, LogsStay
<1>3. \A s \in Server : \E p \in Pieces : Sub(LogPiece(s)', p)
  BY <1>2, SubSelf, Zenon DEF Pieces
<1>4. \A q \in Pieces' : \E p \in Pieces : Sub(q, p)
  BY <1>3, CallsFollow, PiecesFollow, Zenon DEF NoEntryStep
<1>5. LogsRight => AllMatch(Pieces') /\ NoNew(Pieces, Pieces')
  BY <1>4, SubsMatch, Zenon DEF LogsRight
<1>6. \A s \in Server : LogLength(s) <= LogLength(s)'
  <2>1. \A s \in Server : LogLength(s) \in Nat
    BY PiecesTyped, Zenon
  <2>2. \A x \in Nat : x <= x
    BY AtMostItself, Zenon
  <2> QED
    BY <1>2, <2>1, <2>2, Zenon
<1> QED
  BY <1>1, <1>5, <1>6, LogsKept, Zenon DEF NoEntryStep

\* One peer keeps its state and term or becomes a follower.
LEMMA OneStays ==
  ASSUME NEW s \in Server, \A i \in Server : i # s => State'[i] = State[i] /\ CurrentTerm'[i] = CurrentTerm[i],
         \/ State'[s] = FOLLOWER
         \/ State'[s] = State[s] /\ CurrentTerm'[s] = CurrentTerm[s]
  PROVE  LeadersStay
<1>1. FOLLOWER # LEADER
  BY DEF FOLLOWER, LEADER
<1> QED
  BY <1>1, Zenon DEF LeadersStay

\* A handler that raises the term steps down.
LEMMA RaiseStays ==
  ASSUME TypeOK, NEW s \in Server, NEW t \in Nat, CurrentTerm' = [CurrentTerm EXCEPT ![s] = Max(@, t)],
         State' = IF CurrentTerm[s] < t THEN [State EXCEPT ![s] = FOLLOWER] ELSE State
  PROVE  LeadersStay
<1>0. CurrentTerm[s] \in Nat
  BY TermNumbers, Zenon DEF TypeOK, DurableOK
<1>1. /\ \A i \in Server : i # s => CurrentTerm'[i] = CurrentTerm[i]
      /\ CurrentTerm'[s] = Max(CurrentTerm[s], t)
  BY TermRaises, Zenon
<1>2. CASE CurrentTerm[s] < t
  <2>1. State'[s] = FOLLOWER /\ \A i \in Server : i # s => State'[i] = State[i]
    BY <1>2, Zenon DEF TypeOK
  <2> QED
    BY <1>1, <2>1, OneStays, Zenon
<1>3. CASE ~(CurrentTerm[s] < t)
  <2>1. State' = State /\ Max(CurrentTerm[s], t) = CurrentTerm[s]
    BY <1>0, <1>3 DEF Max
  <2> QED
    BY <1>1, <2>1, OneStays, Zenon
<1> QED
  BY <1>2, <1>3, Zenon

\* A call at another stage or with a reply has the same entries.
LEMMA StageKept ==
  ASSUME NEW m \in AppendCall, NEW r, NEW stage, NEW reply, NEW waited,
         \/ r = [m EXCEPT !.stage = stage, !.reply = reply]
         \/ r = [m EXCEPT !.waited = waited]
  PROVE  r.from = m.from /\ r.to = m.to /\ r.Term = m.Term /\ AppendPiece(r) = AppendPiece(m)
<1>1. /\ r.from = m.from /\ r.to = m.to /\ r.Term = m.Term /\ r.PrevLogIndex = m.PrevLogIndex
      /\ r.PrevLogTerm = m.PrevLogTerm /\ r.Entries = m.Entries
  <2>1. CASE r = [m EXCEPT !.stage = stage, !.reply = reply]
    BY <2>1, Zenon DEF AppendCall
  <2>2. CASE r = [m EXCEPT !.waited = waited]
    BY <2>2, Zenon DEF AppendCall
  <2> QED
    BY <2>1, <2>2, Zenon
<1> QED
  BY <1>1, Zenon DEF AppendPiece

\* So has a snapshot call.
LEMMA SnapshotStageKept ==
  ASSUME NEW m \in SnapCall, NEW r, NEW stage, NEW reply, NEW data, NEW waited,
         \/ r = [m EXCEPT !.stage = stage, !.replyTerm = reply]
         \/ r = [m EXCEPT !.stage = stage, !.Snapdata = data]
         \/ r = [m EXCEPT !.stage = stage]
         \/ r = [m EXCEPT !.waited = waited]
  PROVE  r.from = m.from /\ r.to = m.to /\ r.Term = m.Term /\ SnapshotPiece(r) = SnapshotPiece(m)
<1>1. /\ r.from = m.from /\ r.to = m.to /\ r.Term = m.Term
      /\ r.LastIncludedIndex = m.LastIncludedIndex /\ r.LastIncludedTerm = m.LastIncludedTerm
  <2>1. CASE r = [m EXCEPT !.stage = stage, !.replyTerm = reply]
    BY <2>1, Zenon DEF SnapCall
  <2>2. CASE r = [m EXCEPT !.stage = stage, !.Snapdata = data]
    BY <2>2, Zenon DEF SnapCall
  <2>3. CASE r = [m EXCEPT !.stage = stage]
    BY <2>3, Zenon DEF SnapCall
  <2>4. CASE r = [m EXCEPT !.waited = waited]
    BY <2>4, Zenon DEF SnapCall
  <2> QED
    BY <2>1, <2>2, <2>3, <2>4, Zenon
<1> QED
  BY <1>1, Zenon DEF SnapshotPiece

-----------------------------------------------------------------------------
(* The actions that leave the logs alone                                   *)

\* Calls that stay or end.
LEMMA FewerCalls ==
  /\ appendCalls' \subseteq appendCalls => AppendsKept
  /\ snapshotCalls' \subseteq snapshotCalls => SnapshotsKept
  BY Zenon DEF AppendsKept, SnapshotsKept

\* A heartbeat that is answered.
LEMMA AnsweredAppends ==
  ASSUME TypeOK, NEW m \in appendCalls, NEW reply, HeartbeatReply(m, reply)
  PROVE  AppendsKept
<1>1. m \in AppendCall
  BY Zenon DEF TypeOK
<1>0. PICK r : r = [m EXCEPT !.stage = "reply", !.reply = reply]
  BY Zenon
<1>2. r.from = m.from /\ r.to = m.to /\ r.Term = m.Term /\ AppendPiece(r) = AppendPiece(m)
  BY <1>0, <1>1, StageKept, Zenon
<1>3. \A c \in appendCalls' : c \in appendCalls \/ c = r
  BY <1>0, Zenon DEF HeartbeatReply, Answer
<1> QED
  BY <1>2, <1>3, Zenon DEF AppendsKept

\* A snapshot call that goes on to another stage.
LEMMA AnsweredSnapshots ==
  ASSUME NEW m \in snapshotCalls, NEW r, r.from = m.from, r.to = m.to, r.Term = m.Term,
         SnapshotPiece(r) = SnapshotPiece(m),
         \/ snapshotCalls' \in {Answer(snapshotCalls, m, r), snapshotCalls \ {m}}
         \/ snapshotCalls' = (snapshotCalls \ {m}) \cup {r}
  PROVE  SnapshotsKept
<1>1. \A c \in snapshotCalls' : c \in snapshotCalls \/ c = r
  BY Zenon DEF Answer
<1> QED
  BY <1>1, Zenon DEF SnapshotsKept

\* Terms and states that do not change.
LEMMA SameLeaders == State' = State /\ CurrentTerm' = CurrentTerm => LeadersStay
  BY Zenon DEF LeadersStay

\* The vote actions but BecomeLeader.
LEMMA VoteNoEntry ==
  ASSUME TypeOK, NEW m \in voteCalls,
         \/ RequestVoteHandler(m) \/ VoteReplyStale(m) \/ VoteReplyCurrent(m)
         \/ CountVote(m) \/ VoteRefused(m)
  PROVE  NoEntryStep /\ LogsStay
<1>0. m.from \in Server /\ m.to \in Server /\ m.Term \in Nat /\ m.replyTerm \in Nat
      /\ \A i \in Server : CurrentTerm[i] \in Nat
  <2>1. m.from \in Server /\ m.to \in Server /\ m.Term \in 1..MaxTerm /\ m.replyTerm \in Terms
    BY ZenonT(30) DEF TypeOK, VoteCall
  <2>2. \A i \in Server : CurrentTerm[i] \in Terms
    BY Zenon DEF TypeOK, DurableOK
  <2> QED
    BY <2>1, <2>2, TermNumbers, Zenon
<1>1. reigns' = reigns /\ appendCalls' = appendCalls /\ snapshotCalls' = snapshotCalls /\ LogsStay
  BY ZenonT(30) DEF RequestVoteHandler, VoteReplyStale, VoteReplyCurrent, CountVote, VoteRefused,
                    LogsStay, logVars, peerVars
<1>2. LeadersStay
  <2>1. CASE RequestVoteHandler(m)
    BY <1>0, <2>1, RaiseStays, Zenon DEF RequestVoteHandler
  <2>2. CASE VoteReplyStale(m)
    <3>1. /\ State'[m.from] = FOLLOWER
          /\ \A i \in Server : i # m.from => State'[i] = State[i] /\ CurrentTerm'[i] = CurrentTerm[i]
      BY <1>0, <2>2, Zenon DEF VoteReplyStale, TypeOK
    <3> QED
      BY <1>0, <3>1, OneStays, Zenon
  <2>3. CASE VoteReplyCurrent(m) \/ CountVote(m)
    BY <2>3, SameLeaders, Zenon DEF VoteReplyCurrent, CountVote, peerVars, termVars
  <2>4. CASE VoteRefused(m)
    <3>1. m.replyTerm > CurrentTerm[m.from] <=> CurrentTerm[m.from] < m.replyTerm
      BY <1>0, Zenon
    <3>2. State' = IF CurrentTerm[m.from] < m.replyTerm THEN [State EXCEPT ![m.from] = FOLLOWER] ELSE State
      BY <2>4, <3>1, Zenon DEF VoteRefused
    <3> QED
      BY <1>0, <2>4, <3>2, RaiseStays, Zenon DEF VoteRefused
  <2> QED
    BY <2>1, <2>2, <2>3, <2>4, Zenon
<1> QED
  BY <1>1, <1>2, FewerCalls, Zenon DEF NoEntryStep

\* A peer that starts an election is not a leader.
LEMMA LaunchNoEntry ==
  ASSUME TypeOK, NEW s \in Server, ElectLauncher(s)
  PROVE  NoEntryStep /\ LogsStay
<1>1. reigns' = reigns /\ appendCalls' = appendCalls /\ snapshotCalls' = snapshotCalls /\ LogsStay
  BY ZenonT(30) DEF ElectLauncher, LogsStay, logVars
<1>2. /\ State'[s] = FOLLOWER
      /\ \A i \in Server : i # s => State'[i] = State[i] /\ CurrentTerm'[i] = CurrentTerm[i]
  BY Zenon DEF ElectLauncher, TypeOK, DurableOK
<1> QED
  BY <1>1, <1>2, FewerCalls, OneStays, Zenon DEF NoEntryStep

\* A panic leaves everything as it is.
LEMMA StopNoEntry ==
  ASSUME NEW what, Stop(what)
  PROVE  NoEntryStep /\ LogsStay
<1>1. /\ reigns' = reigns /\ appendCalls' = appendCalls /\ snapshotCalls' = snapshotCalls
      /\ State' = State /\ CurrentTerm' = CurrentTerm /\ LogsStay
  BY Zenon DEF Stop, peerVars, voteVars, termVars, logVars, LogsStay
<1> QED
  BY <1>1, FewerCalls, SameLeaders, Zenon DEF NoEntryStep

\* A later term that a heartbeat brings makes the peer a follower.
LEMMA AdoptStays ==
  ASSUME TypeOK, NEW s \in Server, NEW t \in Terms, AdoptTerm(s, t)
  PROVE  LeadersStay
<1>1. t \in Nat /\ CurrentTerm[s] \in Nat
  BY TermNumbers, Zenon DEF TypeOK, DurableOK
<1>2. t > CurrentTerm[s] <=> CurrentTerm[s] < t
  BY <1>1, Zenon
<1>3. State' = IF CurrentTerm[s] < t THEN [State EXCEPT ![s] = FOLLOWER] ELSE State
  BY <1>2, Zenon DEF AdoptTerm
<1> QED
  BY <1>1, <1>3, RaiseStays, Zenon DEF AdoptTerm

\* HeartbeatHandler before it comes to the log, and SendHeartbeat when it sends no snapshot.
LEMMA HeartbeatNoEntry ==
  ASSUME TypeOK, NEW m \in appendCalls,
         \/ HeartbeatRefused(m) \/ HeartbeatMissing(m) \/ HeartbeatPanics(m)
         \/ HeartbeatReplyStale(m) \/ HeartbeatReplyDeposes(m) \/ HeartbeatReplySuccess(m)
         \/ HeartbeatReplyPanics(m)
  PROVE  NoEntryStep /\ LogsStay
<1>0. m.from \in Server /\ m.to \in Server /\ m.Term \in Terms
  BY ZenonT(30) DEF TypeOK, AppendCall
<1>1. CASE HeartbeatPanics(m) \/ HeartbeatReplyPanics(m)
  BY <1>1, StopNoEntry, Zenon DEF HeartbeatPanics, HeartbeatReplyPanics
<1>2. CASE \/ HeartbeatRefused(m) \/ HeartbeatMissing(m) \/ HeartbeatReplyStale(m)
           \/ HeartbeatReplyDeposes(m) \/ HeartbeatReplySuccess(m)
  <2>1. reigns' = reigns /\ snapshotCalls' = snapshotCalls /\ LogsStay
    BY <1>2, ZenonT(30) DEF HeartbeatRefused, HeartbeatMissing, HeartbeatReplyStale, HeartbeatReplyDeposes,
                      HeartbeatReplySuccess, LogsStay, logVars, peerVars, voteVars
  <2>2. AppendsKept
    <3>1. CASE HeartbeatRefused(m) \/ HeartbeatMissing(m)
      BY <3>1, AnsweredAppends, Zenon DEF HeartbeatRefused, HeartbeatMissing
    <3>2. CASE HeartbeatReplyStale(m) \/ HeartbeatReplyDeposes(m) \/ HeartbeatReplySuccess(m)
      <4>1. appendCalls' \subseteq appendCalls
        BY <3>2, Zenon DEF HeartbeatReplyStale, HeartbeatReplyDeposes, HeartbeatReplySuccess
      <4> QED
        BY <4>1, FewerCalls, Zenon
    <3> QED
      BY <1>2, <3>1, <3>2, Zenon
  <2>3. LeadersStay
    <3>1. CASE HeartbeatMissing(m)
      BY <1>0, <3>1, AdoptStays, Zenon DEF HeartbeatMissing
    <3>2. CASE HeartbeatReplyDeposes(m)
      <4>1. /\ State'[m.from] = FOLLOWER
            /\ \A i \in Server : i # m.from => State'[i] = State[i] /\ CurrentTerm'[i] = CurrentTerm[i]
        <5>1. /\ State' = [State EXCEPT ![m.from] = FOLLOWER]
              /\ CurrentTerm' = [CurrentTerm EXCEPT ![m.from] = m.reply.Term]
          BY <3>2, Zenon DEF HeartbeatReplyDeposes
        <5> QED
          BY <1>0, <5>1, PeerArrays, Zenon
      <4> QED
        BY <1>0, <4>1, OneStays, Zenon
    <3>3. CASE HeartbeatRefused(m) \/ HeartbeatReplyStale(m) \/ HeartbeatReplySuccess(m)
      BY <3>3, SameLeaders, Zenon DEF HeartbeatRefused, HeartbeatReplyStale, HeartbeatReplySuccess,
                                      peerVars, termVars
    <3> QED
      BY <1>2, <3>1, <3>2, <3>3, Zenon
  <2> QED
    BY <2>1, <2>2, <2>3, FewerCalls, Zenon DEF NoEntryStep
<1> QED
  BY <1>1, <1>2, Zenon

\* Snapshot calls other than the one that is installed.
LEMMA SnapshotNoEntry ==
  ASSUME TypeOK, NEW m \in snapshotCalls,
         \/ ReadSnapshotData(m) \/ InstallRefused(m) \/ SnapshotReply(m)
         \/ ServiceInstalls(m) \/ ServiceMismatch(m)
  PROVE  NoEntryStep /\ LogsStay
<1>0. m.from \in Server /\ m.to \in Server /\ m \in SnapCall
  BY ZenonT(30) DEF TypeOK, SnapCall
<1>1. CASE ServiceMismatch(m)
  BY <1>1, StopNoEntry, Zenon DEF ServiceMismatch
<1>2. CASE ReadSnapshotData(m) \/ InstallRefused(m) \/ SnapshotReply(m) \/ ServiceInstalls(m)
  <2>1. reigns' = reigns /\ appendCalls' = appendCalls /\ LogsStay
    BY <1>2, ZenonT(30) DEF ReadSnapshotData, InstallRefused, SnapshotReply, ServiceInstalls, LogsStay,
                            logVars, peerVars, voteVars
  <2>2. SnapshotsKept
    <3>1. CASE ReadSnapshotData(m)
      <4>1. PICK r : r = [m EXCEPT !.stage = "request", !.Snapdata = SnapshotData[m.from]]
        BY Zenon
      <4>2. snapshotCalls' = (snapshotCalls \ {m}) \cup {r}
        BY <3>1, <4>1, Zenon DEF ReadSnapshotData
      <4>3. r.from = m.from /\ r.to = m.to /\ r.Term = m.Term /\ SnapshotPiece(r) = SnapshotPiece(m)
        BY <1>0, <4>1, SnapshotStageKept, Zenon
      <4> QED
        BY <4>2, <4>3, AnsweredSnapshots, Zenon
    <3>2. CASE InstallRefused(m)
      <4>1. PICK r : r = [m EXCEPT !.stage = "reply", !.replyTerm = CurrentTerm[m.to]]
        BY Zenon
      <4>2. snapshotCalls' \in {Answer(snapshotCalls, m, r), snapshotCalls \ {m}}
        BY <3>2, <4>1, Zenon DEF InstallRefused
      <4>3. r.from = m.from /\ r.to = m.to /\ r.Term = m.Term /\ SnapshotPiece(r) = SnapshotPiece(m)
        BY <1>0, <4>1, SnapshotStageKept, Zenon
      <4> QED
        BY <4>2, <4>3, AnsweredSnapshots, Zenon
    <3>3. CASE ServiceInstalls(m)
      <4>1. PICK r : r = [m EXCEPT !.stage = "reply"]
        BY Zenon
      <4>2. snapshotCalls' \in {Answer(snapshotCalls, m, r), snapshotCalls \ {m}}
        BY <3>3, <4>1, Zenon DEF ServiceInstalls
      <4>3. r.from = m.from /\ r.to = m.to /\ r.Term = m.Term /\ SnapshotPiece(r) = SnapshotPiece(m)
        BY <1>0, <4>1, SnapshotStageKept, Zenon
      <4> QED
        BY <4>2, <4>3, AnsweredSnapshots, Zenon
    <3>4. CASE SnapshotReply(m)
      <4>1. snapshotCalls' \subseteq snapshotCalls
        BY <3>4, Zenon DEF SnapshotReply
      <4> QED
        BY <4>1, FewerCalls, Zenon
    <3> QED
      BY <1>2, <3>1, <3>2, <3>3, <3>4, Zenon
  <2>3. LeadersStay
    <3>1. CASE ReadSnapshotData(m) \/ InstallRefused(m) \/ ServiceInstalls(m)
      BY <3>1, SameLeaders, Zenon DEF ReadSnapshotData, InstallRefused, ServiceInstalls, peerVars, termVars
    <3>2. CASE SnapshotReply(m)
      <4>1. /\ \/ State'[m.from] = FOLLOWER
               \/ State'[m.from] = State[m.from] /\ CurrentTerm'[m.from] = CurrentTerm[m.from]
            /\ \A i \in Server : i # m.from => State'[i] = State[i] /\ CurrentTerm'[i] = CurrentTerm[i]
        <5>1. \/ State' = State /\ CurrentTerm' = CurrentTerm
              \/ /\ State' = [State EXCEPT ![m.from] = FOLLOWER]
                 /\ CurrentTerm' = [CurrentTerm EXCEPT ![m.from] = m.replyTerm]
          BY <3>2, Zenon DEF SnapshotReply
        <5> QED
          BY <1>0, <5>1, PeerArrays, Zenon
      <4> QED
        BY <1>0, <4>1, OneStays, Zenon
    <3> QED
      BY <1>2, <3>1, <3>2, Zenon
  <2> QED
    BY <2>1, <2>2, <2>3, FewerCalls, Zenon DEF NoEntryStep
<1> QED
  BY <1>1, <1>2, Zenon

\* The apply goroutine and the service.
LEMMA ApplyNoEntry ==
  ASSUME NEW s \in Server,
         \/ ApplyGoroutine(s) \/ ApplyPanics(s) \/ ServiceApplies(s) \/ ServiceOutOfOrder(s)
         \/ SnapshotPanics(s)
  PROVE  NoEntryStep /\ LogsStay
<1>1. CASE ApplyPanics(s) \/ ServiceOutOfOrder(s) \/ SnapshotPanics(s)
  BY <1>1, StopNoEntry, Zenon DEF ApplyPanics, ServiceOutOfOrder, SnapshotPanics
<1>2. CASE ApplyGoroutine(s) \/ ServiceApplies(s)
  <2>1. /\ reigns' = reigns /\ appendCalls' = appendCalls /\ snapshotCalls' = snapshotCalls
        /\ State' = State /\ CurrentTerm' = CurrentTerm /\ LogsStay
    BY <1>2, Zenon DEF ApplyGoroutine, ServiceApplies, peerVars, voteVars, termVars, logVars, LogsStay
  <2> QED
    BY <2>1, FewerCalls, SameLeaders, Zenon DEF NoEntryStep
<1> QED
  BY <1>1, <1>2, Zenon

-----------------------------------------------------------------------------
(* The actions that send entries                                           *)

\* A heartbeat or snapshot that a peer sends says nothing that its log does not.
LEMMA SentSub ==
  ASSUME TypeOK, SnapshotTermInLog, NEW s \in Server, NEW i
  PROVE  /\ \A next \in Nat : V2PIndex(s, next) \in 1..Len(Log[s]) =>
              Sub(AppendPiece(HeartbeatCall(s, i, next)), LogPiece(s))
         /\ \A stage, data : Sub(SnapshotPiece(SnapshotCall(s, i, stage, data)), LogPiece(s))
<1>1. /\ Log[s] \in Logs /\ LastIncludedIndex[s] \in Nat /\ Len(Log[s]) \in Nat /\ Len(Log[s]) >= 1
      /\ Log[s][1].LogTerm = LastIncludedTerm[s]
  BY LogReads, Zenon DEF TypeOK, DurableOK, SnapshotTermInLog
<1>2. PICK log, b : log = Log[s] /\ b = LastIncludedIndex[s]
  BY Zenon
<1>3. ASSUME NEW next \in Nat, V2PIndex(s, next) \in 1..Len(Log[s])
      PROVE  Sub(AppendPiece(HeartbeatCall(s, i, next)), LogPiece(s))
  <2>1. PICK k \in 1..Len(log) : k = next - b /\ k = V2PIndex(s, next)
    BY <1>2, <1>3, Zenon DEF V2PIndex
  <2>2. Sub([base |-> b + k - 1, log |-> <<[LogTerm |-> log[k].LogTerm, Command |-> Nil]>>
                                           \o SubSeq(log, k + 1, Len(log))], [base |-> b, log |-> log])
    BY <1>1, <1>2, SlicesSub, Zenon
  <2>3. b + k - 1 = next - 1
    <3>1. PICK L \in Nat : k \in 1..L
      BY <1>1, <1>2, Zenon
    <3> QED
      BY <1>1, <1>2, <2>1, <3>1
  <2>4. AppendPiece(HeartbeatCall(s, i, next)) =
          [base |-> next - 1, log |-> <<[LogTerm |-> log[k].LogTerm, Command |-> Nil]>>
                                        \o SubSeq(log, k + 1, Len(log))]
    <3>1. PICK h : h = HeartbeatCall(s, i, next)
      BY Zenon
    <3>2. /\ h.PrevLogIndex = next - 1 /\ h.PrevLogTerm = log[k].LogTerm
          /\ h.Entries = SubSeq(log, k + 1, Len(log))
      <4>1. /\ h.PrevLogIndex = next - 1 /\ h.PrevLogTerm = Log[s][V2PIndex(s, next)].LogTerm
            /\ h.Entries = SubSeq(Log[s], V2PIndex(s, next) + 1, Len(Log[s]))
        BY <3>1, Zenon DEF HeartbeatCall
      <4> QED
        BY <1>2, <2>1, <4>1, Zenon
    <3> QED
      BY <3>1, <3>2, Zenon DEF AppendPiece
  <2> QED
    BY <1>2, <2>2, <2>3, <2>4, Zenon DEF LogPiece
<1>4. ASSUME NEW stage, NEW data
      PROVE  Sub(SnapshotPiece(SnapshotCall(s, i, stage, data)), LogPiece(s))
  <2>1. 1 \in 1..Len(log) /\ b + 1 - 1 = b
    BY <1>1, <1>2
  <2>2. Sub([base |-> b + 1 - 1, log |-> <<[LogTerm |-> log[1].LogTerm, Command |-> Nil]>>],
            [base |-> b, log |-> log])
    BY <1>1, <1>2, <2>1, SlicesSub, Zenon
  <2>3. SnapshotPiece(SnapshotCall(s, i, stage, data)) =
          [base |-> b, log |-> <<[LogTerm |-> log[1].LogTerm, Command |-> Nil]>>]
    BY <1>1, <1>2, Zenon DEF SnapshotPiece, SnapshotCall
  <2> QED
    BY <1>2, <2>1, <2>2, <2>3, Zenon DEF LogPiece
<1> QED
  BY <1>3, <1>4, Zenon

\* The calls after a step are those before it and calls that s sends to others in its term and
\* whose entries its log has.
Sends(s) ==
  /\ \A m \in appendCalls' : \/ m \in appendCalls
                             \/ /\ m.from = s /\ m.to # s /\ m.Term = CurrentTerm[s]
                                /\ Sub(AppendPiece(m), LogPiece(s))
  /\ \A m \in snapshotCalls' : \/ m \in snapshotCalls
                               \/ /\ m.from = s /\ m.to # s /\ m.Term = CurrentTerm[s]
                                  /\ Sub(SnapshotPiece(m), LogPiece(s))

\* HeartBeatLauncher sends such calls.
LEMMA LauncherSends ==
  ASSUME TypeOK, SnapshotTermInLog, NEW s \in Server, NEW next \in [Server -> Nat],
         \A i \in Peers(s) : next[i] <= LogLength(s), HeartBeatLauncher(s, next)
  PROVE  Sends(s)
<1>1. PICK sent, sentSnapshots :
        /\ \A m \in sent : \E i \in Peers(s) : ~NeedsSnapshot(s, next[i]) /\ m = HeartbeatCall(s, i, next[i])
        /\ \A m \in sentSnapshots : \E i \in Peers(s) : m = SnapshotCall(s, i, "unread", <<>>)
        /\ appendCalls' = appendCalls \cup sent
        /\ snapshotCalls' = snapshotCalls \cup sentSnapshots
  BY Zenon DEF HeartBeatLauncher
<1>2. ASSUME NEW m \in sent
      PROVE  m.from = s /\ m.to # s /\ m.Term = CurrentTerm[s] /\ Sub(AppendPiece(m), LogPiece(s))
  <2>1. PICK i \in Peers(s) : ~NeedsSnapshot(s, next[i]) /\ m = HeartbeatCall(s, i, next[i])
    BY <1>1, Zenon
  <2>2. i \in Server /\ i # s /\ next[i] \in Nat
    BY Zenon DEF Peers
  <2>3. PICK L, b, k : L = Len(Log[s]) /\ b = LastIncludedIndex[s] /\ k = next[i]
    BY Zenon
  <2>4. L \in Nat /\ b \in Nat /\ k \in Nat
    BY <2>2, <2>3, LogReads, Zenon DEF TypeOK, DurableOK
  <2>5. ~(k - b - 1 < 0) /\ k <= L + b
    BY <2>1, <2>3, Zenon DEF NeedsSnapshot, V2PIndex, LogLength
  <2>6. k - b \in 1..L
    BY <2>4, <2>5
  <2>7. Sub(AppendPiece(m), LogPiece(s))
    BY <2>1, <2>2, <2>3, <2>6, SentSub, Zenon DEF V2PIndex
  <2>8. m.from = s /\ m.to = i /\ m.Term = CurrentTerm[s]
    BY <2>1, Zenon DEF HeartbeatCall
  <2> QED
    BY <2>2, <2>7, <2>8, Zenon
<1>3. ASSUME NEW m \in sentSnapshots
      PROVE  m.from = s /\ m.to # s /\ m.Term = CurrentTerm[s] /\ Sub(SnapshotPiece(m), LogPiece(s))
  <2>1. PICK i \in Peers(s) : m = SnapshotCall(s, i, "unread", <<>>)
    BY <1>1, Zenon
  <2>2. Sub(SnapshotPiece(m), LogPiece(s))
    BY <2>1, SentSub, Zenon
  <2>3. m.from = s /\ m.to = i /\ m.Term = CurrentTerm[s]
    BY <2>1, Zenon DEF SnapshotCall
  <2> QED
    BY <2>2, <2>3, Zenon DEF Peers
<1> QED
  BY <1>1, <1>2, <1>3, Zenon DEF Sends

\* Sending adds nothing to the pieces.
LEMMA SendsFollow ==
  ASSUME NEW s \in Server, Sends(s), LogsStay
  PROVE  \A q \in Pieces' : \E p \in Pieces : Sub(q, p)
<1>1. \A i \in Server : \E p \in Pieces : Sub(LogPiece(i)', p)
  BY SubSelf, Zenon DEF LogPiece, LogsStay, Pieces
<1>2. \A m \in appendCalls' : \E p \in Pieces : Sub(AppendPiece(m), p)
  BY SubSelf, Zenon DEF Sends, Pieces
<1>3. \A m \in snapshotCalls' : \E p \in Pieces : Sub(SnapshotPiece(m), p)
  BY SubSelf, Zenon DEF Sends, Pieces
<1> QED
  BY <1>1, <1>2, <1>3, PiecesFollow, Zenon

\* A peer that was made leader of its term may send.
LEMMA SendsKeep ==
  ASSUME TypeOK, TypeOK', LogInv, DiskRises, reigns' = reigns, LogsStay, LeadersStay,
         NEW s \in Server, Sends(s), Reigned(reigns, s, CurrentTerm[s])
  PROVE  LogInv'
<1>1. Appointed'
  <2>1. \A i \in Server : State'[i] = LEADER => Reigned(reigns', i, CurrentTerm'[i])
    BY Zenon DEF LogInv, Appointed, LeadersStay
  <2>2. \A m \in appendCalls' : m.from # m.to /\ Reigned(reigns', m.from, m.Term)
    BY Zenon DEF LogInv, Appointed, Sends
  <2>3. \A m \in snapshotCalls' : m.from # m.to /\ Reigned(reigns', m.from, m.Term)
    BY Zenon DEF LogInv, Appointed, Sends
  <2> QED
    BY <2>1, <2>2, <2>3, Zenon DEF Appointed
<1>2. LogsRight => AllMatch(Pieces') /\ NoNew(Pieces, Pieces')
  BY SendsFollow, SubsMatch, Zenon DEF LogsRight
<1>3. \A i \in Server : LogLength(i) <= LogLength(i)'
  <2>1. \A i \in Server : LogLength(i) \in Nat /\ LogLength(i)' = LogLength(i)
    BY PiecesTyped, Zenon DEF LogsStay, LogLength
  <2>2. \A x \in Nat : x <= x
    BY AtMostItself, Zenon
  <2> QED
    BY <2>1, <2>2, Zenon
<1> QED
  BY <1>1, <1>2, <1>3, LogsKept, Zenon

\* The heartbeat timer.
LEMMA HeartBeatKeeps ==
  ASSUME TypeOK, TypeOK', DiskInv, LogInv, DiskRises, NEW s \in Server, HeartBeatGoroutine(s)
  PROVE  LogInv'
<1>1. CASE \E what : Stop(what)
  BY <1>1, StopNoEntry, NoEntryKeeps, Zenon
<1>2. CASE /\ \A i \in Peers(s) : NextIndex[s][i] <= LogLength(s)
           /\ HeartBeatLauncher(s, NextIndex[s])
           /\ UNCHANGED <<peerVars, voteVars, applyVars, fault, restarts>>
  <2>1. NextIndex[s] \in [Server -> Nat]
    BY Zenon DEF TypeOK
  <2>2. Sends(s)
    BY <1>2, <2>1, LauncherSends, Zenon DEF DiskInv
  <2>3. reigns' = reigns /\ State' = State /\ CurrentTerm' = CurrentTerm /\ LogsStay
    BY <1>2, Zenon DEF peerVars, termVars, logVars, voteVars, LogsStay
  <2>4. Reigned(reigns, s, CurrentTerm[s])
    BY Zenon DEF HeartBeatGoroutine, LogInv, Appointed
  <2> QED
    BY <2>2, <2>3, <2>4, SameLeaders, SendsKeep, Zenon
<1> QED
  BY <1>1, <1>2, Zenon DEF HeartBeatGoroutine

\* SendHeartbeat sends a snapshot to a follower that is far behind.
LEMMA FailureKeeps ==
  ASSUME TypeOK, TypeOK', DiskInv, LogInv, DiskRises, NEW m \in appendCalls, HeartbeatReplyFailure(m)
  PROVE  LogInv'
<1>1. m.from \in Server
  BY ZenonT(30) DEF TypeOK, AppendCall
<1>2. /\ reigns' = reigns /\ State' = State /\ CurrentTerm' = CurrentTerm /\ LogsStay
      /\ CurrentTerm[m.from] = m.Term
  BY Zenon DEF HeartbeatReplyFailure, termVars, logVars, voteVars, LogsStay
<1>3. m.from # m.to /\ Reigned(reigns, m.from, m.Term)
  BY Zenon DEF LogInv, Appointed
<1>4. Sends(m.from)
  <2>1. \A c \in appendCalls' : c \in appendCalls
    BY Zenon DEF HeartbeatReplyFailure
  <2>2. ASSUME NEW c \in snapshotCalls', c \notin snapshotCalls
        PROVE  /\ c.from = m.from /\ c.to # m.from /\ c.Term = CurrentTerm[m.from]
               /\ Sub(SnapshotPiece(c), LogPiece(m.from))
    <3>1. c = SnapshotCall(m.from, m.to, "request", SnapshotData[m.from])
      BY <2>2, Zenon DEF HeartbeatReplyFailure
    <3>2. c.from = m.from /\ c.to = m.to /\ c.Term = CurrentTerm[m.from]
      BY <3>1, Zenon DEF SnapshotCall
    <3> QED
      BY <1>1, <1>3, <3>1, <3>2, SentSub, Zenon DEF DiskInv
  <2> QED
    BY <2>1, <2>2, Zenon DEF Sends
<1> QED
  BY <1>1, <1>2, <1>3, <1>4, SameLeaders, SendsKeep, Zenon

\* A peer that becomes leader: there is no entry of its term, unless the term has two leaders.
LEMMA BecomeLeaderKeeps ==
  ASSUME TypeOK, TypeOK', ElectionInv, DiskInv, LogInv, DiskRises, NEW m \in voteCalls, BecomeLeader(m)
  PROVE  LogInv'
<1>1. PICK s, t : s = m.from /\ t = CurrentTerm[s]
  BY Zenon
<1>2. s \in Server /\ t \in Terms /\ t \in Nat /\ t # 0
  <2>1. m.from \in Server /\ m.Term \in 1..MaxTerm
    BY ZenonT(30) DEF TypeOK, VoteCall
  <2>2. PICK d : d = persister[s].CurrentTerm
    BY Zenon
  <2>3. d \in Nat /\ m.Term <= d /\ d <= t /\ t \in Terms
    BY <1>1, <2>1, <2>2, Zenon DEF DiskRises, ElectionInv, TermsUsedOnDisk, TypeOK, DurableOK
  <2>4. t \in Nat
    BY <2>3, TermNumbers, Zenon
  <2>5. t # 0
    BY <2>1, <2>3, <2>4
  <2> QED
    BY <1>1, <2>1, <2>3, <2>4, <2>5, Zenon
<1>3. PICK r : r = [leader |-> s, elected |-> m.Term, term |-> t]
  BY Zenon
<1>4. r.leader = s /\ r.term = t
  BY <1>3, Zenon
<1>5. /\ reigns' = reigns \cup {r} /\ CurrentTerm' = CurrentTerm /\ LogsStay
      /\ State' = [State EXCEPT ![s] = LEADER]
  BY <1>1, <1>3, Zenon DEF BecomeLeader, logVars, LogsStay
<1>6. Sends(s)
  <2>1. PICK next : next = [i \in Server |-> LogLength(s)]
    BY Zenon
  <2>2. LogLength(s) \in Nat
    BY <1>2, PiecesTyped, Zenon
  <2>3. \A x \in Nat : x <= x
    BY AtMostItself, Zenon
  <2>4. next \in [Server -> Nat] /\ \A i \in Peers(s) : next[i] <= LogLength(s)
    BY <2>1, <2>2, <2>3, Zenon DEF Peers
  <2>5. HeartBeatLauncher(s, next)
    BY <1>1, <2>1, Zenon DEF BecomeLeader
  <2> QED
    BY <1>2, <2>4, <2>5, LauncherSends, Zenon DEF DiskInv
<1>7. \A i, u : Reigned(reigns', i, u) <=> Reigned(reigns, i, u) \/ (i = s /\ u = t)
  BY <1>4, <1>5, Zenon DEF Reigned
<1>8. Appointed'
  <2>1. \A i \in Server : State'[i] = LEADER => Reigned(reigns', i, CurrentTerm'[i])
    <3>1. \A i \in Server : i # s => State'[i] = State[i]
      BY <1>5, Zenon DEF TypeOK
    <3> QED
      BY <1>1, <1>5, <1>7, <3>1, Zenon DEF LogInv, Appointed
  <2>2. \A c \in appendCalls' : c.from # c.to /\ Reigned(reigns', c.from, c.Term)
    BY <1>1, <1>6, <1>7, Zenon DEF LogInv, Appointed, Sends
  <2>3. \A c \in snapshotCalls' : c.from # c.to /\ Reigned(reigns', c.from, c.Term)
    BY <1>1, <1>6, <1>7, Zenon DEF LogInv, Appointed, Sends
  <2> QED
    BY <2>1, <2>2, <2>3, Zenon DEF Appointed
<1>9. TwoLeaders => TwoLeaders'
  BY <1>5, Zenon DEF TwoLeaders
<1>10. ASSUME LogsRight, ~TwoLeaders'
       PROVE  LogsRight'
  <2>1. AllMatch(Pieces') /\ NoNew(Pieces, Pieces')
    BY <1>2, <1>5, <1>6, <1>10, SendsFollow, SubsMatch, Zenon DEF LogsRight
  <2>2. Created(reigns', Pieces')
    <3>1. reigns \subseteq reigns'
      BY <1>5, Zenon
    <3> QED
      BY <1>10, <2>1, <3>1, CreatedKept, Zenon DEF LogsRight
  <2>3. ASSUME NEW i \in Server, NEW u \in Terms, Reigned(reigns', i, u)
        PROVE  Newest(Pieces', persister'[i].CurrentTerm, LogLength(i)', u)
    <3>1. CASE Reigned(reigns, i, u)
      <4>1. PICK d, e, l : d = persister[i].CurrentTerm /\ e = persister'[i].CurrentTerm /\ l = LogLength(i)
        BY Zenon
      <4>2. LogLength(i)' = l
        BY <1>5, <4>1, Zenon DEF LogLength, LogsStay
      <4>3. d \in Nat /\ e \in Nat /\ d <= e /\ l \in Nat /\ u \in Nat
        BY <4>1, PiecesTyped, TermNumbers, Zenon DEF DiskRises
      <4>4. l <= l
        BY <4>3
      <4>5. \A q \in Pieces' : \A k \in Indices(q) : k \in Nat
        BY PiecesTypedNext, PieceIndices, Zenon
      <4>6. Newest(Pieces, d, l, u)
        BY <1>10, <3>1, <4>1, Zenon DEF LogsRight
      <4>7. Newest(Pieces', e, l, u)
        BY <2>1, <4>3, <4>4, <4>5, <4>6, NewestKept, Zenon
      <4> QED
        BY <4>1, <4>2, <4>7, Zenon
    <3>2. CASE ~Reigned(reigns, i, u)
      <4>1. i = s /\ u = t
        BY <1>7, <2>3, <3>2, Zenon
      <4>2. \A j \in Server : ~Reigned(reigns, j, t)
        <5> SUFFICES ASSUME NEW j \in Server, Reigned(reigns, j, t) PROVE FALSE
          BY Zenon
        <5>1. PICK q \in reigns : q.leader = j /\ q.term = t
          BY Zenon DEF Reigned
        <5>2. j # s
          BY <3>2, <4>1, Zenon
        <5>3. q \in reigns' /\ r \in reigns'
          BY <1>5, Zenon
        <5> QED
          BY <1>4, <1>10, <5>1, <5>2, <5>3, Zenon DEF TwoLeaders
      <4>3. \A p \in Pieces : \A k \in Indices(p) : TermAt(p, k) # t
        BY <1>2, <1>10, <4>2, Zenon DEF LogsRight, Created
      <4>4. \A q \in Pieces' : \A k \in Indices(q) : TermAt(q, k) # t
        BY <2>1, <4>3, Zenon DEF NoNew
      <4> QED
        BY <4>1, <4>4, Zenon DEF Newest
    <3> QED
      BY <3>1, <3>2, Zenon
  <2> QED
    BY <2>1, <2>2, <2>3, Zenon DEF LogsRight
<1> QED
  BY <1>8, <1>9, <1>10, Zenon DEF LogInv

-----------------------------------------------------------------------------
(* The actions that change a log                                           *)

\* Nothing new and again nothing new is nothing new.
LEMMA NoNewJoins ==
  ASSUME NEW P, NEW Q, NEW R, NoNew(P, Q), NoNew(Q, R)
  PROVE  NoNew(P, R)
<1> SUFFICES ASSUME NEW r \in R, NEW i \in Indices(r)
             PROVE  \E p \in P : i \in Indices(p) /\ TermAt(p, i) = TermAt(r, i)
  BY Zenon DEF NoNew
<1>1. PICK q \in Q : i \in Indices(q) /\ TermAt(q, i) = TermAt(r, i)
  BY Zenon DEF NoNew
<1>2. PICK p \in P : i \in Indices(p) /\ TermAt(p, i) = TermAt(q, i)
  BY <1>1, Zenon DEF NoNew
<1> QED
  BY <1>1, <1>2, Zenon

\* A step that changes the log of s, and the calls only in their stages, keeps the invariant if the
\* new log is part of pieces that match, and does not shrink while s may lead the term on its disk.
LEMMA OneLogKeeps ==
  ASSUME TypeOK, TypeOK', LogInv, DiskRises, NoEntryStep, NEW s \in Server,
         \A d \in Server : d # s => Log'[d] = Log[d] /\ LastIncludedIndex'[d] = LastIncludedIndex[d],
         NEW P, Pieces \subseteq P, \E p \in P : Sub(LogPiece(s)', p),
         LogsRight => AllMatch(P) /\ NoNew(Pieces, P),
         ~TwoLeaders => \/ LogLength(s) <= LogLength(s)'
                        \/ ~Reigned(reigns, s, persister'[s].CurrentTerm)
  PROVE  LogInv'
<1>1. Appointed'
  BY StayAppointed, Zenon DEF LogInv
<1>2. \A d \in Server : d # s => LogPiece(d)' = LogPiece(d) /\ LogLength(d)' = LogLength(d)
  BY Zenon DEF LogPiece, LogLength
<1>3. \A d \in Server : \E p \in P : Sub(LogPiece(d)', p)
  <2>1. ASSUME NEW d \in Server, d # s PROVE \E p \in P : Sub(LogPiece(d)', p)
    <3>1. LogPiece(d) \in P /\ LogPiece(d)' = LogPiece(d)
      BY <1>2, <2>1, Zenon DEF Pieces
    <3> QED
      BY <3>1, SubSelf, Zenon
  <2> QED
    BY <2>1, Zenon
<1>4. /\ \A m \in appendCalls' : \E p \in P : Sub(AppendPiece(m), p)
      /\ \A m \in snapshotCalls' : \E p \in P : Sub(SnapshotPiece(m), p)
  BY CallsFollow, Zenon DEF NoEntryStep
<1>5. \A q \in Pieces' : \E p \in P : Sub(q, p)
  BY <1>3, <1>4, PiecesFollow, Zenon
<1>6. ASSUME LogsRight PROVE AllMatch(Pieces') /\ NoNew(Pieces, Pieces')
  <2>1. AllMatch(Pieces') /\ NoNew(P, Pieces')
    BY <1>5, <1>6, SubsMatch, Zenon
  <2> QED
    BY <1>6, <2>1, NoNewJoins, Zenon
<1>7. \A d \in Server : d # s => LogLength(d) <= LogLength(d)'
  <2>1. \A d \in Server : LogLength(d) \in Nat
    BY PiecesTyped, Zenon
  <2> QED
    BY <1>2, <2>1, AtMostItself, Zenon
<1> QED
  BY <1>1, <1>6, <1>7, LogsKept, Zenon DEF NoEntryStep



\* Only one of the sender and the receiver of a call was made leader of its term.
LEMMA ReceiverFollows ==
  ASSUME ~TwoLeaders, NEW f, NEW s, NEW t, f # s, Reigned(reigns, f, t)
  PROVE  ~Reigned(reigns, s, t)
  BY Zenon DEF TwoLeaders, Reigned

\* HeartbeatHandler deletes entries of another term, or replaces what follows the checked entry.
LEMMA HeartbeatKeeps ==
  ASSUME TypeOK, TypeOK', DiskInv, LogInv, DiskRises, NEW m \in appendCalls,
         HeartbeatConflict(m) \/ HeartbeatAccepted(m)
  PROVE  LogInv'
<1>1. PICK s, p : s = m.to /\ p = V2PIndex(s, m.PrevLogIndex)
  BY Zenon
<1>2. /\ s \in Server /\ m.Entries \in Seq(Entry) /\ m.Term \in Terms /\ m.Term \in Nat
      /\ CurrentTerm[s] \in Nat /\ m.PrevLogIndex \in Nat /\ m.PrevLogTerm \in Terms
  BY <1>1, TermNumbers, ZenonT(30) DEF TypeOK, DurableOK, AppendCall
<1>3. InRange(s, p) /\ AdoptTerm(s, m.Term) /\ m.Term >= CurrentTerm[s]
  BY <1>1, ZenonT(30) DEF HeartbeatConflict, HeartbeatAccepted, Serves
<1>4. CheckedLog(s, p) = Log[s] /\ p \in Nat /\ p + 1 \in 1..Len(Log[s])
      /\ Log[s][p + 1].LogTerm = ToBeChecked(s, p)
  <2>1. CheckedLog(s, p) = Log[s]
    BY <1>2, <1>3, CheckedLogSame, Zenon DEF DiskInv
  <2>2. p \in Nat /\ p + 1 \in 1..Len(Log[s]) /\ CheckedLog(s, p)[p + 1].LogTerm = ToBeChecked(s, p)
    BY <1>2, <1>3, CheckedReads, Zenon
  <2> QED
    BY <2>1, <2>2, Zenon
<1>5. PICK log, b : log = Log[s] /\ b = LastIncludedIndex[s]
  BY Zenon
<1>6. log \in Logs /\ b \in Nat /\ Len(log) \in Nat /\ LogPiece(s) = [base |-> b, log |-> log]
  BY <1>2, <1>5, LogReads, Zenon DEF TypeOK, DurableOK, LogPiece
<1>7. NoEntryStep /\ LastIncludedIndex' = LastIncludedIndex
  <2>1. reigns' = reigns /\ snapshotCalls' = snapshotCalls /\ LastIncludedIndex' = LastIncludedIndex
    BY ZenonT(30) DEF HeartbeatConflict, HeartbeatAccepted, voteVars
  <2>2. AppendsKept
    BY AnsweredAppends, Zenon DEF HeartbeatConflict, HeartbeatAccepted
  <2> QED
    BY <1>2, <1>3, <2>1, <2>2, FewerCalls, AdoptStays, Zenon DEF NoEntryStep
<1>8. ASSUME Persist(s), ~TwoLeaders
      PROVE  ~Reigned(reigns, s, persister'[s].CurrentTerm)
  <2>1. CurrentTerm'[s] = Max(CurrentTerm[s], m.Term)
    BY <1>2, <1>3, TermRaises, Zenon DEF AdoptTerm
  <2>2. Max(CurrentTerm[s], m.Term) = m.Term
    BY <1>2, <1>3 DEF Max
  <2>3. persister'[s].CurrentTerm = m.Term
    BY <1>2, <1>8, <2>1, <2>2, PersistTerm, Zenon
  <2>4. m.from # s /\ Reigned(reigns, m.from, m.Term)
    BY <1>1, Zenon DEF LogInv, Appointed
  <2> QED
    BY <1>8, <2>3, <2>4, ReceiverFollows, Zenon
<1>9. ASSUME NEW new, Log' = [Log EXCEPT ![s] = new]
       PROVE  /\ LogPiece(s)' = [base |-> b, log |-> new]
              /\ \A d \in Server : d # s => Log'[d] = Log[d] /\ LastIncludedIndex'[d] = LastIncludedIndex[d]
  <2>1. Log'[s] = new /\ \A d \in Server : d # s => Log'[d] = Log[d]
    BY <1>2, <1>9, Zenon DEF TypeOK, DurableOK
  <2> QED
    BY <1>5, <1>7, <2>1, Zenon DEF LogPiece
<1>10. CASE HeartbeatConflict(m)
  <2>1. PICK k : k = Max(p, 1)
    BY Zenon
  <2>2. Log' = [Log EXCEPT ![s] = SubSeq(log, 1, k)] /\ Persist(s)
    BY <1>1, <1>4, <1>5, <1>10, <2>1, Zenon DEF HeartbeatConflict
  <2>3. k \in 1..Len(log)
    <3>1. PICK L \in Nat : L = Len(log) /\ p + 1 \in 1..L
      BY <1>4, <1>5, <1>6, Zenon
    <3>2. k \in 1..L
      BY <1>4, <2>1, <3>1 DEF Max
    <3> QED
      BY <3>1, <3>2, Zenon
  <2>4. Sub([base |-> b, log |-> SubSeq(log, 1, k)], [base |-> b, log |-> log])
    BY <1>6, <2>3, SlicesSub, Zenon
  <2>5. \E q \in Pieces : Sub(LogPiece(s)', q)
    <3>1. LogPiece(s) \in Pieces
      BY <1>2, Zenon DEF Pieces
    <3> QED
      BY <1>6, <1>9, <2>2, <2>4, <3>1, Zenon
  <2>6. LogsRight => AllMatch(Pieces) /\ NoNew(Pieces, Pieces)
    BY Zenon DEF LogsRight, NoNew
  <2> QED
    BY <1>2, <1>7, <1>8, <1>9, <2>2, <2>5, <2>6, OneLogKeeps, Zenon
<1>11. CASE HeartbeatAccepted(m)
  <2>1. /\ Log' = [Log EXCEPT ![s] = AppendedLog(log, p, m.Entries)]
        /\ PersistIf(s, m.Term > CurrentTerm[s] \/ m.Entries # <<>>)
        /\ m.PrevLogTerm = log[p + 1].LogTerm
    BY <1>1, <1>4, <1>5, <1>11, Zenon DEF HeartbeatAccepted
  <2>2. CASE m.Entries = <<>>
    <3>1. Log' = Log
      <4>1. Log' = [Log EXCEPT ![s] = log]
        BY <2>1, <2>2, Zenon DEF AppendedLog
      <4> QED
        BY <1>2, <1>5, <4>1, PeerArrays, Zenon
    <3> QED
      BY <1>7, <3>1, NoEntryKeeps, Zenon DEF LogsStay
  <2>3. CASE m.Entries # <<>>
    <3>1. PICK k \in 1..Len(log) : k = p + 1
      BY <1>4, <1>5, Zenon
    <3>2. PICK n : n = [base |-> b, log |-> SubSeq(log, 1, k) \o m.Entries]
      BY Zenon
    <3>3. LogPiece(s)' = n /\ Persist(s)
          /\ \A d \in Server : d # s => Log'[d] = Log[d] /\ LastIncludedIndex'[d] = LastIncludedIndex[d]
      BY <1>9, <2>1, <2>3, <3>1, <3>2, Zenon DEF AppendedLog, PersistIf
    <3>4. b + k - 1 = m.PrevLogIndex
      <4>1. p = m.PrevLogIndex - b
        BY <1>1, <1>5, Zenon DEF V2PIndex
      <4> QED
        BY <1>2, <1>4, <1>6, <3>1, <4>1
    <3>5. AppendPiece(m) = [base |-> b + k - 1,
                            log |-> <<[LogTerm |-> log[k].LogTerm, Command |-> Nil]>> \o m.Entries]
      BY <2>1, <3>1, <3>4, Zenon DEF AppendPiece
    <3>6. Grafted(n, LogPiece(s), AppendPiece(m))
      BY <1>2, <1>6, <3>2, <3>5, AppendGrafts, Zenon
    <3>7. LogPiece(s) \in Pieces /\ AppendPiece(m) \in Pieces /\ Pieces \subseteq Piece
      BY <1>2, PiecesTyped, Zenon DEF Pieces
    <3>8. LogsRight => AllMatch(Pieces \cup {n}) /\ NoNew(Pieces, Pieces \cup {n})
      BY <3>6, <3>7, GraftsMatch, Zenon DEF LogsRight
    <3>9. \E q \in Pieces \cup {n} : Sub(LogPiece(s)', q)
      BY <3>3, SubSelf, Zenon
    <3> QED
      BY <1>2, <1>7, <1>8, <3>3, <3>8, <3>9, OneLogKeeps, Zenon
  <2> QED
    BY <2>2, <2>3, Zenon
<1> QED
  BY <1>10, <1>11, Zenon

\* InstallSnapshot keeps what follows the snapshot or starts a fresh log.
LEMMA InstallKeeps ==
  ASSUME TypeOK, TypeOK', DiskInv, LogInv, DiskRises, NEW m \in snapshotCalls, InstallSnapshot(m)
  PROVE  LogInv'
<1>1. PICK s, p : s = m.to /\ p = V2PIndex(s, m.LastIncludedIndex)
  BY Zenon
<1>2. /\ s \in Server /\ m.Term \in Nat /\ CurrentTerm[s] \in Nat /\ m \in SnapCall
      /\ m.LastIncludedIndex \in Nat
  BY <1>1, TermNumbers, ZenonT(30) DEF TypeOK, DurableOK, SnapCall
<1>3. /\ CurrentTerm' = [CurrentTerm EXCEPT ![s] = m.Term] /\ m.Term >= CurrentTerm[s]
      /\ State' = IF m.Term > CurrentTerm[s] THEN [State EXCEPT ![s] = FOLLOWER] ELSE State
      /\ Log' = [Log EXCEPT ![s] = KeptLog(s, m)]
      /\ LastIncludedIndex' = [LastIncludedIndex EXCEPT ![s] = m.LastIncludedIndex]
      /\ reigns' = reigns /\ appendCalls' = appendCalls /\ Persist(s)
  BY <1>1, Zenon DEF InstallSnapshot, voteVars
<1>4. CurrentTerm'[s] = m.Term /\ \A i \in Server : i # s => CurrentTerm'[i] = CurrentTerm[i]
  BY <1>2, <1>3, TermSets, Zenon
<1>5. LeadersStay
  <2>1. CASE m.Term > CurrentTerm[s]
    <3>1. State'[s] = FOLLOWER /\ \A i \in Server : i # s => State'[i] = State[i]
      BY <1>2, <1>3, <2>1, Zenon DEF TypeOK
    <3> QED
      BY <1>2, <1>4, <3>1, OneStays, Zenon
  <2>2. CASE ~(m.Term > CurrentTerm[s])
    <3>1. State' = State /\ m.Term = CurrentTerm[s]
      BY <1>2, <1>3, <2>2
    <3> QED
      BY <1>2, <1>4, <3>1, OneStays, Zenon
  <2> QED
    BY <2>1, <2>2, Zenon
<1>6. SnapshotsKept
  <2>1. PICK r : r = [m EXCEPT !.stage = "installing", !.replyTerm = CurrentTerm[s]]
    BY Zenon
  <2>2. snapshotCalls' = (snapshotCalls \ {m}) \cup {r}
    BY <1>1, <2>1, Zenon DEF InstallSnapshot
  <2>3. r.from = m.from /\ r.to = m.to /\ r.Term = m.Term /\ SnapshotPiece(r) = SnapshotPiece(m)
    BY <1>2, <2>1, SnapshotStageKept, Zenon
  <2> QED
    BY <2>2, <2>3, AnsweredSnapshots, Zenon
<1>7. NoEntryStep
  BY <1>3, <1>5, <1>6, FewerCalls, Zenon DEF NoEntryStep
<1>8. ~TwoLeaders => ~Reigned(reigns, s, persister'[s].CurrentTerm)
  <2>1. persister'[s].CurrentTerm = m.Term
    BY <1>2, <1>3, <1>4, PersistTerm, Zenon
  <2>2. m.from # s /\ Reigned(reigns, m.from, m.Term)
    BY <1>1, Zenon DEF LogInv, Appointed
  <2> QED
    BY <2>1, <2>2, ReceiverFollows, Zenon
<1>9. /\ LogPiece(s)' = [base |-> m.LastIncludedIndex, log |-> KeptLog(s, m)]
       /\ \A d \in Server : d # s => Log'[d] = Log[d] /\ LastIncludedIndex'[d] = LastIncludedIndex[d]
  <2>1. /\ Log'[s] = KeptLog(s, m) /\ LastIncludedIndex'[s] = m.LastIncludedIndex
        /\ \A d \in Server : d # s => Log'[d] = Log[d] /\ LastIncludedIndex'[d] = LastIncludedIndex[d]
    BY <1>2, <1>3, Zenon DEF TypeOK, DurableOK
  <2> QED
    BY <2>1, Zenon DEF LogPiece
<1>10. \E q \in Pieces : Sub(LogPiece(s)', q)
  <2>1. CASE InRange(s, p) /\ Log[s][p + 1].LogTerm = m.LastIncludedTerm
    <3>1. PICK log, b : log = Log[s] /\ b = LastIncludedIndex[s]
      BY Zenon
    <3>2. log \in Logs /\ b \in Nat /\ Len(log) \in Nat /\ LogPiece(s) = [base |-> b, log |-> log]
      BY <1>2, <3>1, LogReads, Zenon DEF TypeOK, DurableOK, LogPiece
    <3>3. p \in Nat /\ p + 1 \in 1..Len(log)
      BY <1>2, <2>1, <3>1, CheckedReads, Zenon
    <3>4. PICK k \in 1..Len(log) : k = p + 1
      BY <3>3, Zenon
    <3>5. b + k - 1 = m.LastIncludedIndex
      <4>1. p = m.LastIncludedIndex - b
        BY <1>1, <3>1, Zenon DEF V2PIndex
      <4> QED
        BY <1>2, <3>2, <3>3, <3>4, <4>1
    <3>6. Sub([base |-> b + k - 1, log |-> SubSeq(log, k, Len(log))], [base |-> b, log |-> log])
      BY <3>2, SlicesSub, Zenon
    <3>7. KeptLog(s, m) = SubSeq(log, k, Len(log))
      BY <1>1, <2>1, <3>1, <3>4, Zenon DEF KeptLog
    <3>8. LogPiece(s) \in Pieces
      BY <1>2, Zenon DEF Pieces
    <3> QED
      BY <1>9, <3>2, <3>5, <3>6, <3>7, <3>8, Zenon
  <2>2. CASE ~(InRange(s, p) /\ Log[s][p + 1].LogTerm = m.LastIncludedTerm)
    <3>1. KeptLog(s, m) = <<[LogTerm |-> m.LastIncludedTerm, Command |-> Nil]>>
      BY <1>1, <2>2, Zenon DEF KeptLog
    <3>2. LogPiece(s)' = SnapshotPiece(m)
      BY <1>9, <3>1, Zenon DEF SnapshotPiece
    <3> QED
      BY <3>2, SubSelf, Zenon DEF Pieces
  <2> QED
    BY <2>1, <2>2, Zenon
<1>11. LogsRight => AllMatch(Pieces) /\ NoNew(Pieces, Pieces)
  BY Zenon DEF LogsRight, NoNew
<1> QED
  BY <1>2, <1>7, <1>8, <1>9, <1>10, <1>11, OneLogKeeps, Zenon

\* Snapshot drops entries in front and nothing behind.
LEMMA SnapshotParts ==
  ASSUME TypeOK, NEW s \in Server, Snapshot(s)
  PROVE  /\ Sub(LogPiece(s)', LogPiece(s)) /\ LogLength(s)' = LogLength(s)
         /\ \A d \in Server : d # s => Log'[d] = Log[d] /\ LastIncludedIndex'[d] = LastIncludedIndex[d]
<1>2. PICK p, log, b : p = V2PIndex(s, saving[s]) /\ log = Log[s] /\ b = LastIncludedIndex[s]
  BY Zenon
<1>3. /\ InRange(s, p) /\ Log' = [Log EXCEPT ![s] = SubSeq(log, p + 1, Len(log))]
      /\ LastIncludedIndex' = [LastIncludedIndex EXCEPT ![s] = saving[s]]
  BY <1>2, Zenon DEF Snapshot
<1>4. /\ log \in Logs /\ b \in Nat /\ Len(log) \in Nat /\ saving[s] \in Nat
      /\ LogPiece(s) = [base |-> b, log |-> log]
  BY <1>2, LogReads, Zenon DEF TypeOK, DurableOK, LogPiece
<1>5. p \in Nat /\ p + 1 \in 1..Len(log)
  BY <1>2, <1>3, CheckedReads, Zenon
<1>6. PICK k \in 1..Len(log) : k = p + 1
  BY <1>5, Zenon
<1>7. b + k - 1 = saving[s]
  <2>1. p = saving[s] - b
    BY <1>2, Zenon DEF V2PIndex
  <2> QED
    BY <1>4, <1>5, <1>6, <2>1
<1>9. /\ Log'[s] = SubSeq(log, k, Len(log)) /\ LastIncludedIndex'[s] = saving[s]
      /\ \A d \in Server : d # s => Log'[d] = Log[d] /\ LastIncludedIndex'[d] = LastIncludedIndex[d]
  BY <1>3, <1>6, Zenon DEF TypeOK, DurableOK
<1>10. Sub(LogPiece(s)', LogPiece(s))
  <2>1. Sub([base |-> b + k - 1, log |-> SubSeq(log, k, Len(log))], [base |-> b, log |-> log])
    BY <1>4, SlicesSub, Zenon
  <2>2. LogPiece(s)' = [base |-> saving[s], log |-> SubSeq(log, k, Len(log))]
    BY <1>9, Zenon DEF LogPiece
  <2> QED
    BY <1>4, <1>7, <2>1, <2>2, Zenon
<1>11. LogLength(s)' = LogLength(s)
  <2>1. PICK L \in Nat : L = Len(log) /\ k \in 1..L
    BY <1>4, Zenon
  <2>2. Len(SubSeq(log, k, Len(log))) = Len(log) - k + 1
    BY <1>4, LogReads, SMTT(20)
  <2>3. LogLength(s) = L + b /\ LogLength(s)' = L - k + 1 + saving[s]
    BY <1>2, <1>9, <2>1, <2>2, Zenon DEF LogLength
  <2>4. L + b = L - k + 1 + saving[s]
    BY <1>4, <1>7, <2>1
  <2> QED
    BY <2>3, <2>4, Zenon
<1> QED
  BY <1>9, <1>10, <1>11, Zenon

\* Snapshot keeps the invariant.
LEMMA SnapshotKeeps ==
  ASSUME TypeOK, TypeOK', DiskInv, LogInv, DiskRises, NEW s \in Server, Snapshot(s)
  PROVE  LogInv'
<1>1. /\ reigns' = reigns /\ appendCalls' = appendCalls /\ snapshotCalls' = snapshotCalls
      /\ State' = State /\ CurrentTerm' = CurrentTerm
  BY Zenon DEF Snapshot, voteVars, termVars
<1>2. NoEntryStep
  BY <1>1, FewerCalls, SameLeaders, Zenon DEF NoEntryStep
<1>3. \E q \in Pieces : Sub(LogPiece(s)', q)
  BY SnapshotParts, Zenon DEF Pieces
<1>4. LogLength(s) <= LogLength(s)'
  <2>1. LogLength(s) \in Nat /\ LogLength(s)' = LogLength(s)
    BY PiecesTyped, SnapshotParts, Zenon
  <2> QED
    BY <2>1
<1>5. LogsRight => AllMatch(Pieces) /\ NoNew(Pieces, Pieces)
  BY Zenon DEF LogsRight, NoNew
<1> QED
  BY <1>2, <1>3, <1>4, <1>5, SnapshotParts, OneLogKeeps, Zenon

\* A peer that restarts has the log it had.
LEMMA RestartKeeps ==
  ASSUME TypeOK, TypeOK', DiskInv, LogInv, NEW s \in Server, Restart(s)
  PROVE  LogInv'
<1>1. DiskRises
  <2>1. persister' = persister
    BY Zenon DEF Restart
  <2>2. \A i \in Server : persister[i].CurrentTerm \in Nat
    <3>1. \A r \in PersistedState : r.CurrentTerm \in Terms
      BY Zenon DEF PersistedState
    <3> QED
      BY <3>1, TermNumbers, Zenon DEF TypeOK
  <2>3. \A x \in Nat : x <= x
    BY AtMostItself, Zenon
  <2> QED
    BY <2>1, <2>2, <2>3, Zenon DEF DiskRises
<1>2. LogsStay
  <2>1. /\ Log' = [Log EXCEPT ![s] = persister[s].Log]
        /\ LastIncludedIndex' = [LastIncludedIndex EXCEPT ![s] = persister[s].LastIncludedIndex]
    BY Zenon DEF Restart
  <2>2. persister[s].Log = Log[s] /\ persister[s].LastIncludedIndex = LastIncludedIndex[s]
    BY Zenon DEF DiskInv, LogOnDisk
  <2> QED
    BY <2>1, <2>2, PeerArrays, Zenon DEF LogsStay
<1>3. LeadersStay
  <2>1. /\ State'[s] = FOLLOWER
        /\ \A i \in Server : i # s => State'[i] = State[i] /\ CurrentTerm'[i] = CurrentTerm[i]
    BY SMTT(20) DEF Restart, TypeOK, DurableOK
  <2> QED
    BY <2>1, OneStays, Zenon
<1>5. AppendsKept
  <2> SUFFICES ASSUME NEW m \in appendCalls'
               PROVE  \E c \in appendCalls : /\ m.from = c.from /\ m.to = c.to /\ m.Term = c.Term
                                             /\ AppendPiece(m) = AppendPiece(c)
    BY Zenon DEF AppendsKept
  <2>1. PICK c \in appendCalls : m = [c EXCEPT !.waited = c.waited /\ c.from # s]
    <3>1. m \in CallsAfterCrash(appendCalls, s)
      BY Zenon DEF Restart
    <3> QED
      BY <3>1, Zenon DEF CallsAfterCrash
  <2>2. c \in AppendCall
    BY Zenon DEF TypeOK
  <2> QED
    BY <2>1, <2>2, StageKept, Zenon
<1>6. SnapshotsKept
  <2> SUFFICES ASSUME NEW m \in snapshotCalls'
               PROVE  \E c \in snapshotCalls : /\ m.from = c.from /\ m.to = c.to /\ m.Term = c.Term
                                               /\ SnapshotPiece(m) = SnapshotPiece(c)
    BY Zenon DEF SnapshotsKept
  <2>1. PICK c \in snapshotCalls : m = [c EXCEPT !.waited = c.waited /\ c.from # s]
    <3>1. m \in CallsAfterCrash(snapshotCalls, s)
      BY Zenon DEF Restart
    <3> QED
      BY <3>1, Zenon DEF CallsAfterCrash
  <2>2. c \in SnapCall
    BY Zenon DEF TypeOK
  <2> QED
    BY <2>1, <2>2, SnapshotStageKept, Zenon
<1>7. NoEntryStep
  BY <1>3, <1>5, <1>6, Zenon DEF Restart, NoEntryStep
<1> QED
  BY <1>1, <1>2, <1>7, NoEntryKeeps, Zenon

\* Start appends one entry behind the others.
LEMMA StartParts ==
  ASSUME TypeOK, NEW s \in Server, NEW command \in Command, Start(s, command)
  PROVE  /\ Extended(LogPiece(s)', LogPiece(s), LogLength(s), CurrentTerm[s])
         /\ LogLength(s)' = LogLength(s) + 1 /\ LastIncludedIndex' = LastIncludedIndex
         /\ \A d \in Server : d # s => Log'[d] = Log[d]
<1>1. PICK e, log, b, t, K : /\ e = [LogTerm |-> CurrentTerm[s], Command |-> command] /\ log = Log[s]
                             /\ b = LastIncludedIndex[s] /\ t = CurrentTerm[s] /\ K = LogLength(s)
  BY Zenon
<1>2. Log' = [Log EXCEPT ![s] = Append(log, e)] /\ LastIncludedIndex' = LastIncludedIndex
  BY <1>1, Zenon DEF Start
<1>3. /\ log \in Logs /\ b \in Nat /\ Len(log) \in Nat /\ t \in Terms
      /\ LogPiece(s) = [base |-> b, log |-> log]
  BY <1>1, LogReads, Zenon DEF TypeOK, DurableOK, LogPiece
<1>4. e \in Entry /\ e.LogTerm = t
  <2>1. command \in Commands
    BY Zenon DEF Commands
  <2> QED
    BY <1>1, <1>3, <2>1, EntryMade, Zenon
<1>5. Log'[s] = Append(log, e) /\ \A d \in Server : d # s => Log'[d] = Log[d]
  BY <1>2, PeerArrays, Zenon
<1>6. K = b + Len(log)
  <2>1. K = Len(log) + b
    BY <1>1, Zenon DEF LogLength
  <2> QED
    BY <1>3, <2>1
<1>7. Extended(LogPiece(s)', LogPiece(s), K, t)
  <2>1. LogPiece(s)' = [base |-> b, log |-> Append(log, e)]
    BY <1>1, <1>2, <1>5, Zenon DEF LogPiece
  <2>2. Extended([base |-> b, log |-> Append(log, e)], [base |-> b, log |-> log], b + Len(log), e.LogTerm)
    BY <1>3, <1>4, StartExtends, Zenon
  <2> QED
    BY <1>3, <1>4, <1>6, <2>1, <2>2, Zenon
<1>8. LogLength(s)' = K + 1
  <2>1. Len(Append(log, e)) = Len(log) + 1
    <3>1. log \in Seq(Entry)
      BY <1>3, LogReads, Zenon
    <3> QED
      BY <1>4, <3>1, SMTT(20)
  <2>2. LogLength(s)' = Len(log) + 1 + b
    BY <1>1, <1>2, <1>5, <2>1, Zenon DEF LogLength
  <2>3. Len(log) + 1 + b = b + Len(log) + 1
    BY <1>3
  <2> QED
    BY <1>6, <2>2, <2>3, Zenon
<1> QED
  BY <1>1, <1>2, <1>5, <1>7, <1>8, Zenon

\* Start appends an entry of a term of which nobody else has entries that the leader does not have.
LEMMA StartKeeps ==
  ASSUME TypeOK, TypeOK', ElectionInv, DiskInv, LogInv, DiskRises, NEW s \in Server, NEW command \in Command,
         Start(s, command)
  PROVE  LogInv'
<1>1. PICK t, K, n : t = CurrentTerm[s] /\ K = LogLength(s) /\ n = LogPiece(s)'
  BY Zenon
<1>2. /\ State[s] = LEADER /\ State' = State /\ CurrentTerm' = CurrentTerm
      /\ reigns' = reigns /\ appendCalls' = appendCalls /\ snapshotCalls' = snapshotCalls
      /\ Persist(s)
  BY Zenon DEF Start, termVars, voteVars
<1>3. K \in Nat /\ t \in Terms /\ t \in Nat
  BY <1>1, PiecesTyped, TermNumbers, Zenon DEF TypeOK, DurableOK
<1>4. /\ Extended(n, LogPiece(s), K, t) /\ LogLength(s)' = K + 1
      /\ LastIncludedIndex' = LastIncludedIndex /\ \A d \in Server : d # s => Log'[d] = Log[d]
  BY <1>1, StartParts, Zenon
<1>5. Appointed'
  <2>1. NoEntryStep
    BY <1>2, FewerCalls, SameLeaders, Zenon DEF NoEntryStep
  <2> QED
    BY <2>1, StayAppointed, Zenon DEF LogInv
<1>9. \A q \in Pieces' : q \in Pieces \/ q = n
  <2>1. \A d \in Server : d # s => LogPiece(d)' = LogPiece(d)
    BY <1>4, Zenon DEF LogPiece
  <2> QED
    BY <1>1, <1>2, <2>1, Zenon DEF Pieces
<1>10. Reigned(reigns, s, t)
  BY <1>1, <1>2, Zenon DEF LogInv, Appointed
<1>11. \A d \in Server : d # s => LogLength(d)' = LogLength(d)
  BY <1>4, Zenon DEF LogLength
<1>12. LogPiece(s) \in Pieces /\ Pieces \subseteq Piece
  BY PiecesTyped, Zenon DEF Pieces
<1>13. ASSUME LogsRight, ~TwoLeaders
       PROVE  LogsRight'
  <2>1. \A x \in Pieces : K \in Indices(x) => TermAt(x, K) # t
    <3> SUFFICES ASSUME NEW x \in Pieces, K \in Indices(x), TermAt(x, K) = t PROVE FALSE
      BY Zenon
    <3>1. Newest(Pieces, persister[s].CurrentTerm, K, t)
      BY <1>1, <1>3, <1>10, <1>13, Zenon DEF LogsRight
    <3>2. persister[s].CurrentTerm <= t
      BY <1>1, Zenon DEF ElectionInv, TermsUsedOnDisk
    <3>3. K < K
      BY <3>1, <3>2, Zenon DEF Newest
    <3> QED
      BY <1>3, <3>3
  <2>2. \A x \in Pieces : Match(n, x)
    <3>1. \A x \in Pieces : Match(LogPiece(s), x)
      BY <1>12, <1>13, Zenon DEF LogsRight, AllMatch
    <3> QED
      BY <1>3, <1>4, <1>12, <2>1, <3>1, ExtendMatch, Zenon
  <2>3. AllMatch(Pieces')
    BY <1>9, <1>13, <2>2, MatchSymmetric, MatchSelf, Zenon DEF LogsRight, AllMatch
  <2>4. ASSUME NEW q \in Pieces', NEW i \in Indices(q)
        PROVE  \/ i = K /\ TermAt(q, i) = t
               \/ \E p \in Pieces : i \in Indices(p) /\ TermAt(p, i) = TermAt(q, i)
    <3>1. CASE q \in Pieces
      BY <3>1, Zenon
    <3>2. CASE q = n
      BY <1>4, <1>12, <3>2, Zenon DEF Extended, TermAt
    <3> QED
      BY <1>9, <3>1, <3>2, Zenon
  <2>5. Created(reigns', Pieces')
    <3> SUFFICES ASSUME NEW q \in Pieces', NEW i \in Indices(q), TermAt(q, i) # 0
                 PROVE  \E d \in Server : Reigned(reigns', d, TermAt(q, i))
      BY Zenon DEF Created
    <3>1. CASE TermAt(q, i) = t
      BY <1>2, <1>10, <3>1, Zenon
    <3>2. CASE TermAt(q, i) # t
      <4>1. PICK p \in Pieces : i \in Indices(p) /\ TermAt(p, i) = TermAt(q, i)
        BY <2>4, <3>2, Zenon
      <4> QED
        BY <1>2, <1>13, <4>1, Zenon DEF LogsRight, Created
    <3> QED
      BY <3>1, <3>2, Zenon
  <2>6. ASSUME NEW d \in Server, NEW u \in Terms, Reigned(reigns', d, u)
        PROVE  Newest(Pieces', persister'[d].CurrentTerm, LogLength(d)', u)
    <3>1. PICK f, g, l, l2 : /\ f = persister[d].CurrentTerm /\ g = persister'[d].CurrentTerm
                             /\ l = LogLength(d) /\ l2 = LogLength(d)'
      BY Zenon
    <3>2. f \in Nat /\ g \in Nat /\ f <= g /\ l \in Nat /\ l2 \in Nat /\ u \in Nat
      BY <3>1, PiecesTyped, PiecesTypedNext, TermNumbers, Zenon DEF DiskRises
    <3>3. l <= l2
      <4>1. CASE d = s
        <5>1. l2 = l + 1
          BY <1>1, <1>4, <3>1, <4>1, Zenon
        <5> QED
          BY <3>2, <5>1
      <4>2. CASE d # s
        <5>1. l2 = l
          BY <1>11, <3>1, <4>2, Zenon
        <5> QED
          BY <3>2, <5>1
      <4> QED
        BY <4>1, <4>2, Zenon
    <3>4. Newest(Pieces, f, l, u)
      BY <1>2, <1>13, <2>6, <3>1, Zenon DEF LogsRight
    <3>5. Newest(Pieces, g, l2, u)
      <4>1. NoNew(Pieces, Pieces)
        BY Zenon DEF NoNew
      <4>2. \A p \in Pieces : \A i \in Indices(p) : i \in Nat
        BY <1>12, PieceIndices, Zenon
      <4> QED
        BY <3>2, <3>3, <3>4, <4>1, <4>2, NewestKept, Zenon
    <3>6. ASSUME g <= u, NEW q \in Pieces', NEW i \in Indices(q), TermAt(q, i) = u
          PROVE  g = u /\ i < l2
      <4>1. CASE i = K /\ u = t
        <5>1. d = s
          BY <1>2, <1>10, <1>13, <2>6, <4>1, ReceiverFollows, Zenon
        <5>2. g = t
          BY <1>1, <1>2, <3>1, <5>1, PersistTerm, Zenon
        <5>3. l2 = K + 1
          BY <1>4, <3>1, <5>1, Zenon
        <5> QED
          BY <1>3, <4>1, <5>2, <5>3
      <4>2. CASE ~(i = K /\ u = t)
        <5>1. PICK p \in Pieces : i \in Indices(p) /\ TermAt(p, i) = u
          BY <2>4, <3>6, <4>2, Zenon
        <5> QED
          BY <3>5, <3>6, <5>1, Zenon DEF Newest
      <4> QED
        BY <4>1, <4>2, Zenon
    <3> QED
      BY <3>1, <3>6, Zenon DEF Newest
  <2> QED
    BY <2>3, <2>5, <2>6, Zenon DEF LogsRight
<1>14. TwoLeaders => TwoLeaders'
  BY <1>2, Zenon DEF TwoLeaders
<1> QED
  BY <1>5, <1>13, <1>14, Zenon DEF LogInv

-----------------------------------------------------------------------------

\* New peers have no entries and no leader.
LEMMA LogInit == Init => LogInv
<1> SUFFICES ASSUME Init PROVE LogInv
  BY Zenon
<1>1. /\ \A s \in Server : State[s] = FOLLOWER /\ LogPiece(s) = [base |-> 0, log |-> <<[LogTerm |-> 0, Command |-> Nil]>>]
      /\ appendCalls = {} /\ snapshotCalls = {} /\ reigns = {}
  BY Zenon DEF Init, LogPiece
<1>2. FOLLOWER # LEADER
  BY DEF FOLLOWER, LEADER
<1>3. Appointed
  BY <1>1, <1>2, Zenon DEF Appointed
<1>4. PICK p : p = [base |-> 0, log |-> <<[LogTerm |-> 0, Command |-> Nil]>>]
  BY Zenon
<1>5. \A q \in Pieces : q = p
  BY <1>1, <1>4, Zenon DEF Pieces
<1>6. AllMatch(Pieces)
  BY <1>5, MatchSelf, Zenon DEF AllMatch
<1>7. \A i \in Indices(p) : TermAt(p, i) = 0
  <2>1. p.base = 0 /\ p.log = <<[LogTerm |-> 0, Command |-> Nil]>>
    BY <1>4, Zenon
  <2>2. Indices(p) = 0..(0 + 1 - 1)
    BY <2>1, Zenon DEF Indices
  <2>3. \A i \in Indices(p) : i - 0 + 1 = 1
    BY <2>2
  <2>4. \A i \in Indices(p) : PieceAt(p, i) = [LogTerm |-> 0, Command |-> Nil]
    BY <2>1, <2>3 DEF PieceAt
  <2> QED
    BY <2>4 DEF TermAt
<1>8. Created(reigns, Pieces)
  BY <1>5, <1>7, Zenon DEF Created
<1>9. \A s \in Server, t \in Terms : ~Reigned(reigns, s, t)
  BY <1>1, Zenon DEF Reigned
<1> QED
  BY <1>3, <1>6, <1>8, <1>9, Zenon DEF LogInv, LogsRight

\* The entries of a peer's log are those of its piece.
LEMMA HeldPiece ==
  TypeOK => \A s \in Server : /\ Indices(LogPiece(s)) = LastIncludedIndex[s]..(LogLength(s) - 1)
                              /\ LastIncludedIndex[s] \in Nat /\ LogLength(s) \in Nat
                              /\ LogPiece(s).base = LastIncludedIndex[s]
                              /\ \A i : EntryAt(s, i) = PieceAt(LogPiece(s), i)
<1> SUFFICES ASSUME TypeOK, NEW s \in Server
             PROVE  /\ Indices(LogPiece(s)) = LastIncludedIndex[s]..(LogLength(s) - 1)
                    /\ LastIncludedIndex[s] \in Nat /\ LogLength(s) \in Nat
                    /\ LogPiece(s).base = LastIncludedIndex[s]
                    /\ \A i : EntryAt(s, i) = PieceAt(LogPiece(s), i)
  BY Zenon
<1>1. LogPiece(s).base = LastIncludedIndex[s] /\ LogPiece(s).log = Log[s]
  BY Zenon DEF LogPiece
<1>2. LastIncludedIndex[s] \in Nat /\ LogLength(s) \in Nat /\ Len(Log[s]) \in Nat
  BY PiecesTyped, LogReads, Zenon DEF TypeOK, DurableOK
<1>3. PICK b, L : b = LastIncludedIndex[s] /\ L = Len(Log[s])
  BY Zenon
<1>4. b + L - 1 = (L + b) - 1
  BY <1>2, <1>3
<1>5. Indices(LogPiece(s)) = LastIncludedIndex[s]..(LogLength(s) - 1)
  <2>1. Indices(LogPiece(s)) = b..(b + L - 1)
    BY <1>1, <1>3, Zenon DEF Indices
  <2>2. LogLength(s) = L + b
    BY <1>3, Zenon DEF LogLength
  <2>3. Indices(LogPiece(s)) = b..((L + b) - 1)
    BY <1>4, <2>1, Zenon
  <2> QED
    BY <1>3, <2>2, <2>3, Zenon
<1>6. \A i : EntryAt(s, i) = PieceAt(LogPiece(s), i)
  BY <1>1, Zenon DEF EntryAt, PieceAt, V2PIndex
<1> QED
  BY <1>1, <1>2, <1>5, <1>6, Zenon

\* Peer s keeps the entries it does not compact.
Keeps(s) == \A i \in Held(s) : i > LastIncludedIndex'[s] => Holds(s, i)' /\ EntryAt(s, i)' = EntryAt(s, i)

\* The same of its piece.
LEMMA PieceKeeps ==
  ASSUME TypeOK, TypeOK', NEW d \in Server, LogLength(d) <= LogLength(d)',
         \A x \in Indices(LogPiece(d)) : x \in Indices(LogPiece(d)') /\ x > LastIncludedIndex'[d] =>
           PieceAt(LogPiece(d)', x) = PieceAt(LogPiece(d), x)
  PROVE  Keeps(d)
<1>1. (TypeOK => \A s \in Server : /\ Indices(LogPiece(s)) = LastIncludedIndex[s]..(LogLength(s) - 1)
                                   /\ LastIncludedIndex[s] \in Nat /\ LogLength(s) \in Nat
                                   /\ LogPiece(s).base = LastIncludedIndex[s]
                                   /\ \A i : EntryAt(s, i) = PieceAt(LogPiece(s), i))'
  BY HeldPiece, PTL
<1> SUFFICES ASSUME NEW x \in Held(d), x > LastIncludedIndex'[d]
             PROVE  x \in Held(d)' /\ EntryAt(d, x)' = EntryAt(d, x)
  BY Zenon DEF Keeps, Holds
<1>2. PICK a, b, l, k : /\ a = LastIncludedIndex[d] /\ b = LastIncludedIndex'[d]
                        /\ l = LogLength(d) /\ k = LogLength(d)'
  BY Zenon
<1>3. a \in Nat /\ b \in Nat /\ l \in Nat /\ k \in Nat /\ l <= k
  BY <1>1, <1>2, HeldPiece, Zenon
<1>4. x \in (a + 1)..(l - 1) /\ x > b
  BY <1>2, Zenon DEF Held
<1>5. x \in a..(l - 1) /\ x \in b..(k - 1) /\ x \in (b + 1)..(k - 1)
  BY <1>3, <1>4
<1>6. x \in Indices(LogPiece(d)) /\ x \in Indices(LogPiece(d)') /\ x \in Held(d)'
  BY <1>1, <1>2, <1>5, HeldPiece, Zenon DEF Held
<1>7. PieceAt(LogPiece(d)', x) = PieceAt(LogPiece(d), x)
  BY <1>2, <1>4, <1>6, Zenon
<1> QED
  BY <1>1, <1>6, <1>7, HeldPiece, Zenon

\* A log that does not change.
LEMMA SameKeeps ==
  ASSUME NEW s \in Server, Log'[s] = Log[s], LastIncludedIndex'[s] = LastIncludedIndex[s]
  PROVE  Keeps(s)
  BY Zenon DEF Keeps, Holds, Held, EntryAt, LogLength, V2PIndex

\* A leader that stays in office in its term gets no heartbeat and no snapshot it would serve.
LEMMA LeaderNotServed ==
  ASSUME LogInv, ~TwoLeaders, NEW s \in Server, State[s] = LEADER, NEW m, m.Term = CurrentTerm[s],
         m \in appendCalls \/ m \in snapshotCalls
  PROVE  m.to # s
<1>1. Reigned(reigns, s, m.Term) /\ m.from # m.to /\ Reigned(reigns, m.from, m.Term)
  BY Zenon DEF LogInv, Appointed
<1> QED
  BY <1>1, ReceiverFollows, Zenon

\* What a step may do to the log of a leader that stays in office.
LEMMA LeaderStep ==
  ASSUME TypeOK, TypeOK', DiskInv, LogInv, Next, ~TwoLeaders, NEW s \in Server,
         State[s] = LEADER, State'[s] = LEADER, CurrentTerm'[s] = CurrentTerm[s]
  PROVE  Keeps(s)
<1>0. \A S : Running(S) \subseteq S /\ Scheduled(S) \subseteq S
  BY Zenon DEF Running, Scheduled
<1>1. ASSUME NoLogStep PROVE Keeps(s)
  <2>1. Log'[s] = Log[s] /\ LastIncludedIndex'[s] = LastIncludedIndex[s]
    BY <1>1, Zenon DEF NoLogStep, logVars
  <2> QED
    BY <2>1, SameKeeps, Zenon
<1>2. ASSUME NEW m \in appendCalls, HeartbeatConflict(m) \/ HeartbeatAccepted(m) PROVE Keeps(s)
  <2>1. m.to \in Server /\ m.Term \in Nat /\ \A i \in Server : CurrentTerm[i] \in Nat
    BY TermNumbers, ZenonT(30) DEF TypeOK, DurableOK, AppendCall
  <2>2. AdoptTerm(m.to, m.Term) /\ m.Term >= CurrentTerm[m.to]
    BY <1>2, ZenonT(30) DEF HeartbeatConflict, HeartbeatAccepted, Serves
  <2>3. CurrentTerm'[m.to] = Max(CurrentTerm[m.to], m.Term)
    BY <2>1, <2>2, TermRaises, Zenon DEF AdoptTerm
  <2>4. Max(CurrentTerm[m.to], m.Term) = m.Term
    BY <2>1, <2>2 DEF Max
  <2>5. m.to # s
    BY <2>3, <2>4, LeaderNotServed, Zenon
  <2>6. /\ \E new : Log' = [Log EXCEPT ![m.to] = new]
        /\ LastIncludedIndex' = LastIncludedIndex
    BY <1>2, ZenonT(30) DEF HeartbeatConflict, HeartbeatAccepted
  <2>7. Log'[s] = Log[s]
    BY <2>1, <2>5, <2>6, Zenon DEF TypeOK, DurableOK
  <2> QED
    BY <2>6, <2>7, SameKeeps, Zenon
<1>3. ASSUME NEW m \in snapshotCalls, InstallSnapshot(m) PROVE Keeps(s)
  <2>1. m.to \in Server /\ m.Term \in Nat
    BY TermNumbers, ZenonT(30) DEF TypeOK, SnapCall
  <2>2. /\ CurrentTerm' = [CurrentTerm EXCEPT ![m.to] = m.Term] /\ m.Term >= CurrentTerm[m.to]
        /\ Log' = [Log EXCEPT ![m.to] = KeptLog(m.to, m)]
        /\ LastIncludedIndex' = [LastIncludedIndex EXCEPT ![m.to] = m.LastIncludedIndex]
    BY <1>3, Zenon DEF InstallSnapshot
  <2>3. CurrentTerm'[m.to] = m.Term
    BY <2>1, <2>2, TermSets, Zenon
  <2>4. m.to # s
    BY <2>3, LeaderNotServed, Zenon
  <2>5. Log'[s] = Log[s] /\ LastIncludedIndex'[s] = LastIncludedIndex[s]
    BY <2>1, <2>2, <2>4, Zenon DEF TypeOK, DurableOK
  <2> QED
    BY <2>5, SameKeeps, Zenon
<1>4. ASSUME NEW d \in Server, Snapshot(d) PROVE Keeps(s)
  <2>1. CASE d = s
    <3>1. Sub(LogPiece(s)', LogPiece(s)) /\ LogLength(s)' = LogLength(s) /\ LogLength(s) \in Nat
      BY <1>4, <2>1, SnapshotParts, PiecesTyped, Zenon
    <3>2. LogLength(s) <= LogLength(s)'
      BY <3>1
    <3>3. LogPiece(s)'.base = LastIncludedIndex'[s]
      BY Zenon DEF LogPiece
    <3>4. \A i \in Indices(LogPiece(s)) : i \in Indices(LogPiece(s)') /\ i > LastIncludedIndex'[s] =>
            PieceAt(LogPiece(s)', i) = PieceAt(LogPiece(s), i)
      BY <3>1, <3>3, Zenon DEF Sub
    <3> QED
      BY <3>2, <3>4, PieceKeeps, Zenon
  <2>2. CASE d # s
    BY <1>4, <2>2, SnapshotParts, SameKeeps, Zenon
  <2> QED
    BY <2>1, <2>2, Zenon
<1>5. ASSUME NEW d \in Server, NEW command \in Command, Start(d, command) PROVE Keeps(s)
  <2>1. CASE d = s
    <3>1. PICK K : K = LogLength(s)
      BY Zenon
    <3>2. /\ Extended(LogPiece(s)', LogPiece(s), K, CurrentTerm[s]) /\ LogLength(s)' = K + 1
          /\ K \in Nat
      BY <1>5, <2>1, <3>1, StartParts, PiecesTyped, Zenon
    <3>3. K <= K + 1 /\ ~(K < K)
      BY <3>2
    <3>4. \A i \in Indices(LogPiece(s)) : i \in Indices(LogPiece(s)') =>
            PieceAt(LogPiece(s)', i) = PieceAt(LogPiece(s), i)
      BY <3>2, <3>3, Zenon DEF Extended
    <3> QED
      BY <3>1, <3>2, <3>3, <3>4, PieceKeeps, Zenon
  <2>2. CASE d # s
    BY <1>5, <2>2, StartParts, SameKeeps, Zenon
  <2> QED
    BY <2>1, <2>2, Zenon
<1>6. ASSUME NEW d \in Server, Restart(d) PROVE Keeps(s)
  <2>1. d # s
    <3>1. FOLLOWER # LEADER
      BY DEF FOLLOWER, LEADER
    <3>2. State'[d] = FOLLOWER
      BY <1>6, Zenon DEF Restart, TypeOK
    <3> QED
      BY <3>1, <3>2, Zenon
  <2>2. Log'[s] = Log[s] /\ LastIncludedIndex'[s] = LastIncludedIndex[s]
    BY <1>6, <2>1, Zenon DEF Restart, TypeOK, DurableOK
  <2> QED
    BY <2>2, SameKeeps, Zenon
<1>7. CASE GoroutineStep
  BY <1>0, <1>1, <1>4, <1>7, VoteNoLog, SnapshotNoLog, PeerNoLog, ZenonT(30) DEF GoroutineStep
<1>8. CASE LocalStep
  BY <1>0, <1>1, <1>5, <1>6, <1>8, PeerNoLog, ZenonT(30) DEF LocalStep
<1>9. CASE NetworkStep
  BY <1>0, <1>1, <1>2, <1>3, <1>9, VoteNoLog, HeartbeatNoLog, SnapshotNoLog, ZenonT(30) DEF NetworkStep
<1> QED
  BY <1>7, <1>8, <1>9, Zenon DEF Next

\* What peer s has applied, c being its CommitIndex, a its LastApplied, l its LastIncludedIndex,
\* v the index its service is about to save and msg what it is blocked on sending.
Above(c, a, l, v, msg) == /\ c > a => a >= l
                          /\ v <= a
                          /\ msg # Nil => msg.CommandIndex <= a

AboveAt(s) == Above(CommitIndex[s], LastApplied[s], LastIncludedIndex[s], saving[s], applyMsg[s])

\* The inductive invariant of ApplyAboveSnapshot: whatever the service is about to save, or is
\* being sent, has been applied.
ApplyInv == \A s \in Server : AboveAt(s)

\* A step that has nothing to do with applying.
NoApplyStep == UNCHANGED <<commitVars, LastIncludedIndex, applyMsg, saving>>

\* A step that changes what peer s has applied and nobody else's.
OnlyApplies(s) ==
  \A d \in Server \ {s} : /\ CommitIndex'[d] = CommitIndex[d] /\ LastApplied'[d] = LastApplied[d]
                          /\ LastIncludedIndex'[d] = LastIncludedIndex[d]
                          /\ saving'[d] = saving[d] /\ applyMsg'[d] = applyMsg[d]

\* A step that applies nothing keeps the invariant.
LEMMA NoApplyKeeps ==
  ASSUME ApplyInv, NoApplyStep
  PROVE  ApplyInv'
  BY Zenon DEF ApplyInv, AboveAt, NoApplyStep, commitVars

\* So does one that keeps it for the one peer it concerns.
LEMMA OnlyAppliesKeeps ==
  ASSUME ApplyInv, NEW s \in Server, OnlyApplies(s), AboveAt(s)'
  PROVE  ApplyInv'
<1>1. ASSUME NEW d \in Server \ {s} PROVE AboveAt(d)'
  BY <1>1, Zenon DEF OnlyApplies, ApplyInv, AboveAt
<1> QED
  BY <1>1, Zenon DEF ApplyInv

\* The numbers the invariant compares.
LEMMA ApplyTypes ==
  ASSUME TypeOK, NEW s \in Server
  PROVE  /\ CommitIndex[s] \in Nat /\ LastApplied[s] \in Nat /\ LastIncludedIndex[s] \in Nat
         /\ saving[s] \in Nat
         /\ applyMsg[s] # Nil => applyMsg[s].CommandIndex \in Nat
<1>1. applyMsg[s] # Nil => applyMsg[s] \in ApplyMsg
  BY Zenon DEF TypeOK
<1>2. \A x \in ApplyMsg : x.CommandIndex \in Nat
  BY Zenon DEF ApplyMsg
<1> QED
  BY <1>1, <1>2, Zenon DEF TypeOK, DurableOK

\* LastApplied rises to the snapshot, if it was below.
LEMMA RaisedAbove ==
  ASSUME NEW c \in Nat, NEW a \in Nat, NEW l \in Nat, NEW v \in Nat, NEW msg,
         msg # Nil => msg.CommandIndex \in Nat,
         Above(c, a, l, v, msg), NEW n, NEW k \in Nat
  PROVE  Above(n, Max(a, k), k, v, msg)
<1>1. PICK x : x = Max(a, k)
  BY Zenon
<1>2. x \in Nat /\ x >= k /\ a <= x
  BY <1>1 DEF Max
<1>3. v <= x
  BY <1>2 DEF Above
<1>4. ASSUME msg # Nil PROVE msg.CommandIndex <= x
  <2>1. PICK y : y = msg.CommandIndex
    BY Zenon
  <2>2. y \in Nat /\ y <= a
    BY <1>4, <2>1, Zenon DEF Above
  <2>3. y <= x
    BY <1>2, <2>2
  <2> QED
    BY <2>1, <2>3, Zenon
<1> QED
  BY <1>1, <1>2, <1>3, <1>4, Zenon DEF Above

\* HeartbeatHandler and SendHeartbeat raise LastApplied with CommitIndex.
LEMMA CommitKeeps ==
  ASSUME TypeOK, ApplyInv, NEW m \in appendCalls, HeartbeatAccepted(m) \/ HeartbeatReplySuccess(m)
  PROVE  ApplyInv'
<1>0. m.from \in Server /\ m.to \in Server
  BY ZenonT(30) DEF TypeOK, AppendCall
<1>1. UNCHANGED <<LastIncludedIndex, applyMsg, saving>>
  BY ZenonT(30) DEF HeartbeatAccepted, HeartbeatReplySuccess, applyVars, logVars
<1>2. \/ UNCHANGED commitVars
      \/ \E s \in Server : \E n : /\ CommitIndex' = [CommitIndex EXCEPT ![s] = n]
                                  /\ LastApplied' = [LastApplied EXCEPT ![s] = RaisedLastApplied(s)]
  <2>1. CASE HeartbeatReplySuccess(m)
    BY <1>0, <2>1, ZenonT(30) DEF HeartbeatReplySuccess
  <2>2. CASE HeartbeatAccepted(m)
    <3>1. CASE m.LeaderCommit > CommitIndex[m.to]
      BY <1>0, <2>2, <3>1, ZenonT(30) DEF HeartbeatAccepted
    <3>2. CASE ~(m.LeaderCommit > CommitIndex[m.to])
      BY <2>2, <3>2, ZenonT(30) DEF HeartbeatAccepted, commitVars
    <3> QED
      BY <3>1, <3>2, Zenon
  <2> QED
    BY <2>1, <2>2, Zenon
<1>3. CASE UNCHANGED commitVars
  BY <1>1, <1>3, NoApplyKeeps, Zenon DEF NoApplyStep
<1>4. CASE ~UNCHANGED commitVars
  <2>1. PICK s \in Server : \E n : /\ CommitIndex' = [CommitIndex EXCEPT ![s] = n]
                                   /\ LastApplied' = [LastApplied EXCEPT ![s] = RaisedLastApplied(s)]
    BY <1>2, <1>4, Zenon
  <2>2. PICK n : /\ CommitIndex' = [CommitIndex EXCEPT ![s] = n]
                 /\ LastApplied' = [LastApplied EXCEPT ![s] = RaisedLastApplied(s)]
    BY <2>1, Zenon
  <2>3. CommitIndex'[s] = n /\ LastApplied'[s] = Max(LastApplied[s], LastIncludedIndex[s])
    BY <2>2, Zenon DEF TypeOK, RaisedLastApplied
  <2>4. OnlyApplies(s)
    BY <1>1, <2>2, Zenon DEF OnlyApplies, TypeOK
  <2>5. Above(n, Max(LastApplied[s], LastIncludedIndex[s]), LastIncludedIndex[s], saving[s], applyMsg[s])
    BY ApplyTypes, RaisedAbove, Zenon DEF ApplyInv, AboveAt
  <2>6. AboveAt(s)'
    BY <1>1, <2>3, <2>5, Zenon DEF AboveAt
  <2> QED
    BY <2>4, <2>6, OnlyAppliesKeeps, Zenon
<1> QED
  BY <1>3, <1>4, Zenon

\* InstallSnapshot raises both to the snapshot.
LEMMA InstallApplies ==
  ASSUME TypeOK, ApplyInv, NEW m \in snapshotCalls, InstallSnapshot(m)
  PROVE  ApplyInv'
<1>0. m.to \in Server /\ m.LastIncludedIndex \in Nat
  BY ZenonT(30) DEF TypeOK, SnapCall
<1>1. PICK s \in Server, k \in Nat : s = m.to /\ k = m.LastIncludedIndex
  BY <1>0, Zenon
<1>2. /\ LastApplied' = [LastApplied EXCEPT ![s] = Max(LastApplied[s], k)]
      /\ CommitIndex' = [CommitIndex EXCEPT ![s] = Max(CommitIndex[s], k)]
      /\ LastIncludedIndex' = [LastIncludedIndex EXCEPT ![s] = k]
      /\ UNCHANGED <<applyMsg, saving>>
  BY <1>1, ZenonT(30) DEF InstallSnapshot, AppliedWithSnapshot, applyVars
<1>3. OnlyApplies(s)
  BY <1>2, Zenon DEF OnlyApplies, TypeOK, DurableOK
<1>4. Above(Max(CommitIndex[s], k), Max(LastApplied[s], k), k, saving[s], applyMsg[s])
  BY ApplyTypes, RaisedAbove, Zenon DEF ApplyInv, AboveAt
<1>5. AboveAt(s)'
  BY <1>2, <1>4, Zenon DEF AboveAt, TypeOK, DurableOK
<1> QED
  BY <1>3, <1>5, OnlyAppliesKeeps, Zenon

\* The service, the apply goroutine and a restart.
LEMMA ServiceKeeps ==
  ASSUME TypeOK, ApplyInv, NEW s \in Server,
         Snapshot(s) \/ ApplyGoroutine(s) \/ ServiceApplies(s) \/ Restart(s)
  PROVE  ApplyInv'
<1>0. PICK c, a, l, v, msg : /\ c = CommitIndex[s] /\ a = LastApplied[s] /\ l = LastIncludedIndex[s]
                             /\ v = saving[s] /\ msg = applyMsg[s]
  BY Zenon
<1>1. /\ c \in Nat /\ a \in Nat /\ l \in Nat /\ v \in Nat
      /\ msg # Nil => msg.CommandIndex \in Nat
      /\ Above(c, a, l, v, msg)
  BY <1>0, ApplyTypes, Zenon DEF ApplyInv, AboveAt
<1>2. CASE Snapshot(s)
  <2>1. /\ LastIncludedIndex' = [LastIncludedIndex EXCEPT ![s] = v] /\ saving' = [saving EXCEPT ![s] = 0]
        /\ UNCHANGED <<commitVars, applyMsg>>
    BY <1>0, <1>2, Zenon DEF Snapshot
  <2>2. OnlyApplies(s)
    BY <2>1, Zenon DEF OnlyApplies, TypeOK, DurableOK, commitVars
  <2>3. Above(c, a, v, 0, msg)
    <3>1. v <= a /\ (msg # Nil => msg.CommandIndex <= a)
      BY <1>1, Zenon DEF Above
    <3>2. a >= v /\ 0 <= a
      BY <1>1, <3>1
    <3> QED
      BY <3>1, <3>2, Zenon DEF Above
  <2>4. AboveAt(s)'
    BY <1>0, <2>1, <2>3, Zenon DEF AboveAt, TypeOK, DurableOK, commitVars
  <2> QED
    BY <2>2, <2>4, OnlyAppliesKeeps, Zenon
<1>3. CASE ApplyGoroutine(s)
  <2>1. PICK command : applyMsg' = [applyMsg EXCEPT ![s] = [CommandIndex |-> a + 1, Command |-> command]]
    BY <1>0, <1>3, Zenon DEF ApplyGoroutine
  <2>2. PICK new : new = [CommandIndex |-> a + 1, Command |-> command]
    BY Zenon
  <2>3. /\ LastApplied' = [LastApplied EXCEPT ![s] = a + 1] /\ UNCHANGED <<CommitIndex, LastIncludedIndex, saving>>
        /\ c > a
    BY <1>0, <1>3, Zenon DEF ApplyGoroutine, logVars
  <2>4. OnlyApplies(s)
    BY <2>1, <2>3, Zenon DEF OnlyApplies, TypeOK, DurableOK
  <2>5. new.CommandIndex = a + 1
    BY <2>2, Zenon
  <2>6. Above(c, a + 1, l, v, new)
    <3>1. a >= l /\ v <= a
      BY <1>1, <2>3, Zenon DEF Above
    <3>2. a + 1 >= l /\ v <= a + 1 /\ a + 1 <= a + 1
      BY <1>1, <3>1
    <3> QED
      BY <2>5, <3>2, Zenon DEF Above
  <2>7. AboveAt(s)'
    BY <1>0, <2>1, <2>2, <2>3, <2>6, Zenon DEF AboveAt, TypeOK, DurableOK
  <2> QED
    BY <2>4, <2>7, OnlyAppliesKeeps, Zenon
<1>4. CASE ServiceApplies(s)
  <2>1. /\ msg # Nil /\ applyMsg' = [applyMsg EXCEPT ![s] = Nil]
        /\ UNCHANGED <<commitVars, LastIncludedIndex>>
    BY <1>0, <1>4, Zenon DEF ServiceApplies, peerVars, logVars
  <2>2. PICK w : saving' = [saving EXCEPT ![s] = w] /\ (w = msg.CommandIndex \/ w = 0)
    BY <1>0, <1>4, Zenon DEF ServiceApplies
  <2>3. OnlyApplies(s)
    BY <2>1, <2>2, Zenon DEF OnlyApplies, TypeOK, DurableOK, commitVars
  <2>4. Above(c, a, l, w, Nil)
    <3>1. (c > a => a >= l) /\ msg.CommandIndex <= a
      BY <1>1, <2>1, Zenon DEF Above
    <3>2. 0 <= a
      BY <1>1
    <3> QED
      BY <2>2, <3>1, <3>2, Zenon DEF Above
  <2>5. AboveAt(s)'
    BY <1>0, <2>1, <2>2, <2>4, Zenon DEF AboveAt, TypeOK, DurableOK, commitVars
  <2> QED
    BY <2>3, <2>5, OnlyAppliesKeeps, Zenon
<1>5. CASE Restart(s)
  <2>1. PICK k : LastIncludedIndex' = [LastIncludedIndex EXCEPT ![s] = k]
    BY <1>5, Zenon DEF Restart
  <2>2. /\ CommitIndex' = [CommitIndex EXCEPT ![s] = 0] /\ LastApplied' = [LastApplied EXCEPT ![s] = 0]
        /\ applyMsg' = [applyMsg EXCEPT ![s] = Nil] /\ saving' = [saving EXCEPT ![s] = 0]
    BY <1>5, Zenon DEF Restart
  <2>3. OnlyApplies(s)
    BY <2>1, <2>2, Zenon DEF OnlyApplies, TypeOK, DurableOK
  <2>4. Above(0, 0, k, 0, Nil)
    <3>1. ~(0 > 0) /\ 0 <= 0
      OBVIOUS
    <3> QED
      BY <3>1, Zenon DEF Above
  <2>5. AboveAt(s)'
    BY <2>1, <2>2, <2>4, Zenon DEF AboveAt, TypeOK, DurableOK
  <2> QED
    BY <2>3, <2>5, OnlyAppliesKeeps, Zenon
<1> QED
  BY <1>2, <1>3, <1>4, <1>5, Zenon

\* A panic applies nothing.
LEMMA StopApplies ==
  ASSUME NEW what, Stop(what)
  PROVE  NoApplyStep
  BY Zenon DEF Stop, peerVars, logVars, applyVars, NoApplyStep

\* Nor does any other step.
LEMMA VoteApplies ==
  ASSUME NEW m, \/ RequestVoteHandler(m) \/ VoteReplyStale(m) \/ VoteReplyCurrent(m)
                \/ CountVote(m) \/ VoteRefused(m) \/ BecomeLeader(m)
  PROVE  NoApplyStep
<1>1. CASE RequestVoteHandler(m) \/ VoteReplyStale(m) \/ VoteReplyCurrent(m)
  BY <1>1, Zenon DEF RequestVoteHandler, VoteReplyStale, VoteReplyCurrent, peerVars, logVars,
     applyVars, NoApplyStep
<1>2. CASE CountVote(m) \/ VoteRefused(m) \/ BecomeLeader(m)
  BY <1>2, Zenon DEF CountVote, VoteRefused, BecomeLeader, peerVars, logVars, applyVars, NoApplyStep
<1> QED
  BY <1>1, <1>2, Zenon

\* Nor does a heartbeat that commits nothing.
LEMMA HeartbeatApplies ==
  ASSUME NEW m, \/ HeartbeatRefused(m) \/ HeartbeatMissing(m) \/ HeartbeatPanics(m)
                \/ HeartbeatConflict(m) \/ HeartbeatReplyStale(m) \/ HeartbeatReplyDeposes(m)
                \/ HeartbeatReplyPanics(m) \/ HeartbeatReplyFailure(m)
  PROVE  NoApplyStep
<1>1. CASE HeartbeatRefused(m) \/ HeartbeatMissing(m) \/ HeartbeatConflict(m)
  BY <1>1, Zenon DEF HeartbeatRefused, HeartbeatMissing, HeartbeatConflict, peerVars, logVars,
     applyVars, NoApplyStep
<1>2. CASE HeartbeatReplyStale(m) \/ HeartbeatReplyDeposes(m) \/ HeartbeatReplyFailure(m)
  BY <1>2, Zenon DEF HeartbeatReplyStale, HeartbeatReplyDeposes, HeartbeatReplyFailure, peerVars,
     logVars, applyVars, NoApplyStep
<1>3. CASE HeartbeatPanics(m) \/ HeartbeatReplyPanics(m)
  BY <1>3, StopApplies, Zenon DEF HeartbeatPanics, HeartbeatReplyPanics
<1> QED
  BY <1>1, <1>2, <1>3, Zenon

\* Nor do the steps of a snapshot call around the one that installs it.
LEMMA SnapshotApplies ==
  ASSUME NEW m, \/ ReadSnapshotData(m) \/ InstallRefused(m) \/ SnapshotReply(m)
                \/ ServiceInstalls(m) \/ ServiceMismatch(m)
  PROVE  NoApplyStep
<1>1. CASE ServiceMismatch(m)
  BY <1>1, StopApplies, Zenon DEF ServiceMismatch
<1>2. CASE ~ServiceMismatch(m)
  BY <1>2, Zenon DEF ReadSnapshotData, InstallRefused, SnapshotReply, ServiceInstalls, peerVars,
     logVars, applyVars, NoApplyStep
<1> QED
  BY <1>1, <1>2, Zenon

\* Nor do the timers, Start() and the steps that panic.
LEMMA PeerApplies ==
  ASSUME NEW s, \/ ElectLauncher(s) \/ HeartBeatGoroutine(s) \/ ApplyPanics(s)
                \/ ServiceOutOfOrder(s) \/ SnapshotPanics(s) \/ \E command \in Command : Start(s, command)
  PROVE  NoApplyStep
<1>1. CASE ElectLauncher(s) \/ \E command \in Command : Start(s, command)
  BY <1>1, Zenon DEF ElectLauncher, Start, logVars, applyVars, NoApplyStep
<1>2. CASE HeartBeatGoroutine(s)
  BY <1>2, StopApplies, Zenon DEF HeartBeatGoroutine, peerVars, logVars, applyVars, NoApplyStep
<1>3. CASE ApplyPanics(s) \/ ServiceOutOfOrder(s) \/ SnapshotPanics(s)
  BY <1>3, StopApplies, Zenon DEF ApplyPanics, ServiceOutOfOrder, SnapshotPanics
<1> QED
  BY <1>1, <1>2, <1>3, Zenon

\* Every step keeps the invariant.
LEMMA ApplyStep == TypeOK /\ ApplyInv /\ [Next]_vars => ApplyInv'
<1> SUFFICES ASSUME TypeOK, ApplyInv, [Next]_vars PROVE ApplyInv'
  BY Zenon
<1>0. \A S : Running(S) \subseteq S /\ Scheduled(S) \subseteq S
  BY Zenon DEF Running, Scheduled
<1>1. CASE GoroutineStep
  BY <1>0, <1>1, NoApplyKeeps, VoteApplies, SnapshotApplies, PeerApplies, ServiceKeeps, ZenonT(30)
     DEF GoroutineStep
<1>2. CASE LocalStep
  BY <1>0, <1>2, NoApplyKeeps, PeerApplies, ServiceKeeps, ZenonT(30) DEF LocalStep
<1>3. CASE NetworkStep
  BY <1>0, <1>3, NoApplyKeeps, VoteApplies, HeartbeatApplies, SnapshotApplies, CommitKeeps,
     InstallApplies, ZenonT(30) DEF NetworkStep
<1>4. CASE UNCHANGED vars
  BY <1>4, NoApplyKeeps, Zenon DEF vars, peerVars, logVars, applyVars, NoApplyStep
<1> QED
  BY <1>1, <1>2, <1>3, <1>4, Zenon DEF Next

=============================================================================
