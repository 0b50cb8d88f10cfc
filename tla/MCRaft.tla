------------------------------- MODULE MCRaft -------------------------------
(***************************************************************************)
(* The Raft peer instantiated for TLC.  Besides Init, runs start from three *)
(* situations the program gets into, which saves the steps that lead there. *)
(***************************************************************************)
EXTENDS RaftProperties, TLC

Symmetry == Permutations(Server) \cup Permutations(Command)

Vote(voter, term, candidate) == [voter |-> voter, term |-> term, candidate |-> candidate]
Win(leader, term) == [leader |-> leader, elected |-> term, term |-> term]

\* The state of peers with these terms, votes, logs and snapshots, when the grants have been
\* given and the wins have happened.  The leaders are in office since their logs had the length
\* in since, and no call is in flight.
Situation(leaders, since, term, voted, log, data, grants, wins) ==
  /\ CurrentTerm = term
  /\ VotedFor = voted
  /\ State = [s \in Server |-> IF s \in leaders THEN LEADER ELSE FOLLOWER]
  /\ Log = log
  /\ LastIncludedIndex = [s \in Server |-> Len(data[s])]
  /\ LastIncludedTerm = [s \in Server |-> log[s][1].LogTerm]
  /\ SnapshotData = data
  /\ CommitIndex = [s \in Server |-> 0]
  /\ LastApplied = [s \in Server |-> 0]
  /\ NextIndex = [s \in Server |-> [i \in Server |-> IF s \in leaders THEN since[s] ELSE 0]]
  /\ MatchIndex = [s \in Server |-> [i \in Server |-> IF s \in leaders THEN -1 ELSE 0]]
  /\ persister = [s \in Server |-> Durable(s)]
  /\ vote = [s \in Server |-> [t \in 1..MaxTerm |->
               IF s \in leaders THEN Cardinality({g \in grants : g.candidate = s /\ g.term = t})
               ELSE 0]]
  /\ voteCalls = {} /\ appendCalls = {} /\ snapshotCalls = {}
  /\ applyMsg = [s \in Server |-> Nil]
  /\ applied = data
  /\ saving = [s \in Server |-> 0]
  /\ fault = "none"
  /\ restarts = 0
  /\ granted = grants
  /\ reigns = wins

Entries(t, commands) == [i \in 1..Len(commands) |-> [LogTerm |-> t, Command |-> commands[i]]]
Dummy == <<[LogTerm |-> 0, Command |-> Nil]>>
Empty == [s \in Server |-> <<>>]

\* One peer leads term 1, elected with the vote of a second one; the request to the third
\* and the first heartbeats were lost.
InitLed ==
  \E l \in Server : \E v \in Peers(l) :
    Situation({l}, [s \in Server |-> 1],
              [s \in Server |-> IF s \in {l, v} THEN 1 ELSE 0],
              [s \in Server |-> IF s \in {l, v} THEN l ELSE Nil],
              [s \in Server |-> Dummy], Empty,
              {Vote(l, 1, l), Vote(v, 1, l)}, {Win(l, 1)})

SpecLed == InitLed /\ [][Next]_vars

\* The leader a of term 1 and the leader b of term 2 each have an entry no other peer has.  Then a
\* was elected again, in term 3, and b has not heard of that.
InitDiverged ==
  \E a \in Server : \E b \in Peers(a) : \E c, d \in Command :
    Situation({a, b}, [s \in Server |-> IF s = a THEN 2 ELSE 1],
              [s \in Server |-> IF s = b THEN 2 ELSE 3],
              [s \in Server |-> IF s = b THEN b ELSE a],
              [s \in Server |-> Dummy \o (CASE s = a -> Entries(1, <<c>>)
                                            [] s = b -> Entries(2, <<d>>)
                                            [] OTHER -> <<>>)], Empty,
              {Vote(a, 1, a), Vote(b, 1, a)} \cup {Vote(s, 2, b) : s \in Peers(a)}
                \cup {Vote(s, 3, a) : s \in Peers(b)},
              {Win(a, 1), Win(b, 2), Win(a, 3)})

SpecDiverged == InitDiverged /\ [][Next]_vars

\* All peers have crashed and restarted in term 1.  The commands up to the first snapshot were
\* applied and compacted everywhere but on the lagging peers, which had received nothing; the
\* peers that were ahead have one more entry.
InitRestarted ==
  \E l \in Server, c \in Command, ahead, lagging \in SUBSET Server :
    /\ l \in ahead /\ ahead \cap lagging = {} /\ IsMajority(Cardinality(Server \ lagging))
    /\ Situation({}, Empty,
                 [s \in Server |-> IF s \in lagging THEN 0 ELSE 1],
                 [s \in Server |-> IF s \in lagging THEN Nil ELSE l],
                 [s \in Server |-> CASE s \in lagging -> Dummy
                                     [] s \in ahead -> Entries(1, <<c, c>>)
                                     [] OTHER -> Entries(1, <<c>>)],
                 [s \in Server |-> IF s \in lagging THEN <<>>
                                     ELSE [i \in 1..(SnapShotInterval - 1) |-> c]],
                 {Vote(s, 1, l) : s \in Server \ lagging}, {Win(l, 1)})

SpecRestarted == InitRestarted /\ [][Next]_vars

=============================================================================
