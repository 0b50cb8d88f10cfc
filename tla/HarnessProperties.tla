-------------------------- MODULE HarnessProperties --------------------------
(***************************************************************************)
(* What the tester and the network promise to the servers and their        *)
(* clients.                                                                *)
(***************************************************************************)
EXTENDS Harness

\* The variables of the tester keep their types.  In particular a server has had at most two
\* persisters for each of its incarnations (one from ShutdownServer and one from StartServer).
TypeOK ==
  /\ ends \subseteq Endname /\ enabled \in [Endname -> BOOLEAN]
  /\ connections \in [Endname -> Server \cup {Nil}]
  /\ servers \in [Server -> Instance \cup {Nil}]
  /\ gen \in [Server -> 0..MaxGen] /\ kvservers \subseteq Server
  /\ DOMAIN saved = Server /\ \A i \in Server : saved[i] \in -1..2 * gen[i] + 1
  /\ DOMAIN disk = Server \X (0..2 * MaxGen + 1)
  /\ \A p \in DOMAIN disk : disk[p] \subseteq Update
  /\ mem \in [Instance -> SUBSET Update]
  /\ \A a \in acked : a.server \in Server /\ a.update \in Update

\* An update for which a caller has got a positive reply is in the persister that the tester will
\* hand to the next instance of that server, and in the state of the instance that runs: no
\* reply is "positive ... but persisting the result in the superseded Persister"
\* (kvraft/config.go:265).
AckedPersisted ==
  \A a \in acked : /\ a.update \in disk[<<a.server, saved[a.server]>>]
                   /\ a.server \in kvservers => a.update \in mem[InstanceOf(a.server)]

\* An instance that has been replaced reaches nobody: none of its ends is enabled again
\* (ShutdownServer before StartServer with fresh names, kvraft/config.go:259 and 294).
OldInstanceDisabled == \A s \in Instance : s[2] < gen[s[1]] => \A j \in Server : ~enabled[<<s, j>>]

\* The end by which server i sends to server j, once the tester has no Enable left to do on it, is
\* enabled if and only if the last partition or ConnectAll put the two into one group and neither
\* was shut down since: also in the middle of a function, while calls go on, and after restarts
\* (partition, ConnectAll, ShutdownServer and StartServer, kvraft/config.go:168 to 300).
Pending(e) == \E k \in DOMAIN script : script[k].op = "Enable" /\ script[k].end = e
PartitionIsolates ==
  \A i, j \in Server : Pending(endname(i, j)) \/ (enabled[endname(i, j)] <=> <<i, j>> \in linked)

\* "Call() is guaranteed to return (perhaps after a delay) *except* if the handler function on the
\* server side does not return" (labrpc.go:37): a call that does not return waits for a handler
\* on a server that is neither deleted nor replaced nor cut off from the caller.
CallNotStuck ==
  \A c \in Caller : []<>(\/ Stage(c) \in {"idle", "returned"}
                         \/ Stage(c) = "executing" /\ ~isServerDead(c))

=============================================================================
