------------------------------- MODULE Harness -------------------------------
(***************************************************************************)
(* The tester of src/kvraft/config.go (src/shardctrler/config.go repeats   *)
(* it for its own servers), which starts, shuts down, restarts and         *)
(* partitions the servers while calls are in progress on the network of    *)
(* Labrpc, and the persisters of src/raft/persister.go that it hands to    *)
(* them.                                                                   *)
(*                                                                         *)
(* The operations of the network take its lock one by one, so a function   *)
(* of the tester is the sequence of the operations it performs: it is put  *)
(* into script and performed one operation at a time.                      *)
(*                                                                         *)
(* An instance <<i, g>> is the g-th incarnation of server i.  Its state is *)
(* the set of the updates it has accepted; a handler adds one and saves    *)
(* the state before it answers, as the handlers of raft.go do.             *)
(***************************************************************************)
EXTENDS Labrpc, Functions

CONSTANTS n, Clerk,
          Group,       \* the lists of servers that the tests give to partition and makeClient
          MaxGen,      \* bound: restarts of one server
          MaxFaults,   \* bound: functions the tester calls
          MaxCalls     \* bound: calls that are made

Server == 0..(n - 1)
Update == 1..MaxCalls

ASSUME HarnessAssumption ==
  /\ n \in Nat \ {0} /\ \A p \in Group : p \in Seq(Server)
  /\ MaxGen \in Nat /\ MaxFaults \in Nat /\ MaxCalls \in Nat
  /\ Servername = Server /\ Instance = Server \X (0..MaxGen)
  /\ Caller = Clerk \cup Instance
  /\ Endname = Caller \X Server
  /\ Nil \notin Caller \cup Server /\ Clerk \cap Instance = {}

VARIABLES gen,       \* the incarnation of each server, which names endnames[i]
          kvservers, \* the servers that are not nil in cfg.kvservers
          saved,     \* the number of the persister in cfg.saved[i], -1 for nil
          disk,      \* the content of the persisters <<i, number>>
          persister, \* the persister of each instance
          mem,       \* the state of each instance
          clerks,    \* the clerks that exist
          script,    \* what is left of the tester's current function
          linked,    \* history: the pairs of servers that are to be connected
          faults, sent,
          acked      \* history: the updates for which a caller has a positive reply

cfgVars == <<gen, kvservers, saved, disk, persister, mem, clerks>>
testVars == <<script, linked, faults>>
vars == <<netVars, cfgVars, testVars, sent, acked>>

\* The sequences of ss, one after the other.
Joined(ss) == LET f[k \in 1..Len(ss)] == IF k = 1 THEN ss[k] ELSE f[k - 1] \o ss[k]
              IN  IF ss = <<>> THEN <<>> ELSE f[Len(ss)]

All == [k \in 1..n |-> k - 1]
InstanceOf(i) == <<i, gen[i]>>
endname(i, j) == <<InstanceOf(i), j>>

-----------------------------------------------------------------------------
(* The functions of the tester                                             *)

EnableOp(e, yes) == [op |-> "Enable", end |-> e, yes |-> yes]
ServerOp(name, i) == [op |-> name, server |-> i]
MakeEndOp(e) == [op |-> "MakeEnd", end |-> e]
ReliableOp(yes) == [op |-> "Reliable", yes |-> yes]

connectUnlocked(i, to) == [k \in 1..Len(to) |-> EnableOp(endname(i, to[k]), TRUE)]
                          \o [k \in 1..Len(to) |-> EnableOp(endname(to[k], i), TRUE)]

disconnectUnlocked(i, from) == [k \in 1..Len(from) |-> EnableOp(endname(i, from[k]), FALSE)]
                               \o [k \in 1..Len(from) |-> EnableOp(endname(from[k], i), FALSE)]

\* An Enable that finds the end as it wants it is left out: none of the functions enables and
\* disables the same end.
Changes(o) == o.op = "Enable" => enabled[o.end] # o.yes
Kept(ops) == Joined([k \in 1..Len(ops) |-> IF Changes(ops[k]) THEN <<ops[k]>> ELSE <<>>])

\* The tester calls its next function, which performs the operations ops.
Begin(ops) ==
  /\ script = <<>> /\ faults < MaxFaults
  /\ faults' = faults + 1
  /\ script' = Kept(ops)
  /\ UNCHANGED <<netVars, disk, persister, mem, sent, acked>>

connectAllOps == Joined([k \in 1..n |-> connectUnlocked(All[k], All)])

ConnectAll ==
  /\ kvservers = Server
  /\ Begin(connectAllOps)
  /\ linked' = Server \X Server
  /\ UNCHANGED <<gen, kvservers, saved, clerks>>

\* The two groups of a partition, as make_partition and the tests' partitioner make them.
Split(p1, p2) == Range(p1) \cap Range(p2) = {} /\ Range(p1) \cup Range(p2) = Server

Inside(p1, p2) == (Range(p1) \X Range(p1)) \cup (Range(p2) \X Range(p2))

\* Mutant: the servers of a group are not connected again.
partitionOnly(p1, p2) ==
  LET Part(a, b) == Joined([k \in 1..Len(a) |-> disconnectUnlocked(a[k], b)])
  IN /\ kvservers = Server /\ Split(p1, p2)
     /\ Begin(Part(p1, p2) \o Part(p2, p1))
     /\ linked' = Inside(p1, p2)
     /\ UNCHANGED <<gen, kvservers, saved, clerks>>

\* The tests call it only while all servers are up.
partition(p1, p2) ==
  LET Part(a, b) == Joined([k \in 1..Len(a) |-> disconnectUnlocked(a[k], b)
                                                \o connectUnlocked(a[k], a)])
  IN /\ kvservers = Server /\ Split(p1, p2)
     /\ Begin(Part(p1, p2) \o Part(p2, p1))
     /\ linked' = Inside(p1, p2)
     /\ UNCHANGED <<gen, kvservers, saved, clerks>>

ConnectClientUnlocked(ck, to) == [k \in 1..Len(to) |-> EnableOp(<<ck, to[k]>>, TRUE)]

makeClient(ck, to) ==
  /\ ck \notin clerks
  /\ Begin([k \in 1..n |-> MakeEndOp(<<ck, All[k]>>)] \o ConnectClientUnlocked(ck, to))
  /\ clerks' = clerks \cup {ck}
  /\ UNCHANGED <<gen, kvservers, saved, linked>>

ConnectClient(ck, to) ==
  /\ ck \in clerks
  /\ Begin(ConnectClientUnlocked(ck, to))
  /\ UNCHANGED <<gen, kvservers, saved, clerks, linked>>

Of(i) == {p \in Server \X Server : i \in {p[1], p[2]}}

\* Mutant: the persister is replaced before the server is deleted.
ShutdownServerCopyFirst(i) ==
  /\ i \in kvservers
  /\ Begin(<<ServerOp("Copy", i)>> \o disconnectUnlocked(i, All)
           \o <<ServerOp("DeleteServer", i), ServerOp("Kill", i)>>)
  /\ linked' = linked \ Of(i)
  /\ UNCHANGED <<gen, kvservers, saved, clerks>>

\* Mutant: the server stays connected.
ShutdownServerConnected(i) ==
  /\ i \in kvservers
  /\ Begin(<<ServerOp("DeleteServer", i), ServerOp("Copy", i), ServerOp("Kill", i)>>)
  /\ UNCHANGED <<gen, kvservers, saved, clerks, linked>>

ShutdownServer(i) ==
  /\ i \in kvservers
  /\ Begin(disconnectUnlocked(i, All)
           \o <<ServerOp("DeleteServer", i), ServerOp("Copy", i), ServerOp("Kill", i)>>)
  /\ linked' = linked \ Of(i)
  /\ UNCHANGED <<gen, kvservers, saved, clerks>>

\* Fresh names for the ends, which are made and connected, a fresh persister and a new instance.
StartOps(i, g) == [k \in 1..n |-> MakeEndOp(<<<<i, g>>, All[k]>>)]
                  \o <<ServerOp("Copy", i), ServerOp("StartKVServer", i), ServerOp("AddServer", i)>>

StartServer(i) ==
  /\ i \notin kvservers /\ gen[i] < MaxGen
  /\ gen' = [gen EXCEPT ![i] = @ + 1]
  /\ Begin(StartOps(i, gen[i] + 1))
  /\ UNCHANGED <<kvservers, saved, clerks, linked>>

\* make_config: a new network, and every server is started and connected.
Init ==
  /\ MakeNetwork
  /\ gen = [i \in Server |-> 0]
  /\ kvservers = {}
  /\ saved = [i \in Server |-> -1]
  /\ disk = [p \in Server \X (0..2 * MaxGen + 1) |-> {}]
  /\ persister = [s \in Instance |-> -1]
  /\ mem = [s \in Instance |-> {}]
  /\ clerks = {}
  /\ \E yes \in BOOLEAN : script = Joined([k \in 1..n |-> StartOps(All[k], 0)])
                                  \o connectAllOps \o <<ReliableOp(yes)>>
  /\ linked = Server \X Server
  /\ faults = 0 /\ sent = 0
  /\ acked = {}

-----------------------------------------------------------------------------
(* The operations they perform                                             *)

\* cfg.saved[i] becomes a new persister with the content of the old one (Persister.Copy), empty if
\* there is none (MakePersister).
Copy(i) ==
  LET old == saved[i] IN
  /\ saved' = [saved EXCEPT ![i] = old + 1]
  /\ disk' = [disk EXCEPT ![<<i, old + 1>>] = IF old = -1 THEN {} ELSE disk[<<i, old>>]]
  /\ UNCHANGED <<netVars, gen, kvservers, persister, mem, clerks>>

\* Mutant: the tester does not forget the server.
KillForgotten(i) == UNCHANGED <<netVars, cfgVars>>

\* Kill only sets a flag: the instance may go on.
Kill(i) ==
  /\ kvservers' = kvservers \ {i}
  /\ UNCHANGED <<netVars, gen, saved, disk, persister, mem, clerks>>

\* The new instance reads its state from the persister it is given.
StartKVServer(i) ==
  /\ kvservers' = kvservers \cup {i}
  /\ persister' = [persister EXCEPT ![InstanceOf(i)] = saved[i]]
  /\ mem' = [mem EXCEPT ![InstanceOf(i)] = disk[<<i, saved[i]>>]]
  /\ UNCHANGED <<netVars, gen, saved, disk, clerks>>

Perform(o) ==
  CASE o.op = "Enable" -> Enable(o.end, o.yes) /\ UNCHANGED cfgVars
    [] o.op = "MakeEnd" -> MakeEnd(o.end, o.end[2]) /\ UNCHANGED cfgVars
    [] o.op = "DeleteServer" -> DeleteServer(o.server) /\ UNCHANGED cfgVars
    [] o.op = "AddServer" -> AddServer(o.server, InstanceOf(o.server)) /\ UNCHANGED cfgVars
    [] o.op = "Reliable" -> Reliable(o.yes) /\ UNCHANGED cfgVars
    [] o.op = "Copy" -> Copy(o.server)
    [] o.op = "Kill" -> Kill(o.server)
    [] o.op = "StartKVServer" -> StartKVServer(o.server)

TesterStep ==
  /\ script # <<>>
  /\ Perform(Head(script))
  /\ script' = Tail(script)
  /\ UNCHANGED <<linked, faults, sent, acked>>

Tester == \/ ConnectAll
          \/ \E p1, p2 \in Group : partition(p1, p2)
          \/ \E ck \in Clerk, to \in Group \cup {All} : makeClient(ck, to)
          \/ \E ck \in Clerk : ConnectClient(ck, All)
          \/ \E i \in Server : ShutdownServer(i) \/ StartServer(i)

-----------------------------------------------------------------------------
(* Calls by clerks and by servers                                          *)

Started(s) == s[2] < gen[s[1]] \/ (s = InstanceOf(s[1]) /\ s[1] \in kvservers)

\* A clerk that exists, or an instance that has been started, even one that has been killed since,
\* calls server j.
Call(c, j) ==
  /\ sent < MaxCalls
  /\ IF c \in Clerk THEN c \in clerks /\ <<c, j>> \in ends ELSE Started(c) /\ c[1] # j
  /\ Send(c, <<c, j>>, sent + 1)
  /\ sent' = sent + 1
  /\ UNCHANGED <<cfgVars, testVars, acked>>

\* The handler of instance s accepts update v and saves (Persister.Save).
Accept(s, v) ==
  /\ mem' = [mem EXCEPT ![s] = @ \cup {v}]
  /\ disk' = [disk EXCEPT ![<<s[1], persister[s]>>] = mem[s] \cup {v}]

Handle(c) ==
  /\ HandlerReturns(c, TRUE)
  /\ Accept(calls[c].srv, calls[c].args)
  /\ UNCHANGED <<gen, kvservers, saved, persister, clerks, testVars, sent, acked>>

\* A handler that nobody waits for any more.
OrphanReturns(o) ==
  /\ orphans' = orphans \ {o}
  /\ Accept(o.srv, o.args)
  /\ UNCHANGED <<tableVars, calls, gen, kvservers, saved, persister, clerks, testVars, sent, acked>>

NetStep(c) ==
  /\ \/ readEndnameInfo(c) \/ StartHandler(c) \/ SeeServerDead(c)
     \/ CheckServer(c) \/ DropRequest(c) \/ DropReply(c)
  /\ UNCHANGED <<cfgVars, testVars, sent, acked>>

\* The caller has got a positive reply.
Reply(c) ==
  /\ DeliverReply(c)
  /\ acked' = acked \cup {[server |-> calls[c].name, update |-> calls[c].args]}
  /\ UNCHANGED <<cfgVars, testVars, sent>>

Next == \/ Tester
        \/ TesterStep
        \/ \E c \in Caller, j \in Server : Call(c, j)
        \/ \E c \in Caller : Handle(c) \/ NetStep(c) \/ Reply(c)
        \/ \E o \in orphans : OrphanReturns(o)

Spec == Init /\ [][Next]_vars

\* The goroutines of the network run and so does the tester; handlers need not return.
Fairness == /\ \A c \in Caller : WF_vars(NetStep(c) \/ Reply(c))
            /\ WF_vars(TesterStep)

FairSpec == Spec /\ Fairness

=============================================================================
