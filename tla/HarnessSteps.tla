---------------------------- MODULE HarnessSteps ----------------------------
(***************************************************************************)
(* The inductive invariant of the tester, and that the operations the      *)
(* tester performs one by one, the calls and the handlers preserve it.     *)
(* HarnessProofs adds the functions that the tester begins.                *)
(***************************************************************************)
EXTENDS HarnessProperties, TLAPS

\* Where a proof names no prover, Zenon finds it.
USE Zenon

\* What StartServer and ShutdownServer do to a server, in the order in which they do it.
Rank == [DeleteServer |-> 1, Copy |-> 2, StartKVServer |-> 3, AddServer |-> 4, Kill |-> 5]
OpName == {"DeleteServer", "Copy", "StartKVServer", "AddServer", "Kill"}

Op == {EnableOp(e, yes) : e \in Endname, yes \in BOOLEAN}
      \cup {ServerOp(name, i) : name \in OpName, i \in Server}
      \cup {MakeEndOp(e) : e \in Endname}
      \cup {ReliableOp(yes) : yes \in BOOLEAN}

\* In sequence s some x comes before some y.
Before(s, x, y) == \E p, q \in DOMAIN s : p < q /\ s[p] = x /\ s[q] = y

\* The operations on one server come in this order, each at most once.
Ordered(s) == \A a, b \in OpName, i \in Server :
                Before(s, ServerOp(a, i), ServerOp(b, i)) => Rank[a] < Rank[b]

\* The operations on server i that sequence s has, and those the tester has still to perform.
OpsOn(s, i) == {name \in OpName : ServerOp(name, i) \in Range(s)}
Left(i) == OpsOn(script, i)

\* Instance s has been started.
HasRun(s) == \/ s[2] < gen[s[1]]
             \/ s = InstanceOf(s[1]) /\ "StartKVServer" \notin Left(s[1])

\* The types of the variables.
Types ==
  /\ ends \subseteq Endname /\ enabled \in [Endname -> BOOLEAN]
  /\ connections \in [Endname -> Server \cup {Nil}]
  /\ servers \in [Server -> Instance \cup {Nil}]
  /\ gen \in [Server -> 0..MaxGen] /\ kvservers \subseteq Server
  /\ saved \in [Server -> Int]
  /\ disk \in [Server \X (0..2 * MaxGen + 1) -> SUBSET Update]
  /\ persister \in [Instance -> Int]
  /\ mem \in [Instance -> SUBSET Update]
  /\ script \in Seq(Op) /\ Ordered(script)
  /\ sent \in 0..MaxCalls
  /\ DOMAIN calls = Caller

\* The life of server i: it is started, runs, is shut down and is down.  Each incarnation has one
\* persister while it runs and leaves another one behind.
Starting(i) == i \notin kvservers /\ servers[i] = Nil
Cut(i) == i \in kvservers /\ servers[i] = Nil

Life(i) ==
  \/ Left(i) = {"Copy", "StartKVServer", "AddServer"} /\ Starting(i) /\ saved[i] = 2 * gen[i] - 1
  \/ Left(i) = {"StartKVServer", "AddServer"} /\ Starting(i) /\ saved[i] = 2 * gen[i]
  \/ Left(i) = {"AddServer"} /\ Cut(i) /\ saved[i] = 2 * gen[i]
  \/ /\ Left(i) \in {{}, {"DeleteServer", "Copy", "Kill"}}
     /\ i \in kvservers /\ servers[i] = InstanceOf(i) /\ saved[i] = 2 * gen[i]
  \/ Left(i) = {"Copy", "Kill"} /\ Cut(i) /\ saved[i] = 2 * gen[i]
  \/ Left(i) = {"Kill"} /\ Cut(i) /\ saved[i] = 2 * gen[i] + 1
  \/ Left(i) = {} /\ Starting(i) /\ saved[i] = 2 * gen[i] + 1

Lives == \A i \in Server : Life(i)

\* What an instance has in memory it has saved, in a persister of its own; once the tester has
\* copied it, the instance has at least what was copied.
DisksRight ==
  /\ \A s \in Instance :
       /\ HasRun(s) => persister[s] = 2 * s[2] /\ mem[s] = disk[<<s[1], 2 * s[2]>>]
       /\ ~HasRun(s) => persister[s] = -1
  /\ \A i \in Server : Left(i) = {"Kill"} => disk[<<i, saved[i]>>] \subseteq mem[InstanceOf(i)]

\* Update v of server i will be given to the next instance.
Safe(i, v) == saved[i] >= 0 /\ v \in disk[<<i, saved[i]>>]

\* q has the fields of a call.
IsCall(q) == DOMAIN q = {"stage", "end", "name", "srv", "lossy", "args", "ok", "reply"}

\* An update that its handler has accepted is in memory, and one that will be answered is safe.
CallRight(c) ==
  LET q == calls[c] IN
  /\ IsCall(q)
  /\ q.stage \in {"idle", "sent", "forwarded", "executing", "executed", "answering", "returned"}
  /\ q.stage \notin {"idle", "returned"} => q.end \in Endname /\ q.args \in Update
  /\ q.stage \in {"forwarded", "executing", "executed", "answering"} =>
       /\ q.name \in Server /\ q.srv \in Instance /\ q.srv[1] = q.name
       /\ HasRun(q.srv)
  /\ q.stage = "executed" => q.args \in mem[q.srv]
  /\ q.stage = "answering" => Safe(q.name, q.args)

CallsRight ==
  /\ \A c \in Caller : CallRight(c)
  /\ \A o \in orphans : o.srv \in Instance /\ HasRun(o.srv) /\ o.args \in Update
  /\ \A a \in acked : a.server \in Server /\ a.update \in Update /\ Safe(a.server, a.update)

\* Only ends of clerks and of the instances that are not replaced will be enabled.
EndsRight ==
  /\ \A s \in Instance, j \in Server :
       EnableOp(<<s, j>>, TRUE) \in Range(script) => s = InstanceOf(s[1])
  /\ \A s \in Instance, j \in Server : s # InstanceOf(s[1]) => ~enabled[<<s, j>>]

\* Server i is down, or about to be.
Down(i) == Left(i) = {} /\ i \notin kvservers
NeverEnabled(i) == \A j \in Server : EnableOp(endname(i, j), TRUE) \notin Range(script)

\* A server that is shut down is disconnected first.
DownAt(i) ==
  /\ Down(i) => NeverEnabled(i) /\ \A j \in Server : ~enabled[endname(i, j)]
  /\ "Kill" \in Left(i) =>
       /\ NeverEnabled(i)
       /\ \A j \in Server : enabled[endname(i, j)] =>
            Before(script, EnableOp(endname(i, j), FALSE), ServerOp("Kill", i))

DownRight == \A i \in Server : DownAt(i)

\* Servers i and j are to be connected.
Linked(i, j) == IF <<i, j>> \in linked THEN TRUE ELSE FALSE

\* Server i is down or is being shut down.
Gone(i) == Down(i) \/ "Kill" \in Left(i)

\* What is left to do to end e makes it as wanted.
EndAt(e, wanted) ==
  /\ \A yes \in BOOLEAN : EnableOp(e, yes) \in Range(script) => yes = wanted
  /\ enabled[e] # wanted => EnableOp(e, wanted) \in Range(script)
  /\ MakeEndOp(e) \in Range(script) =>
       ~enabled[e] /\ \A yes \in BOOLEAN : ~Before(script, EnableOp(e, yes), MakeEndOp(e))

\* What is left to do connects the servers that are to be connected, and a server that is gone is
\* connected to nobody.
GroupsRight ==
  /\ \A i, j \in Server : EndAt(endname(i, j), Linked(i, j))
  /\ \A i \in Server : Gone(i) => \A j \in Server : ~Linked(i, j) /\ ~Linked(j, i)

HarnessInv == Types /\ Lives /\ DisksRight /\ CallsRight /\ EndsRight /\ DownRight /\ GroupsRight

-----------------------------------------------------------------------------
(* Names                                                                   *)

\* Operations are told apart by their kind and their arguments.
LEMMA OpsApart ==
  /\ \A e, yes, name, i : name \in OpName => EnableOp(e, yes) # ServerOp(name, i)
  /\ \A e, f, yes : EnableOp(e, yes) # MakeEndOp(f)
  /\ \A e, yes, on : EnableOp(e, yes) # ReliableOp(on)
  /\ \A e, name, i : name \in OpName => MakeEndOp(e) # ServerOp(name, i)
  /\ \A on, name, i : name \in OpName => ReliableOp(on) # ServerOp(name, i)
  /\ \A e, on : MakeEndOp(e) # ReliableOp(on)
  /\ \A e, f, yes, on : EnableOp(e, yes) = EnableOp(f, on) => e = f /\ yes = on
  /\ \A a, b, i, j : ServerOp(a, i) = ServerOp(b, j) => a = b /\ i = j
  /\ \A e, f : MakeEndOp(e) = MakeEndOp(f) => e = f
  <1>1. /\ \A e, yes : EnableOp(e, yes).op = "Enable" /\ EnableOp(e, yes).end = e
                       /\ EnableOp(e, yes).yes = yes
        /\ \A name, i : ServerOp(name, i).op = name /\ ServerOp(name, i).server = i
        /\ \A e : MakeEndOp(e).op = "MakeEnd" /\ MakeEndOp(e).end = e
        /\ \A on : ReliableOp(on).op = "Reliable"
    BY DEF EnableOp, ServerOp, MakeEndOp, ReliableOp
  <1>2. "Enable" \notin OpName /\ "MakeEnd" \notin OpName /\ "Reliable" \notin OpName
    BY DEF OpName
  <1>3. "Enable" # "MakeEnd" /\ "Enable" # "Reliable" /\ "MakeEnd" # "Reliable" OBVIOUS
  <1>4. /\ \A e, yes, name, i : name \in OpName => EnableOp(e, yes) # ServerOp(name, i)
        /\ \A e, name, i : name \in OpName => MakeEndOp(e) # ServerOp(name, i)
        /\ \A on, name, i : name \in OpName => ReliableOp(on) # ServerOp(name, i)
    BY <1>1, <1>2, SMT
  <1>5. /\ \A e, f, yes : EnableOp(e, yes) # MakeEndOp(f)
        /\ \A e, yes, on : EnableOp(e, yes) # ReliableOp(on)
        /\ \A e, on : MakeEndOp(e) # ReliableOp(on)
    BY <1>1, <1>3, SMT
  <1>6. \A e, f, yes, on : EnableOp(e, yes) = EnableOp(f, on) => e = f /\ yes = on BY <1>1, SMT
  <1>7. \A a, b, i, j : ServerOp(a, i) = ServerOp(b, j) => a = b /\ i = j BY <1>1, SMT
  <1>8. \A e, f : MakeEndOp(e) = MakeEndOp(f) => e = f BY <1>1, SMT
  <1> QED BY <1>4, <1>5, <1>6, <1>7, <1>8

\* Every operation is of one of the four kinds.
LEMMA OpKinds ==
  ASSUME NEW o \in Op
  PROVE  \/ \E e \in Endname, yes \in BOOLEAN : o = EnableOp(e, yes)
         \/ \E name \in OpName, i \in Server : o = ServerOp(name, i)
         \/ \E e \in Endname : o = MakeEndOp(e)
         \/ \E yes \in BOOLEAN : o = ReliableOp(yes)
  BY SMT DEF Op

\* The current instance of a server is an instance, and its ends are ends.
LEMMA Named ==
  ASSUME gen \in [Server -> 0..MaxGen], NEW i \in Server, NEW j \in Server
  PROVE  InstanceOf(i) \in Instance /\ InstanceOf(i)[1] = i /\ endname(i, j) \in Endname
  BY HarnessAssumption DEF InstanceOf, endname

-----------------------------------------------------------------------------
(* What a step leaves alone                                                *)

\* The functions, the servers and the persisters are as they were for server i.
SameLife(i) == /\ Left(i)' = Left(i) /\ gen'[i] = gen[i] /\ (i \in kvservers' <=> i \in kvservers)
               /\ servers'[i] = servers[i] /\ saved'[i] = saved[i]

\* The life of a server goes on.
LEMMA LifeKept ==
  ASSUME NEW i \in Server, SameLife(i), Life(i)
  PROVE  Life(i)'
  BY DEF SameLife, Life, Starting, Cut, InstanceOf

\* Nobody is started.
LEMMA RunKept ==
  ASSUME NEW s \in Instance, gen' = gen,
         "StartKVServer" \in Left(s[1])' <=> "StartKVServer" \in Left(s[1])
  PROVE  HasRun(s)' <=> HasRun(s)
  BY DEF HasRun, InstanceOf

-----------------------------------------------------------------------------
(* The tester performs operation o of its script                           *)

Performed(o) ==
  /\ o \in Op /\ o \in Range(script) /\ script' \in Seq(Op) /\ Ordered(script')
  /\ \A x : x \in Range(script') => x \in Range(script) /\ Before(script, o, x)
  /\ \A x : x \in Range(script) /\ x # o => x \in Range(script')
  /\ \A x, y : Before(script', x, y) => Before(script, x, y) /\ y \in Range(script')
  /\ \A x, y : Before(script, x, y) /\ x # o => Before(script', x, y)

\* An operation on a server is performed once, before those of a higher rank.
LEMMA LeftAfter ==
  ASSUME NEW a \in OpName, NEW i \in Server, Performed(ServerOp(a, i)), Ordered(script)
  PROVE  /\ a \in Left(i) /\ Left(i)' = Left(i) \ {a}
         /\ \A b \in Left(i)' : Rank[a] < Rank[b]
         /\ \A j \in Server : j # i => Left(j)' = Left(j)
         /\ \A x : ~Before(script, x, ServerOp(a, i))
  <1> DEFINE o == ServerOp(a, i)
  <1>0. Rank[a] \in Int BY SMT DEF Rank, OpName
  <1>1. ~(Rank[a] < Rank[a]) BY <1>0, SMT
  <1>2. ~Before(script, o, o) BY <1>1 DEF Ordered
  <1>3. o \notin Range(script') BY <1>2 DEF Performed
  <1>4. \A x : ~Before(script, x, o)
    <2> SUFFICES ASSUME NEW x, Before(script, x, o) PROVE FALSE OBVIOUS
    <2>1. x # o BY <1>2
    <2>2. Before(script', x, o) BY <2>1 DEF Performed
    <2> QED BY <1>3, <2>2 DEF Performed
  <1>5. a \in Left(i) BY DEF Performed, Left, OpsOn
  <1>6. ASSUME NEW j \in Server, NEW b \in OpName
        PROVE  (b \in Left(j)') <=> (b \in Left(j) /\ ~(b = a /\ j = i))
    <2>1. b \in Left(j)' <=> ServerOp(b, j) \in Range(script') BY DEF Left, OpsOn
    <2>2. b \in Left(j) <=> ServerOp(b, j) \in Range(script) BY DEF Left, OpsOn
    <2>3. ServerOp(b, j) = o <=> b = a /\ j = i BY OpsApart
    <2>4. ServerOp(b, j) \in Range(script') <=> ServerOp(b, j) \in Range(script) /\ ServerOp(b, j) # o
      BY <1>3 DEF Performed
    <2> QED BY <2>1, <2>2, <2>3, <2>4
  <1>7. \A j \in Server : Left(j) \subseteq OpName /\ Left(j)' \subseteq OpName
    BY DEF Left, OpsOn
  <1>8. ASSUME NEW b \in Left(i)' PROVE Rank[a] < Rank[b]
    <2>1. b \in OpName /\ ServerOp(b, i) \in Range(script') BY DEF Left, OpsOn
    <2>2. Before(script, o, ServerOp(b, i)) BY <2>1 DEF Performed
    <2> QED BY <2>1, <2>2 DEF Ordered
  <1> QED BY <1>4, <1>5, <1>6, <1>7, <1>8

\* Another operation leaves those on the servers alone.
LEMMA LeftSame ==
  ASSUME NEW o, Performed(o), \A a \in OpName, i \in Server : o # ServerOp(a, i)
  PROVE  \A i \in Server : Left(i)' = Left(i)
  <1> SUFFICES ASSUME NEW i \in Server PROVE Left(i)' = Left(i) OBVIOUS
  <1>1. \A b \in OpName : ServerOp(b, i) \in Range(script') <=> ServerOp(b, i) \in Range(script)
    BY DEF Performed
  <1> QED BY <1>1 DEF Left, OpsOn

\* The ends of instances are ends.
LEMMA EndsNamed ==
  /\ \A s \in Instance, j \in Server : <<s, j>> \in Endname
  /\ \A s \in Instance : s[1] \in Server /\ s[2] \in 0..MaxGen /\ s = <<s[1], s[2]>>
  /\ Nil \notin Instance /\ Nil \notin Server
  BY HarnessAssumption, SMT

\* An end is enabled by an Enable, which was in the script.
LEMMA EndsAfter ==
  ASSUME NEW o, Performed(o), EndsRight, gen' = gen,
         \A e \in Endname : enabled'[e] => enabled[e] \/ o = EnableOp(e, TRUE)
  PROVE  EndsRight'
  <1>1. ASSUME NEW s \in Instance, NEW j \in Server, EnableOp(<<s, j>>, TRUE) \in Range(script')
        PROVE  s = InstanceOf(s[1])'
    BY <1>1 DEF Performed, EndsRight, InstanceOf
  <1>2. ASSUME NEW s \in Instance, NEW j \in Server, s # InstanceOf(s[1])', enabled'[<<s, j>>]
        PROVE  FALSE
    <2>1. <<s, j>> \in Endname BY EndsNamed
    <2>2. s # InstanceOf(s[1]) BY <1>2 DEF InstanceOf
    <2>3. CASE enabled[<<s, j>>] BY <2>2, <2>3 DEF EndsRight
    <2>4. CASE o = EnableOp(<<s, j>>, TRUE) BY <2>2, <2>4 DEF Performed, EndsRight
    <2> QED BY <1>2, <2>1, <2>3, <2>4
  <1> QED BY <1>1, <1>2 DEF EndsRight

\* Server i is not cut off more than it was, and what is left to do for it is what was.
LEMMA DownAfter ==
  ASSUME NEW o, Performed(o), NEW i \in Server, gen \in [Server -> 0..MaxGen], gen' = gen, DownAt(i),
         Down(i)' => Down(i), "Kill" \in Left(i)' => "Kill" \in Left(i),
         \A e \in Endname : /\ enabled'[e] => enabled[e] \/ o = EnableOp(e, TRUE)
                            /\ o = EnableOp(e, FALSE) => ~enabled'[e]
  PROVE  DownAt(i)'
  <1>0. \A j \in Server : endname(i, j)' = endname(i, j) /\ endname(i, j) \in Endname
    BY Named DEF endname, InstanceOf
  <1>1. NeverEnabled(i) => NeverEnabled(i)' BY <1>0 DEF NeverEnabled, Performed
  <1>2. ASSUME NeverEnabled(i), NEW j \in Server, enabled'[endname(i, j)]
        PROVE  enabled[endname(i, j)] /\ o # EnableOp(endname(i, j), FALSE)
    <2>1. o # EnableOp(endname(i, j), TRUE) BY <1>2 DEF NeverEnabled, Performed
    <2> QED BY <1>0, <1>2, <2>1
  <1>3. ASSUME Down(i)', NEW j \in Server PROVE ~enabled'[endname(i, j)']
    <2>1. NeverEnabled(i) /\ ~enabled[endname(i, j)] BY <1>3 DEF DownAt
    <2> QED BY <1>0, <1>2, <2>1
  <1>4. ASSUME "Kill" \in Left(i)', NEW j \in Server, enabled'[endname(i, j)']
        PROVE  Before(script', EnableOp(endname(i, j)', FALSE), ServerOp("Kill", i))
    <2>1. NeverEnabled(i) BY <1>4 DEF DownAt
    <2>2. enabled[endname(i, j)] /\ o # EnableOp(endname(i, j), FALSE) BY <1>0, <1>2, <1>4, <2>1
    <2>3. Before(script, EnableOp(endname(i, j), FALSE), ServerOp("Kill", i))
      BY <1>4, <2>2 DEF DownAt
    <2> QED BY <1>0, <2>2, <2>3 DEF Performed
  <1>5. Down(i)' \/ "Kill" \in Left(i)' => NeverEnabled(i)' BY <1>1 DEF DownAt
  <1> QED BY <1>3, <1>4, <1>5 DEF DownAt

\* The servers that are to be connected stay those that the script connects.
LEMMA GroupsAfter ==
  ASSUME linked' = linked, \A i \in Server : Gone(i)' => Gone(i), GroupsRight,
         \A i, j \in Server : EndAt(endname(i, j), Linked(i, j))
                                => EndAt(endname(i, j), Linked(i, j))'
  PROVE  GroupsRight'
  <1>1. \A i, j : Linked(i, j)' <=> Linked(i, j) BY DEF Linked
  <1> QED BY <1>1 DEF GroupsRight

\* What instances have accepted and what is safe stays so.
Grown == /\ \A s \in Instance : HasRun(s) => HasRun(s)' /\ mem[s] \subseteq mem'[s]
         /\ \A i \in Server : \A v \in Update : Safe(i, v) => Safe(i, v)'

\* A call that makes no step.
LEMMA CallKept ==
  ASSUME NEW c \in Caller, CallRight(c), calls'[c] = calls[c], Grown
  PROVE  CallRight(c)'
  BY DEF CallRight, Grown, IsCall

\* No call makes a step.
LEMMA CallsKept ==
  ASSUME CallsRight, UNCHANGED <<calls, orphans, acked>>, Grown
  PROVE  CallsRight'
  <1>1. \A c \in Caller : CallRight(c)' BY CallKept DEF CallsRight
  <1>2. \A o \in orphans : o.srv \in Instance /\ HasRun(o.srv)' /\ o.args \in Update
    BY DEF CallsRight, Grown
  <1>3. \A a \in acked : a.server \in Server /\ a.update \in Update /\ Safe(a.server, a.update)'
    BY DEF CallsRight, Grown
  <1> QED BY <1>1, <1>2, <1>3 DEF CallsRight

\* The persisters and the instances are left alone.
LEMMA StoresKept ==
  ASSUME UNCHANGED <<gen, saved, disk, persister, mem>>, DisksRight,
         \A i \in Server : /\ "StartKVServer" \in Left(i)' <=> "StartKVServer" \in Left(i)
                           /\ Left(i)' = {"Kill"} => Left(i) = {"Kill"}
  PROVE  DisksRight' /\ Grown
  <1>1. \A s \in Instance : HasRun(s)' <=> HasRun(s) BY EndsNamed, RunKept
  <1>2. \A i \in Server : InstanceOf(i)' = InstanceOf(i) BY DEF InstanceOf
  <1>3. DisksRight' BY <1>1, <1>2 DEF DisksRight
  <1>4. \A i, v : Safe(i, v)' <=> Safe(i, v) BY DEF Safe
  <1>5. Grown BY <1>1, <1>4 DEF Grown
  <1> QED BY <1>3, <1>5

\* Operations on the ends leave the lives of the servers alone.
LEMMA EndOpKeeps ==
  ASSUME HarnessInv, NEW o, Performed(o), \A a \in OpName, i \in Server : o # ServerOp(a, i),
         UNCHANGED <<servers, callVars, cfgVars, linked, sent, acked>>,
         enabled' \in [Endname -> BOOLEAN], ends' \subseteq Endname,
         connections' \in [Endname -> Server \cup {Nil}],
         \A e \in Endname : /\ enabled'[e] => enabled[e] \/ o = EnableOp(e, TRUE)
                            /\ o = EnableOp(e, FALSE) => ~enabled'[e]
  PROVE  /\ Types' /\ Lives' /\ DisksRight' /\ CallsRight' /\ EndsRight' /\ DownRight'
         /\ \A i \in Server : Gone(i)' => Gone(i)
  <1> USE DEF HarnessInv
  <1>0. /\ servers' = servers /\ calls' = calls /\ orphans' = orphans /\ gen' = gen
        /\ kvservers' = kvservers /\ saved' = saved /\ disk' = disk /\ persister' = persister
        /\ mem' = mem /\ linked' = linked /\ sent' = sent /\ acked' = acked
    BY DEF callVars, cfgVars
  <1>1. \A i \in Server : Left(i)' = Left(i) BY LeftSame
  <1>2. gen \in [Server -> 0..MaxGen] BY DEF Types
  <1>3. Types' BY <1>0 DEF Types, Performed
  <1>4. Lives'
    <2> SUFFICES ASSUME NEW i \in Server PROVE Life(i)' BY DEF Lives
    <2>1. SameLife(i) BY <1>0, <1>1 DEF SameLife
    <2> QED BY <2>1, LifeKept DEF Lives
  <1>5. DisksRight' /\ Grown BY <1>0, <1>1, StoresKept
  <1>6. CallsRight' BY <1>0, <1>5, CallsKept
  <1>7. EndsRight' BY <1>0, EndsAfter
  <1>8. ASSUME NEW i \in Server PROVE DownAt(i)'
    <2>1. Down(i)' => Down(i) BY <1>0, <1>1 DEF Down
    <2> QED BY <1>0, <1>1, <1>2, <2>1, DownAfter DEF DownRight
  <1>9. \A i \in Server : Gone(i)' => Gone(i) BY <1>0, <1>1 DEF Gone, Down
  <1> QED BY <1>3, <1>4, <1>5, <1>6, <1>7, <1>8, <1>9 DEF DownRight

\* Network.Enable.
LEMMA EnableKeeps ==
  ASSUME HarnessInv, NEW e \in Endname, NEW yes \in BOOLEAN, Performed(EnableOp(e, yes)),
         Enable(e, yes), UNCHANGED <<cfgVars, linked, sent, acked>>
  PROVE  HarnessInv'
  <1> DEFINE o == EnableOp(e, yes)
  <1>1. enabled \in [Endname -> BOOLEAN] BY DEF HarnessInv, Types
  <1>2. enabled' \in [Endname -> BOOLEAN] /\ enabled'[e] = yes
        /\ \A f \in Endname : f # e => enabled'[f] = enabled[f]
    BY <1>1 DEF Enable
  <1>3. /\ ends' \subseteq Endname /\ connections' \in [Endname -> Server \cup {Nil}]
        /\ UNCHANGED <<servers, callVars>>
    BY DEF HarnessInv, Types, Enable
  <1>4. ASSUME NEW f \in Endname PROVE /\ enabled'[f] => enabled[f] \/ o = EnableOp(f, TRUE)
                                       /\ o = EnableOp(f, FALSE) => ~enabled'[f]
    <2>1. CASE f # e
      <3>1. o # EnableOp(f, FALSE) BY <2>1, OpsApart
      <3> QED BY <1>2, <2>1, <3>1
    <2>2. CASE f = e /\ yes = TRUE
      <3>1. o = EnableOp(f, FALSE) => yes = FALSE BY OpsApart
      <3>2. yes # FALSE BY <2>2
      <3> QED BY <2>2, <3>1, <3>2
    <2>3. CASE f = e /\ yes = FALSE BY <1>2, <2>3
    <2> QED BY <2>1, <2>2, <2>3
  <1>5. \A a \in OpName, i \in Server : o # ServerOp(a, i) BY OpsApart
  <1>6. /\ Types' /\ Lives' /\ DisksRight' /\ CallsRight' /\ EndsRight' /\ DownRight'
        /\ \A i \in Server : Gone(i)' => Gone(i)
    BY <1>2, <1>3, <1>4, <1>5, EndOpKeeps
  <1>7. ASSUME NEW i \in Server, NEW j \in Server, EndAt(endname(i, j), Linked(i, j))
        PROVE  EndAt(endname(i, j), Linked(i, j))'
    <2> DEFINE f == endname(i, j)
               g == Linked(i, j)
    <2>1. f' = f /\ g' = g BY DEF cfgVars, endname, InstanceOf, Linked
    <2>2. f \in Endname /\ g \in BOOLEAN BY Named DEF HarnessInv, Types, Linked
    <2>3. /\ \A on \in BOOLEAN : EnableOp(f, on) \in Range(script) => on = g
          /\ enabled[f] # g => EnableOp(f, g) \in Range(script)
          /\ MakeEndOp(f) \in Range(script) =>
               ~enabled[f] /\ \A on \in BOOLEAN : ~Before(script, EnableOp(f, on), MakeEndOp(f))
      BY <1>7 DEF EndAt
    <2> HIDE DEF f, g
    <2>4. \A on \in BOOLEAN : EnableOp(f, on) \in Range(script') => on = g BY <2>3 DEF Performed
    <2>5. ASSUME enabled'[f] # g PROVE EnableOp(f, g) \in Range(script')
      <3>1. f # e
        <4> SUFFICES ASSUME f = e PROVE FALSE OBVIOUS
        <4>1. EnableOp(f, yes) \in Range(script) BY DEF Performed
        <4> QED BY <1>2, <2>3, <2>5, <4>1
      <3>2. EnableOp(f, g) \in Range(script) BY <1>2, <2>2, <2>3, <2>5, <3>1
      <3>3. EnableOp(f, g) # o BY <3>1, OpsApart
      <3> QED BY <3>2, <3>3 DEF Performed
    <2>6. ASSUME MakeEndOp(f) \in Range(script')
          PROVE  ~enabled'[f] /\ \A on \in BOOLEAN : ~Before(script', EnableOp(f, on), MakeEndOp(f))
      <3>1. MakeEndOp(f) \in Range(script) /\ Before(script, o, MakeEndOp(f))
        BY <2>6 DEF Performed
      <3>2. f # e BY <2>3, <3>1
      <3> QED BY <1>2, <2>2, <2>3, <3>1, <3>2 DEF Performed
    <2>7. EndAt(f, g)' BY <2>1, <2>4, <2>5, <2>6 DEF EndAt
    <2> QED BY <2>7 DEF f, g
  <1>8. gen' = gen /\ linked' = linked BY DEF cfgVars
  <1>9. GroupsRight' BY <1>6, <1>7, <1>8, GroupsAfter DEF HarnessInv
  <1> QED BY <1>6, <1>9 DEF HarnessInv

\* Network.MakeEnd and Connect, which start with a disabled end.
LEMMA MakeEndKeeps ==
  ASSUME HarnessInv, NEW e \in Endname, Performed(MakeEndOp(e)), MakeEnd(e, e[2]),
         UNCHANGED <<cfgVars, linked, sent, acked>>
  PROVE  HarnessInv'
  <1> DEFINE o == MakeEndOp(e)
  <1>1. /\ enabled \in [Endname -> BOOLEAN] /\ connections \in [Endname -> Server \cup {Nil}]
        /\ ends \subseteq Endname
    BY DEF HarnessInv, Types
  <1>2. e[2] \in Server BY HarnessAssumption
  <1>3. enabled' \in [Endname -> BOOLEAN] /\ enabled'[e] = FALSE
        /\ \A f \in Endname : f # e => enabled'[f] = enabled[f]
    BY <1>1 DEF MakeEnd
  <1>4. /\ ends' \subseteq Endname /\ connections' \in [Endname -> Server \cup {Nil}]
        /\ UNCHANGED <<servers, callVars>>
    BY <1>1, <1>2 DEF MakeEnd
  <1>5. ASSUME NEW f \in Endname PROVE /\ enabled'[f] => enabled[f] \/ o = EnableOp(f, TRUE)
                                       /\ o = EnableOp(f, FALSE) => ~enabled'[f]
    BY <1>3, OpsApart
  <1>6. \A a \in OpName, i \in Server : o # ServerOp(a, i) BY OpsApart
  <1>7. /\ Types' /\ Lives' /\ DisksRight' /\ CallsRight' /\ EndsRight' /\ DownRight'
        /\ \A i \in Server : Gone(i)' => Gone(i)
    BY <1>3, <1>4, <1>5, <1>6, EndOpKeeps
  <1>8. gen' = gen /\ linked' = linked BY DEF cfgVars
  <1>9. ASSUME NEW i \in Server, NEW j \in Server, EndAt(endname(i, j), Linked(i, j))
        PROVE  EndAt(endname(i, j), Linked(i, j))'
    <2> DEFINE f == endname(i, j)
               g == Linked(i, j)
    <2>1. f' = f /\ g' = g BY <1>8 DEF endname, InstanceOf, Linked
    <2>2. f \in Endname BY Named DEF HarnessInv, Types
    <2>3. f = e => enabled[e] = FALSE
      <3>1. f = e => ~enabled[e] BY <1>9 DEF EndAt, Performed
      <3> QED BY <1>1, <3>1
    <2>4. enabled'[f] = enabled[f] BY <1>3, <2>2, <2>3
    <2>5. \A h, yes : o # EnableOp(h, yes) BY OpsApart
    <2>6. EndAt(f, g) BY <1>9
    <2> HIDE DEF f, g, o
    <2>7. /\ \A yes \in BOOLEAN : EnableOp(f, yes) \in Range(script') => yes = g
          /\ enabled'[f] # g => EnableOp(f, g) \in Range(script')
          /\ MakeEndOp(f) \in Range(script') =>
              ~enabled'[f] /\ \A yes \in BOOLEAN : ~Before(script', EnableOp(f, yes), MakeEndOp(f))
      BY <2>4, <2>5, <2>6 DEF EndAt, Performed, o
    <2> QED BY <2>1, <2>7 DEF EndAt, f, g
  <1>10. GroupsRight' BY <1>7, <1>8, <1>9, GroupsAfter DEF HarnessInv
  <1> QED BY <1>7, <1>10 DEF HarnessInv

\* Network.Reliable.
LEMMA ReliableKeeps ==
  ASSUME HarnessInv, NEW yes \in BOOLEAN, Performed(ReliableOp(yes)), Reliable(yes),
         UNCHANGED <<cfgVars, linked, sent, acked>>
  PROVE  HarnessInv'
  <1> DEFINE o == ReliableOp(yes)
  <1>1. /\ enabled' \in [Endname -> BOOLEAN] /\ connections' \in [Endname -> Server \cup {Nil}]
        /\ ends' \subseteq Endname /\ enabled' = enabled /\ UNCHANGED <<servers, callVars>>
    BY DEF HarnessInv, Types, Reliable
  <1>2. /\ \A f, on : o # EnableOp(f, on)
        /\ \A a \in OpName, i \in Server : o # ServerOp(a, i)
    BY OpsApart
  <1>3. /\ Types' /\ Lives' /\ DisksRight' /\ CallsRight' /\ EndsRight' /\ DownRight'
        /\ \A i \in Server : Gone(i)' => Gone(i)
    BY <1>1, <1>2, EndOpKeeps
  <1>4. gen' = gen /\ linked' = linked BY DEF cfgVars
  <1>5. ASSUME NEW i \in Server, NEW j \in Server, EndAt(endname(i, j), Linked(i, j))
        PROVE  EndAt(endname(i, j), Linked(i, j))'
    <2> DEFINE f == endname(i, j)
               g == Linked(i, j)
    <2>1. f' = f /\ g' = g BY <1>4 DEF endname, InstanceOf, Linked
    <2> QED BY <1>1, <1>2, <1>5, <2>1 DEF EndAt, Performed
  <1>6. GroupsRight' BY <1>3, <1>4, <1>5, GroupsAfter DEF HarnessInv
  <1> QED BY <1>3, <1>6 DEF HarnessInv

-----------------------------------------------------------------------------
(* Operations on a server                                                  *)

\* Operation a on server i leaves the ends and the other servers alone.
OnServer(a, i) ==
  /\ HarnessInv /\ Performed(ServerOp(a, i))
  /\ UNCHANGED <<ends, enabled, connections, calls, orphans, gen, linked, sent, acked>>

\* What is left of the invariant for such an operation.
LEMMA ServerOpKeeps ==
  ASSUME NEW a \in OpName, NEW i \in Server, OnServer(a, i),
         "Kill" # a => i \in kvservers' \/ Left(i)' # {},
         "Kill" = a => i \notin kvservers' /\ Left(i)' = {},
         \A j \in Server : j # i => (j \in kvservers' <=> j \in kvservers),
         (a = "StartKVServer") \/ (i \in kvservers' => i \in kvservers)
  PROVE  EndsRight' /\ DownRight' /\ GroupsRight'
  <1> DEFINE o == ServerOp(a, i)
  <1>0. Performed(o) /\ HarnessInv BY DEF OnServer
  <1>1. /\ enabled' = enabled /\ gen' = gen /\ linked' = linked BY DEF OnServer
  <1>2. Ordered(script) /\ gen \in [Server -> 0..MaxGen] BY <1>0 DEF HarnessInv, Types
  <1>3. /\ a \in Left(i) /\ Left(i)' = Left(i) \ {a}
        /\ \A j \in Server : j # i => Left(j)' = Left(j)
        /\ \A x : ~Before(script, x, ServerOp(a, i))
    BY <1>0, <1>2, LeftAfter
  <1>4. \A f, on : o # EnableOp(f, on) BY OpsApart
  <1>5. EndsRight' BY <1>0, <1>1, <1>4, EndsAfter DEF HarnessInv
  <1>6. ASSUME NEW j \in Server PROVE DownAt(j)'
    <2>0. DownAt(j) BY <1>0 DEF HarnessInv, DownRight
    <2>1. "Kill" \in Left(j)' => "Kill" \in Left(j) BY <1>3
    <2>2. CASE j # i
      <3>1. Down(j)' => Down(j) BY <1>3, <2>2 DEF Down
      <3> QED BY <1>0, <1>1, <1>2, <1>4, <2>0, <2>1, <3>1, DownAfter
    <2>3. CASE j = i /\ a # "Kill"
      <3>1. ~Down(j)' BY <2>3 DEF Down
      <3> QED BY <1>0, <1>1, <1>2, <1>4, <2>0, <2>1, <3>1, DownAfter
    <2>4. CASE j = i /\ a = "Kill"
      <3>1. NeverEnabled(i) /\ \A k \in Server : ~enabled[endname(i, k)]
        BY <1>3, <2>0, <2>4 DEF DownAt
      <3>2. NeverEnabled(i)' BY <1>0, <1>1, <3>1 DEF NeverEnabled, Performed, endname, InstanceOf
      <3>3. \A k \in Server : ~enabled'[endname(i, k)']
        BY <1>1, <3>1 DEF endname, InstanceOf
      <3>4. "Kill" \notin Left(i)' BY <2>4
      <3> QED BY <2>4, <3>2, <3>3, <3>4 DEF DownAt
    <2> QED BY <2>2, <2>3, <2>4
  <1>7. ASSUME NEW j \in Server, Gone(j)' PROVE Gone(j)
    <2>1. "Kill" \in Left(j)' => "Kill" \in Left(j) BY <1>3
    <2>2. CASE j # i BY <1>3, <1>7, <2>1, <2>2 DEF Gone, Down
    <2>3. CASE j = i /\ a = "Kill" BY <1>3, <2>3 DEF Gone
    <2>4. CASE j = i /\ a # "Kill" BY <1>7, <2>1, <2>4 DEF Gone, Down
    <2> QED BY <2>2, <2>3, <2>4
  <1>8. ASSUME NEW j \in Server, NEW k \in Server, EndAt(endname(j, k), Linked(j, k))
        PROVE  EndAt(endname(j, k), Linked(j, k))'
    <2>1. endname(j, k)' = endname(j, k) /\ Linked(j, k)' = Linked(j, k)
      BY <1>1 DEF endname, InstanceOf, Linked
    <2>2. \A f : MakeEndOp(f) # o BY OpsApart
    <2> QED BY <1>0, <1>1, <1>4, <1>8, <2>1, <2>2 DEF EndAt, Performed
  <1>9. GroupsRight' BY <1>0, <1>1, <1>7, <1>8, GroupsAfter DEF HarnessInv
  <1> QED BY <1>5, <1>6, <1>9 DEF DownRight

\* Lives of the others.
LEMMA OthersLive ==
  ASSUME NEW i \in Server, Lives, gen' = gen, Life(i)',
         \A j \in Server : j # i => /\ Left(j)' = Left(j) /\ (j \in kvservers' <=> j \in kvservers)
                                   /\ servers'[j] = servers[j] /\ saved'[j] = saved[j]
  PROVE  Lives'
  <1>1. ASSUME NEW j \in Server, j # i PROVE Life(j)'
    <2>1. SameLife(j) BY <1>1 DEF SameLife
    <2> QED BY <2>1, LifeKept DEF Lives
  <1> QED BY <1>1 DEF Lives

\* The ranks.
LEMMA Ranks == /\ Rank["DeleteServer"] = 1 /\ Rank["Copy"] = 2 /\ Rank["StartKVServer"] = 3
               /\ Rank["AddServer"] = 4 /\ Rank["Kill"] = 5
  BY DEF Rank

\* Network.DeleteServer, of a server that runs.
LEMMA DeleteServerKeeps ==
  ASSUME NEW i \in Server, OnServer("DeleteServer", i), DeleteServer(i), UNCHANGED cfgVars
  PROVE  HarnessInv'
  <1>0. Performed(ServerOp("DeleteServer", i)) /\ HarnessInv BY DEF OnServer
  <1>1. Types BY <1>0 DEF HarnessInv
  <1>2. /\ servers \in [Server -> Instance \cup {Nil}] /\ Ordered(script) BY <1>1 DEF Types
  <1>3. /\ "DeleteServer" \in Left(i) /\ Left(i)' = Left(i) \ {"DeleteServer"}
        /\ \A b \in Left(i)' : Rank["DeleteServer"] < Rank[b]
        /\ \A j \in Server : j # i => Left(j)' = Left(j)
    BY <1>0, <1>2, LeftAfter DEF OpName
  <1>4. /\ gen' = gen /\ kvservers' = kvservers /\ saved' = saved /\ disk' = disk
        /\ persister' = persister /\ mem' = mem /\ ends' = ends /\ enabled' = enabled
        /\ connections' = connections /\ calls' = calls /\ orphans' = orphans
        /\ linked' = linked /\ sent' = sent /\ acked' = acked
    BY DEF OnServer, cfgVars
  <1>5. servers' \in [Server -> Instance \cup {Nil}] /\ servers'[i] = Nil
        /\ \A j \in Server : j # i => servers'[j] = servers[j]
    BY <1>2 DEF DeleteServer
  <1>6. Types' BY <1>0, <1>1, <1>4, <1>5 DEF Types, Performed
  <1>7. Left(i) = {"DeleteServer", "Copy", "Kill"} /\ i \in kvservers /\ saved[i] = 2 * gen[i]
    <2>1. Life(i) BY <1>0 DEF HarnessInv, Lives
    <2> QED BY <1>3, <2>1 DEF Life
  <1>8. Left(i)' = {"Copy", "Kill"} BY <1>3, <1>7
  <1>9. Life(i)' BY <1>4, <1>5, <1>7, <1>8 DEF Life, Cut
  <1>10. Lives' BY <1>0, <1>3, <1>4, <1>5, <1>9, OthersLive DEF HarnessInv
  <1>11. DisksRight' /\ Grown
    <2>1. ASSUME NEW j \in Server
          PROVE  /\ "StartKVServer" \in Left(j)' <=> "StartKVServer" \in Left(j)
                 /\ Left(j)' = {"Kill"} => Left(j) = {"Kill"}
      <3>1. CASE j = i BY <1>7, <1>8, <3>1, SMT
      <3>2. CASE j # i BY <1>3, <3>2
      <3> QED BY <3>1, <3>2
    <2> QED BY <1>0, <1>4, <2>1, StoresKept DEF HarnessInv
  <1>12. CallsRight' BY <1>0, <1>4, <1>11, CallsKept DEF HarnessInv
  <1>13. EndsRight' /\ DownRight' /\ GroupsRight'
    <2>1. "DeleteServer" \in OpName /\ "Kill" # "DeleteServer" BY DEF OpName
    <2> QED BY <1>4, <1>7, <2>1, ServerOpKeeps
  <1> QED BY <1>6, <1>10, <1>11, <1>12, <1>13 DEF HarnessInv

\* Network.AddServer, of the new instance.
LEMMA AddServerKeeps ==
  ASSUME NEW i \in Server, OnServer("AddServer", i), AddServer(i, InstanceOf(i)), UNCHANGED cfgVars
  PROVE  HarnessInv'
  <1>0. Performed(ServerOp("AddServer", i)) /\ HarnessInv BY DEF OnServer
  <1>1. Types BY <1>0 DEF HarnessInv
  <1>2. /\ servers \in [Server -> Instance \cup {Nil}] /\ Ordered(script)
        /\ gen \in [Server -> 0..MaxGen]
    BY <1>1 DEF Types
  <1>3. /\ "AddServer" \in Left(i) /\ Left(i)' = Left(i) \ {"AddServer"}
        /\ \A b \in Left(i)' : Rank["AddServer"] < Rank[b]
        /\ \A j \in Server : j # i => Left(j)' = Left(j)
    BY <1>0, <1>2, LeftAfter DEF OpName
  <1>4. /\ gen' = gen /\ kvservers' = kvservers /\ saved' = saved /\ disk' = disk
        /\ persister' = persister /\ mem' = mem /\ ends' = ends /\ enabled' = enabled
        /\ connections' = connections /\ calls' = calls /\ orphans' = orphans
        /\ linked' = linked /\ sent' = sent /\ acked' = acked
    BY DEF OnServer, cfgVars
  <1>5. servers' \in [Server -> Instance \cup {Nil}] /\ servers'[i] = InstanceOf(i)
        /\ \A j \in Server : j # i => servers'[j] = servers[j]
    <2>1. InstanceOf(i) \in Instance BY <1>2, Named
    <2> QED BY <1>2, <2>1 DEF AddServer
  <1>6. Types' BY <1>0, <1>1, <1>4, <1>5 DEF Types, Performed
  <1>7. Left(i) = {"AddServer"} /\ i \in kvservers /\ saved[i] = 2 * gen[i]
    <2>1. Life(i) BY <1>0 DEF HarnessInv, Lives
    <2>2. "Copy" \notin Left(i) /\ "StartKVServer" \notin Left(i) BY <1>3, Ranks, SMT
    <2> QED BY <1>3, <2>1, <2>2 DEF Life, Cut
  <1>8. Left(i)' = {} BY <1>3, <1>7
  <1>9. Life(i)'
    <2>1. InstanceOf(i)' = InstanceOf(i) BY <1>4 DEF InstanceOf
    <2>2. Left(i)' \in {{}, {"DeleteServer", "Copy", "Kill"}} BY <1>8
    <2> QED BY <1>4, <1>5, <1>7, <2>1, <2>2 DEF Life
  <1>10. Lives' BY <1>0, <1>3, <1>4, <1>5, <1>9, OthersLive DEF HarnessInv
  <1>11. DisksRight' /\ Grown
    <2>1. ASSUME NEW j \in Server
          PROVE  /\ "StartKVServer" \in Left(j)' <=> "StartKVServer" \in Left(j)
                 /\ Left(j)' = {"Kill"} => Left(j) = {"Kill"}
      <3>1. CASE j = i BY <1>7, <1>8, <3>1
      <3>2. CASE j # i BY <1>3, <3>2
      <3> QED BY <3>1, <3>2
    <2> QED BY <1>0, <1>4, <2>1, StoresKept DEF HarnessInv
  <1>12. CallsRight' BY <1>0, <1>4, <1>11, CallsKept DEF HarnessInv
  <1>13. EndsRight' /\ DownRight' /\ GroupsRight'
    <2>1. "AddServer" \in OpName /\ "Kill" # "AddServer" BY DEF OpName
    <2> QED BY <1>4, <1>7, <2>1, ServerOpKeeps
  <1> QED BY <1>6, <1>10, <1>11, <1>12, <1>13 DEF HarnessInv

\* KVServer.Kill, and cfg.kvservers[i] = nil.
LEMMA KillKeeps ==
  ASSUME NEW i \in Server, OnServer("Kill", i), Kill(i)
  PROVE  HarnessInv'
  <1>0. Performed(ServerOp("Kill", i)) /\ HarnessInv BY DEF OnServer
  <1>1. Types BY <1>0 DEF HarnessInv
  <1>2. Ordered(script) /\ kvservers \subseteq Server BY <1>1 DEF Types
  <1>3. /\ "Kill" \in Left(i) /\ Left(i)' = Left(i) \ {"Kill"}
        /\ \A b \in Left(i)' : Rank["Kill"] < Rank[b]
        /\ \A j \in Server : j # i => Left(j)' = Left(j)
    BY <1>0, <1>2, LeftAfter DEF OpName
  <1>4. /\ gen' = gen /\ servers' = servers /\ saved' = saved /\ disk' = disk
        /\ persister' = persister /\ mem' = mem /\ ends' = ends /\ enabled' = enabled
        /\ connections' = connections /\ calls' = calls /\ orphans' = orphans
        /\ linked' = linked /\ sent' = sent /\ acked' = acked
    BY DEF OnServer, Kill, netVars, tableVars, callVars
  <1>5. kvservers' \subseteq Server /\ i \notin kvservers'
        /\ \A j \in Server : j # i => (j \in kvservers' <=> j \in kvservers)
    BY <1>2 DEF Kill
  <1>6. Types' BY <1>0, <1>1, <1>4, <1>5 DEF Types, Performed
  <1>7. Left(i) = {"Kill"} /\ servers[i] = Nil /\ saved[i] = 2 * gen[i] + 1
    <2>1. Life(i) BY <1>0 DEF HarnessInv, Lives
    <2>2. "Copy" \notin Left(i) BY <1>3, Ranks, SMT
    <2> QED BY <1>3, <2>1, <2>2 DEF Life, Cut
  <1>8. Left(i)' = {} BY <1>3, <1>7
  <1>9. Life(i)' BY <1>4, <1>5, <1>7, <1>8 DEF Life, Starting
  <1>10. Lives' BY <1>0, <1>3, <1>4, <1>5, <1>9, OthersLive DEF HarnessInv
  <1>11. DisksRight' /\ Grown
    <2>1. ASSUME NEW j \in Server
          PROVE  /\ "StartKVServer" \in Left(j)' <=> "StartKVServer" \in Left(j)
                 /\ Left(j)' = {"Kill"} => Left(j) = {"Kill"}
      <3>1. CASE j = i BY <1>7, <1>8, <3>1
      <3>2. CASE j # i BY <1>3, <3>2
      <3> QED BY <3>1, <3>2
    <2> QED BY <1>0, <1>4, <2>1, StoresKept DEF HarnessInv
  <1>12. CallsRight' BY <1>0, <1>4, <1>11, CallsKept DEF HarnessInv
  <1>13. EndsRight' /\ DownRight' /\ GroupsRight'
    <2>1. "Kill" \in OpName BY DEF OpName
    <2> QED BY <1>5, <1>8, <2>1, ServerOpKeeps
  <1> QED BY <1>6, <1>10, <1>11, <1>12, <1>13 DEF HarnessInv

\* StartKVServer, with the persister that the tester has copied.
LEMMA StartKVServerKeeps ==
  ASSUME NEW i \in Server, OnServer("StartKVServer", i), StartKVServer(i)
  PROVE  HarnessInv'
  <1> DEFINE s == InstanceOf(i)
  <1>0. Performed(ServerOp("StartKVServer", i)) /\ HarnessInv BY DEF OnServer
  <1>1. Types BY <1>0 DEF HarnessInv
  <1>2. /\ Ordered(script) /\ kvservers \subseteq Server /\ gen \in [Server -> 0..MaxGen]
        /\ persister \in [Instance -> Int] /\ mem \in [Instance -> SUBSET Update]
        /\ disk \in [Server \X (0..2 * MaxGen + 1) -> SUBSET Update]
    BY <1>1 DEF Types
  <1>3. /\ "StartKVServer" \in Left(i) /\ Left(i)' = Left(i) \ {"StartKVServer"}
        /\ \A b \in Left(i)' : Rank["StartKVServer"] < Rank[b]
        /\ \A j \in Server : j # i => Left(j)' = Left(j)
    BY <1>0, <1>2, LeftAfter DEF OpName
  <1>4. /\ gen' = gen /\ servers' = servers /\ saved' = saved /\ disk' = disk
        /\ ends' = ends /\ enabled' = enabled
        /\ connections' = connections /\ calls' = calls /\ orphans' = orphans
        /\ linked' = linked /\ sent' = sent /\ acked' = acked
    BY DEF OnServer, StartKVServer, netVars, tableVars, callVars
  <1>5. kvservers' \subseteq Server /\ i \in kvservers'
        /\ \A j \in Server : j # i => (j \in kvservers' <=> j \in kvservers)
    BY <1>2 DEF StartKVServer
  <1>6. Left(i) = {"StartKVServer", "AddServer"} /\ i \notin kvservers /\ servers[i] = Nil
        /\ saved[i] = 2 * gen[i]
    <2>1. Life(i) BY <1>0 DEF HarnessInv, Lives
    <2>2. "Copy" \notin Left(i) BY <1>3, Ranks, SMT
    <2> QED BY <1>3, <2>1, <2>2 DEF Life, Starting
  <1>7. s \in Instance /\ s[1] = i /\ s[2] = gen[i] BY <1>2, Named DEF InstanceOf
  <1>8. <<i, saved[i]>> \in Server \X (0..2 * MaxGen + 1)
    <2>1. gen[i] \in 0..MaxGen /\ MaxGen \in Nat BY <1>2, HarnessAssumption
    <2>2. saved[i] \in 0..2 * MaxGen + 1 BY <1>6, <2>1, SMT
    <2> QED BY <2>2
  <1>9. /\ persister' \in [Instance -> Int] /\ mem' \in [Instance -> SUBSET Update]
        /\ persister'[s] = saved[i] /\ mem'[s] = disk[<<i, saved[i]>>]
        /\ \A r \in Instance : r # s => persister'[r] = persister[r] /\ mem'[r] = mem[r]
    <2>1. disk[<<i, saved[i]>>] \in SUBSET Update BY <1>2, <1>8
    <2>2. saved[i] \in Int BY <1>1 DEF Types
    <2> HIDE DEF s
    <2>3. /\ persister' = [persister EXCEPT ![s] = saved[i]]
          /\ mem' = [mem EXCEPT ![s] = disk[<<i, saved[i]>>]]
      BY DEF s, StartKVServer
    <2>4. /\ persister' \in [Instance -> Int] /\ persister'[s] = saved[i]
          /\ \A r \in Instance : r # s => persister'[r] = persister[r]
      BY <1>2, <1>7, <2>2, <2>3
    <2>5. /\ mem' \in [Instance -> SUBSET Update] /\ mem'[s] = disk[<<i, saved[i]>>]
          /\ \A r \in Instance : r # s => mem'[r] = mem[r]
      BY <1>2, <1>7, <2>1, <2>3
    <2> QED BY <2>4, <2>5
  <1>10. Types' BY <1>0, <1>1, <1>4, <1>5, <1>9 DEF Types, Performed
  <1>11. Left(i)' = {"AddServer"} BY <1>3, <1>6
  <1>12. Life(i)' BY <1>4, <1>5, <1>6, <1>11 DEF Life, Cut
  <1>13. Lives' BY <1>0, <1>3, <1>4, <1>5, <1>12, OthersLive DEF HarnessInv
  <1>14. ASSUME NEW r \in Instance
         PROVE  /\ r # s => (HasRun(r)' <=> HasRun(r))
                /\ r = s => HasRun(r)' /\ ~HasRun(r)
    <2>1. InstanceOf(r[1])' = InstanceOf(r[1]) BY <1>4 DEF InstanceOf
    <2>2. r[1] \in Server BY EndsNamed
    <2>3. CASE r[1] = i /\ r # s
      <3>1. r # InstanceOf(r[1]) BY <2>3
      <3> QED BY <1>4, <2>1, <2>3, <3>1 DEF HasRun
    <2>4. CASE r[1] # i
      <3>1. r # s BY <1>7, <2>4
      <3>2. Left(r[1])' = Left(r[1]) BY <1>3, <2>2, <2>4
      <3> QED BY <1>4, <2>1, <3>1, <3>2 DEF HasRun
    <2>5. CASE r = s
      <3>1. "StartKVServer" \notin Left(i)' BY <1>11
      <3>2. HasRun(r)' BY <1>7, <2>1, <2>5, <3>1 DEF HasRun
      <3>3. ~(r[2] < gen[i])
        <4>1. gen[i] \in Int BY <1>2, SMT
        <4> QED BY <1>7, <2>5, <4>1, SMT
      <3>4. ~HasRun(r) BY <1>3, <1>7, <2>5, <3>3 DEF HasRun
      <3> QED BY <2>5, <3>2, <3>4
    <2> QED BY <1>7, <2>3, <2>4, <2>5
  <1> HIDE DEF s
  <1>15. DisksRight'
    <2>0. DisksRight BY <1>0 DEF HarnessInv
    <2>1. ASSUME NEW r \in Instance
          PROVE  /\ HasRun(r)' => persister'[r] = 2 * r[2] /\ mem'[r] = disk'[<<r[1], 2 * r[2]>>]
                 /\ ~HasRun(r)' => persister'[r] = -1
      <3>1. CASE r = s BY <1>4, <1>6, <1>7, <1>9, <1>14, <3>1
      <3>2. CASE r # s BY <1>4, <1>9, <1>14, <2>0, <3>2 DEF DisksRight
      <3> QED BY <3>1, <3>2
    <2>2. ASSUME NEW j \in Server, Left(j)' = {"Kill"}
          PROVE  disk'[<<j, saved'[j]>>] \subseteq mem'[InstanceOf(j)']
      <3>1. j # i BY <1>11, <2>2
      <3>2. InstanceOf(j)' = InstanceOf(j) /\ InstanceOf(j) # s /\ InstanceOf(j) \in Instance
        BY <1>2, <1>4, <1>7, <3>1, Named DEF InstanceOf
      <3> QED BY <1>3, <1>4, <1>9, <2>0, <2>2, <3>1, <3>2 DEF DisksRight
    <2> QED BY <2>1, <2>2 DEF DisksRight
  <1>16. Grown
    <2>1. ASSUME NEW r \in Instance, HasRun(r) PROVE HasRun(r)' /\ mem[r] \subseteq mem'[r]
      <3>1. r # s BY <1>14, <2>1
      <3> QED BY <1>9, <1>14, <2>1, <3>1
    <2>2. \A j, v : Safe(j, v)' <=> Safe(j, v) BY <1>4 DEF Safe
    <2> QED BY <2>1, <2>2 DEF Grown
  <1>17. CallsRight' BY <1>0, <1>4, <1>16, CallsKept DEF HarnessInv
  <1>18. EndsRight' /\ DownRight' /\ GroupsRight'
    <2>1. "StartKVServer" \in OpName /\ "Kill" # "StartKVServer" BY DEF OpName
    <2> QED BY <1>5, <2>1, ServerOpKeeps
  <1> QED BY <1>10, <1>13, <1>15, <1>17, <1>18 DEF HarnessInv

\* Persister.Copy (MakePersister the first time): the new persister has what the old one has.
LEMMA CopyKeeps ==
  ASSUME NEW i \in Server, OnServer("Copy", i), Copy(i)
  PROVE  HarnessInv'
  <1> DEFINE old == saved[i]
             new == IF old = -1 THEN {} ELSE disk[<<i, old>>]
             D == Server \X (0..2 * MaxGen + 1)
  <1>0. Performed(ServerOp("Copy", i)) /\ HarnessInv BY DEF OnServer
  <1>1. Types /\ DisksRight BY <1>0 DEF HarnessInv
  <1>2. /\ Ordered(script) /\ gen \in [Server -> 0..MaxGen] /\ saved \in [Server -> Int]
        /\ disk \in [D -> SUBSET Update]
    BY <1>1 DEF Types
  <1>3. /\ "Copy" \in Left(i) /\ Left(i)' = Left(i) \ {"Copy"}
        /\ \A b \in Left(i)' : Rank["Copy"] < Rank[b]
        /\ \A j \in Server : j # i => Left(j)' = Left(j)
    BY <1>0, <1>2, LeftAfter DEF OpName
  <1>4. /\ gen' = gen /\ servers' = servers /\ kvservers' = kvservers
        /\ persister' = persister /\ mem' = mem /\ ends' = ends /\ enabled' = enabled
        /\ connections' = connections /\ calls' = calls /\ orphans' = orphans
        /\ linked' = linked /\ sent' = sent /\ acked' = acked
    BY DEF OnServer, Copy, netVars, tableVars, callVars
  <1>5. \/ /\ Left(i) = {"Copy", "StartKVServer", "AddServer"} /\ Starting(i) /\ old = 2 * gen[i] - 1
        \/ /\ Left(i) = {"Copy", "Kill"} /\ Cut(i) /\ old = 2 * gen[i]
    <2>1. Life(i) BY <1>0 DEF HarnessInv, Lives
    <2>2. "DeleteServer" \notin Left(i) BY <1>3, Ranks, SMT
    <2> QED BY <1>3, <2>1, <2>2 DEF Life
  <1>6. old \in Int /\ gen[i] \in 0..MaxGen /\ MaxGen \in Nat BY <1>2, HarnessAssumption
  <1>7. /\ old >= -1 /\ old + 1 \in 0..2 * MaxGen + 1
        /\ old # -1 => old \in 0..2 * MaxGen + 1 /\ old >= 0
    <2>1. old = 2 * gen[i] - 1 \/ old = 2 * gen[i] BY <1>5
    <2> HIDE DEF old
    <2> QED BY <1>6, <2>1, SMT
  <1>8. <<i, old + 1>> \in D /\ (old # -1 => <<i, old>> \in D) BY <1>7
  <1>9. new \in SUBSET Update
    <2> HIDE DEF D
    <2> QED BY <1>2, <1>8
  <1>10. /\ saved' \in [Server -> Int] /\ saved'[i] = old + 1
         /\ \A j \in Server : j # i => saved'[j] = saved[j]
    <2>1. saved' = [saved EXCEPT ![i] = old + 1] BY DEF Copy
    <2>2. old + 1 \in Int BY <1>6, SMT
    <2> QED BY <1>2, <2>1, <2>2
  <1>11. /\ disk' \in [D -> SUBSET Update] /\ disk'[<<i, old + 1>>] = new
         /\ \A p \in D : p # <<i, old + 1>> => disk'[p] = disk[p]
    <2>1. disk' = [disk EXCEPT ![<<i, old + 1>>] = new] BY DEF Copy
    <2> HIDE DEF D, new, old
    <2> QED BY <1>2, <1>8, <1>9, <2>1
  <1> HIDE DEF D
  <1>12. Types' BY <1>0, <1>1, <1>4, <1>10, <1>11 DEF Types, Performed, D
  <1> HIDE DEF new
  <1>13. Left(i)' = {"StartKVServer", "AddServer"} \/ Left(i)' = {"Kill"} BY <1>3, <1>5
  <1>14. Life(i)'
    <2>1. CASE Left(i) = {"Copy", "StartKVServer", "AddServer"} /\ Starting(i) /\ old = 2 * gen[i] - 1
      <3>1. Left(i)' = {"StartKVServer", "AddServer"} BY <1>3, <2>1
      <3>2. saved'[i] = 2 * gen[i] BY <1>6, <1>10, <2>1, SMT
      <3> QED BY <1>4, <2>1, <3>1, <3>2 DEF Life, Starting
    <2>2. CASE Left(i) = {"Copy", "Kill"} /\ Cut(i) /\ old = 2 * gen[i]
      <3>1. Left(i)' = {"Kill"} BY <1>3, <2>2
      <3>2. saved'[i] = 2 * gen[i] + 1 BY <1>10, <2>2
      <3> QED BY <1>4, <2>2, <3>1, <3>2 DEF Life, Cut
    <2> QED BY <1>5, <2>1, <2>2
  <1>15. Lives' BY <1>0, <1>3, <1>4, <1>10, <1>14, OthersLive DEF HarnessInv
  <1>16. \A j \in Server : "StartKVServer" \in Left(j)' <=> "StartKVServer" \in Left(j) BY <1>3
  <1>17. \A s \in Instance : HasRun(s)' <=> HasRun(s) BY <1>4, <1>16, EndsNamed, RunKept
  <1>18. ASSUME NEW s \in Instance, HasRun(s) PROVE <<s[1], 2 * s[2]>> # <<i, old + 1>>
    <2> SUFFICES ASSUME s[1] = i, 2 * s[2] = old + 1 PROVE FALSE OBVIOUS
    <2>0. s[2] \in Int /\ s = <<s[1], s[2]>> BY EndsNamed, SMT
    <2>1. CASE Left(i) = {"Copy", "StartKVServer", "AddServer"} /\ old = 2 * gen[i] - 1
      <3>1. s[2] = gen[i] BY <1>6, <2>0, <2>1, SMT
      <3>2. ~(s[2] < gen[i]) BY <1>6, <3>1, SMT
      <3>3. "StartKVServer" \in Left(i) BY <2>1
      <3> QED BY <1>18, <3>2, <3>3 DEF HasRun
    <2>2. CASE old = 2 * gen[i] BY <1>6, <2>0, <2>2, SMT
    <2> QED BY <1>5, <2>1, <2>2
  <1>19. \A s \in Instance : <<s[1], 2 * s[2]>> \in D
    <2>1. ASSUME NEW s \in Instance PROVE <<s[1], 2 * s[2]>> \in D
      <3>1. s[1] \in Server /\ s[2] \in 0..MaxGen BY EndsNamed
      <3>2. 2 * s[2] \in 0..2 * MaxGen + 1 BY <1>6, <3>1, SMT
      <3> QED BY <3>1, <3>2 DEF D
    <2> QED BY <2>1
  <1>20. DisksRight'
    <2>1. ASSUME NEW s \in Instance
          PROVE  /\ HasRun(s)' => persister'[s] = 2 * s[2] /\ mem'[s] = disk'[<<s[1], 2 * s[2]>>]
                 /\ ~HasRun(s)' => persister'[s] = -1
      <3>1. HasRun(s) => disk'[<<s[1], 2 * s[2]>>] = disk[<<s[1], 2 * s[2]>>]
        BY <1>11, <1>18, <1>19
      <3> QED BY <1>1, <1>4, <1>17, <3>1 DEF DisksRight
    <2>2. ASSUME NEW j \in Server, Left(j)' = {"Kill"}
          PROVE  disk'[<<j, saved'[j]>>] \subseteq mem'[InstanceOf(j)']
      <3>0. InstanceOf(j)' = InstanceOf(j) BY <1>4 DEF InstanceOf
      <3>1. CASE j = i
        <4>1. Left(i) = {"Copy", "Kill"} /\ old = 2 * gen[i] BY <1>3, <1>5, <2>2, <3>1
        <4>2. disk'[<<i, saved'[i]>>] = disk[<<i, 2 * gen[i]>>]
          BY <1>7, <1>6, <1>10, <1>11, <4>1, SMT DEF new
        <4>3. InstanceOf(i) \in Instance /\ InstanceOf(i)[1] = i /\ InstanceOf(i)[2] = gen[i]
          BY <1>2, Named DEF InstanceOf
        <4>4. HasRun(InstanceOf(i)) BY <4>1, <4>3, SMT DEF HasRun
        <4>5. mem[InstanceOf(i)] = disk[<<i, 2 * gen[i]>>] BY <1>1, <4>3, <4>4 DEF DisksRight
        <4> QED BY <1>4, <3>0, <3>1, <4>2, <4>5
      <3>2. CASE j # i
        <4>1. Left(j) = {"Kill"} /\ saved'[j] = saved[j] BY <1>3, <1>10, <2>2, <3>2
        <4>2. <<j, saved[j]>> \in D
          <5>1. Life(j) BY <1>0 DEF HarnessInv, Lives
          <5>2. saved[j] = 2 * gen[j] + 1 BY <4>1, <5>1, SMT DEF Life
          <5>3. gen[j] \in 0..MaxGen BY <1>2
          <5>4. saved[j] \in 0..2 * MaxGen + 1 BY <1>6, <5>2, <5>3, SMT
          <5> QED BY <5>4 DEF D
        <4>3. <<j, saved[j]>> # <<i, old + 1>> BY <3>2
        <4>4. disk'[<<j, saved[j]>>] = disk[<<j, saved[j]>>] BY <1>11, <4>2, <4>3
        <4> QED BY <1>1, <1>4, <3>0, <4>1, <4>4 DEF DisksRight
      <3> QED BY <3>1, <3>2
    <2> QED BY <2>1, <2>2 DEF DisksRight
  <1>21. ASSUME NEW j \in Server, NEW v \in Update, Safe(j, v) PROVE Safe(j, v)'
    <2>1. saved[j] >= 0 /\ v \in disk[<<j, saved[j]>>] BY <1>21 DEF Safe
    <2>2. CASE j = i
      <3>1. v \in disk'[<<i, old + 1>>] /\ old + 1 >= 0 BY <1>6, <1>11, <2>1, <2>2, SMT DEF new
      <3> QED BY <1>10, <2>2, <3>1 DEF Safe
    <2>3. CASE j # i
      <3>1. saved'[j] = saved[j] BY <1>10, <2>3
      <3>2. <<j, saved[j]>> \in D
        <4>1. Life(j) BY <1>0 DEF HarnessInv, Lives
        <4>2. saved[j] \in {2 * gen[j] - 1, 2 * gen[j], 2 * gen[j] + 1} BY <4>1 DEF Life
        <4>3. gen[j] \in 0..MaxGen BY <1>2
        <4>4. saved[j] \in 0..2 * MaxGen + 1 BY <1>6, <2>1, <4>2, <4>3, SMT
        <4> QED BY <4>4 DEF D
      <3>3. <<j, saved[j]>> # <<i, old + 1>> BY <2>3
      <3>4. disk'[<<j, saved[j]>>] = disk[<<j, saved[j]>>] BY <1>11, <3>2, <3>3
      <3> QED BY <2>1, <3>1, <3>4 DEF Safe
    <2> QED BY <2>2, <2>3
  <1>22. Grown BY <1>4, <1>17, <1>21 DEF Grown
  <1>23. CallsRight' BY <1>0, <1>4, <1>22, CallsKept DEF HarnessInv
  <1>24. EndsRight' /\ DownRight' /\ GroupsRight'
    <2>1. "Copy" \in OpName /\ "Kill" # "Copy" BY DEF OpName
    <2>2. Left(i)' # {} BY <1>13
    <2> QED BY <1>4, <2>1, <2>2, ServerOpKeeps
  <1> QED BY <1>12, <1>15, <1>20, <1>23, <1>24 DEF HarnessInv

\* Each operation of a script keeps the invariant.
LEMMA OperationKeeps ==
  ASSUME HarnessInv, NEW o, Performed(o), Perform(o), UNCHANGED <<linked, faults, sent, acked>>
  PROVE  HarnessInv'
  <1>1. o \in Op BY DEF Performed
  <1>2. CASE \E e \in Endname, yes \in BOOLEAN : o = EnableOp(e, yes)
    <2>1. PICK e \in Endname, yes \in BOOLEAN : o = EnableOp(e, yes) BY <1>2
    <2>2. o.op = "Enable" /\ o.end = e /\ o.yes = yes BY <2>1 DEF EnableOp
    <2>3. Enable(e, yes) /\ UNCHANGED cfgVars BY <2>2 DEF Perform
    <2> QED BY <2>1, <2>3, EnableKeeps
  <1>3. CASE \E e \in Endname : o = MakeEndOp(e)
    <2>1. PICK e \in Endname : o = MakeEndOp(e) BY <1>3
    <2>2. o.op = "MakeEnd" /\ o.end = e BY <2>1 DEF MakeEndOp
    <2>3. MakeEnd(e, e[2]) /\ UNCHANGED cfgVars BY <2>2 DEF Perform
    <2> QED BY <2>1, <2>3, MakeEndKeeps
  <1>4. CASE \E yes \in BOOLEAN : o = ReliableOp(yes)
    <2>1. PICK yes \in BOOLEAN : o = ReliableOp(yes) BY <1>4
    <2>2. o.op = "Reliable" /\ o.yes = yes BY <2>1 DEF ReliableOp
    <2>3. Reliable(yes) /\ UNCHANGED cfgVars BY <2>2 DEF Perform
    <2> QED BY <2>1, <2>3, ReliableKeeps
  <1>5. CASE \E name \in OpName, i \in Server : o = ServerOp(name, i)
    <2>1. PICK name \in OpName, i \in Server : o = ServerOp(name, i) BY <1>5
    <2>2. o.op = name /\ o.server = i BY <2>1 DEF ServerOp
    <2>3. CASE name = "DeleteServer"
      <3>1. DeleteServer(i) /\ UNCHANGED cfgVars BY <2>2, <2>3 DEF Perform
      <3>2. OnServer("DeleteServer", i)
        BY <2>1, <2>3, <3>1 DEF OnServer, DeleteServer, callVars, cfgVars
      <3> QED BY <3>1, <3>2, DeleteServerKeeps
    <2>4. CASE name = "AddServer"
      <3>1. AddServer(i, InstanceOf(i)) /\ UNCHANGED cfgVars BY <2>2, <2>4 DEF Perform
      <3>2. OnServer("AddServer", i)
        BY <2>1, <2>4, <3>1 DEF OnServer, AddServer, callVars, cfgVars
      <3> QED BY <3>1, <3>2, AddServerKeeps
    <2>5. CASE name = "Copy"
      <3>1. Copy(i) BY <2>2, <2>5 DEF Perform
      <3>2. OnServer("Copy", i)
        BY <2>1, <2>5, <3>1 DEF OnServer, Copy, netVars, tableVars, callVars
      <3> QED BY <3>1, <3>2, CopyKeeps
    <2>6. CASE name = "Kill"
      <3>1. Kill(i) BY <2>2, <2>6 DEF Perform
      <3>2. OnServer("Kill", i)
        BY <2>1, <2>6, <3>1 DEF OnServer, Kill, netVars, tableVars, callVars
      <3> QED BY <3>1, <3>2, KillKeeps
    <2>7. CASE name = "StartKVServer"
      <3>1. StartKVServer(i) BY <2>2, <2>7 DEF Perform
      <3>2. OnServer("StartKVServer", i)
        BY <2>1, <2>7, <3>1 DEF OnServer, StartKVServer, netVars, tableVars, callVars
      <3> QED BY <3>1, <3>2, StartKVServerKeeps
    <2> QED BY <2>3, <2>4, <2>5, <2>6, <2>7 DEF OpName
  <1> QED BY <1>1, <1>2, <1>3, <1>4, <1>5, OpKinds

-----------------------------------------------------------------------------
(* Calls and handlers                                                      *)

\* A step of a call or a handler leaves the tester and the tables alone.
Aside == UNCHANGED <<ends, enabled, connections, servers, gen, kvservers, saved, persister, script, linked>>

\* Then the invariant is one about the calls and the persisters.
LEMMA AsideKeeps ==
  ASSUME HarnessInv, Aside
  PROVE  /\ Lives' /\ EndsRight' /\ DownRight' /\ GroupsRight'
         /\ \A i \in Server : Left(i)' = Left(i) /\ InstanceOf(i)' = InstanceOf(i)
         /\ \A s \in Instance : HasRun(s)' <=> HasRun(s)
  <1>0. /\ ends' = ends /\ enabled' = enabled /\ connections' = connections /\ servers' = servers
        /\ gen' = gen /\ kvservers' = kvservers /\ saved' = saved /\ persister' = persister
        /\ script' = script /\ linked' = linked
    BY DEF Aside
  <1>1. \A i : Left(i)' = Left(i) /\ InstanceOf(i)' = InstanceOf(i)
    BY <1>0 DEF Left, OpsOn, InstanceOf
  <1>2. \A i, j : endname(i, j)' = endname(i, j) /\ Linked(i, j)' = Linked(i, j)
    BY <1>0 DEF endname, InstanceOf, Linked
  <1>3. Lives'
    <2> SUFFICES ASSUME NEW i \in Server PROVE Life(i)' BY DEF Lives
    <2>1. SameLife(i) BY <1>0, <1>1 DEF SameLife
    <2> QED BY <2>1, LifeKept DEF Lives, HarnessInv
  <1>4. EndsRight' BY <1>0, <1>1 DEF EndsRight, HarnessInv
  <1>5. DownRight' BY <1>0, <1>1, <1>2 DEF DownRight, DownAt, Down, NeverEnabled, HarnessInv
  <1>6. \A i \in Server : Gone(i)' => Gone(i) BY <1>0, <1>1 DEF Gone, Down
  <1>7. GroupsRight'
    <2>1. \A i, j \in Server : EndAt(endname(i, j), Linked(i, j))
                                => EndAt(endname(i, j), Linked(i, j))'
      BY <1>0, <1>2 DEF EndAt
    <2> QED BY <1>0, <1>6, <2>1, GroupsAfter DEF HarnessInv
  <1>8. \A s \in Instance : HasRun(s)' <=> HasRun(s) BY <1>0, <1>1 DEF HasRun
  <1> QED BY <1>1, <1>3, <1>4, <1>5, <1>7, <1>8

\* A step of call c that runs no handler.
CallStep(c) ==
  /\ HarnessInv /\ Aside /\ UNCHANGED <<disk, mem>> /\ sent' \in 0..MaxCalls
  /\ \E q : calls' = [calls EXCEPT ![c] = q]

\* Then the invariant is one about that call.
LEMMA CallStepKeeps ==
  ASSUME NEW c \in Caller, CallStep(c), CallRight(c)',
         \A o \in orphans' : o \in orphans \/ (o.srv \in Instance /\ HasRun(o.srv) /\ o.args \in Update),
         \A a \in acked' : \/ a \in acked
                           \/ a.server \in Server /\ a.update \in Update /\ Safe(a.server, a.update)
  PROVE  HarnessInv'
  <1>0. HarnessInv /\ Aside BY DEF CallStep
  <1>1. /\ disk' = disk /\ mem' = mem /\ sent' \in 0..MaxCalls
        /\ gen' = gen /\ saved' = saved /\ persister' = persister
    BY DEF CallStep, Aside
  <1>2. /\ Lives' /\ EndsRight' /\ DownRight' /\ GroupsRight'
        /\ \A i \in Server : Left(i)' = Left(i) /\ InstanceOf(i)' = InstanceOf(i)
        /\ \A s \in Instance : HasRun(s)' <=> HasRun(s)
    BY <1>0, AsideKeeps
  <1>3. DOMAIN calls' = Caller /\ \A d \in Caller : d # c => calls'[d] = calls[d]
    <2>1. DOMAIN calls = Caller BY <1>0 DEF HarnessInv, Types
    <2>2. PICK q : calls' = [calls EXCEPT ![c] = q] BY DEF CallStep
    <2> QED BY <2>1, <2>2
  <1>4. Types' BY <1>0, <1>1, <1>3 DEF HarnessInv, Types, Aside
  <1>5. DisksRight' /\ Grown BY <1>0, <1>1, <1>2, StoresKept DEF HarnessInv
  <1>6. \A i, v : Safe(i, v)' <=> Safe(i, v) BY <1>1 DEF Safe
  <1>7. CallsRight'
    <2>1. ASSUME NEW d \in Caller PROVE CallRight(d)'
      <3>1. CASE d # c BY <1>0, <1>3, <1>5, <3>1, CallKept DEF HarnessInv, CallsRight
      <3> QED BY <3>1
    <2>2. \A o \in orphans' : o.srv \in Instance /\ HasRun(o.srv)' /\ o.args \in Update
      BY <1>0, <1>2 DEF HarnessInv, CallsRight
    <2>3. \A a \in acked' : a.server \in Server /\ a.update \in Update /\ Safe(a.server, a.update)'
      BY <1>0, <1>6 DEF HarnessInv, CallsRight
    <2> QED BY <2>1, <2>2, <2>3 DEF CallsRight
  <1> QED BY <1>2, <1>4, <1>5, <1>7 DEF HarnessInv

\* The caller gets replyMsg{false, nil}.
LEMMA FailRight ==
  ASSUME DOMAIN calls = Caller, NEW c \in Caller, Fail(c)
  PROVE  CallRight(c)' /\ \E q : calls' = [calls EXCEPT ![c] = q]
  <1> DEFINE q == [NoCall EXCEPT !.stage = "returned"]
  <1>1. calls' = [calls EXCEPT ![c] = q] BY DEF Fail
  <1>2. calls'[c] = q BY <1>1
  <1>4. IsCall(q) /\ q.stage = "returned" 
    <2>1. IsCall(NoCall) BY DEF IsCall, NoCall
    <2> QED BY <2>1 DEF IsCall
  <1> HIDE DEF q
  <1> QED BY <1>1, <1>2, <1>4 DEF CallRight

\* ClientEnd.Call by a clerk or a server.
LEMMA CallKeeps ==
  ASSUME HarnessInv, NEW c \in Caller, NEW j \in Server, Call(c, j)
  PROVE  HarnessInv'
  <1> DEFINE q == [NoCall EXCEPT !.stage = "sent", !.end = <<c, j>>, !.args = sent + 1]
  <1>0. DOMAIN calls = Caller /\ sent \in 0..MaxCalls BY DEF HarnessInv, Types
  <1>1. calls' = [calls EXCEPT ![c] = q] BY DEF Call, Send
  <1>2. calls'[c] = q BY <1>0, <1>1
  <1>4. IsCall(q) /\ q.stage = "sent" /\ q.end = <<c, j>> /\ q.args = sent + 1
    <2>1. IsCall(NoCall) BY DEF IsCall, NoCall
    <2> QED BY <2>1 DEF IsCall
  <1> HIDE DEF q
  <1>5. sent + 1 \in Update /\ sent' \in 0..MaxCalls
    <2>1. sent < MaxCalls /\ sent' = sent + 1 /\ MaxCalls \in Nat BY HarnessAssumption DEF Call
    <2> QED BY <1>0, <2>1, SMT DEF Update
  <1>6. <<c, j>> \in Endname BY HarnessAssumption
  <1>7. CallRight(c)' BY <1>2, <1>4, <1>5, <1>6 DEF CallRight
  <1>8. CallStep(c) /\ orphans' = orphans /\ acked' = acked
    BY <1>1, <1>5 DEF CallStep, Call, Send, Aside, tableVars, cfgVars, testVars
  <1> QED BY <1>7, <1>8, CallStepKeeps

\* A server that is on the network runs, with the persister that the tester has saved last.
LEMMA ServerRuns ==
  ASSUME HarnessInv, NEW i \in Server, servers[i] # Nil
  PROVE  /\ servers[i] = InstanceOf(i) /\ InstanceOf(i) \in Instance /\ InstanceOf(i)[1] = i
         /\ InstanceOf(i)[2] = gen[i] /\ HasRun(InstanceOf(i)) /\ saved[i] = 2 * gen[i]
         /\ gen[i] \in Nat
  <1>1. Life(i) BY DEF HarnessInv, Lives
  <1>2. /\ Left(i) \in {{}, {"DeleteServer", "Copy", "Kill"}}
        /\ servers[i] = InstanceOf(i) /\ saved[i] = 2 * gen[i]
    BY <1>1 DEF Life, Starting, Cut
  <1>3. gen \in [Server -> 0..MaxGen] BY DEF HarnessInv, Types
  <1>4. InstanceOf(i) \in Instance /\ InstanceOf(i)[1] = i /\ InstanceOf(i)[2] = gen[i]
    BY <1>3, Named DEF InstanceOf
  <1>5. "StartKVServer" \notin Left(i) BY <1>2, SMT
  <1>6. HasRun(InstanceOf(i)) BY <1>4, <1>5 DEF HasRun
  <1>7. gen[i] \in Nat BY <1>3, SMT
  <1> QED BY <1>2, <1>4, <1>6, <1>7

\* readEndnameInfo finds an instance that runs.
LEMMA ReadKeeps ==
  ASSUME HarnessInv, NEW c \in Caller, readEndnameInfo(c), UNCHANGED <<cfgVars, testVars, sent, acked>>
  PROVE  HarnessInv'
  <1>0. /\ DOMAIN calls = Caller /\ connections \in [Endname -> Server \cup {Nil}]
        /\ servers \in [Server -> Instance \cup {Nil}] /\ sent \in 0..MaxCalls
    BY DEF HarnessInv, Types
  <1>1. CallRight(c) BY DEF HarnessInv, CallsRight
  <1>2. calls[c].stage = "sent" BY DEF readEndnameInfo, Stage
  <1>3. PICK e \in Endname : e = calls[c].end BY <1>1, <1>2 DEF CallRight
  <1>a. PICK args \in Update : args = calls[c].args BY <1>1, <1>2 DEF CallRight
  <1>b. IsCall(calls[c]) BY <1>1 DEF CallRight
  <1>4. /\ HarnessInv /\ Aside /\ UNCHANGED <<disk, mem>> /\ sent' \in 0..MaxCalls
        /\ orphans' = orphans /\ acked' = acked
    BY <1>0 DEF readEndnameInfo, Aside, tableVars, cfgVars, testVars
  <1>5. CASE enabled[e] /\ ServerOf(e) # Nil
    <2>1. PICK i, s : i = connections[e] /\ s = ServerOf(e) OBVIOUS
    <2>2. i \in Server /\ s = servers[i] /\ servers[i] # Nil BY <1>0, <1>3, <1>5, <2>1 DEF ServerOf
    <2>3. s \in Instance /\ s[1] = i /\ HasRun(s)
      <3>1. servers[i] \in Instance /\ servers[i][1] = i /\ HasRun(servers[i])
        BY <2>2, ServerRuns
      <3> QED BY <2>2, <3>1
    <2> DEFINE q == [calls[c] EXCEPT !.stage = "forwarded", !.name = i, !.srv = s,
                                     !.lossy = ~reliable]
    <2>4. calls' = [calls EXCEPT ![c] = q] BY <1>3, <1>5, <2>1 DEF readEndnameInfo
    <2>5. /\ IsCall(q) /\ q.stage = "forwarded" /\ q.end = e /\ q.name = i /\ q.srv = s
          /\ q.args = args
      BY <1>3, <1>a, <1>b DEF IsCall
    <2>6. calls'[c] = q BY <1>0, <2>4
    <2> HIDE DEF q
    <2>7. CallStep(c) BY <1>4, <2>4 DEF CallStep
    <2>8. HasRun(s)' BY <1>4, <2>3, AsideKeeps
    <2>9. CallRight(c)'
      <3>1. /\ IsCall(calls'[c]) /\ calls'[c].stage = "forwarded" /\ calls'[c].end = e
            /\ calls'[c].name = i /\ calls'[c].srv = s /\ calls'[c].args = args
        BY <2>5, <2>6
      <3>2. /\ "forwarded" \in {"idle", "sent", "forwarded", "executing", "executed", "answering",
                                "returned"}
            /\ "forwarded" # "executed" /\ "forwarded" # "answering"
        OBVIOUS
      <3> QED BY <2>2, <2>3, <2>8, <3>1, <3>2 DEF CallRight, IsCall
    <2> QED BY <1>4, <2>7, <2>9, CallStepKeeps
  <1>6. CASE ~(enabled[e] /\ ServerOf(e) # Nil)
    <2>1. Fail(c) BY <1>3, <1>6 DEF readEndnameInfo
    <2>2. CallRight(c)' /\ \E q : calls' = [calls EXCEPT ![c] = q] BY <1>0, <2>1, FailRight
    <2>3. CallStep(c) BY <1>4, <2>2 DEF CallStep
    <2> QED BY <1>4, <2>2, <2>3, CallStepKeeps
  <1> QED BY <1>5, <1>6

\* What a call that has reached an instance knows of it.
LEMMA CallKnows ==
  ASSUME HarnessInv, NEW c \in Caller,
         calls[c].stage \in {"forwarded", "executing", "executed", "answering"}
  PROVE  \E e \in Endname, args \in Update, i \in Server, s \in Instance :
           /\ IsCall(calls[c]) /\ e = calls[c].end /\ args = calls[c].args /\ i = calls[c].name
           /\ s = calls[c].srv /\ s[1] = i /\ HasRun(s)
           /\ calls[c].stage = "executed" => args \in mem[s]
           /\ calls[c].stage = "answering" => Safe(i, args)
  <1>1. CallRight(c) BY DEF HarnessInv, CallsRight
  <1>2. calls[c].stage \notin {"idle", "returned"} OBVIOUS
  <1> QED BY <1>1, <1>2 DEF CallRight

\* The call goes to the next stage.
LEMMA GotoKeeps ==
  ASSUME HarnessInv, NEW c \in Caller, NEW stage \in {"executing", "answering"}, Goto(c, stage),
         calls[c].stage \in {"forwarded", "executed"},
         stage = "answering" => Safe(calls[c].name, calls[c].args),
         UNCHANGED <<tableVars, orphans, cfgVars, testVars, sent, acked>>
  PROVE  HarnessInv'
  <1>0. DOMAIN calls = Caller /\ sent \in 0..MaxCalls BY DEF HarnessInv, Types
  <1>1. calls[c].stage \in {"forwarded", "executing", "executed", "answering"} OBVIOUS
  <1>2. PICK e \in Endname, args \in Update, i \in Server, s \in Instance :
           /\ IsCall(calls[c]) /\ e = calls[c].end /\ args = calls[c].args /\ i = calls[c].name
           /\ s = calls[c].srv /\ s[1] = i /\ HasRun(s)
    BY <1>1, CallKnows
  <1>3. /\ HarnessInv /\ Aside /\ UNCHANGED <<disk, mem>> /\ sent' \in 0..MaxCalls
        /\ orphans' = orphans /\ acked' = acked
    BY <1>0 DEF Aside, tableVars, cfgVars, testVars
  <1> DEFINE q == [calls[c] EXCEPT !.stage = stage]
  <1>4. calls' = [calls EXCEPT ![c] = q] BY DEF Goto
  <1>5. IsCall(q) /\ q.stage = stage /\ q.end = e /\ q.name = i /\ q.srv = s /\ q.args = args
    BY <1>2 DEF IsCall
  <1>6. calls'[c] = q BY <1>0, <1>4
  <1> HIDE DEF q
  <1>7. CallStep(c) BY <1>3, <1>4 DEF CallStep
  <1>8. HasRun(s)' BY <1>2, <1>3, AsideKeeps
  <1>9. stage = "answering" => Safe(i, args)'
    BY <1>2, <1>3 DEF Safe, Aside
  <1>10. CallRight(c)'
    <2>1. /\ IsCall(calls'[c]) /\ calls'[c].stage = stage /\ calls'[c].end = e
          /\ calls'[c].name = i /\ calls'[c].srv = s /\ calls'[c].args = args
      BY <1>5, <1>6
    <2>2. /\ stage \in {"idle", "sent", "forwarded", "executing", "executed", "answering", "returned"}
          /\ stage # "executed"
      OBVIOUS
    <2> QED BY <1>2, <1>8, <1>9, <2>1, <2>2 DEF CallRight, IsCall
  <1> QED BY <1>3, <1>7, <1>10, CallStepKeeps

\* The call fails, and its handler may be left to itself.
LEMMA FailKeeps ==
  ASSUME HarnessInv, NEW c \in Caller, Fail(c),
         UNCHANGED <<tableVars, cfgVars, testVars, sent, acked>>,
         \A o \in orphans' : o \in orphans \/ (o.srv \in Instance /\ HasRun(o.srv) /\ o.args \in Update)
  PROVE  HarnessInv'
  <1>0. DOMAIN calls = Caller /\ sent \in 0..MaxCalls BY DEF HarnessInv, Types
  <1>1. CallRight(c)' /\ \E q : calls' = [calls EXCEPT ![c] = q] BY <1>0, FailRight
  <1>2. CallStep(c) /\ acked' = acked
    BY <1>0, <1>1 DEF CallStep, Aside, tableVars, cfgVars, testVars
  <1> QED BY <1>1, <1>2, CallStepKeeps

\* A step of processReq.
LEMMA NetStepKeeps ==
  ASSUME HarnessInv, NEW c \in Caller, NetStep(c)
  PROVE  HarnessInv'
  <1>0. UNCHANGED <<cfgVars, testVars, sent, acked>> BY DEF NetStep
  <1>1. CASE readEndnameInfo(c) BY <1>0, <1>1, ReadKeeps
  <1>2. CASE StartHandler(c)
    <2>1. calls[c].stage \in {"forwarded", "executed"} BY <1>2 DEF StartHandler, Stage
    <2>2. Goto(c, "executing") /\ UNCHANGED <<tableVars, orphans>> BY <1>2 DEF StartHandler
    <2>3. "executing" \in {"executing", "answering"} /\ "executing" # "answering" OBVIOUS
    <2> QED BY <1>0, <2>1, <2>2, <2>3, GotoKeeps
  <1>3. CASE SeeServerDead(c)
    <2>1. calls[c].stage \in {"forwarded", "executing", "executed", "answering"}
      BY <1>3 DEF SeeServerDead, Stage
    <2>2. PICK e \in Endname, args \in Update, i \in Server, s \in Instance :
            args = calls[c].args /\ s = calls[c].srv /\ HasRun(s)
      BY <2>1, CallKnows
    <2> DEFINE o == [srv |-> s, args |-> args]
    <2>3. orphans' = orphans \cup {o} BY <1>3, <2>2 DEF SeeServerDead
    <2>4. o.srv = s /\ o.args = args OBVIOUS
    <2> HIDE DEF o
    <2>5. \A x \in orphans' : x \in orphans \/ (x.srv \in Instance /\ HasRun(x.srv) /\ x.args \in Update)
      BY <2>2, <2>3, <2>4
    <2>6. Fail(c) /\ UNCHANGED tableVars BY <1>3 DEF SeeServerDead
    <2> QED BY <1>0, <2>5, <2>6, FailKeeps
  <1>4. CASE CheckServer(c) /\ isServerDead(c)
    <2>1. Fail(c) /\ UNCHANGED <<tableVars, orphans>> BY <1>4 DEF CheckServer
    <2> QED BY <1>0, <2>1, FailKeeps
  <1>5. CASE CheckServer(c) /\ ~isServerDead(c)
    <2>1. calls[c].stage = "executed" /\ Goto(c, "answering") /\ UNCHANGED <<tableVars, orphans>>
      BY <1>5 DEF CheckServer, Stage
    <2>2. calls[c].stage \in {"forwarded", "executing", "executed", "answering"} BY <2>1
    <2>3. PICK e \in Endname, args \in Update, i \in Server, s \in Instance :
            /\ args = calls[c].args /\ i = calls[c].name /\ s = calls[c].srv /\ s[1] = i
            /\ HasRun(s) /\ args \in mem[s]
      BY <2>1, <2>2, CallKnows
    <2>4. servers[i] = s BY <1>5, <2>3 DEF isServerDead
    <2>5. servers[i] # Nil BY <2>4, EndsNamed
    <2>6. s[2] = gen[i] /\ saved[i] = 2 * gen[i] /\ gen[i] \in Nat BY <2>4, <2>5, ServerRuns
    <2>7. mem[s] = disk[<<s[1], 2 * s[2]>>] BY <2>3 DEF HarnessInv, DisksRight
    <2>8. saved[i] >= 0 BY <2>6, SMT
    <2>9. Safe(calls[c].name, calls[c].args) BY <2>3, <2>6, <2>7, <2>8 DEF Safe
    <2>10. "answering" \in {"executing", "answering"} /\ calls[c].stage \in {"forwarded", "executed"}
      BY <2>1
    <2> QED BY <1>0, <2>1, <2>9, <2>10, GotoKeeps
  <1>6. CASE DropRequest(c)
    <2>1. Fail(c) /\ UNCHANGED <<tableVars, orphans>> BY <1>6 DEF DropRequest
    <2> QED BY <1>0, <2>1, FailKeeps
  <1>7. CASE DropReply(c)
    <2>1. Fail(c) /\ UNCHANGED <<tableVars, orphans>> BY <1>7 DEF DropReply
    <2> QED BY <1>0, <2>1, FailKeeps
  <1> QED BY <1>1, <1>2, <1>3, <1>4, <1>5, <1>6, <1>7 DEF NetStep

\* The caller has its positive reply.
LEMMA ReplyKeeps ==
  ASSUME HarnessInv, NEW c \in Caller, Reply(c)
  PROVE  HarnessInv'
  <1>0. DOMAIN calls = Caller /\ sent \in 0..MaxCalls BY DEF HarnessInv, Types
  <1>1. calls[c].stage = "answering" BY DEF Reply, DeliverReply, Stage
  <1>2. calls[c].stage \in {"forwarded", "executing", "executed", "answering"} BY <1>1
  <1>3. PICK e \in Endname, args \in Update, i \in Server, s \in Instance :
          /\ IsCall(calls[c]) /\ args = calls[c].args /\ i = calls[c].name /\ Safe(i, args)
    BY <1>1, <1>2, CallKnows
  <1> DEFINE q == [calls[c] EXCEPT !.stage = "returned", !.ok = TRUE]
  <1>4. calls' = [calls EXCEPT ![c] = q] BY DEF Reply, DeliverReply
  <1>5. IsCall(q) /\ q.stage = "returned" BY <1>3 DEF IsCall
  <1>6. calls'[c] = q BY <1>0, <1>4
  <1> HIDE DEF q
  <1>7. CallRight(c)' BY <1>5, <1>6 DEF CallRight, IsCall
  <1>8. CallStep(c) /\ orphans' = orphans
    BY <1>0, <1>4 DEF CallStep, Reply, DeliverReply, Aside, tableVars, cfgVars, testVars
  <1> DEFINE a == [server |-> i, update |-> args]
  <1>9. acked' = acked \cup {a} BY <1>3 DEF Reply
  <1>10. a.server = i /\ a.update = args OBVIOUS
  <1> HIDE DEF a
  <1>11. \A x \in acked' : \/ x \in acked
                           \/ x.server \in Server /\ x.update \in Update /\ Safe(x.server, x.update)
    BY <1>3, <1>9, <1>10
  <1> QED BY <1>7, <1>8, <1>11, CallStepKeeps

\* A handler accepts an update and saves it: nothing that was saved is lost.
LEMMA AcceptGrows ==
  ASSUME HarnessInv, Aside, NEW s \in Instance, HasRun(s), NEW v \in Update, Accept(s, v)
  PROVE  /\ mem' \in [Instance -> SUBSET Update] /\ v \in mem'[s]
         /\ disk' \in [Server \X (0..2 * MaxGen + 1) -> SUBSET Update]
         /\ DisksRight' /\ Grown
  <1> DEFINE D == Server \X (0..2 * MaxGen + 1)
             p == <<s[1], 2 * s[2]>>
             new == mem[s] \cup {v}
  <1>0. /\ mem \in [Instance -> SUBSET Update] /\ disk \in [D -> SUBSET Update]
        /\ gen \in [Server -> 0..MaxGen] /\ DisksRight /\ Lives
    BY DEF HarnessInv, Types
  <1>1. persister[s] = 2 * s[2] /\ mem[s] = disk[p] BY <1>0 DEF DisksRight
  <1>2. ASSUME NEW r \in Instance
        PROVE  r[1] \in Server /\ r[2] \in 0..MaxGen /\ r = <<r[1], r[2]>> /\ <<r[1], 2 * r[2]>> \in D
    <2>1. r[1] \in Server /\ r[2] \in 0..MaxGen /\ r = <<r[1], r[2]>> BY EndsNamed
    <2>2. 2 * r[2] \in 0..2 * MaxGen + 1 BY <2>1, HarnessAssumption, SMT
    <2> QED BY <2>1, <2>2
  <1>3. p \in D BY <1>2
  <1>4. new \in SUBSET Update BY <1>0
  <1>5. mem' = [mem EXCEPT ![s] = new] /\ disk' = [disk EXCEPT ![p] = new]
    BY <1>1 DEF Accept
  <1> HIDE DEF D, p
  <1>6. /\ mem' \in [Instance -> SUBSET Update] /\ mem'[s] = new
        /\ \A r \in Instance : r # s => mem'[r] = mem[r]
    <2> HIDE DEF new
    <2> QED BY <1>0, <1>4, <1>5
  <1>7. /\ disk' \in [D -> SUBSET Update] /\ disk'[p] = new
        /\ \A x \in D : x # p => disk'[x] = disk[x]
    <2> HIDE DEF new
    <2> QED BY <1>0, <1>3, <1>4, <1>5
  <1>8. /\ \A r \in Instance : mem[r] \subseteq mem'[r]
        /\ \A x \in D : disk[x] \subseteq disk'[x]
    BY <1>1, <1>6, <1>7
  <1>9. /\ \A i \in Server : Left(i)' = Left(i) /\ InstanceOf(i)' = InstanceOf(i)
        /\ \A r \in Instance : HasRun(r)' <=> HasRun(r)
    BY AsideKeeps
  <1>10. gen' = gen /\ saved' = saved /\ persister' = persister BY DEF Aside
  <1>11. ASSUME NEW j \in Server, saved[j] >= 0 PROVE <<j, saved[j]>> \in D
    <2>1. Life(j) BY <1>0 DEF Lives
    <2>2. saved[j] \in {2 * gen[j] - 1, 2 * gen[j], 2 * gen[j] + 1} BY <2>1 DEF Life
    <2>3. gen[j] \in 0..MaxGen /\ MaxGen \in Nat BY <1>0, HarnessAssumption
    <2>4. saved[j] \in 0..2 * MaxGen + 1 BY <1>11, <2>2, <2>3, SMT
    <2> QED BY <2>4 DEF D
  <1>12. ASSUME NEW r \in Instance
         PROVE  /\ HasRun(r)' => persister'[r] = 2 * r[2] /\ mem'[r] = disk'[<<r[1], 2 * r[2]>>]
                /\ ~HasRun(r)' => persister'[r] = -1
    <2>0. /\ HasRun(r) => persister[r] = 2 * r[2] /\ mem[r] = disk[<<r[1], 2 * r[2]>>]
          /\ ~HasRun(r) => persister[r] = -1
      BY <1>0 DEF DisksRight
    <2>1. CASE r = s BY <1>1, <1>6, <1>7, <1>9, <1>10, <2>0, <2>1 DEF p
    <2>2. CASE r # s
      <3>1. <<r[1], 2 * r[2]>> # p
        <4>1. r[2] \in 0..MaxGen /\ s[2] \in 0..MaxGen BY <1>2
        <4>2. r[1] # s[1] \/ r[2] # s[2] BY <1>2, <2>2
        <4> QED BY <4>1, <4>2, SMT DEF p
      <3>2. disk'[<<r[1], 2 * r[2]>>] = disk[<<r[1], 2 * r[2]>>] BY <1>2, <1>7, <3>1
      <3> QED BY <1>6, <1>9, <1>10, <2>0, <2>2, <3>2
    <2> QED BY <2>1, <2>2
  <1>13. ASSUME NEW j \in Server, Left(j)' = {"Kill"}
         PROVE  disk'[<<j, saved'[j]>>] \subseteq mem'[InstanceOf(j)']
    <2>1. Left(j) = {"Kill"} BY <1>9, <1>13
    <2>2. Life(j) BY <1>0 DEF Lives
    <2>3. saved[j] = 2 * gen[j] + 1 BY <2>1, <2>2, SMT DEF Life
    <2>4. gen[j] \in 0..MaxGen /\ s[2] \in 0..MaxGen /\ InstanceOf(j) \in Instance
      BY <1>0, <1>2, Named
    <2>5. saved[j] >= 0 /\ saved[j] # 2 * s[2] BY <2>3, <2>4, SMT
    <2>6. <<j, saved[j]>> # p BY <2>5 DEF p
    <2>7. disk'[<<j, saved[j]>>] = disk[<<j, saved[j]>>] BY <1>7, <1>11, <2>5, <2>6
    <2>8. disk[<<j, saved[j]>>] \subseteq mem[InstanceOf(j)] BY <1>0, <2>1 DEF DisksRight
    <2>9. mem[InstanceOf(j)] \subseteq mem'[InstanceOf(j)] BY <1>8, <2>4
    <2>10. disk'[<<j, saved[j]>>] \subseteq mem'[InstanceOf(j)] BY <2>7, <2>8, <2>9
    <2> QED BY <1>9, <1>10, <2>10
  <1>14. DisksRight' BY <1>12, <1>13 DEF DisksRight
  <1>15. ASSUME NEW j \in Server, NEW w \in Update, Safe(j, w) PROVE Safe(j, w)'
    <2>1. saved[j] >= 0 /\ w \in disk[<<j, saved[j]>>] BY <1>15 DEF Safe
    <2>2. w \in disk'[<<j, saved[j]>>] BY <1>8, <1>11, <2>1
    <2> QED BY <1>10, <2>1, <2>2 DEF Safe
  <1>16. Grown BY <1>8, <1>9, <1>15 DEF Grown
  <1>17. v \in mem'[s] BY <1>6
  <1> QED BY <1>6, <1>7, <1>14, <1>16, <1>17 DEF D

\* The server's handler runs.
LEMMA HandleKeeps ==
  ASSUME HarnessInv, NEW c \in Caller, Handle(c)
  PROVE  HarnessInv'
  <1>0. DOMAIN calls = Caller /\ sent \in 0..MaxCalls BY DEF HarnessInv, Types
  <1>1. calls[c].stage = "executing" BY DEF Handle, HandlerReturns, Stage
  <1>2. calls[c].stage \in {"forwarded", "executing", "executed", "answering"} BY <1>1
  <1>3. PICK e \in Endname, args \in Update, i \in Server, s \in Instance :
           /\ IsCall(calls[c]) /\ e = calls[c].end /\ args = calls[c].args /\ i = calls[c].name
           /\ s = calls[c].srv /\ s[1] = i /\ HasRun(s)
    BY <1>2, CallKnows
  <1> DEFINE q == [calls[c] EXCEPT !.stage = "executed", !.reply = TRUE]
  <1>4. calls' = [calls EXCEPT ![c] = q] BY DEF Handle, HandlerReturns
  <1>5. IsCall(q) /\ q.stage = "executed" /\ q.end = e /\ q.name = i /\ q.srv = s /\ q.args = args
    BY <1>3 DEF IsCall
  <1>6. calls'[c] = q /\ DOMAIN calls' = Caller /\ \A d \in Caller : d # c => calls'[d] = calls[d]
    BY <1>0, <1>4
  <1> HIDE DEF q
  <1>7. /\ Aside /\ orphans' = orphans /\ acked' = acked /\ sent' = sent
    BY DEF Handle, HandlerReturns, Aside, tableVars, testVars
  <1>8. Accept(s, args) BY <1>3 DEF Handle
  <1>9. /\ mem' \in [Instance -> SUBSET Update] /\ args \in mem'[s]
        /\ disk' \in [Server \X (0..2 * MaxGen + 1) -> SUBSET Update] /\ DisksRight' /\ Grown
    BY <1>3, <1>7, <1>8, AcceptGrows
  <1>10. Types' BY <1>0, <1>6, <1>7, <1>9 DEF HarnessInv, Types, Aside
  <1>11. CallRight(c)'
    <2>1. /\ IsCall(calls'[c]) /\ calls'[c].stage = "executed" /\ calls'[c].end = e
          /\ calls'[c].name = i /\ calls'[c].srv = s /\ calls'[c].args = args
      BY <1>5, <1>6
    <2>2. /\ "executed" \in {"idle", "sent", "forwarded", "executing", "executed", "answering",
                              "returned"}
          /\ "executed" # "answering"
      OBVIOUS
    <2>3. HasRun(s)' BY <1>3, <1>9 DEF Grown
    <2> QED BY <1>3, <1>9, <2>1, <2>2, <2>3 DEF CallRight, IsCall
  <1>12. CallsRight'
    <2>1. ASSUME NEW d \in Caller PROVE CallRight(d)'
      <3>1. CASE d # c BY <1>6, <1>9, <3>1, CallKept DEF HarnessInv, CallsRight
      <3> QED BY <1>11, <3>1
    <2>2. \A o \in orphans : o.srv \in Instance /\ HasRun(o.srv)' /\ o.args \in Update
      BY <1>9 DEF HarnessInv, CallsRight, Grown
    <2>3. \A a \in acked : a.server \in Server /\ a.update \in Update /\ Safe(a.server, a.update)'
      BY <1>9 DEF HarnessInv, CallsRight, Grown
    <2> QED BY <1>7, <2>1, <2>2, <2>3 DEF CallsRight
  <1>13. Lives' /\ EndsRight' /\ DownRight' /\ GroupsRight' BY <1>7, AsideKeeps
  <1> QED BY <1>9, <1>10, <1>12, <1>13 DEF HarnessInv

\* A handler that nobody waits for runs, perhaps after its server has been replaced.
LEMMA OrphanKeeps ==
  ASSUME HarnessInv, NEW o \in orphans, OrphanReturns(o)
  PROVE  HarnessInv'
  <1>1. PICK s \in Instance, args \in Update : s = o.srv /\ args = o.args /\ HasRun(s)
    BY DEF HarnessInv, CallsRight
  <1>2. /\ Aside /\ orphans' \subseteq orphans /\ acked' = acked /\ sent' = sent /\ calls' = calls
    <2>1. Aside /\ acked' = acked /\ sent' = sent /\ calls' = calls
      BY DEF OrphanReturns, Aside, tableVars, testVars
    <2>2. orphans' \subseteq orphans BY DEF OrphanReturns
    <2> QED BY <2>1, <2>2
  <1>3. Accept(s, args) BY <1>1 DEF OrphanReturns
  <1>4. /\ mem' \in [Instance -> SUBSET Update]
        /\ disk' \in [Server \X (0..2 * MaxGen + 1) -> SUBSET Update] /\ DisksRight' /\ Grown
    BY <1>1, <1>2, <1>3, AcceptGrows
  <1>5. Types' BY <1>2, <1>4 DEF HarnessInv, Types, Aside
  <1>6. CallsRight'
    <2>1. \A d \in Caller : CallRight(d)' BY <1>2, <1>4, CallKept DEF HarnessInv, CallsRight
    <2>2. \A x \in orphans' : x.srv \in Instance /\ HasRun(x.srv)' /\ x.args \in Update
      BY <1>2, <1>4 DEF HarnessInv, CallsRight, Grown
    <2>3. \A a \in acked : a.server \in Server /\ a.update \in Update /\ Safe(a.server, a.update)'
      BY <1>4 DEF HarnessInv, CallsRight, Grown
    <2> QED BY <1>2, <2>1, <2>2, <2>3 DEF CallsRight
  <1>7. Lives' /\ EndsRight' /\ DownRight' /\ GroupsRight' BY <1>2, AsideKeeps
  <1> QED BY <1>4, <1>5, <1>6, <1>7 DEF HarnessInv

\* Nothing happens.
LEMMA StutterKeeps ==
  ASSUME HarnessInv, UNCHANGED vars
  PROVE  HarnessInv'
  <1>0. /\ Aside /\ disk' = disk /\ mem' = mem /\ sent' = sent /\ calls' = calls
        /\ orphans' = orphans /\ acked' = acked
    BY DEF vars, netVars, tableVars, callVars, cfgVars, testVars, Aside
  <1>1. /\ Lives' /\ EndsRight' /\ DownRight' /\ GroupsRight'
        /\ \A i \in Server : Left(i)' = Left(i)
    BY <1>0, AsideKeeps
  <1>2. gen' = gen /\ saved' = saved /\ persister' = persister BY <1>0 DEF Aside
  <1>3. Types' BY <1>0 DEF HarnessInv, Types, Aside
  <1>4. DisksRight' /\ Grown BY <1>0, <1>1, <1>2, StoresKept DEF HarnessInv
  <1>5. CallsRight' BY <1>0, <1>4, CallsKept DEF HarnessInv
  <1> QED BY <1>1, <1>3, <1>4, <1>5 DEF HarnessInv

-----------------------------------------------------------------------------
(* What the invariant says                                                 *)

\* The types that the tester and the network keep.
LEMMA TypesFollow == HarnessInv => TypeOK
  <1> SUFFICES ASSUME HarnessInv PROVE TypeOK OBVIOUS
  <1>0. Types BY DEF HarnessInv
  <1>1. gen \in [Server -> 0..MaxGen] /\ saved \in [Server -> Int] /\ MaxGen \in Nat
    BY <1>0, HarnessAssumption DEF Types
  <1>2. ASSUME NEW i \in Server PROVE saved[i] \in -1..2 * gen[i] + 1
    <2>1. Life(i) BY DEF HarnessInv, Lives
    <2>2. saved[i] \in {2 * gen[i] - 1, 2 * gen[i], 2 * gen[i] + 1} BY <2>1 DEF Life
    <2>3. gen[i] \in Nat BY <1>1, SMT
    <2> QED BY <2>2, <2>3, SMT
  <1>3. DOMAIN saved = Server BY <1>1
  <1>4. /\ DOMAIN disk = Server \X (0..2 * MaxGen + 1) /\ \A p \in DOMAIN disk : disk[p] \subseteq Update
    BY <1>0 DEF Types
  <1>5. \A a \in acked : a.server \in Server /\ a.update \in Update
    BY DEF HarnessInv, CallsRight
  <1> QED BY <1>0, <1>2, <1>3, <1>4, <1>5 DEF Types, TypeOK

\* What was acknowledged is in the persister of the next instance and in the one that runs.
LEMMA AckedFollow == HarnessInv => AckedPersisted
  <1> SUFFICES ASSUME HarnessInv, NEW a \in acked
               PROVE  /\ a.update \in disk[<<a.server, saved[a.server]>>]
                      /\ a.server \in kvservers => a.update \in mem[InstanceOf(a.server)]
    BY DEF AckedPersisted
  <1>1. PICK i \in Server, v \in Update : i = a.server /\ v = a.update /\ Safe(i, v)
    BY DEF HarnessInv, CallsRight
  <1>2. v \in disk[<<i, saved[i]>>] BY <1>1 DEF Safe
  <1>3. ASSUME i \in kvservers PROVE v \in mem[InstanceOf(i)]
    <2>1. Life(i) BY DEF HarnessInv, Lives
    <2>2. CASE Left(i) = {"Kill"}
      <3>1. disk[<<i, saved[i]>>] \subseteq mem[InstanceOf(i)]
        BY <2>2 DEF HarnessInv, DisksRight
      <3> QED BY <1>2, <3>1
    <2>3. CASE Left(i) # {"Kill"}
      <3>1. saved[i] = 2 * gen[i] /\ "StartKVServer" \notin Left(i)
        BY <1>3, <2>1, <2>3 DEF Life, Starting, Cut
      <3>2. gen \in [Server -> 0..MaxGen] BY DEF HarnessInv, Types
      <3>3. InstanceOf(i) \in Instance /\ InstanceOf(i)[1] = i /\ InstanceOf(i)[2] = gen[i]
        BY <3>2, Named DEF InstanceOf
      <3>4. HasRun(InstanceOf(i)) BY <3>1, <3>3 DEF HasRun
      <3>5. mem[InstanceOf(i)] = disk[<<i, 2 * gen[i]>>]
        BY <3>3, <3>4 DEF HarnessInv, DisksRight
      <3> QED BY <1>2, <3>1, <3>5
    <2> QED BY <2>2, <2>3
  <1> QED BY <1>1, <1>2, <1>3

\* The ends of an instance that has been replaced are disabled.
LEMMA OldFollow == HarnessInv => OldInstanceDisabled
  <1> SUFFICES ASSUME HarnessInv, NEW s \in Instance, s[2] < gen[s[1]], NEW j \in Server
               PROVE  ~enabled[<<s, j>>]
    BY DEF OldInstanceDisabled
  <1>1. gen[s[1]] \in Int
    <2>1. gen \in [Server -> 0..MaxGen] /\ s[1] \in Server
      BY EndsNamed DEF HarnessInv, Types
    <2> QED BY <2>1, SMT
  <1>2. s[2] # gen[s[1]] BY <1>1, SMT
  <1>3. s # InstanceOf(s[1])
    <2>1. InstanceOf(s[1])[2] = gen[s[1]] BY DEF InstanceOf
    <2> QED BY <1>2, <2>1
  <1> QED BY <1>3 DEF HarnessInv, EndsRight

\* An end that nothing is left to do on is as it is wanted.
LEMMA GroupsFollow == HarnessInv => PartitionIsolates
  <1> SUFFICES ASSUME HarnessInv, NEW i \in Server, NEW j \in Server, ~Pending(endname(i, j))
               PROVE  enabled[endname(i, j)] <=> <<i, j>> \in linked
    BY DEF PartitionIsolates
  <1>1. PICK e, g : e = endname(i, j) /\ g = Linked(i, j) OBVIOUS
  <1>2. EndAt(e, g) BY <1>1 DEF HarnessInv, GroupsRight
  <1>3. EnableOp(e, g) \notin Range(script)
    <2> SUFFICES ASSUME EnableOp(e, g) \in Range(script) PROVE FALSE OBVIOUS
    <2>1. PICK k \in DOMAIN script : script[k] = EnableOp(e, g) BY DEF Range
    <2>2. script[k].op = "Enable" /\ script[k].end = e BY <2>1, SMT DEF EnableOp
    <2> QED BY <1>1, <2>2 DEF Pending
  <1>4. enabled[e] = g BY <1>2, <1>3 DEF EndAt
  <1> QED BY <1>1, <1>4 DEF Linked

-----------------------------------------------------------------------------
(* The tester begins a function                                            *)

\* The script was empty and is replaced; nothing else happens but to the names of the instances
\* and to the pairs that are to be connected.
Begun == /\ HarnessInv /\ script = <<>> /\ script' \in Seq(Op) /\ Ordered(script')
         /\ UNCHANGED <<netVars, kvservers, saved, disk, persister, mem, sent, acked>>

\* Nothing was left to do.
LEMMA BegunFree ==
  ASSUME Begun
  PROVE  /\ \A i \in Server : Left(i) = {}
         /\ ends' = ends /\ enabled' = enabled /\ connections' = connections /\ servers' = servers
         /\ calls' = calls /\ orphans' = orphans /\ kvservers' = kvservers /\ saved' = saved
         /\ disk' = disk /\ persister' = persister /\ mem' = mem /\ sent' = sent /\ acked' = acked
  <1>1. Range(script) = {} BY SMT DEF Begun, Range
  <1>2. \A i \in Server : Left(i) = {} BY <1>1 DEF Left, OpsOn
  <1> QED BY <1>2 DEF Begun, netVars, tableVars, callVars

\* A function that only enables and disables ends.
LEMMA PlainBegun ==
  ASSUME Begun, gen' = gen, \A i \in Server : Left(i)' = {},
         \A s \in Instance, j \in Server :
            EnableOp(<<s, j>>, TRUE) \in Range(script') => s = InstanceOf(s[1]) /\ s[1] \in kvservers,
         \A i, j \in Server : EndAt(endname(i, j), Linked(i, j))',
         \A i \in Server : i \notin kvservers => \A j \in Server : ~Linked(i, j)' /\ ~Linked(j, i)'
  PROVE  HarnessInv'
  <1>0. HarnessInv BY DEF Begun
  <1>1. /\ \A i \in Server : Left(i) = {}
        /\ ends' = ends /\ enabled' = enabled /\ connections' = connections /\ servers' = servers
        /\ calls' = calls /\ orphans' = orphans /\ kvservers' = kvservers /\ saved' = saved
        /\ disk' = disk /\ persister' = persister /\ mem' = mem /\ sent' = sent /\ acked' = acked
    BY BegunFree
  <1>2. Types' BY <1>0, <1>1 DEF HarnessInv, Types, Begun
  <1>3. \A i \in Server : Left(i)' = Left(i) BY <1>1
  <1>4. Lives'
    <2> SUFFICES ASSUME NEW i \in Server PROVE Life(i)' BY DEF Lives
    <2>1. SameLife(i) BY <1>1, <1>3 DEF SameLife
    <2> QED BY <1>0, <2>1, LifeKept DEF Lives, HarnessInv
  <1>5. DisksRight' /\ Grown BY <1>0, <1>1, <1>3, StoresKept DEF HarnessInv
  <1>6. CallsRight' BY <1>0, <1>1, <1>5, CallsKept DEF HarnessInv
  <1>7. \A i : InstanceOf(i)' = InstanceOf(i) BY DEF InstanceOf
  <1>8. EndsRight' BY <1>0, <1>1, <1>7 DEF HarnessInv, EndsRight
  <1>9. ASSUME NEW i \in Server PROVE DownAt(i)'
    <2>1. "Kill" \notin Left(i)' OBVIOUS
    <2>2. \A j : endname(i, j)' = endname(i, j) BY DEF endname, InstanceOf
    <2>3. gen \in [Server -> 0..MaxGen] BY <1>0 DEF HarnessInv, Types
    <2>4. InstanceOf(i) \in Instance /\ InstanceOf(i)[1] = i BY <2>3, Named
    <2>5. ASSUME Down(i)' PROVE NeverEnabled(i)' /\ \A j \in Server : ~enabled'[endname(i, j)']
      <3>1. Down(i) /\ i \notin kvservers BY <1>1, <1>3, <2>5 DEF Down
      <3>2. \A j \in Server : ~enabled[endname(i, j)]
        BY <1>0, <3>1 DEF HarnessInv, DownRight, DownAt
      <3>3. \A j \in Server : EnableOp(<<InstanceOf(i), j>>, TRUE) \notin Range(script')
        BY <2>4, <3>1
      <3>4. NeverEnabled(i)' BY <1>7, <3>3 DEF NeverEnabled, endname
      <3> QED BY <1>1, <2>2, <3>2, <3>4
    <2> QED BY <2>1, <2>5 DEF DownAt
  <1>10. \A i \in Server : Gone(i)' => i \notin kvservers BY <1>1 DEF Gone, Down
  <1>11. GroupsRight' BY <1>10 DEF GroupsRight
  <1> QED BY <1>2, <1>4, <1>5, <1>6, <1>8, <1>9, <1>11 DEF HarnessInv, DownRight

\* ShutdownServer.
LEMMA ShutBegun ==
  ASSUME Begun, gen' = gen, NEW i \in Server, i \in kvservers,
         Left(i)' = {"DeleteServer", "Copy", "Kill"},
         \A j \in Server : j # i => Left(j)' = {},
         linked' = linked \ Of(i),
         \A e : EnableOp(e, TRUE) \notin Range(script') /\ MakeEndOp(e) \notin Range(script'),
         \A j, k \in Server : EnableOp(endname(j, k), FALSE) \in Range(script') => i \in {j, k},
         \A j \in Server : enabled[endname(j, i)] => EnableOp(endname(j, i), FALSE) \in Range(script'),
         \A j \in Server : enabled[endname(i, j)] =>
            Before(script', EnableOp(endname(i, j), FALSE), ServerOp("Kill", i))
  PROVE  HarnessInv'
  <1>0. HarnessInv BY DEF Begun
  <1>1. /\ \A j \in Server : Left(j) = {}
        /\ ends' = ends /\ enabled' = enabled /\ connections' = connections /\ servers' = servers
        /\ calls' = calls /\ orphans' = orphans /\ kvservers' = kvservers /\ saved' = saved
        /\ disk' = disk /\ persister' = persister /\ mem' = mem /\ sent' = sent /\ acked' = acked
    BY BegunFree
  <1>2. Types' BY <1>0, <1>1 DEF HarnessInv, Types, Begun
  <1>3. \A j : InstanceOf(j)' = InstanceOf(j) BY DEF InstanceOf
  <1>4. Life(i)'
    <2>1. Life(i) /\ Left(i) = {} BY <1>0, <1>1 DEF HarnessInv, Lives
    <2>2. servers[i] = InstanceOf(i) /\ saved[i] = 2 * gen[i] BY <2>1 DEF Life, Starting
    <2>3. Left(i)' \in {{}, {"DeleteServer", "Copy", "Kill"}} OBVIOUS
    <2> QED BY <1>1, <1>3, <2>2, <2>3 DEF Life
  <1>5. Lives' BY <1>0, <1>1, <1>4, OthersLive DEF HarnessInv
  <1>6. DisksRight' /\ Grown
    <2>1. ASSUME NEW j \in Server
          PROVE  /\ "StartKVServer" \in Left(j)' <=> "StartKVServer" \in Left(j)
                 /\ Left(j)' = {"Kill"} => Left(j) = {"Kill"}
      BY <1>1, SMT
    <2> QED BY <1>0, <1>1, <2>1, StoresKept DEF HarnessInv
  <1>7. CallsRight' BY <1>0, <1>1, <1>6, CallsKept DEF HarnessInv
  <1>8. EndsRight' BY <1>0, <1>1, <1>3 DEF HarnessInv, EndsRight
  <1>9. ASSUME NEW j \in Server PROVE DownAt(j)'
    <2>1. \A k : endname(j, k)' = endname(j, k) BY DEF endname, InstanceOf
    <2>2. NeverEnabled(j)' BY DEF NeverEnabled
    <2>3. ASSUME Down(j)', NEW k \in Server PROVE ~enabled'[endname(j, k)']
      <3>1. Down(j) BY <1>1, <2>3 DEF Down
      <3>2. ~enabled[endname(j, k)] BY <1>0, <3>1 DEF HarnessInv, DownRight, DownAt
      <3> QED BY <1>1, <2>1, <3>2
    <2>4. "Kill" \in Left(j)' => j = i OBVIOUS
    <2> QED BY <1>1, <2>1, <2>2, <2>3, <2>4 DEF DownAt
  <1>10. \A j, k \in Server : Linked(j, k)' <=> Linked(j, k) /\ i # j /\ i # k
    <2>1. \A j, k \in Server : <<j, k>> \in Of(i) <=> i = j \/ i = k BY DEF Of
    <2> QED BY <2>1 DEF Linked
  <1>11. ASSUME NEW j \in Server, NEW k \in Server PROVE EndAt(endname(j, k), Linked(j, k))'
    <2>0. Linked(j, k)' \in BOOLEAN /\ Linked(j, k) \in BOOLEAN BY DEF Linked
    <2>1. PICK e, g : e = endname(j, k) /\ g = Linked(j, k)' OBVIOUS
    <2>2. endname(j, k)' = e BY <2>1 DEF endname, InstanceOf
    <2>3. Range(script) = {} BY SMT DEF Begun, Range
    <2>4. EndAt(e, Linked(j, k)) BY <1>0, <2>1 DEF HarnessInv, GroupsRight
    <2>5. enabled[e] = Linked(j, k) BY <2>3, <2>4 DEF EndAt
    <2>6. ASSUME NEW yes \in BOOLEAN, EnableOp(e, yes) \in Range(script') PROVE yes = g
      <3>1. yes = FALSE BY <2>6
      <3>2. i \in {j, k} BY <2>1, <2>6, <3>1
      <3>3. ~Linked(j, k)' BY <1>10, <3>2
      <3> QED BY <2>0, <2>1, <3>1, <3>3
    <2>7. ASSUME enabled'[e] # g PROVE EnableOp(e, g) \in Range(script')
      <3>1. Linked(j, k) /\ g = FALSE /\ (i = j \/ i = k)
        <4>1. CASE i # j /\ i # k
          <5>1. CASE Linked(j, k)
            <6>1. Linked(j, k)' = TRUE BY <1>10, <2>0, <4>1, <5>1
            <6> QED BY <1>1, <2>0, <2>1, <2>5, <2>7, <5>1, <6>1
          <5>2. CASE ~Linked(j, k)
            <6>1. Linked(j, k)' = FALSE BY <1>10, <2>0, <5>2
            <6> QED BY <1>1, <2>0, <2>1, <2>5, <2>7, <5>2, <6>1
          <5> QED BY <5>1, <5>2
        <4>2. CASE i = j \/ i = k
          <5>1. ~Linked(j, k)' BY <1>10, <4>2
          <5>2. g = FALSE BY <2>0, <2>1, <5>1
          <5>3. Linked(j, k) # FALSE BY <1>1, <2>5, <2>7, <5>2
          <5> QED BY <2>0, <4>2, <5>2, <5>3
        <4> QED BY <4>1, <4>2
      <3>2. enabled[e] BY <2>5, <3>1
      <3>3. CASE i = k BY <2>1, <3>1, <3>2, <3>3
      <3>4. CASE i = j
        <4>1. Before(script', EnableOp(e, FALSE), ServerOp("Kill", i)) BY <2>1, <3>2, <3>4
        <4>2. EnableOp(e, FALSE) \in Range(script') BY <4>1 DEF Before, Range
        <4> QED BY <3>1, <4>2
      <3> QED BY <3>1, <3>3, <3>4
    <2>8. MakeEndOp(e) \notin Range(script') OBVIOUS
    <2>9. /\ \A yes \in BOOLEAN : EnableOp(e, yes) \in Range(script') => yes = g
          /\ enabled'[e] # g => EnableOp(e, g) \in Range(script')
          /\ MakeEndOp(e) \in Range(script') =>
              ~enabled'[e] /\ \A yes \in BOOLEAN : ~Before(script', EnableOp(e, yes), MakeEndOp(e))
      BY <2>6, <2>7, <2>8
    <2> QED BY <2>1, <2>2, <2>9 DEF EndAt
  <1>12. ASSUME NEW j \in Server, Gone(j)', NEW k \in Server PROVE ~Linked(j, k)' /\ ~Linked(k, j)'
    <2>1. CASE j = i BY <1>10, <2>1
    <2>2. CASE j # i
      <3>1. Gone(j) BY <1>1, <1>12, <2>2 DEF Gone, Down
      <3> QED BY <1>0, <1>10, <3>1 DEF HarnessInv, GroupsRight
    <2> QED BY <2>1, <2>2
  <1>13. GroupsRight' BY <1>11, <1>12 DEF GroupsRight
  <1> QED BY <1>2, <1>5, <1>6, <1>7, <1>8, <1>9, <1>13 DEF HarnessInv, DownRight

\* StartServer, which gives the instance and its ends a new name.
LEMMA StartBegun ==
  ASSUME Begun, NEW i \in Server, i \notin kvservers, gen[i] < MaxGen,
         gen' = [gen EXCEPT ![i] = @ + 1],
         Left(i)' = {"Copy", "StartKVServer", "AddServer"},
         \A j \in Server : j # i => Left(j)' = {},
         linked' = linked, \A e, yes : EnableOp(e, yes) \notin Range(script'),
         \A s, j : MakeEndOp(<<s, j>>) \in Range(script') => s = <<i, gen'[i]>>
  PROVE  HarnessInv'
  <1>0. HarnessInv BY DEF Begun
  <1>1. /\ \A j \in Server : Left(j) = {}
        /\ ends' = ends /\ enabled' = enabled /\ connections' = connections /\ servers' = servers
        /\ calls' = calls /\ orphans' = orphans /\ kvservers' = kvservers /\ saved' = saved
        /\ disk' = disk /\ persister' = persister /\ mem' = mem /\ sent' = sent /\ acked' = acked
    BY BegunFree
  <1>2. gen \in [Server -> 0..MaxGen] /\ MaxGen \in Nat
    BY <1>0, HarnessAssumption DEF HarnessInv, Types
  <1>3. /\ gen' \in [Server -> 0..MaxGen] /\ gen'[i] = gen[i] + 1 /\ gen[i] \in Nat
        /\ \A j \in Server : j # i => gen'[j] = gen[j]
    BY <1>2, SMT
  <1>4. Types' BY <1>0, <1>1, <1>3 DEF HarnessInv, Types, Begun
  <1>5. \A j \in Server : j # i => InstanceOf(j)' = InstanceOf(j) BY <1>3 DEF InstanceOf
  <1>6. Starting(i) /\ saved[i] = 2 * gen[i] + 1
    <2>1. Life(i) /\ Left(i) = {} BY <1>0, <1>1 DEF HarnessInv, Lives
    <2> QED BY <2>1 DEF Life, Cut
  <1>7. Lives'
    <2> SUFFICES ASSUME NEW j \in Server PROVE Life(j)' BY DEF Lives
    <2>1. CASE j = i
      <3>1. saved'[i] = 2 * gen'[i] - 1 BY <1>1, <1>3, <1>6, SMT
      <3>2. Starting(i)' BY <1>1, <1>6 DEF Starting
      <3> QED BY <2>1, <3>1, <3>2 DEF Life
    <2>2. CASE j # i
      <3>1. SameLife(j) BY <1>1, <1>3, <2>2 DEF SameLife
      <3> QED BY <1>0, <3>1, LifeKept DEF Lives, HarnessInv
    <2> QED BY <2>1, <2>2
  <1>8. ASSUME NEW s \in Instance PROVE HasRun(s)' <=> HasRun(s)
    <2>1. s[1] \in Server /\ s[2] \in 0..MaxGen /\ s = <<s[1], s[2]>> BY EndsNamed
    <2>2. CASE s[1] # i
      <3>1. "StartKVServer" \notin Left(s[1]) /\ "StartKVServer" \notin Left(s[1])'
        BY <1>1, <2>1, <2>2
      <3> QED BY <1>3, <1>5, <2>1, <2>2, <3>1 DEF HasRun
    <2>3. CASE s[1] = i
      <3>1. "StartKVServer" \notin Left(s[1]) /\ "StartKVServer" \in Left(s[1])' BY <1>1, <2>1, <2>3
      <3>2. HasRun(s)' <=> s[2] < gen[i] + 1 BY <1>3, <2>3, <3>1 DEF HasRun
      <3>3. s = InstanceOf(s[1]) <=> s[2] = gen[i] BY <2>1, <2>3, SMT DEF InstanceOf
      <3>4. HasRun(s) <=> s[2] < gen[i] \/ s[2] = gen[i] BY <2>3, <3>1, <3>3 DEF HasRun
      <3> QED BY <1>3, <2>1, <3>2, <3>4, SMT
    <2> QED BY <2>2, <2>3
  <1>9. DisksRight'
    <2>1. \A j \in Server : Left(j)' # {"Kill"}
      <3>1. {"Copy", "StartKVServer", "AddServer"} # {"Kill"} /\ {} # {"Kill"} OBVIOUS
      <3> QED BY <3>1
    <2> QED BY <1>0, <1>1, <1>8, <2>1 DEF HarnessInv, DisksRight
  <1>10. Grown
    <2>1. \A j, v : Safe(j, v)' <=> Safe(j, v) BY <1>1 DEF Safe
    <2> QED BY <1>1, <1>8, <2>1 DEF Grown
  <1>11. CallsRight' BY <1>0, <1>1, <1>10, CallsKept DEF HarnessInv
  <1>12. \A j \in Server : ~enabled[<<InstanceOf(i), j>>]
    <2>1. Down(i) BY <1>1 DEF Down
    <2> QED BY <1>0, <2>1 DEF HarnessInv, DownRight, DownAt, endname
  <1>13. EndsRight'
    <2>1. ASSUME NEW s \in Instance, NEW j \in Server, s # InstanceOf(s[1])' PROVE ~enabled'[<<s, j>>]
      <3>1. s[1] \in Server BY EndsNamed
      <3>2. CASE s = InstanceOf(s[1])
        <4>1. s[1] = i BY <1>5, <2>1, <3>1, <3>2
        <4> QED BY <1>1, <1>12, <3>2, <4>1
      <3>3. CASE s # InstanceOf(s[1]) BY <1>0, <1>1, <3>3 DEF HarnessInv, EndsRight
      <3> QED BY <3>2, <3>3
    <2> QED BY <2>1 DEF EndsRight
  <1>14. ASSUME NEW j \in Server PROVE DownAt(j)'
    <2>1. "Kill" \notin Left(j)'
      <3>1. "Kill" \notin {"Copy", "StartKVServer", "AddServer"} /\ "Kill" \notin {} OBVIOUS
      <3> QED BY <3>1
    <2>2. NeverEnabled(j)' BY DEF NeverEnabled
    <2>3. ASSUME Down(j)', NEW k \in Server PROVE ~enabled'[endname(j, k)']
      <3>1. j # i
        <4>1. {"Copy", "StartKVServer", "AddServer"} # {} OBVIOUS
        <4> QED BY <2>3, <4>1 DEF Down
      <3>2. Down(j) BY <1>1, <2>3 DEF Down
      <3>3. ~enabled[endname(j, k)] BY <1>0, <3>2 DEF HarnessInv, DownRight, DownAt
      <3>4. endname(j, k)' = endname(j, k) BY <1>5, <3>1 DEF endname
      <3> QED BY <1>1, <3>3, <3>4
    <2> QED BY <2>1, <2>2, <2>3 DEF DownAt
  <1>15. ASSUME NEW j \in Server, Gone(j)' PROVE Gone(j)
    <2>1. {"Copy", "StartKVServer", "AddServer"} # {} /\ "Kill" \notin {"Copy", "StartKVServer", "AddServer"}
      OBVIOUS
    <2>2. j # i BY <1>15, <2>1 DEF Gone, Down
    <2> QED BY <1>1, <1>15, <2>2 DEF Gone, Down
  <1>16. ASSUME NEW j \in Server, NEW k \in Server PROVE EndAt(endname(j, k), Linked(j, k))'
    <2>1. PICK e, g : e = endname(j, k)' /\ g = Linked(j, k) OBVIOUS
    <2>2. Linked(j, k)' = g BY <2>1 DEF Linked
    <2>3. CASE j # i
      <3>1. e = endname(j, k) /\ e = <<InstanceOf(j), k>> BY <1>5, <2>1, <2>3 DEF endname
      <3>2. Range(script) = {} BY SMT DEF Begun, Range
      <3>3. EndAt(e, g) BY <1>0, <2>1, <3>1 DEF HarnessInv, GroupsRight
      <3>4. enabled[e] = g BY <3>2, <3>3 DEF EndAt
      <3>5. MakeEndOp(e) \notin Range(script')
        <4>1. InstanceOf(j)[1] = j /\ <<i, gen'[i]>>[1] = i BY DEF InstanceOf
        <4>2. InstanceOf(j) # <<i, gen'[i]>> BY <2>3, <4>1
        <4> QED BY <3>1, <4>2
      <3> QED BY <1>1, <2>1, <2>2, <3>4, <3>5 DEF EndAt
    <2>4. CASE j = i
      <3>1. Gone(i) BY <1>1 DEF Gone, Down
      <3>a. ~Linked(j, k) BY <1>0, <2>4, <3>1 DEF HarnessInv, GroupsRight
      <3>2. g = FALSE BY <2>1, <3>a DEF Linked
      <3>3. PICK s : s = <<i, gen'[i]>> OBVIOUS
      <3>4. e = <<s, k>> /\ s[1] = i BY <2>1, <2>4, <3>3 DEF endname, InstanceOf
      <3>5. s \in Instance BY <1>3, <3>3, HarnessAssumption
      <3>6. s # InstanceOf(i)
        <4>1. gen'[i] # gen[i] BY <1>3, SMT
        <4>2. s[2] = gen'[i] /\ InstanceOf(i)[2] = gen[i] BY <3>3 DEF InstanceOf
        <4> QED BY <4>1, <4>2
      <3>7. ~enabled[e] BY <1>0, <3>4, <3>5, <3>6 DEF HarnessInv, EndsRight
      <3>8. e \in Endname /\ enabled \in [Endname -> BOOLEAN]
        BY <1>0, <3>4, <3>5, HarnessAssumption DEF HarnessInv, Types
      <3>9. enabled[e] = FALSE /\ ~enabled'[e] BY <1>1, <3>7, <3>8
      <3>10. \A yes \in BOOLEAN : ~Before(script', EnableOp(e, yes), MakeEndOp(e))
        <4> SUFFICES ASSUME NEW yes \in BOOLEAN, Before(script', EnableOp(e, yes), MakeEndOp(e))
                     PROVE  FALSE
          OBVIOUS
        <4>1. PICK p \in DOMAIN script' : script'[p] = EnableOp(e, yes) BY DEF Before
        <4>2. EnableOp(e, yes) \in Range(script') BY <4>1 DEF Range
        <4> QED BY <4>2
      <3> QED BY <1>1, <2>1, <2>2, <3>2, <3>9, <3>10 DEF EndAt
    <2> QED BY <2>3, <2>4
  <1>17. GroupsRight'
    <2>1. \A j, k : Linked(j, k)' <=> Linked(j, k) BY DEF Linked
    <2> QED BY <1>0, <1>15, <1>16, <2>1 DEF HarnessInv, GroupsRight
  <1> QED BY <1>4, <1>7, <1>9, <1>11, <1>13, <1>14, <1>17 DEF HarnessInv, DownRight

\* make_config.
LEMMA InitRight ==
  ASSUME Init, script \in Seq(Op), Ordered(script),
         \A i \in Server : Left(i) = {"Copy", "StartKVServer", "AddServer"},
         \A i, j \in Server : Linked(i, j) = TRUE,
         \A i, j \in Server : EnableOp(endname(i, j), TRUE) \in Range(script),
         \A e, on : EnableOp(e, on) \in Range(script) =>
            on = TRUE /\ \E i, j \in Server : e = endname(i, j),
         \A e, f, on : ~Before(script, EnableOp(e, on), MakeEndOp(f))
  PROVE  HarnessInv
  <1>0. /\ gen = [i \in Server |-> 0] /\ kvservers = {} /\ saved = [i \in Server |-> -1]
        /\ disk = [p \in Server \X (0..2 * MaxGen + 1) |-> {}]
        /\ persister = [s \in Instance |-> -1] /\ mem = [s \in Instance |-> {}]
        /\ sent = 0 /\ acked = {} /\ ends = {} /\ enabled = [e \in Endname |-> FALSE]
        /\ connections = [e \in Endname |-> Nil] /\ servers = [i \in Servername |-> Nil]
        /\ calls = [c \in Caller |-> NoCall] /\ orphans = {}
    BY DEF Init, MakeNetwork
  <1>1. MaxGen \in Nat /\ MaxCalls \in Nat /\ Servername = Server BY HarnessAssumption
  <1>2. gen \in [Server -> 0..MaxGen] /\ \A i \in Server : gen[i] = 0 BY <1>0, <1>1, SMT
  <1>3. enabled \in [Endname -> BOOLEAN] /\ \A e \in Endname : enabled[e] = FALSE BY <1>0
  <1>4. Types
    <2>1. /\ connections \in [Endname -> Server \cup {Nil}] /\ servers \in [Server -> Instance \cup {Nil}]
          /\ saved \in [Server -> Int] /\ persister \in [Instance -> Int]
      BY <1>0, <1>1, SMT
    <2>2. /\ disk \in [Server \X (0..2 * MaxGen + 1) -> SUBSET Update]
          /\ mem \in [Instance -> SUBSET Update]
      BY <1>0
    <2>3. sent \in 0..MaxCalls /\ DOMAIN calls = Caller /\ ends \subseteq Endname /\ kvservers \subseteq Server
      BY <1>0, <1>1, SMT
    <2> QED BY <1>2, <1>3, <2>1, <2>2, <2>3 DEF Types
  <1>5. Lives
    <2> SUFFICES ASSUME NEW i \in Server PROVE Life(i) BY DEF Lives
    <2>1. Starting(i) BY <1>0, <1>1 DEF Starting
    <2>2. saved[i] = 2 * gen[i] - 1 BY <1>0, <1>2, SMT
    <2> QED BY <2>1, <2>2 DEF Life
  <1>6. ASSUME NEW s \in Instance PROVE ~HasRun(s)
    <2>1. s[1] \in Server /\ s[2] \in 0..MaxGen BY EndsNamed
    <2>2. "StartKVServer" \in Left(s[1]) BY <2>1
    <2>3. ~(s[2] < gen[s[1]]) BY <1>2, <2>1, SMT
    <2> QED BY <2>2, <2>3 DEF HasRun
  <1>7. DisksRight
    <2>1. \A i \in Server : Left(i) # {"Kill"} OBVIOUS
    <2>2. \A s \in Instance : persister[s] = -1 BY <1>0
    <2> QED BY <1>6, <2>1, <2>2 DEF DisksRight
  <1>8. CallsRight
    <2>1. IsCall(NoCall) /\ NoCall.stage = "idle" BY DEF IsCall, NoCall
    <2>2. ASSUME NEW c \in Caller PROVE CallRight(c)
      <3>1. calls[c] = NoCall BY <1>0
      <3> QED BY <2>1, <3>1 DEF CallRight
    <2> QED BY <1>0, <2>2 DEF CallsRight
  <1>9. EndsRight
    <2>1. ASSUME NEW s \in Instance, NEW j \in Server, EnableOp(<<s, j>>, TRUE) \in Range(script)
          PROVE  s = InstanceOf(s[1])
      <3>1. PICK i, k \in Server : <<s, j>> = endname(i, k) BY <2>1
      <3>2. s = InstanceOf(i) BY <3>1 DEF endname
      <3>3. InstanceOf(i)[1] = i BY DEF InstanceOf
      <3> QED BY <3>2, <3>3
    <2>2. \A s \in Instance, j \in Server : ~enabled[<<s, j>>] BY <1>3, EndsNamed
    <2> QED BY <2>1, <2>2 DEF EndsRight
  <1>10. DownRight
    <2>1. {"Copy", "StartKVServer", "AddServer"} # {} /\ "Kill" \notin {"Copy", "StartKVServer", "AddServer"}
      OBVIOUS
    <2> QED BY <2>1 DEF DownRight, DownAt, Down
  <1>11. ASSUME NEW i \in Server, NEW j \in Server PROVE EndAt(endname(i, j), Linked(i, j))
    <2>1. endname(i, j) \in Endname BY <1>2, Named
    <2>2. ~enabled[endname(i, j)] BY <1>3, <2>1
    <2> QED BY <2>2 DEF EndAt
  <1>12. GroupsRight
    <2>1. {"Copy", "StartKVServer", "AddServer"} # {} /\ "Kill" \notin {"Copy", "StartKVServer", "AddServer"}
      OBVIOUS
    <2>2. \A i \in Server : ~Gone(i) BY <2>1 DEF Gone, Down
    <2> QED BY <1>11, <2>2 DEF GroupsRight
  <1> QED BY <1>4, <1>5, <1>7, <1>8, <1>9, <1>10, <1>12 DEF HarnessInv

=============================================================================
