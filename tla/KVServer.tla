------------------------------ MODULE KVServer ------------------------------
(***************************************************************************)
(* The key/value server of src/kvsrv/server.go and the clerks of           *)
(* src/kvsrv/client.go, connected by the network of Labrpc the way         *)
(* src/kvsrv/config.go connects them: one server that is never deleted,    *)
(* one enabled end for each clerk.                                         *)
(*                                                                         *)
(* A string is the sequence of the pieces put and appended, "" is <<>>.    *)
(* The numbers nrand() draws are pairs of a clerk and a counter, which     *)
(* makes them different (client.go:14 puts a repetition at 1e-19).         *)
(***************************************************************************)
EXTENDS Labrpc

CONSTANTS Clerk, Key, Piece,
          MaxOps      \* bound: operations a clerk starts

ASSUME ClerkAssumption == /\ Caller = Clerk /\ Endname = Clerk
                          /\ Nil \notin Clerk /\ Nil \notin Servername /\ Nil \notin Instance
ASSUME ServerAssumption == \E n \in Servername, i \in Instance : Servername = {n} /\ Instance = {i}
ASSUME MaxOpsAssumption == MaxOps \in Nat

VARIABLES data, OpCache,   \* the KVServer struct
          phase,           \* what the clerk is doing: idle, its operation, or the Clear after it
          op,              \* the operation the clerk is in
          opReg,           \* how many numbers the clerk has drawn
          reply,           \* the clerk's local variable reply.Value
          value,           \* what the clerk's last operation returned
          effect           \* history: what the server answered when the current operation ran

serverVars == <<data, OpCache>>
clerkVars == <<phase, op, opReg, reply, value>>
vars == <<netVars, serverVars, clerkVars, effect>>

SERVERID == CHOOSE n \in Servername : TRUE
TheServer == CHOOSE i \in Instance : TRUE

Operation == [type : {"Get"}, key : Key, value : {Nil}]
             \cup [type : {"Put", "Append"}, key : Key, value : Piece]

ASSUME NilAssumption == Nil \notin Seq(Piece) /\ Nil \notin Operation

\* make_config and makeClient: the server is added, every clerk has an end to it.
Init ==
  /\ ends = Clerk
  /\ enabled = [c \in Clerk |-> TRUE]
  /\ connections = [c \in Clerk |-> SERVERID]
  /\ servers = [n \in Servername |-> TheServer]
  /\ reliable \in BOOLEAN
  /\ calls = [c \in Clerk |-> NoCall]
  /\ orphans = {}
  /\ data = [k \in Key |-> <<>>]
  /\ OpCache = [r \in {} |-> <<>>]
  /\ phase = [c \in Clerk |-> "idle"]
  /\ op = [c \in Clerk |-> Nil]
  /\ opReg = [c \in Clerk |-> 0]
  /\ reply = [c \in Clerk |-> <<>>]
  /\ value = [c \in Clerk |-> <<>>]
  /\ effect = [c \in Clerk |-> Nil]

-----------------------------------------------------------------------------
(* The clerk                                                               *)

\* Clerk.Get, Clerk.Put or Clerk.Append is called: a number is drawn, the reply is empty.
Start(c, o) ==
  /\ phase[c] = "idle"
  /\ opReg[c] < MaxOps
  /\ phase' = [phase EXCEPT ![c] = "operation"]
  /\ op' = [op EXCEPT ![c] = o]
  /\ opReg' = [opReg EXCEPT ![c] = @ + 1]
  /\ reply' = [reply EXCEPT ![c] = <<>>]
  /\ UNCHANGED <<netVars, serverVars, value, effect>>

Reg(c) == <<c, opReg[c]>>

\* The arguments of the call that the loop the clerk is in makes.
Request(c) == IF phase[c] = "clear"
              THEN [method |-> "Clear", key |-> Nil, value |-> Nil, OpReg |-> Reg(c)]
              ELSE [method |-> op[c].type, key |-> op[c].key, value |-> op[c].value,
                    OpReg |-> Reg(c)]

\* The condition of a retry loop is evaluated: another Call is made.
Call(c) ==
  /\ phase[c] # "idle"
  /\ Send(c, c, Request(c))
  /\ UNCHANGED <<serverVars, clerkVars, effect>>

\* Call has returned false: the loop goes round.
Retry(c) ==
  /\ Stage(c) = "returned" /\ ~calls[c].ok
  /\ Return(c)
  /\ UNCHANGED <<serverVars, clerkVars, effect>>

\* The operation returns to the application.
Finish(c, result) ==
  /\ phase' = [phase EXCEPT ![c] = "idle"]
  /\ op' = [op EXCEPT ![c] = Nil]
  /\ value' = [value EXCEPT ![c] = result]
  /\ effect' = [effect EXCEPT ![c] = Nil]

\* Mutant: PutAppend returns without telling the server to clear its cache.
LeaveOperationUncleared(c) ==
  LET result == Decode(reply[c], calls[c].reply, <<>>) IN
  /\ phase[c] = "operation"
  /\ Stage(c) = "returned" /\ calls[c].ok
  /\ Return(c)
  /\ reply' = [reply EXCEPT ![c] = result]
  /\ Finish(c, result)
  /\ UNCHANGED <<serverVars, opReg>>

\* The Call of the operation has returned true: a Get is over, a Put or an Append goes on to
\* clear the cache.
LeaveOperation(c) ==
  LET result == Decode(reply[c], calls[c].reply, <<>>) IN
  /\ phase[c] = "operation"
  /\ Stage(c) = "returned" /\ calls[c].ok
  /\ Return(c)
  /\ reply' = [reply EXCEPT ![c] = result]
  /\ IF op[c].type = "Get"
     THEN Finish(c, result)
     ELSE phase' = [phase EXCEPT ![c] = "clear"] /\ UNCHANGED <<op, value, effect>>
  /\ UNCHANGED <<serverVars, opReg>>

\* The Call of Clear has returned true: PutAppend returns reply.Value.
LeaveClear(c) ==
  /\ phase[c] = "clear"
  /\ Stage(c) = "returned" /\ calls[c].ok
  /\ Return(c)
  /\ Finish(c, reply[c])
  /\ UNCHANGED <<serverVars, opReg, reply>>

-----------------------------------------------------------------------------
(* The handlers of the server, each one critical section of kv.mu.         *)

Cached(r) == r \in DOMAIN OpCache

\* Clear: delete(kv.OpCache, args.OpReg)
Clear(c) ==
  LET args == calls[c].args IN
  /\ args.method = "Clear"
  /\ OpCache' = [r \in DOMAIN OpCache \ {args.OpReg} |-> OpCache[r]]
  /\ HandlerReturns(c, <<>>)
  /\ UNCHANGED <<data, clerkVars, effect>>

Get(c) ==
  LET args == calls[c].args IN
  /\ args.method = "Get"
  /\ HandlerReturns(c, data[args.key])
  /\ effect' = [effect EXCEPT ![c] = data[args.key]]
  /\ UNCHANGED <<serverVars, clerkVars>>

\* Put and Append differ in the value they store.
Stored(args) == IF args.method = "Put" THEN <<args.value>> ELSE Append(data[args.key], args.value)

\* Mutant: a duplicate is not answered.
DuplicateSilent(c) == FALSE /\ UNCHANGED vars

\* A Put or an Append whose number is in the cache.
Duplicate(c) ==
  LET args == calls[c].args IN
  /\ args.method \in {"Put", "Append"}
  /\ Cached(args.OpReg)
  /\ HandlerReturns(c, OpCache[args.OpReg])
  /\ UNCHANGED <<serverVars, clerkVars, effect>>

\* Mutant: a duplicate is executed again.
PutAppendAgain(c) ==
  LET args == calls[c].args
      old == data[args.key] IN
  /\ args.method \in {"Put", "Append"}
  /\ OpCache' = [r \in DOMAIN OpCache \cup {args.OpReg} |->
                   IF r = args.OpReg THEN old ELSE OpCache[r]]
  /\ data' = [data EXCEPT ![args.key] = Stored(args)]
  /\ HandlerReturns(c, old)
  /\ effect' = [effect EXCEPT ![c] = old]
  /\ UNCHANGED clerkVars

\* A Put or an Append that runs for the first time: the old value is cached and returned.
PutAppend(c) ==
  LET args == calls[c].args
      old == data[args.key] IN
  /\ args.method \in {"Put", "Append"}
  /\ ~Cached(args.OpReg)
  /\ OpCache' = [r \in DOMAIN OpCache \cup {args.OpReg} |->
                   IF r = args.OpReg THEN old ELSE OpCache[r]]
  /\ data' = [data EXCEPT ![args.key] = Stored(args)]
  /\ HandlerReturns(c, old)
  /\ effect' = [effect EXCEPT ![c] = old]
  /\ UNCHANGED clerkVars

Handle(c) == Stage(c) = "executing" /\ (Clear(c) \/ Get(c) \/ Duplicate(c) \/ PutAppend(c))

-----------------------------------------------------------------------------

Deliver(c) ==
  /\ readEndnameInfo(c) \/ StartHandler(c) \/ CheckServer(c) \/ DeliverReply(c)
  /\ UNCHANGED <<serverVars, clerkVars, effect>>

Lose(c) ==
  /\ DropRequest(c) \/ DropReply(c)
  /\ UNCHANGED <<serverVars, clerkVars, effect>>

ClerkStep(c) == Call(c) \/ Retry(c) \/ LeaveOperation(c) \/ LeaveClear(c)

Next == \E c \in Clerk : \/ \E o \in Operation : Start(c, o)
                         \/ ClerkStep(c)
                         \/ Deliver(c)
                         \/ Lose(c)
                         \/ Handle(c)

Spec == Init /\ [][Next]_vars

\* The goroutines of clerks, network and server run.  Each request and each reply is dropped
\* with probability 0.1, independently, so not forever.
Forward(c) == StartHandler(c) /\ UNCHANGED <<serverVars, clerkVars, effect>>
Answer(c) == DeliverReply(c) /\ UNCHANGED <<serverVars, clerkVars, effect>>
Fairness == \A c \in Clerk : /\ WF_vars(ClerkStep(c) \/ Deliver(c) \/ Handle(c))
                             /\ SF_vars(Forward(c))
                             /\ SF_vars(Answer(c))

FairSpec == Spec /\ Fairness

=============================================================================
