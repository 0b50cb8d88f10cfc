------------------------------- MODULE Labrpc -------------------------------
(***************************************************************************)
(* The simulated network of src/labrpc/labrpc.go.                          *)
(*                                                                         *)
(* A caller is a goroutine that makes one Call at a time.  calls[c] is the *)
(* processReq goroutine that serves its call and the stage it is in:       *)
(*   sent       processReq has the request                                 *)
(*   forwarded  readEndnameInfo found an enabled end and a server          *)
(*   executing  the goroutine that runs server.dispatch has been started   *)
(*   executed   the handler has returned                                   *)
(*   answering  isServerDead was false afterwards                          *)
(*   returned   the caller has the outcome of the call                     *)
(* What the handler does is not part of the network: a module that uses it *)
(* conjoins HandlerReturns with the handler's own assignments.             *)
(*                                                                         *)
(* Sleeps are left out: a step may come at any time.  So longDelays and    *)
(* longReordering, which only add sleeps, are left out too.                *)
(***************************************************************************)
EXTENDS Integers, Sequences, FiniteSets

CONSTANTS Caller,       \* the goroutines that call
          Endname,      \* names of ClientEnds
          Servername,   \* names of servers
          Instance,     \* the *Server pointers
          Nil           \* nil

VARIABLES ends,         \* rn.ends: the names of the ends that exist
          enabled,      \* rn.enabled, FALSE for a name that is not in the map
          connections,  \* rn.connections, Nil for a name that is not in the map
          servers,      \* rn.servers
          reliable,     \* rn.reliable
          calls,        \* the calls in progress
          orphans       \* handlers whose processReq has stopped waiting

tableVars == <<ends, enabled, connections, servers, reliable>>
callVars == <<calls, orphans>>
netVars == <<tableVars, callVars>>

NoCall == [stage |-> "idle", end |-> Nil, name |-> Nil, srv |-> Nil, lossy |-> FALSE,
           args |-> Nil, ok |-> FALSE, reply |-> Nil]

MakeNetwork ==
  /\ ends = {}
  /\ enabled = [e \in Endname |-> FALSE]
  /\ connections = [e \in Endname |-> Nil]
  /\ servers = [n \in Servername |-> Nil]
  /\ reliable = TRUE
  /\ calls = [c \in Caller |-> NoCall]
  /\ orphans = {}

-----------------------------------------------------------------------------
(* The tables, which the tester changes while calls are in progress.       *)

\* MakeEnd, followed by the Connect that every caller of it makes under the tester's lock.
MakeEnd(e, n) ==
  /\ e \notin ends
  /\ ends' = ends \cup {e}
  /\ enabled' = [enabled EXCEPT ![e] = FALSE]
  /\ connections' = [connections EXCEPT ![e] = n]
  /\ UNCHANGED <<servers, reliable, callVars>>

Enable(e, yes) ==
  /\ enabled' = [enabled EXCEPT ![e] = yes]
  /\ UNCHANGED <<ends, connections, servers, reliable, callVars>>

AddServer(n, srv) ==
  /\ servers' = [servers EXCEPT ![n] = srv]
  /\ UNCHANGED <<ends, enabled, connections, reliable, callVars>>

DeleteServer(n) ==
  /\ servers' = [servers EXCEPT ![n] = Nil]
  /\ UNCHANGED <<ends, enabled, connections, reliable, callVars>>

Reliable(yes) ==
  /\ reliable' = yes
  /\ UNCHANGED <<ends, enabled, connections, servers, callVars>>

-----------------------------------------------------------------------------
(* One call                                                                *)

Stage(c) == calls[c].stage
Goto(c, stage) == calls' = [calls EXCEPT ![c].stage = stage]

\* The caller gets replyMsg{false, nil}.
Fail(c) == calls' = [calls EXCEPT ![c] = [NoCall EXCEPT !.stage = "returned"]]

\* ClientEnd.Call up to the wait for the reply.
Send(c, e, args) ==
  /\ Stage(c) = "idle"
  /\ calls' = [calls EXCEPT ![c] = [NoCall EXCEPT !.stage = "sent", !.end = e, !.args = args]]
  /\ UNCHANGED <<tableVars, orphans>>

\* The server that readEndnameInfo finds for an end, or Nil.
ServerOf(e) == IF connections[e] = Nil THEN Nil ELSE servers[connections[e]]

readEndnameInfo(c) ==
  LET e == calls[c].end IN
  /\ Stage(c) = "sent"
  /\ IF enabled[e] /\ ServerOf(e) # Nil
     THEN calls' = [calls EXCEPT ![c] = [@ EXCEPT !.stage = "forwarded", !.name = connections[e],
                                                 !.srv = ServerOf(e), !.lossy = ~reliable]]
     ELSE Fail(c)
  /\ UNCHANGED <<tableVars, orphans>>

\* On an unreliable network one request in ten is dropped before it is executed.
DropRequest(c) ==
  /\ Stage(c) = "forwarded"
  /\ calls[c].lossy
  /\ Fail(c)
  /\ UNCHANGED <<tableVars, orphans>>

StartHandler(c) ==
  /\ Stage(c) = "forwarded"
  /\ Goto(c, "executing")
  /\ UNCHANGED <<tableVars, orphans>>

\* Server.dispatch and Service.dispatch have called the method, which has set the reply.
HandlerReturns(c, reply) ==
  /\ Stage(c) = "executing"
  /\ calls' = [calls EXCEPT ![c] = [@ EXCEPT !.stage = "executed", !.reply = reply]]
  /\ UNCHANGED <<tableVars, orphans>>

isServerDead(c) == ~enabled[calls[c].end] \/ servers[calls[c].name] # calls[c].srv

\* Mutant: processReq does not look at the server while it waits.
SeeServerDeadNever(c) == FALSE /\ UNCHANGED netVars

\* The check every 100 ms: the call fails and the handler is left to itself.
SeeServerDead(c) ==
  /\ Stage(c) = "executing"
  /\ isServerDead(c)
  /\ orphans' = orphans \cup {[srv |-> calls[c].srv, args |-> calls[c].args]}
  /\ Fail(c)
  /\ UNCHANGED tableVars

\* The check after the handler has returned.
CheckServer(c) ==
  /\ Stage(c) = "executed"
  /\ IF isServerDead(c) THEN Fail(c) ELSE Goto(c, "answering")
  /\ UNCHANGED <<tableVars, orphans>>

\* On an unreliable network one reply in ten is dropped.
DropReply(c) ==
  /\ Stage(c) = "answering"
  /\ calls[c].lossy
  /\ Fail(c)
  /\ UNCHANGED <<tableVars, orphans>>

DeliverReply(c) ==
  /\ Stage(c) = "answering"
  /\ calls' = [calls EXCEPT ![c] = [@ EXCEPT !.stage = "returned", !.ok = TRUE]]
  /\ UNCHANGED <<tableVars, orphans>>

\* Call returns to the caller.
Return(c) ==
  /\ Stage(c) = "returned"
  /\ calls' = [calls EXCEPT ![c] = NoCall]
  /\ UNCHANGED <<tableVars, orphans>>

\* labgob does not transmit fields with the zero value and leaves them as they are in the
\* variable it decodes into.
Decode(old, new, zero) == IF new = zero THEN old ELSE new

=============================================================================
