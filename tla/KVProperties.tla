---------------------------- MODULE KVProperties ----------------------------
(***************************************************************************)
(* What the key/value service of KVServer promises.                        *)
(***************************************************************************)
EXTENDS KVServer

Store == INSTANCE KVStore WITH store <- data, pending <- op, result <- effect, returned <- value

\* The service is linearizable and executes each operation once, whatever requests and replies
\* the network loses: data, the operations in progress and the values the clerks return behave
\* like a store in which each operation takes effect in one step (kvsrv/server.go Get, Put,
\* Append, Clear with the retry loops of kvsrv/client.go).
Linearizable == Store!StoreSpec

Update(c) == phase[c] # "idle" /\ op[c].type # "Get"

\* The server caches at most one reply for each clerk, the one to the Put or Append it is in, and
\* none for a clerk that is idle: PutAppend does not return before Clear has been executed, and
\* Get stores nothing (server.go:24, the memory tests of lab 2).
CacheBounded == DOMAIN OpCache \subseteq {Reg(c) : c \in {d \in Clerk : Update(d)}}

\* Every operation returns, however often its requests and replies are lost, as long as the
\* network does not lose all of them (the retry loops of client.go:39, 64 and 73).
OperationsReturn == \A c \in Clerk : phase[c] # "idle" ~> phase[c] = "idle"

-----------------------------------------------------------------------------
(* The inductive invariant.                                                *)

Strings == Seq(Piece)
Regs == Clerk \X Nat
Requests == [method : {"Get", "Put", "Append"}, key : Key, value : Piece \cup {Nil}, OpReg : Regs]
            \cup [method : {"Clear"}, key : {Nil}, value : {Nil}, OpReg : Regs]

CallRecord == [stage : {"idle", "sent", "forwarded", "executing", "executed", "answering", "returned"},
               end : Clerk \cup {Nil}, name : Servername \cup {Nil}, srv : Instance \cup {Nil},
               lossy : BOOLEAN, args : Requests \cup {Nil}, ok : BOOLEAN,
               reply : Strings \cup {Nil}]

TypeOK ==
  /\ connections \in [Clerk -> Servername]
  /\ servers \in [Servername -> Instance]
  /\ reliable \in BOOLEAN
  /\ calls \in [Clerk -> CallRecord]
  /\ \A c \in Clerk : calls[c].stage = "sent" => calls[c].end \in Clerk
  /\ data \in [Key -> Strings]
  /\ DOMAIN OpCache \subseteq Regs
  /\ \A r \in DOMAIN OpCache : OpCache[r] \in Strings
  /\ phase \in [Clerk -> {"idle", "operation", "clear"}]
  /\ op \in [Clerk -> Operation \cup {Nil}]
  /\ opReg \in [Clerk -> Nat]
  /\ reply \in [Clerk -> Strings]
  /\ value \in [Clerk -> Strings]
  /\ effect \in [Clerk -> Strings \cup {Nil}]

Alive(c) == Stage(c) \in {"sent", "forwarded", "executing", "executed", "answering"}
Answered(c) == Stage(c) \in {"executed", "answering"} \/ (Stage(c) = "returned" /\ calls[c].ok)

\* The call in progress is the one the clerk's loop makes.
CallMatches(c) ==
  /\ phase[c] = "idle" => op[c] = Nil /\ Stage(c) = "idle" /\ effect[c] = Nil
  /\ phase[c] # "idle" => op[c] # Nil
  /\ phase[c] = "clear" => op[c].type # "Get"
  /\ Alive(c) => calls[c].args = Request(c)
  /\ Stage(c) \in {"executed", "answering", "returned"} => (calls[c].reply # Nil <=> Answered(c))

\* An update that has run has its old value in the cache until the clerk has got it; an answer on
\* its way carries what the operation found, and nobody has cached a number not drawn yet.
EffectKept(c) ==
  /\ phase[c] = "operation" => reply[c] = <<>>
  /\ phase[c] = "operation" /\ op[c].type # "Get" =>
       /\ Cached(Reg(c)) <=> effect[c] # Nil
       /\ Cached(Reg(c)) => OpCache[Reg(c)] = effect[c]
  /\ phase[c] = "operation" /\ Answered(c) => effect[c] = calls[c].reply
  /\ phase[c] = "clear" => effect[c] = reply[c]
  /\ phase[c] = "clear" /\ Answered(c) => ~Cached(Reg(c))

\* Together with the bound on the cache this is preserved by every step and implies that every
\* step of the service is a step of the store.
KVInv ==
  /\ TypeOK
  /\ CacheBounded
  /\ \A c \in Clerk : CallMatches(c) /\ EffectKept(c)

=============================================================================
