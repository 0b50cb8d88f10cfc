------------------------------ MODULE KVProofs ------------------------------
(***************************************************************************)
(* The key/value service of kvsrv keeps its cache bounded and implements   *)
(* the store of KVStore, for any number of clerks, keys and values.        *)
(***************************************************************************)
EXTENDS KVProperties, TLAPS

\* The call of clerk c has moved on; the calls of the other clerks have not.
Moved(c, stage, args, ok, rep) ==
  /\ calls' \in [Clerk -> CallRecord]
  /\ calls'[c].stage = stage /\ calls'[c].args = args
  /\ calls'[c].ok = ok /\ calls'[c].reply = rep
  /\ stage = "sent" => calls'[c].end \in Clerk
  /\ \A d \in Clerk : d # c => calls'[d] = calls[d]

\* A step of the network replaces the record of one call.
LEMMA OneCall ==
  ASSUME calls \in [Clerk -> CallRecord], NEW c \in Clerk, NEW r \in CallRecord,
         r.stage = "sent" => r.end \in Clerk, calls' = [calls EXCEPT ![c] = r]
  PROVE  Moved(c, r.stage, r.args, r.ok, r.reply)
  BY SMTT(20) DEF Moved

\* A call that does not exist has the type of a call.
LEMMA NoCallTyped == NoCall \in CallRecord
  BY SMTT(20) DEF NoCall, CallRecord

\* A field that the network writes: the type and the other fields stay.  The stage.
LEMMA SetStage ==
  ASSUME NEW q \in CallRecord,
         NEW x \in {"sent", "forwarded", "executing", "executed", "answering", "returned"}
  PROVE  /\ [q EXCEPT !.stage = x] \in CallRecord
         /\ [q EXCEPT !.stage = x].stage = x
         /\ [q EXCEPT !.stage = x].args = q.args
         /\ [q EXCEPT !.stage = x].ok = q.ok
         /\ [q EXCEPT !.stage = x].reply = q.reply
  BY SMTT(20) DEF CallRecord

\* The reply.
LEMMA SetReply ==
  ASSUME NEW q \in CallRecord, NEW x \in Strings
  PROVE  /\ [q EXCEPT !.reply = x] \in CallRecord
         /\ [q EXCEPT !.reply = x].stage = q.stage
         /\ [q EXCEPT !.reply = x].args = q.args
         /\ [q EXCEPT !.reply = x].ok = q.ok
         /\ [q EXCEPT !.reply = x].reply = x
  BY SMTT(20) DEF CallRecord

\* The outcome.
LEMMA SetOk ==
  ASSUME NEW q \in CallRecord
  PROVE  /\ [q EXCEPT !.ok = TRUE] \in CallRecord
         /\ [q EXCEPT !.ok = TRUE].stage = q.stage
         /\ [q EXCEPT !.ok = TRUE].args = q.args
         /\ [q EXCEPT !.ok = TRUE].ok = TRUE
         /\ [q EXCEPT !.ok = TRUE].reply = q.reply
  <1>1. [q EXCEPT !.ok = TRUE] \in CallRecord BY ZenonT(30) DEF CallRecord
  <1>2. /\ [q EXCEPT !.ok = TRUE].stage = q.stage
        /\ [q EXCEPT !.ok = TRUE].args = q.args
        /\ [q EXCEPT !.ok = TRUE].reply = q.reply
    BY SMTT(20) DEF CallRecord
  <1>3. [q EXCEPT !.ok = TRUE].ok = TRUE BY ZenonT(30) DEF CallRecord
  <1> QED BY <1>1, <1>2, <1>3, Zenon

\* The end.
LEMMA SetEnd ==
  ASSUME NEW q \in CallRecord, NEW x \in Clerk
  PROVE  /\ [q EXCEPT !.end = x] \in CallRecord
         /\ [q EXCEPT !.end = x].end = x
         /\ [q EXCEPT !.end = x].stage = q.stage
         /\ [q EXCEPT !.end = x].args = q.args
         /\ [q EXCEPT !.end = x].ok = q.ok
         /\ [q EXCEPT !.end = x].reply = q.reply
  BY SMTT(20) DEF CallRecord

\* The arguments.
LEMMA SetArgs ==
  ASSUME NEW q \in CallRecord, NEW x \in Requests
  PROVE  /\ [q EXCEPT !.args = x] \in CallRecord
         /\ [q EXCEPT !.args = x].end = q.end
         /\ [q EXCEPT !.args = x].stage = q.stage
         /\ [q EXCEPT !.args = x].args = x
         /\ [q EXCEPT !.args = x].ok = q.ok
         /\ [q EXCEPT !.args = x].reply = q.reply
  BY SMTT(20) DEF CallRecord

\* The name of the server.
LEMMA SetName ==
  ASSUME NEW q \in CallRecord, NEW x \in Servername
  PROVE  /\ [q EXCEPT !.name = x] \in CallRecord
         /\ [q EXCEPT !.name = x].stage = q.stage
         /\ [q EXCEPT !.name = x].args = q.args
         /\ [q EXCEPT !.name = x].ok = q.ok
         /\ [q EXCEPT !.name = x].reply = q.reply
  BY SMTT(20) DEF CallRecord

\* The server.
LEMMA SetSrv ==
  ASSUME NEW q \in CallRecord, NEW x \in Instance
  PROVE  /\ [q EXCEPT !.srv = x] \in CallRecord
         /\ [q EXCEPT !.srv = x].stage = q.stage
         /\ [q EXCEPT !.srv = x].args = q.args
         /\ [q EXCEPT !.srv = x].ok = q.ok
         /\ [q EXCEPT !.srv = x].reply = q.reply
  BY SMTT(20) DEF CallRecord

\* The reliability of the network.
LEMMA SetLossy ==
  ASSUME NEW q \in CallRecord, NEW x \in BOOLEAN
  PROVE  /\ [q EXCEPT !.lossy = x] \in CallRecord
         /\ [q EXCEPT !.lossy = x].stage = q.stage
         /\ [q EXCEPT !.lossy = x].args = q.args
         /\ [q EXCEPT !.lossy = x].ok = q.ok
         /\ [q EXCEPT !.lossy = x].reply = q.reply
  BY SMTT(20) DEF CallRecord

\* Fail: the caller gets no reply.
LEMMA FailMoves ==
  ASSUME calls \in [Clerk -> CallRecord], NEW c \in Clerk, Fail(c)
  PROVE  Moved(c, "returned", Nil, FALSE, Nil)
  <1>1. NoCall.args = Nil /\ NoCall.ok = FALSE /\ NoCall.reply = Nil BY SMTT(20) DEF NoCall
  <1> DEFINE r == [NoCall EXCEPT !.stage = "returned"]
  <1>2. /\ r \in CallRecord
        /\ r.stage = "returned" /\ r.args = Nil /\ r.ok = FALSE /\ r.reply = Nil
    BY <1>1, NoCallTyped, SetStage, Zenon
  <1>3. calls' = [calls EXCEPT ![c] = r] BY Zenon DEF Fail
  <1> HIDE DEF r
  <1> QED BY <1>2, <1>3, OneCall, Zenon

\* Return: the call is over.
LEMMA ReturnMoves ==
  ASSUME calls \in [Clerk -> CallRecord], NEW c \in Clerk, Return(c)
  PROVE  Moved(c, "idle", Nil, FALSE, Nil)
  <1>1. NoCall.stage = "idle" /\ NoCall.args = Nil /\ NoCall.ok = FALSE /\ NoCall.reply = Nil
    BY SMTT(20) DEF NoCall
  <1> QED BY <1>1, NoCallTyped, OneCall, Zenon DEF Return

\* Goto: only the stage changes.
LEMMA GotoMoves ==
  ASSUME calls \in [Clerk -> CallRecord], NEW c \in Clerk,
         NEW stage \in {"executing", "answering"}, Goto(c, stage)
  PROVE  Moved(c, stage, calls[c].args, calls[c].ok, calls[c].reply)
  <1> DEFINE r == [calls[c] EXCEPT !.stage = stage]
  <1>1. calls[c] \in CallRecord OBVIOUS
  <1>2. stage \in {"sent", "forwarded", "executing", "executed", "answering", "returned"} OBVIOUS
  <1>3. /\ r \in CallRecord
        /\ r.stage = stage /\ r.args = calls[c].args
        /\ r.ok = calls[c].ok /\ r.reply = calls[c].reply
    BY <1>1, <1>2, SetStage, Zenon
  <1>4. calls' = [calls EXCEPT ![c] = r] BY Zenon DEF Goto
  <1> HIDE DEF r
  <1> QED BY <1>3, <1>4, OneCall, Zenon

\* Send: a new request is on its way.
LEMMA SendMoves ==
  ASSUME calls \in [Clerk -> CallRecord], NEW c \in Clerk, NEW args \in Requests, Send(c, c, args)
  PROVE  Moved(c, "sent", args, FALSE, Nil)
  <1>1. NoCall.ok = FALSE /\ NoCall.reply = Nil BY SMTT(20) DEF NoCall
  <1> DEFINE p == [NoCall EXCEPT !.stage = "sent"]
             q == [p EXCEPT !.end = c]
             r == [q EXCEPT !.args = args]
  <1>2. calls' = [calls EXCEPT ![c] = r] BY Zenon DEF Send
  <1>3. p \in CallRecord /\ p.stage = "sent" /\ p.ok = FALSE /\ p.reply = Nil
    BY <1>1, NoCallTyped, SetStage, Zenon
  <1> HIDE DEF p
  <1>4. q \in CallRecord /\ q.stage = "sent" /\ q.end = c /\ q.ok = FALSE /\ q.reply = Nil
    BY <1>3, SetEnd, Zenon
  <1> HIDE DEF q
  <1>5. /\ r \in CallRecord
        /\ r.stage = "sent" /\ r.end = c /\ r.args = args /\ r.ok = FALSE /\ r.reply = Nil
    BY <1>4, SetArgs, Zenon
  <1> HIDE DEF r
  <1> QED BY <1>2, <1>5, OneCall, Zenon

\* HandlerReturns: the call has an answer.
LEMMA HandlerMoves ==
  ASSUME calls \in [Clerk -> CallRecord], NEW c \in Clerk, NEW answer \in Strings,
         HandlerReturns(c, answer)
  PROVE  Moved(c, "executed", calls[c].args, calls[c].ok, answer)
  <1>1. calls[c] \in CallRecord OBVIOUS
  <1> DEFINE q == [calls[c] EXCEPT !.stage = "executed"]
             r == [q EXCEPT !.reply = answer]
  <1>2. calls' = [calls EXCEPT ![c] = r] BY Zenon DEF HandlerReturns
  <1>3. q \in CallRecord /\ q.stage = "executed" /\ q.args = calls[c].args /\ q.ok = calls[c].ok
    BY <1>1, SetStage, Zenon
  <1> HIDE DEF q
  <1>4. /\ r \in CallRecord
        /\ r.stage = "executed" /\ r.args = calls[c].args
        /\ r.ok = calls[c].ok /\ r.reply = answer
    BY <1>3, SetReply, Zenon
  <1> HIDE DEF r
  <1> QED BY <1>2, <1>4, OneCall, Zenon

\* DeliverReply: the caller has the answer.
LEMMA DeliverMoves ==
  ASSUME calls \in [Clerk -> CallRecord], NEW c \in Clerk, DeliverReply(c)
  PROVE  Moved(c, "returned", calls[c].args, TRUE, calls[c].reply)
  <1>1. calls[c] \in CallRecord OBVIOUS
  <1> DEFINE q == [calls[c] EXCEPT !.stage = "returned"]
             r == [q EXCEPT !.ok = TRUE]
  <1>2. calls' = [calls EXCEPT ![c] = r] BY Zenon DEF DeliverReply
  <1>3. /\ q \in CallRecord
        /\ q.stage = "returned" /\ q.args = calls[c].args /\ q.reply = calls[c].reply
    BY <1>1, SetStage, Zenon
  <1> HIDE DEF q
  <1>4. /\ r \in CallRecord
        /\ r.stage = "returned" /\ r.args = calls[c].args
        /\ r.ok = TRUE /\ r.reply = calls[c].reply
    BY <1>3, SetOk, Zenon
  <1> HIDE DEF r
  <1> QED BY <1>2, <1>4, OneCall, Zenon

\* readEndnameInfo passes the call on to the connected server or fails it.
LEMMA ReadMoves ==
  ASSUME TypeOK, NEW c \in Clerk, calls[c].end \in Clerk, readEndnameInfo(c)
  PROVE  \/ Moved(c, "forwarded", calls[c].args, calls[c].ok, calls[c].reply)
         \/ Moved(c, "returned", Nil, FALSE, Nil)
  <1> DEFINE e == calls[c].end
  <1>1. calls \in [Clerk -> CallRecord] BY DEF TypeOK
  <1>2. CASE enabled[e] /\ ServerOf(e) # Nil
    <2>1. connections[e] \in Servername /\ ServerOf(e) \in Instance /\ (~reliable) \in BOOLEAN
      BY <1>2, SMTT(20) DEF TypeOK, ServerOf
    <2>2. calls[c] \in CallRecord BY <1>1
    <2> DEFINE o == [calls[c] EXCEPT !.stage = "forwarded"]
               p == [o EXCEPT !.name = connections[e]]
               q == [p EXCEPT !.srv = ServerOf(e)]
               r == [q EXCEPT !.lossy = ~reliable]
               Same(x) == /\ x \in CallRecord /\ x.stage = "forwarded" /\ x.args = calls[c].args
                          /\ x.ok = calls[c].ok /\ x.reply = calls[c].reply
    <2>3. calls' = [calls EXCEPT ![c] = r] BY <1>2, Zenon DEF readEndnameInfo
    <2> HIDE DEF e
    <2>4. Same(o) BY <2>2, SetStage, Zenon
    <2> HIDE DEF o
    <2>5. Same(p) BY <2>1, <2>4, SetName, Zenon
    <2> HIDE DEF p
    <2>6. Same(q) BY <2>1, <2>5, SetSrv, Zenon
    <2> HIDE DEF q
    <2>7. Same(r) BY <2>1, <2>6, SetLossy, Zenon
    <2> HIDE DEF r
    <2> QED BY <1>1, <2>3, <2>7, OneCall, Zenon
  <1>3. CASE ~(enabled[e] /\ ServerOf(e) # Nil)
    <2>1. Fail(c) BY <1>3, Zenon DEF readEndnameInfo
    <2> QED BY <1>1, <2>1, FailMoves, Zenon
  <1> QED BY <1>2, <1>3, Zenon

-----------------------------------------------------------------------------
(* The invariant                                                           *)

\* A step of one clerk leaves what the invariant says of another as it is.
LEMMA OtherClerk ==
  ASSUME NEW d \in Clerk, CallMatches(d), EffectKept(d),
         calls'[d] = calls[d], phase'[d] = phase[d], op'[d] = op[d], opReg'[d] = opReg[d],
         reply'[d] = reply[d], effect'[d] = effect[d],
         Reg(d) \in DOMAIN OpCache' <=> Reg(d) \in DOMAIN OpCache,
         Reg(d) \in DOMAIN OpCache => OpCache'[Reg(d)] = OpCache[Reg(d)]
  PROVE  CallMatches(d)' /\ EffectKept(d)'
  <1>1. Reg(d)' = Reg(d) BY Zenon DEF Reg
  <1>2. Request(d)' = Request(d) BY <1>1, Zenon DEF Request
  <1>3. Stage(d)' = Stage(d) BY Zenon DEF Stage
  <1>4. Alive(d)' <=> Alive(d) BY <1>3, Zenon DEF Alive
  <1>5. Answered(d)' <=> Answered(d) BY <1>3, Zenon DEF Answered
  <1>6. CallMatches(d)' BY <1>2, <1>3, <1>4, <1>5, SMTT(20) DEF CallMatches
  <1>7. Cached(Reg(d))' <=> Cached(Reg(d)) BY <1>1, Zenon DEF Cached
  <1>8. Cached(Reg(d)) => OpCache'[Reg(d)'] = OpCache[Reg(d)] BY <1>1, Zenon DEF Cached
  <1>9. EffectKept(d)' BY <1>5, <1>7, <1>8, SMTT(20) DEF EffectKept
  <1> QED BY <1>6, <1>9

\* The call is in one of these stages with an answer in it.
Full(stage, ok) == stage \in {"executed", "answering"} \/ (stage = "returned" /\ ok)

\* A step of the network, or of a clerk's retry loop, that moves a call on.
LEMMA NetworkKeeps ==
  ASSUME KVInv, NEW c \in Clerk, NEW stage, NEW args, NEW ok, NEW rep,
         Moved(c, stage, args, ok, rep),
         UNCHANGED <<tableVars, serverVars, clerkVars, effect>>,
         phase[c] # "idle",
         stage \in {"sent", "forwarded", "executing", "executed", "answering"} => args = Request(c),
         stage \in {"executed", "answering", "returned"} => (rep # Nil <=> Full(stage, ok)),
         Full(stage, ok) => Answered(c) /\ rep = calls[c].reply
  PROVE  KVInv'
  <1>1. TypeOK' BY SMTT(20) DEF KVInv, TypeOK, Moved, tableVars, serverVars, clerkVars
  <1>2. CacheBounded'
    BY SMTT(20) DEF KVInv, CacheBounded, Update, Reg, serverVars, clerkVars
  <1>3. ASSUME NEW d \in Clerk, d # c PROVE CallMatches(d)' /\ EffectKept(d)'
    <2>1. CallMatches(d) /\ EffectKept(d) BY DEF KVInv
    <2>2. calls'[d] = calls[d] BY <1>3, Zenon DEF Moved
    <2>3. /\ phase' = phase /\ op' = op /\ opReg' = opReg /\ reply' = reply /\ effect' = effect
          /\ OpCache' = OpCache
      BY Zenon DEF serverVars, clerkVars
    <2> QED BY <2>1, <2>2, <2>3, OtherClerk, Zenon
  <1>4. CallMatches(c)' /\ EffectKept(c)'
    <2>1. CallMatches(c) /\ EffectKept(c) BY DEF KVInv
    <2>2. /\ phase' = phase /\ op' = op /\ opReg' = opReg /\ reply' = reply /\ effect' = effect
          /\ OpCache' = OpCache
      BY Zenon DEF serverVars, clerkVars
    <2>3. Reg(c)' = Reg(c) BY <2>2, Zenon DEF Reg
    <2>4. Request(c)' = Request(c) BY <2>2, <2>3, Zenon DEF Request
    <2>5. /\ Stage(c)' = stage /\ calls'[c].args = args /\ calls'[c].ok = ok
          /\ calls'[c].reply = rep
      BY Zenon DEF Moved, Stage
    <2>6. Answered(c)' <=> Full(stage, ok) BY <2>5, Zenon DEF Answered, Full
    <2>7. Alive(c)' => args = Request(c) BY <2>5, Zenon DEF Alive
    <2>8. CallMatches(c)' BY <2>1, <2>2, <2>4, <2>5, <2>6, <2>7, Zenon DEF CallMatches
    <2>9. Cached(Reg(c))' <=> Cached(Reg(c)) BY <2>2, <2>3, Zenon DEF Cached
    <2>10. EffectKept(c)' BY <2>1, <2>2, <2>3, <2>5, <2>6, <2>9, Zenon DEF EffectKept
    <2> QED BY <2>8, <2>10
  <1> QED BY <1>1, <1>2, <1>3, <1>4, Zenon DEF KVInv

\* What the clerk asks carries the number and the arguments of its operation.
LEMMA RequestTyped ==
  ASSUME KVInv, NEW c \in Clerk, phase[c] # "idle"
  PROVE  /\ Request(c) \in Requests
         /\ Request(c).OpReg = Reg(c)
         /\ Request(c).method = "Clear" <=> phase[c] = "clear"
         /\ phase[c] = "operation" => /\ op[c] \in Operation
                                      /\ Request(c).method = op[c].type
                                      /\ Request(c).key = op[c].key /\ op[c].key \in Key
                                      /\ Request(c).value = op[c].value
  <1>1. op[c] \in Operation BY SMTT(20) DEF KVInv, CallMatches, TypeOK
  <1>2. /\ op[c].type \in {"Get", "Put", "Append"} /\ op[c].key \in Key
        /\ op[c].value \in Piece \cup {Nil}
    BY <1>1, SMTT(20) DEF Operation
  <1>3. phase[c] \in {"operation", "clear"} BY SMTT(20) DEF KVInv, TypeOK
  <1>4. Reg(c) \in Regs BY SMTT(20) DEF KVInv, TypeOK, Reg, Regs
  <1>5. CASE phase[c] = "clear"
    <2>1. Request(c) = [method |-> "Clear", key |-> Nil, value |-> Nil, OpReg |-> Reg(c)]
      BY <1>5, Zenon DEF Request
    <2>2. Request(c) \in Requests BY <2>1, <1>4, SMTT(20) DEF Requests
    <2> QED BY <1>5, <2>1, <2>2, SMTT(20)
  <1>6. CASE phase[c] = "operation"
    <2>1. Request(c) = [method |-> op[c].type, key |-> op[c].key, value |-> op[c].value,
                        OpReg |-> Reg(c)]
      BY <1>6, Zenon DEF Request
    <2>2. Request(c) \in Requests BY <2>1, <1>2, <1>4, SMTT(20) DEF Requests
    <2>3. /\ Request(c).OpReg = Reg(c) /\ Request(c).method = op[c].type
          /\ Request(c).key = op[c].key /\ Request(c).value = op[c].value
      BY <2>1, SMTT(20)
    <2>4. Request(c).method # "Clear" BY <2>3, <1>2, SMTT(20)
    <2> QED BY <1>1, <1>2, <1>6, <2>2, <2>3, <2>4, SMTT(20)
  <1> QED BY <1>3, <1>5, <1>6, Zenon

\* What KVInv says of one clerk.
LEMMA ClerkFacts ==
  ASSUME KVInv, NEW c \in Clerk
  PROVE  CallMatches(c) /\ EffectKept(c) /\ calls \in [Clerk -> CallRecord]
  BY Zenon DEF KVInv, TypeOK

\* Call: the loop makes another call.
LEMMA CallKeeps ==
  ASSUME KVInv, NEW c \in Clerk, Call(c)
  PROVE  KVInv'
  <1>1. phase[c] # "idle" /\ Send(c, c, Request(c)) BY DEF Call
  <1>2. Request(c) \in Requests BY <1>1, RequestTyped, Zenon
  <1>3. Moved(c, "sent", Request(c), FALSE, Nil) BY <1>1, <1>2, ClerkFacts, SendMoves, Zenon
  <1>4. UNCHANGED <<tableVars, serverVars, clerkVars, effect>> BY <1>1, Zenon DEF Call, Send
  <1>5. ~Full("sent", FALSE) BY Zenon DEF Full
  <1> QED BY <1>1, <1>3, <1>4, <1>5, NetworkKeeps, Zenon

\* Retry: the call has failed, the loop goes round.
LEMMA RetryKeeps ==
  ASSUME KVInv, NEW c \in Clerk, Retry(c)
  PROVE  KVInv'
  <1>1. Stage(c) = "returned" /\ Return(c) BY DEF Retry
  <1>2. phase[c] # "idle" BY <1>1, ClerkFacts, Zenon DEF CallMatches
  <1>3. Moved(c, "idle", Nil, FALSE, Nil) BY <1>1, ClerkFacts, ReturnMoves, Zenon
  <1>4. UNCHANGED <<tableVars, serverVars, clerkVars, effect>> BY Zenon DEF Retry, Return
  <1>5. ~Full("idle", FALSE) BY Zenon DEF Full
  <1> QED BY <1>2, <1>3, <1>4, <1>5, NetworkKeeps, Zenon

\* A call that is dropped, or whose server is not found, fails.
LEMMA FailKeeps ==
  ASSUME KVInv, NEW c \in Clerk, Stage(c) # "idle", Moved(c, "returned", Nil, FALSE, Nil),
         UNCHANGED <<tableVars, serverVars, clerkVars, effect>>
  PROVE  KVInv'
  <1>1. phase[c] # "idle" BY ClerkFacts, Zenon DEF CallMatches
  <1>2. ~Full("returned", FALSE) BY Zenon DEF Full
  <1> QED BY <1>1, <1>2, NetworkKeeps, Zenon

\* The network drops a request or a reply.
LEMMA LoseKeeps ==
  ASSUME KVInv, NEW c \in Clerk, Lose(c)
  PROVE  KVInv'
  <1>1. Stage(c) # "idle" /\ Fail(c) BY Zenon DEF Lose, DropRequest, DropReply
  <1>2. UNCHANGED <<tableVars, serverVars, clerkVars, effect>>
    BY Zenon DEF Lose, DropRequest, DropReply
  <1>3. Moved(c, "returned", Nil, FALSE, Nil) BY <1>1, ClerkFacts, FailMoves, Zenon
  <1> QED BY <1>1, <1>2, <1>3, FailKeeps, Zenon

\* The network takes a call one stage further.
LEMMA DeliverKeeps ==
  ASSUME KVInv, NEW c \in Clerk, Deliver(c)
  PROVE  KVInv'
  <1>1. UNCHANGED <<tableVars, serverVars, clerkVars, effect>>
    BY Zenon DEF Deliver, readEndnameInfo, StartHandler, CheckServer, DeliverReply
  <1>2. calls \in [Clerk -> CallRecord] /\ CallMatches(c) BY ClerkFacts, Zenon
  <1>3. ASSUME Stage(c) # "idle" PROVE phase[c] # "idle" BY <1>2, <1>3, Zenon DEF CallMatches
  <1>4. ASSUME Alive(c) PROVE calls[c].args = Request(c) BY <1>2, <1>4, Zenon DEF CallMatches
  <1>5. CASE readEndnameInfo(c)
    <2>1. Stage(c) = "sent" BY <1>5, Zenon DEF readEndnameInfo
    <2>2. phase[c] # "idle" /\ calls[c].args = Request(c) BY <2>1, <1>3, <1>4, Zenon DEF Alive
    <2>3. TypeOK /\ calls[c].end \in Clerk BY <2>1, Zenon DEF KVInv, TypeOK, Stage
    <2>4. ~Full("forwarded", calls[c].ok) BY Zenon DEF Full
    <2>5. CASE Moved(c, "forwarded", calls[c].args, calls[c].ok, calls[c].reply)
      BY <2>2, <2>4, <2>5, <1>1, NetworkKeeps, Zenon
    <2>6. CASE Moved(c, "returned", Nil, FALSE, Nil) BY <2>1, <2>6, <1>1, FailKeeps, Zenon
    <2> QED BY <1>5, <2>3, <2>5, <2>6, ReadMoves, Zenon
  <1>6. CASE StartHandler(c)
    <2>1. Stage(c) = "forwarded" /\ Goto(c, "executing") BY <1>6, Zenon DEF StartHandler
    <2>2. phase[c] # "idle" /\ calls[c].args = Request(c) BY <2>1, <1>3, <1>4, Zenon DEF Alive
    <2>3. ~Full("executing", calls[c].ok) BY Zenon DEF Full
    <2>4. Moved(c, "executing", calls[c].args, calls[c].ok, calls[c].reply)
      BY <2>1, <1>2, GotoMoves, Zenon
    <2> QED BY <2>2, <2>3, <2>4, <1>1, NetworkKeeps, Zenon
  <1>7. CASE CheckServer(c)
    <2>1. Stage(c) = "executed" BY <1>7, Zenon DEF CheckServer
    <2>2. CASE Fail(c)
      <3>1. Moved(c, "returned", Nil, FALSE, Nil) BY <2>2, <1>2, FailMoves, Zenon
      <3> QED BY <2>1, <3>1, <1>1, FailKeeps, Zenon
    <2>3. CASE Goto(c, "answering")
      <3>1. phase[c] # "idle" /\ calls[c].args = Request(c) BY <2>1, <1>3, <1>4, Zenon DEF Alive
      <3>2. Answered(c) /\ calls[c].reply # Nil
        BY <2>1, <1>2, Zenon DEF Answered, CallMatches
      <3>3. Full("answering", calls[c].ok) BY Zenon DEF Full
      <3>4. Moved(c, "answering", calls[c].args, calls[c].ok, calls[c].reply)
        BY <2>3, <1>2, GotoMoves, Zenon
      <3> QED BY <3>1, <3>2, <3>3, <3>4, <1>1, NetworkKeeps, Zenon
    <2> QED BY <1>7, <2>2, <2>3, Zenon DEF CheckServer
  <1>8. CASE DeliverReply(c)
    <2>1. Stage(c) = "answering" BY <1>8, Zenon DEF DeliverReply
    <2>2. phase[c] # "idle" BY <2>1, <1>3, Zenon
    <2>3. Answered(c) /\ calls[c].reply # Nil BY <2>1, <1>2, Zenon DEF Answered, CallMatches
    <2>4. Full("returned", TRUE) BY Zenon DEF Full
    <2>5. Moved(c, "returned", calls[c].args, TRUE, calls[c].reply)
      BY <1>8, <1>2, DeliverMoves, Zenon
    <2> QED BY <2>2, <2>3, <2>4, <2>5, <1>1, NetworkKeeps, Zenon
  <1> QED BY <1>5, <1>6, <1>7, <1>8, Zenon DEF Deliver

\* The numbers of two clerks differ.
LEMMA RegsDiffer ==
  ASSUME NEW c \in Clerk, NEW d \in Clerk
  PROVE  c # d => Reg(c) # Reg(d) /\ Reg(c)' # Reg(d) /\ Reg(c) # Reg(d)'
  BY Zenon DEF Reg

\* The cached numbers belong to updates in progress.
LEMMA CachedIsUpdate ==
  ASSUME KVInv, NEW r \in DOMAIN OpCache
  PROVE  \E d \in Clerk : Update(d) /\ r = Reg(d)
  BY Zenon DEF KVInv, CacheBounded

\* Start: the new number is in nobody's cache entry.
LEMMA StartKeeps ==
  ASSUME KVInv, NEW c \in Clerk, NEW o \in Operation, Start(c, o)
  PROVE  KVInv'
  <1>1. /\ phase[c] = "idle" /\ phase' = [phase EXCEPT ![c] = "operation"]
        /\ op' = [op EXCEPT ![c] = o] /\ opReg' = [opReg EXCEPT ![c] = @ + 1]
        /\ reply' = [reply EXCEPT ![c] = <<>>]
        /\ UNCHANGED <<connections, servers, reliable, calls, data, OpCache, value, effect>>
    BY Zenon DEF Start, netVars, tableVars, callVars, serverVars
  <1>2. TypeOK BY DEF KVInv
  <1>3. <<>> \in Strings BY SMTT(20) DEF Strings
  <1>4. TypeOK' BY <1>1, <1>2, <1>3, SMTT(20) DEF TypeOK
  <1>5. ~Update(c) BY <1>1, Zenon DEF Update
  <1>6. ASSUME NEW d \in Clerk, d # c
        PROVE  /\ phase'[d] = phase[d] /\ op'[d] = op[d] /\ opReg'[d] = opReg[d]
               /\ reply'[d] = reply[d] /\ calls'[d] = calls[d] /\ effect'[d] = effect[d]
    BY <1>1, <1>2, <1>6, SMTT(20) DEF TypeOK
  <1>7. CacheBounded'
    <2>1. ASSUME NEW r \in DOMAIN OpCache PROVE \E d \in Clerk : Update(d)' /\ r = Reg(d)'
      <3>1. PICK d \in Clerk : Update(d) /\ r = Reg(d) BY <2>1, CachedIsUpdate, Zenon
      <3>2. d # c BY <3>1, <1>5, Zenon
      <3>3. Update(d)' /\ Reg(d)' = Reg(d) BY <3>1, <3>2, <1>6, Zenon DEF Update, Reg
      <3> QED BY <3>1, <3>3, Zenon
    <2> QED BY <1>1, <2>1, Zenon DEF CacheBounded
  <1>8. ASSUME NEW d \in Clerk, d # c PROVE CallMatches(d)' /\ EffectKept(d)'
    BY <1>1, <1>6, <1>8, ClerkFacts, OtherClerk, Zenon
  <1>9. CallMatches(c)' /\ EffectKept(c)'
    <2>1. Stage(c) = "idle" /\ effect[c] = Nil BY <1>1, ClerkFacts, Zenon DEF CallMatches
    <2>2. /\ phase'[c] = "operation" /\ op'[c] = o /\ reply'[c] = <<>>
          /\ calls' = calls /\ effect' = effect /\ OpCache' = OpCache
      BY <1>1, <1>2, SMTT(20) DEF TypeOK
    <2>3. o # Nil BY NilAssumption
    <2>4. Stage(c)' = "idle" BY <2>1, <2>2, Zenon DEF Stage
    <2>5. ~Alive(c)' /\ ~Answered(c)' BY <2>4, Zenon DEF Alive, Answered
    <2>6. CallMatches(c)' BY <2>2, <2>3, <2>4, <2>5, SMTT(20) DEF CallMatches
    <2>7. ~Cached(Reg(c))'
      <3>1. SUFFICES ASSUME Reg(c)' \in DOMAIN OpCache PROVE FALSE BY <2>2, Zenon DEF Cached
      <3>2. PICK d \in Clerk : Update(d) /\ Reg(c)' = Reg(d) BY <3>1, CachedIsUpdate, Zenon
      <3> QED BY <3>2, <1>5, RegsDiffer, Zenon
    <2>8. EffectKept(c)' BY <2>1, <2>2, <2>5, <2>7, SMTT(20) DEF EffectKept
    <2> QED BY <2>6, <2>8
  <1> QED BY <1>4, <1>7, <1>8, <1>9, Zenon DEF KVInv

\* The operation has been answered: what the clerk decodes is what the operation found.
LEMMA Decoded ==
  ASSUME KVInv, NEW c \in Clerk, phase[c] = "operation", Stage(c) = "returned", calls[c].ok
  PROVE  /\ Decode(reply[c], calls[c].reply, <<>>) = effect[c]
         /\ effect[c] \in Strings
  <1>1. Answered(c) BY Zenon DEF Answered
  <1>2. reply[c] = <<>> /\ effect[c] = calls[c].reply BY <1>1, ClerkFacts, Zenon DEF EffectKept
  <1>3. calls[c].reply # Nil BY <1>1, ClerkFacts, Zenon DEF CallMatches
  <1>4. effect[c] \in Strings BY <1>2, <1>3, SMTT(20) DEF KVInv, TypeOK
  <1> QED BY <1>2, <1>4, Zenon DEF Decode

\* LeaveOperation: a Get is over; a Put or an Append has its answer and goes on to clear.
LEMMA LeaveOperationKeeps ==
  ASSUME KVInv, NEW c \in Clerk, LeaveOperation(c)
  PROVE  KVInv'
  <1> DEFINE result == Decode(reply[c], calls[c].reply, <<>>)
  <1>1. /\ phase[c] = "operation" /\ Stage(c) = "returned" /\ calls[c].ok /\ Return(c)
        /\ reply' = [reply EXCEPT ![c] = result]
        /\ UNCHANGED <<data, OpCache, opReg>>
    BY Zenon DEF LeaveOperation, serverVars
  <1>2. UNCHANGED <<connections, servers, reliable>> BY <1>1, Zenon DEF Return, tableVars
  <1>3. result = effect[c] /\ effect[c] \in Strings BY <1>1, Decoded, Zenon
  <1> HIDE DEF result
  <1>4. Moved(c, "idle", Nil, FALSE, Nil) BY <1>1, ClerkFacts, ReturnMoves, Zenon
  <1>5. Stage(c)' = "idle" BY <1>4, Zenon DEF Moved, Stage
  <1>6. ~Alive(c)' /\ ~Answered(c)' BY <1>5, Zenon DEF Alive, Answered
  <1>7. TypeOK BY DEF KVInv
  <1>8. CASE op[c].type = "Get"
    <2>1. Finish(c, result) BY <1>8, Zenon DEF LeaveOperation, result
    <2>2. /\ phase' = [phase EXCEPT ![c] = "idle"] /\ op' = [op EXCEPT ![c] = Nil]
          /\ value' = [value EXCEPT ![c] = result] /\ effect' = [effect EXCEPT ![c] = Nil]
      BY <2>1, Zenon DEF Finish
    <2>3. TypeOK' BY <1>1, <1>2, <1>3, <1>4, <1>7, <2>2, SMTT(20) DEF TypeOK, Moved
    <2>4. ~Update(c) BY <1>8, Zenon DEF Update
    <2>5. ASSUME NEW d \in Clerk, d # c
          PROVE  /\ phase'[d] = phase[d] /\ op'[d] = op[d] /\ opReg'[d] = opReg[d]
                 /\ reply'[d] = reply[d] /\ calls'[d] = calls[d] /\ effect'[d] = effect[d]
      BY <1>1, <1>4, <1>7, <2>2, <2>5, SMTT(20) DEF TypeOK, Moved
    <2>6. CacheBounded'
      <3>1. ASSUME NEW r \in DOMAIN OpCache PROVE \E d \in Clerk : Update(d)' /\ r = Reg(d)'
        <4>1. PICK d \in Clerk : Update(d) /\ r = Reg(d) BY <3>1, CachedIsUpdate, Zenon
        <4>2. d # c BY <4>1, <2>4, Zenon
        <4>3. Update(d)' /\ Reg(d)' = Reg(d) BY <4>1, <4>2, <2>5, Zenon DEF Update, Reg
        <4> QED BY <4>1, <4>3, Zenon
      <3> QED BY <1>1, <3>1, Zenon DEF CacheBounded
    <2>7. ASSUME NEW d \in Clerk, d # c PROVE CallMatches(d)' /\ EffectKept(d)'
      BY <1>1, <2>5, <2>7, ClerkFacts, OtherClerk, Zenon
    <2>8. phase'[c] = "idle" /\ op'[c] = Nil /\ effect'[c] = Nil
      BY <2>2, <1>7, SMTT(20) DEF TypeOK
    <2>9. CallMatches(c)' BY <2>8, <1>5, <1>6, SMTT(20) DEF CallMatches
    <2>10. EffectKept(c)' BY <2>8, SMTT(20) DEF EffectKept
    <2> QED BY <2>3, <2>6, <2>7, <2>9, <2>10, Zenon DEF KVInv
  <1>9. CASE op[c].type # "Get"
    <2>1. phase' = [phase EXCEPT ![c] = "clear"] /\ UNCHANGED <<op, value, effect>>
      BY <1>9, Zenon DEF LeaveOperation
    <2>2. TypeOK' BY <1>1, <1>2, <1>3, <1>4, <1>7, <2>1, SMTT(20) DEF TypeOK, Moved
    <2>3. ASSUME NEW d \in Clerk, d # c
          PROVE  /\ phase'[d] = phase[d] /\ op'[d] = op[d] /\ opReg'[d] = opReg[d]
                 /\ reply'[d] = reply[d] /\ calls'[d] = calls[d] /\ effect'[d] = effect[d]
      BY <1>1, <1>4, <1>7, <2>1, <2>3, SMTT(20) DEF TypeOK, Moved
    <2>4. phase'[c] = "clear" /\ reply'[c] = effect[c]
      BY <1>1, <1>3, <1>7, <2>1, SMTT(20) DEF TypeOK
    <2>5. CacheBounded'
      <3>1. ASSUME NEW r \in DOMAIN OpCache PROVE \E d \in Clerk : Update(d)' /\ r = Reg(d)'
        <4>1. PICK d \in Clerk : Update(d) /\ r = Reg(d) BY <3>1, CachedIsUpdate, Zenon
        <4>2. Reg(d)' = Reg(d) BY <1>1, Zenon DEF Reg
        <4>3. Update(d)'
          <5>1. CASE d = c BY <5>1, <2>1, <2>4, <1>9, Zenon DEF Update
          <5>2. CASE d # c BY <4>1, <5>2, <2>3, Zenon DEF Update
          <5> QED BY <5>1, <5>2, Zenon
        <4> QED BY <4>1, <4>2, <4>3, Zenon
      <3> QED BY <1>1, <3>1, Zenon DEF CacheBounded
    <2>6. ASSUME NEW d \in Clerk, d # c PROVE CallMatches(d)' /\ EffectKept(d)'
      BY <1>1, <2>3, <2>6, ClerkFacts, OtherClerk, Zenon
    <2>7. op[c] # Nil BY <1>1, ClerkFacts, Zenon DEF CallMatches
    <2>8. CallMatches(c)' BY <2>1, <2>4, <2>7, <1>5, <1>6, <1>9, SMTT(20) DEF CallMatches
    <2>9. EffectKept(c)' BY <2>1, <2>4, <1>6, SMTT(20) DEF EffectKept
    <2> QED BY <2>2, <2>5, <2>6, <2>8, <2>9, Zenon DEF KVInv
  <1> QED BY <1>8, <1>9, Zenon

\* The clerk returns from Clear and its operation is over.
LEMMA LeaveClearKeeps ==
  ASSUME KVInv, NEW c \in Clerk, LeaveClear(c)
  PROVE  KVInv'
  <1>1. /\ phase[c] = "clear" /\ Stage(c) = "returned" /\ calls[c].ok /\ Return(c)
        /\ UNCHANGED <<data, OpCache, opReg, reply>>
        /\ phase' = [phase EXCEPT ![c] = "idle"] /\ op' = [op EXCEPT ![c] = Nil]
        /\ value' = [value EXCEPT ![c] = reply[c]] /\ effect' = [effect EXCEPT ![c] = Nil]
    BY Zenon DEF LeaveClear, Finish, serverVars
  <1>2. UNCHANGED <<connections, servers, reliable>> BY <1>1, Zenon DEF Return, tableVars
  <1>3. Moved(c, "idle", Nil, FALSE, Nil) BY <1>1, ClerkFacts, ReturnMoves, Zenon
  <1>4. Stage(c)' = "idle" BY <1>3, Zenon DEF Moved, Stage
  <1>5. ~Alive(c)' /\ ~Answered(c)' BY <1>4, Zenon DEF Alive, Answered
  <1>6. TypeOK BY DEF KVInv
  <1>7. Answered(c) BY <1>1, Zenon DEF Answered
  <1>8. Reg(c) \notin DOMAIN OpCache BY <1>1, <1>7, ClerkFacts, Zenon DEF EffectKept, Cached
  <1>9. TypeOK' BY <1>1, <1>2, <1>3, <1>6, SMTT(20) DEF TypeOK, Moved
  <1>10. ASSUME NEW d \in Clerk, d # c
         PROVE  /\ phase'[d] = phase[d] /\ op'[d] = op[d] /\ opReg'[d] = opReg[d]
                /\ reply'[d] = reply[d] /\ calls'[d] = calls[d] /\ effect'[d] = effect[d]
    BY <1>1, <1>3, <1>6, <1>10, SMTT(20) DEF TypeOK, Moved
  <1>11. CacheBounded'
    <2>1. ASSUME NEW r \in DOMAIN OpCache PROVE \E d \in Clerk : Update(d)' /\ r = Reg(d)'
      <3>1. PICK d \in Clerk : Update(d) /\ r = Reg(d) BY <2>1, CachedIsUpdate, Zenon
      <3>2. d # c BY <3>1, <1>8, Zenon
      <3>3. Update(d)' /\ Reg(d)' = Reg(d) BY <3>1, <3>2, <1>10, Zenon DEF Update, Reg
      <3> QED BY <3>1, <3>3, Zenon
    <2> QED BY <1>1, <2>1, Zenon DEF CacheBounded
  <1>12. ASSUME NEW d \in Clerk, d # c PROVE CallMatches(d)' /\ EffectKept(d)'
    BY <1>1, <1>10, <1>12, ClerkFacts, OtherClerk, Zenon
  <1>13. phase'[c] = "idle" /\ op'[c] = Nil /\ effect'[c] = Nil
    BY <1>1, <1>6, SMTT(20) DEF TypeOK
  <1>14. CallMatches(c)' BY <1>13, <1>4, <1>5, SMTT(20) DEF CallMatches
  <1>15. EffectKept(c)' BY <1>13, SMTT(20) DEF EffectKept
  <1> QED BY <1>9, <1>11, <1>12, <1>14, <1>15, Zenon DEF KVInv

-----------------------------------------------------------------------------
(* The handlers                                                            *)

\* The request a handler runs is the one the clerk's loop is waiting for.
LEMMA Executing ==
  ASSUME KVInv, NEW c \in Clerk, Stage(c) = "executing"
  PROVE  phase[c] # "idle" /\ calls[c].args = Request(c)
  BY ClerkFacts, Zenon DEF CallMatches, Alive

\* What a handler that answers with x does to the call of its clerk.
LEMMA HandlerAnswers ==
  ASSUME KVInv, NEW c \in Clerk, NEW x \in Strings, HandlerReturns(c, x),
         phase' = phase, op' = op, opReg' = opReg
  PROVE  /\ CallMatches(c)'
         /\ Answered(c)' /\ calls'[c].reply = x
         /\ calls' \in [Clerk -> CallRecord]
         /\ \A d \in Clerk : d # c => calls'[d] = calls[d]
         /\ \A d \in Clerk : calls'[d].stage = "sent" => calls'[d].end \in Clerk
         /\ UNCHANGED <<connections, servers, reliable>>
  <1>1. Stage(c) = "executing" /\ UNCHANGED <<connections, servers, reliable>>
    BY Zenon DEF HandlerReturns, tableVars
  <1>2. Moved(c, "executed", calls[c].args, calls[c].ok, x) BY ClerkFacts, HandlerMoves, Zenon
  <1>3. Stage(c)' = "executed" /\ calls'[c].reply = x /\ calls'[c].args = calls[c].args
    BY <1>2, Zenon DEF Moved, Stage
  <1>4. Answered(c)' BY <1>3, Zenon DEF Answered
  <1>5. x # Nil BY NilAssumption DEF Strings
  <1>6. Request(c)' = Request(c) BY Zenon DEF Request, Reg
  <1>7. phase[c] # "idle" /\ calls[c].args = Request(c) BY <1>1, Executing, Zenon
  <1>8. CallMatches(c)'
    BY <1>3, <1>4, <1>5, <1>6, <1>7, ClerkFacts, SMTT(20) DEF CallMatches
  <1>9. \A d \in Clerk : calls'[d].stage = "sent" => calls'[d].end \in Clerk
    <2>1. SUFFICES ASSUME NEW d \in Clerk, calls'[d].stage = "sent"
                   PROVE  calls'[d].end \in Clerk
      OBVIOUS
    <2>2. d # c BY <1>3, <2>1, Zenon DEF Stage
    <2>3. calls'[d] = calls[d] BY <1>2, <2>2, Zenon DEF Moved
    <2> QED BY <2>1, <2>3, Zenon DEF KVInv, TypeOK
  <1> QED BY <1>1, <1>2, <1>3, <1>4, <1>8, <1>9, Zenon DEF Moved

\* Clear: the number leaves the cache.
LEMMA ClearKeeps ==
  ASSUME KVInv, NEW c \in Clerk, Stage(c) = "executing", Clear(c)
  PROVE  KVInv'
  <1>1. phase[c] # "idle" /\ calls[c].args = Request(c) BY Executing, Zenon
  <1>2. phase[c] = "clear" /\ calls[c].args.OpReg = Reg(c) BY <1>1, RequestTyped, Zenon DEF Clear
  <1>3. /\ OpCache' = [r \in DOMAIN OpCache \ {Reg(c)} |-> OpCache[r]]
        /\ HandlerReturns(c, <<>>)
        /\ phase' = phase /\ op' = op /\ opReg' = opReg
        /\ UNCHANGED <<data, reply, value, effect>>
    BY <1>2, Zenon DEF Clear, clerkVars
  <1>4. <<>> \in Strings BY SMTT(20) DEF Strings
  <1>5. /\ CallMatches(c)' /\ Answered(c)'
        /\ calls' \in [Clerk -> CallRecord]
        /\ \A d \in Clerk : d # c => calls'[d] = calls[d]
        /\ \A d \in Clerk : calls'[d].stage = "sent" => calls'[d].end \in Clerk
        /\ UNCHANGED <<connections, servers, reliable>>
    BY <1>3, <1>4, HandlerAnswers, Zenon
  <1>6. /\ DOMAIN OpCache' = DOMAIN OpCache \ {Reg(c)}
        /\ \A r \in DOMAIN OpCache' : OpCache'[r] = OpCache[r]
    BY <1>3, SMTT(20)
  <1>7. TypeOK' BY <1>3, <1>5, <1>6, SMTT(20) DEF KVInv, TypeOK
  <1>8. \A d \in Clerk : Reg(d)' = Reg(d) /\ (Update(d)' <=> Update(d))
    BY <1>3, Zenon DEF Reg, Update
  <1>9. CacheBounded' BY <1>6, <1>8, SMTT(20) DEF KVInv, CacheBounded
  <1>10. ASSUME NEW d \in Clerk, d # c PROVE CallMatches(d)' /\ EffectKept(d)'
    <2>1. Reg(d) # Reg(c) BY <1>10, RegsDiffer, Zenon
    <2>2. /\ Reg(d) \in DOMAIN OpCache' <=> Reg(d) \in DOMAIN OpCache
          /\ Reg(d) \in DOMAIN OpCache => OpCache'[Reg(d)] = OpCache[Reg(d)]
      BY <2>1, <1>6, SMTT(20)
    <2>3. calls'[d] = calls[d] BY <1>5, <1>10, Zenon
    <2> QED BY <1>3, <2>2, <2>3, ClerkFacts, OtherClerk, Zenon
  <1>11. ~Cached(Reg(c))' BY <1>6, <1>8, SMTT(20) DEF Cached
  <1>12. effect[c] = reply[c] BY <1>2, ClerkFacts, Zenon DEF EffectKept
  <1>13. EffectKept(c)' BY <1>2, <1>3, <1>11, <1>12, SMTT(20) DEF EffectKept
  <1> QED BY <1>5, <1>7, <1>9, <1>10, <1>13, Zenon DEF KVInv

\* Get: the answer is what the key holds.
LEMMA GetKeeps ==
  ASSUME KVInv, NEW c \in Clerk, Stage(c) = "executing", Get(c)
  PROVE  KVInv'
  <1>1. phase[c] # "idle" /\ calls[c].args = Request(c) BY Executing, Zenon
  <1>2. phase[c] = "operation"
    <2>1. Request(c).method # "Clear" BY <1>1, Zenon DEF Get
    <2> QED BY <1>1, <2>1, RequestTyped, SMTT(20) DEF KVInv, TypeOK
  <1>3. op[c].type = "Get" /\ calls[c].args.key \in Key
    BY <1>1, <1>2, RequestTyped, Zenon DEF Get
  <1> DEFINE x == data[calls[c].args.key]
  <1>4. x \in Strings BY <1>3, SMTT(20) DEF KVInv, TypeOK
  <1>5. /\ HandlerReturns(c, x) /\ effect' = [effect EXCEPT ![c] = x]
        /\ phase' = phase /\ op' = op /\ opReg' = opReg
        /\ UNCHANGED <<data, OpCache, reply, value>>
    BY Zenon DEF Get, serverVars, clerkVars
  <1> HIDE DEF x
  <1>6. /\ CallMatches(c)' /\ Answered(c)' /\ calls'[c].reply = x
        /\ calls' \in [Clerk -> CallRecord]
        /\ \A d \in Clerk : d # c => calls'[d] = calls[d]
        /\ \A d \in Clerk : calls'[d].stage = "sent" => calls'[d].end \in Clerk
        /\ UNCHANGED <<connections, servers, reliable>>
    BY <1>4, <1>5, HandlerAnswers, Zenon
  <1>7. TypeOK'
    <2>1. effect' \in [Clerk -> Strings \cup {Nil}] BY <1>4, <1>5, SMTT(20) DEF KVInv, TypeOK
    <2> QED BY <2>1, <1>5, <1>6, Zenon DEF KVInv, TypeOK
  <1>8. CacheBounded' BY <1>5, SMTT(20) DEF KVInv, CacheBounded, Update, Reg
  <1>9. effect'[c] = x /\ \A d \in Clerk : d # c => effect'[d] = effect[d]
    BY <1>5, SMTT(20) DEF KVInv, TypeOK
  <1>10. ASSUME NEW d \in Clerk, d # c PROVE CallMatches(d)' /\ EffectKept(d)'
    <2>1. calls'[d] = calls[d] /\ effect'[d] = effect[d] BY <1>6, <1>9, <1>10, Zenon
    <2> QED BY <1>5, <2>1, ClerkFacts, OtherClerk, Zenon
  <1>11. reply[c] = <<>> BY <1>2, ClerkFacts, Zenon DEF EffectKept
  <1>12. EffectKept(c)' BY <1>2, <1>3, <1>5, <1>6, <1>9, <1>11, SMTT(20) DEF EffectKept
  <1> QED BY <1>6, <1>7, <1>8, <1>10, <1>12, Zenon DEF KVInv

\* The request PutAppend executes is the one the clerk is waiting for.
LEMMA UpdateRuns ==
  ASSUME KVInv, NEW c \in Clerk, Stage(c) = "executing",
         calls[c].args.method \in {"Put", "Append"}
  PROVE  /\ phase[c] = "operation" /\ op[c].type # "Get" /\ op[c] \in Operation
         /\ calls[c].args.OpReg = Reg(c)
         /\ calls[c].args.method = op[c].type
         /\ calls[c].args.key = op[c].key /\ op[c].key \in Key
         /\ calls[c].args.value = op[c].value /\ op[c].value \in Piece
  <1>1. phase[c] # "idle" /\ calls[c].args = Request(c) BY Executing, Zenon
  <1>2. phase[c] = "operation"
    <2>1. Request(c).method # "Clear" BY <1>1, SMTT(20)
    <2> QED BY <1>1, <2>1, RequestTyped, SMTT(20) DEF KVInv, TypeOK
  <1>3. /\ op[c] \in Operation /\ calls[c].args.OpReg = Reg(c)
        /\ calls[c].args.method = op[c].type
        /\ calls[c].args.key = op[c].key /\ op[c].key \in Key
        /\ calls[c].args.value = op[c].value
    BY <1>1, <1>2, RequestTyped, Zenon
  <1>4. op[c].type # "Get" BY <1>3, SMTT(20)
  <1>5. op[c].value \in Piece BY <1>3, <1>4, SMTT(20) DEF Operation
  <1> QED BY <1>2, <1>3, <1>4, <1>5, Zenon

\* Duplicate: the answer is the one the cache remembers.
LEMMA DuplicateKeeps ==
  ASSUME KVInv, NEW c \in Clerk, Stage(c) = "executing", Duplicate(c)
  PROVE  KVInv'
  <1>1. calls[c].args.method \in {"Put", "Append"} BY Zenon DEF Duplicate
  <1>2. phase[c] = "operation" /\ op[c].type # "Get" /\ calls[c].args.OpReg = Reg(c)
    BY <1>1, UpdateRuns, Zenon
  <1> DEFINE x == OpCache[Reg(c)]
  <1>3. /\ Cached(Reg(c)) /\ HandlerReturns(c, x)
        /\ phase' = phase /\ op' = op /\ opReg' = opReg
        /\ UNCHANGED <<data, OpCache, reply, value, effect>>
    BY <1>2, Zenon DEF Duplicate, serverVars, clerkVars
  <1>4. x \in Strings BY <1>3, Zenon DEF KVInv, TypeOK, Cached
  <1>5. effect[c] = x BY <1>2, <1>3, ClerkFacts, Zenon DEF EffectKept
  <1> HIDE DEF x
  <1>6. /\ CallMatches(c)' /\ Answered(c)' /\ calls'[c].reply = x
        /\ calls' \in [Clerk -> CallRecord]
        /\ \A d \in Clerk : d # c => calls'[d] = calls[d]
        /\ \A d \in Clerk : calls'[d].stage = "sent" => calls'[d].end \in Clerk
        /\ UNCHANGED <<connections, servers, reliable>>
    BY <1>3, <1>4, HandlerAnswers, Zenon
  <1>7. TypeOK' BY <1>3, <1>6, SMTT(20) DEF KVInv, TypeOK
  <1>8. CacheBounded' BY <1>3, SMTT(20) DEF KVInv, CacheBounded, Update, Reg
  <1>9. ASSUME NEW d \in Clerk, d # c PROVE CallMatches(d)' /\ EffectKept(d)'
    <2>1. calls'[d] = calls[d] BY <1>6, <1>9, Zenon
    <2> QED BY <1>3, <2>1, ClerkFacts, OtherClerk, Zenon
  <1>10. Reg(c)' = Reg(c) /\ (Cached(Reg(c))' <=> Cached(Reg(c))) BY <1>3, Zenon DEF Reg, Cached
  <1>11. EffectKept(c)'
    BY <1>2, <1>3, <1>5, <1>6, <1>10, ClerkFacts, Zenon DEF EffectKept
  <1> QED BY <1>6, <1>7, <1>8, <1>9, <1>11, Zenon DEF KVInv

\* What is stored is a string.
LEMMA StoredTyped ==
  ASSUME NEW k, data[k] \in Strings, NEW args, args.key = k, args.value \in Piece
  PROVE  Stored(args) \in Strings
  BY SMTT(20) DEF Stored, Strings

\* PutAppend: the old value is cached under the number and answered.
LEMMA PutAppendKeeps ==
  ASSUME KVInv, NEW c \in Clerk, Stage(c) = "executing", PutAppend(c)
  PROVE  KVInv'
  <1>1. calls[c].args.method \in {"Put", "Append"} BY Zenon DEF PutAppend
  <1>2. /\ phase[c] = "operation" /\ op[c].type # "Get" /\ calls[c].args.OpReg = Reg(c)
        /\ calls[c].args.key \in Key /\ calls[c].args.value \in Piece
    BY <1>1, UpdateRuns, Zenon
  <1> DEFINE x == data[calls[c].args.key]
             y == Stored(calls[c].args)
  <1>3. x \in Strings BY <1>2, Zenon DEF KVInv, TypeOK
  <1>4. y \in Strings BY <1>2, <1>3, StoredTyped, Zenon
  <1>5. /\ Reg(c) \notin DOMAIN OpCache /\ HandlerReturns(c, x)
        /\ OpCache' = [r \in DOMAIN OpCache \cup {Reg(c)} |-> IF r = Reg(c) THEN x ELSE OpCache[r]]
        /\ data' = [data EXCEPT ![calls[c].args.key] = y]
        /\ effect' = [effect EXCEPT ![c] = x]
        /\ phase' = phase /\ op' = op /\ opReg' = opReg
        /\ UNCHANGED <<reply, value>>
    BY <1>2, Zenon DEF PutAppend, clerkVars, Cached
  <1> HIDE DEF x, y
  <1>6. /\ CallMatches(c)' /\ Answered(c)' /\ calls'[c].reply = x
        /\ calls' \in [Clerk -> CallRecord]
        /\ \A d \in Clerk : d # c => calls'[d] = calls[d]
        /\ \A d \in Clerk : calls'[d].stage = "sent" => calls'[d].end \in Clerk
        /\ UNCHANGED <<connections, servers, reliable>>
    BY <1>3, <1>5, HandlerAnswers, Zenon
  <1>7. /\ DOMAIN OpCache' = DOMAIN OpCache \cup {Reg(c)} /\ OpCache'[Reg(c)] = x
        /\ \A r \in DOMAIN OpCache : OpCache'[r] = OpCache[r]
    BY <1>5, SMTT(20)
  <1>8. Reg(c) \in Regs BY SMTT(20) DEF KVInv, TypeOK, Reg, Regs
  <1>9. TypeOK'
    <2>1. data' \in [Key -> Strings] /\ effect' \in [Clerk -> Strings \cup {Nil}]
      BY <1>2, <1>3, <1>4, <1>5, SMTT(20) DEF KVInv, TypeOK
    <2>2. DOMAIN OpCache' \subseteq Regs BY <1>7, <1>8, SMTT(20) DEF KVInv, TypeOK
    <2>3. \A r \in DOMAIN OpCache' : OpCache'[r] \in Strings
      BY <1>3, <1>7, SMTT(20) DEF KVInv, TypeOK
    <2> QED BY <2>1, <2>2, <2>3, <1>5, <1>6, Zenon DEF KVInv, TypeOK
  <1>10. \A d \in Clerk : Reg(d)' = Reg(d) /\ (Update(d)' <=> Update(d))
    BY <1>5, Zenon DEF Reg, Update
  <1>11. Update(c) BY <1>2, Zenon DEF Update
  <1>12. CacheBounded'
    <2>1. ASSUME NEW r \in DOMAIN OpCache' PROVE \E d \in Clerk : Update(d)' /\ r = Reg(d)'
      <3>1. CASE r = Reg(c) BY <3>1, <1>10, <1>11, Zenon
      <3>2. CASE r \in DOMAIN OpCache BY <3>2, <1>10, CachedIsUpdate, Zenon
      <3> QED BY <2>1, <3>1, <3>2, <1>7, Zenon
    <2> QED BY <2>1, Zenon DEF CacheBounded
  <1>13. effect'[c] = x /\ \A d \in Clerk : d # c => effect'[d] = effect[d]
    BY <1>5, SMTT(20) DEF KVInv, TypeOK
  <1>14. ASSUME NEW d \in Clerk, d # c PROVE CallMatches(d)' /\ EffectKept(d)'
    <2>1. Reg(d) # Reg(c) BY <1>14, RegsDiffer, Zenon
    <2>2. /\ Reg(d) \in DOMAIN OpCache' <=> Reg(d) \in DOMAIN OpCache
          /\ Reg(d) \in DOMAIN OpCache => OpCache'[Reg(d)] = OpCache[Reg(d)]
      BY <2>1, <1>7, SMTT(20)
    <2>3. calls'[d] = calls[d] /\ effect'[d] = effect[d] BY <1>6, <1>13, <1>14, Zenon
    <2> QED BY <1>5, <2>2, <2>3, ClerkFacts, OtherClerk, Zenon
  <1>15. Cached(Reg(c))' /\ OpCache'[Reg(c)'] = x BY <1>7, <1>10, SMTT(20) DEF Cached
  <1>16. x # Nil BY <1>3, NilAssumption DEF Strings
  <1>17. reply[c] = <<>> BY <1>2, ClerkFacts, Zenon DEF EffectKept
  <1>18. EffectKept(c)'
    BY <1>2, <1>5, <1>6, <1>13, <1>15, <1>16, <1>17, SMTT(20) DEF EffectKept
  <1> QED BY <1>6, <1>9, <1>12, <1>14, <1>18, Zenon DEF KVInv

-----------------------------------------------------------------------------
(* The theorems                                                            *)

\* KVInv holds when make_config has started the server and made the clerks.
LEMMA KVInvInit == Init => KVInv
  <1> SUFFICES ASSUME Init PROVE KVInv OBVIOUS
  <1>1. <<>> \in Strings BY SMTT(20) DEF Strings
  <1>2. SERVERID \in Servername /\ TheServer \in Instance
    BY ServerAssumption, Zenon DEF SERVERID, TheServer
  <1>3. DOMAIN OpCache = {} BY SMTT(20) DEF Init
  <1>4. NoCall.stage = "idle" BY SMTT(20) DEF NoCall
  <1>5. TypeOK BY <1>1, <1>2, <1>3, <1>4, NoCallTyped, SMTT(20) DEF Init, TypeOK
  <1>6. CacheBounded BY <1>3, Zenon DEF CacheBounded
  <1>7. ASSUME NEW c \in Clerk PROVE CallMatches(c) /\ EffectKept(c)
    <2>1. /\ phase[c] = "idle" /\ op[c] = Nil /\ effect[c] = Nil /\ Stage(c) = "idle"
      BY <1>4, SMTT(20) DEF Init, Stage
    <2>2. ~Alive(c) /\ ~Answered(c) BY <2>1, Zenon DEF Alive, Answered
    <2> QED BY <2>1, <2>2, SMTT(20) DEF CallMatches, EffectKept
  <1> QED BY <1>5, <1>6, <1>7, Zenon DEF KVInv

\* Every step of a clerk, the network or the server keeps KVInv.
LEMMA KVInvNext == KVInv /\ [Next]_vars => KVInv'
  <1> SUFFICES ASSUME KVInv, [Next]_vars PROVE KVInv' OBVIOUS
  <1>1. CASE UNCHANGED vars
    <2>1. /\ UNCHANGED <<connections, servers, reliable, calls, data, OpCache>>
          /\ UNCHANGED <<phase, op, opReg, reply, value, effect>>
      BY <1>1, Zenon DEF vars, netVars, tableVars, callVars, serverVars, clerkVars
    <2>2. TypeOK' BY <2>1, SMTT(20) DEF KVInv, TypeOK
    <2>3. CacheBounded' BY <2>1, SMTT(20) DEF KVInv, CacheBounded, Update, Reg
    <2>4. ASSUME NEW d \in Clerk PROVE CallMatches(d)' /\ EffectKept(d)'
      BY <2>1, ClerkFacts, OtherClerk, Zenon
    <2> QED BY <2>2, <2>3, <2>4, Zenon DEF KVInv
  <1>2. ASSUME NEW c \in Clerk, Handle(c) PROVE KVInv'
    <2>1. Stage(c) = "executing" /\ (Clear(c) \/ Get(c) \/ Duplicate(c) \/ PutAppend(c))
      BY <1>2, Zenon DEF Handle
    <2> QED BY <2>1, ClearKeeps, GetKeeps, DuplicateKeeps, PutAppendKeeps, Zenon
  <1>3. ASSUME NEW c \in Clerk, ClerkStep(c) PROVE KVInv'
    BY <1>3, CallKeeps, RetryKeeps, LeaveOperationKeeps, LeaveClearKeeps, Zenon DEF ClerkStep
  <1> QED BY <1>1, <1>2, <1>3, StartKeeps, DeliverKeeps, LoseKeeps, Zenon DEF Next

\* The invariant of the service holds whatever the network loses and however often the clerks
\* retry.
THEOREM KVInvariant == Spec => []KVInv
  BY KVInvInit, KVInvNext, PTL DEF Spec

\* The server never caches more than one reply for each clerk, and none for an idle one
\* (server.go Put, Append and Clear).
THEOREM CacheStaysBounded == Spec => []CacheBounded
  <1>1. KVInv => CacheBounded BY Zenon DEF KVInv
  <1> QED BY <1>1, KVInvariant, PTL

(* The refinement                                                          *)

\* A step that touches none of the four variables of the store is a stutter of it.
Stutters == UNCHANGED <<data, op, effect, value>>

\* A handler's step is a moment at which the operation takes effect, or none.
LEMMA HandleRefines ==
  ASSUME KVInv, NEW c \in Clerk, Handle(c)
  PROVE  Store!TakeEffect(c) \/ Stutters
  <1>1. Stage(c) = "executing" BY Zenon DEF Handle
  <1>2. phase[c] # "idle" /\ calls[c].args = Request(c) BY <1>1, Executing, Zenon
  <1>3. op[c] # Nil BY <1>2, ClerkFacts, Zenon DEF CallMatches
  <1>4. CASE Clear(c) BY <1>4, Zenon DEF Clear, clerkVars, Stutters
  <1>5. CASE Duplicate(c) BY <1>5, Zenon DEF Duplicate, serverVars, clerkVars, Stutters
  <1>6. CASE Get(c)
    <2>1. phase[c] = "operation"
      <3>1. Request(c).method # "Clear" BY <1>2, <1>6, Zenon DEF Get
      <3> QED BY <1>2, <3>1, RequestTyped, SMTT(20) DEF KVInv, TypeOK
    <2>2. op[c].type = "Get" /\ calls[c].args.key = op[c].key /\ op[c].key \in Key
      BY <1>2, <1>6, <2>1, RequestTyped, Zenon DEF Get
    <2>3. effect' = [effect EXCEPT ![c] = data[op[c].key]] /\ UNCHANGED <<data, op, value>>
      BY <1>6, <2>2, Zenon DEF Get, serverVars, clerkVars
    <2>4. Store!NewValue(op[c], data[op[c].key]) = data[op[c].key]
      BY <2>2, SMTT(20) DEF Store!NewValue
    <2>5. data' = [data EXCEPT ![op[c].key] = Store!NewValue(op[c], data[op[c].key])]
      BY <2>2, <2>3, <2>4, SMTT(20) DEF KVInv, TypeOK
    <2> QED BY <1>3, <2>2, <2>3, <2>5, Zenon DEF Store!TakeEffect
  <1>7. CASE PutAppend(c)
    <2>1. calls[c].args.method \in {"Put", "Append"} BY <1>7, Zenon DEF PutAppend
    <2>2. /\ phase[c] = "operation" /\ op[c].type # "Get" /\ calls[c].args.OpReg = Reg(c)
          /\ calls[c].args.method = op[c].type /\ calls[c].args.key = op[c].key
          /\ calls[c].args.value = op[c].value
      BY <1>1, <2>1, UpdateRuns, Zenon
    <2>3. effect[c] = Nil
      <3>1. ~Cached(Reg(c)) BY <1>7, <2>2, Zenon DEF PutAppend
      <3> QED BY <2>2, <3>1, ClerkFacts, Zenon DEF EffectKept
    <2>4. /\ effect' = [effect EXCEPT ![c] = data[op[c].key]] /\ UNCHANGED <<op, value>>
          /\ data' = [data EXCEPT ![op[c].key] = Stored(calls[c].args)]
      BY <1>7, <2>2, Zenon DEF PutAppend, clerkVars
    <2>5. Stored(calls[c].args) = Store!NewValue(op[c], data[op[c].key])
      BY <2>1, <2>2, SMTT(20) DEF Stored, Store!NewValue
    <2> QED BY <1>3, <2>3, <2>4, <2>5, Zenon DEF Store!TakeEffect
  <1> QED BY <1>4, <1>5, <1>6, <1>7, Zenon DEF Handle

\* The operation returns what it found when it took effect.
LEMMA LeaveRefines ==
  ASSUME KVInv, NEW c \in Clerk, LeaveOperation(c) \/ LeaveClear(c)
  PROVE  Store!Respond(c) \/ Stutters
  <1>1. CASE LeaveOperation(c) /\ op[c].type # "Get"
    BY <1>1, Zenon DEF LeaveOperation, serverVars, Stutters
  <1>2. CASE LeaveOperation(c) /\ op[c].type = "Get"
    <2>1. phase[c] = "operation" /\ Stage(c) = "returned" /\ calls[c].ok
      BY <1>2, Zenon DEF LeaveOperation
    <2>2. /\ Decode(reply[c], calls[c].reply, <<>>) = effect[c] /\ effect[c] \in Strings
      BY <2>1, Decoded, Zenon
    <2>3. effect[c] # Nil BY <2>2, NilAssumption DEF Strings
    <2>4. op[c] # Nil BY <2>1, ClerkFacts, Zenon DEF CallMatches
    <2>5. /\ op' = [op EXCEPT ![c] = Nil] /\ value' = [value EXCEPT ![c] = effect[c]]
          /\ effect' = [effect EXCEPT ![c] = Nil] /\ data' = data
      BY <1>2, <2>2, Zenon DEF LeaveOperation, Finish, serverVars
    <2> QED BY <2>3, <2>4, <2>5, Zenon DEF Store!Respond
  <1>3. CASE LeaveClear(c)
    <2>1. phase[c] = "clear" BY <1>3, Zenon DEF LeaveClear
    <2>2. effect[c] = reply[c] BY <2>1, ClerkFacts, Zenon DEF EffectKept
    <2>3. reply[c] \in Strings BY Zenon DEF KVInv, TypeOK
    <2>4. effect[c] # Nil BY <2>2, <2>3, NilAssumption DEF Strings
    <2>5. op[c] # Nil BY <2>1, ClerkFacts, Zenon DEF CallMatches
    <2>6. /\ op' = [op EXCEPT ![c] = Nil] /\ value' = [value EXCEPT ![c] = effect[c]]
          /\ effect' = [effect EXCEPT ![c] = Nil] /\ data' = data
      BY <1>3, <2>2, Zenon DEF LeaveClear, Finish, serverVars
    <2> QED BY <2>4, <2>5, <2>6, Zenon DEF Store!Respond
  <1> QED BY <1>1, <1>2, <1>3, Zenon

\* Every step of the service is a step of the store or a stutter.
LEMMA StepRefines == KVInv /\ [Next]_vars => [Store!StoreNext]_(Store!storeVars)
  <1> SUFFICES ASSUME KVInv, [Next]_vars
               PROVE  Store!StoreNext \/ Stutters
    BY Zenon DEF Store!storeVars, Stutters
  <1>1. CASE UNCHANGED vars BY <1>1, Zenon DEF vars, serverVars, clerkVars, Stutters
  <1>2. ASSUME NEW c \in Clerk, NEW o \in Operation, Start(c, o) PROVE Store!StoreNext
    <2>1. op[c] = Nil BY <1>2, ClerkFacts, Zenon DEF Start, CallMatches
    <2>2. op' = [op EXCEPT ![c] = o] /\ UNCHANGED <<data, effect, value>>
      BY <1>2, Zenon DEF Start, serverVars
    <2>3. Store!Invoke(c, o) BY <2>1, <2>2, Zenon DEF Store!Invoke
    <2>4. o \in Store!Operation BY Zenon DEF Operation, Store!Operation
    <2> QED BY <2>3, <2>4, Zenon DEF Store!StoreNext
  <1>3. ASSUME NEW c \in Clerk, ClerkStep(c) PROVE Store!StoreNext \/ Stutters
    <2>1. CASE Call(c) \/ Retry(c)
      BY <2>1, Zenon DEF Call, Retry, serverVars, clerkVars, Stutters
    <2>2. CASE LeaveOperation(c) \/ LeaveClear(c)
      BY <2>2, LeaveRefines, Zenon DEF Store!StoreNext
    <2> QED BY <1>3, <2>1, <2>2, Zenon DEF ClerkStep
  <1>4. ASSUME NEW c \in Clerk, Deliver(c) \/ Lose(c) PROVE Stutters
    BY <1>4, Zenon DEF Deliver, Lose, serverVars, clerkVars, Stutters
  <1>5. ASSUME NEW c \in Clerk, Handle(c) PROVE Store!StoreNext \/ Stutters
    BY <1>5, HandleRefines, Zenon DEF Store!StoreNext
  <1> QED BY <1>1, <1>2, <1>3, <1>4, <1>5, Zenon DEF Next

\* kvsrv is linearizable and executes every operation once: it implements the store, for any
\* number of clerks, keys and values and whatever the network loses (server.go, client.go).
THEOREM ServiceRefinesStore == Spec => Linearizable
  <1>1. Init => Store!StoreInit BY Zenon DEF Init, Store!StoreInit
  <1> QED BY <1>1, StepRefines, KVInvariant, PTL DEF Spec, Linearizable, Store!StoreSpec

=============================================================================
