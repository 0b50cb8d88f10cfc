------------------------------ MODULE Porcupine ------------------------------
(***************************************************************************)
(* The linearizability checker of src/porcupine/checker.go with the        *)
(* key/value model of src/models/kv.go, as the tests of the key/value      *)
(* services run it: checkParallel starts a goroutine with checkSingle for  *)
(* each key and collects their verdicts.                                   *)
(*                                                                         *)
(* A value is the sequence of the pieces put and appended.  A bitset is    *)
(* the set of its positions, the cache is the set of its entries: the hash *)
(* only chooses the bucket in which cacheContains compares.                *)
(* Nodes of the linked list are numbered in the order of the sorted        *)
(* entries; node 0 is headEntry, -1 is nil.                                *)
(***************************************************************************)
EXTENDS Integers, Sequences, FiniteSets, SequencesExt, TLC

CONSTANT History   \* the histories to check, each a sequence of operations

\* KvInput.Op
GET == 0
PUT == 1
APPEND == 2
APPENDRET == 3

Operation == [Op : {GET, PUT, APPEND, APPENDRET}, Key : Nat, Value : Seq(STRING), Call : Nat,
              Output : Seq(STRING), Return : Nat]

ASSUME HistoryAssumption == \A h \in History : /\ h \in Seq(Operation)
                                               /\ \A i \in DOMAIN h : h[i].Call <= h[i].Return

KeyCount == Cardinality(UNION {{h[i].Key : i \in DOMAIN h} : h \in History})

VARIABLES history, computeInfo, timeout,  \* what checkOperations is called with
          parts,                          \* the entries of each partition
          single,                         \* the local variables of the checkSingle goroutines
          kill, results,                  \* what they share with checkParallel
          pc, count, ok, timedOut, result \* checkParallel

inputVars == <<history, computeInfo, timeout, parts>>
mainVars == <<pc, count, ok, timedOut, result>>
vars == <<inputVars, single, kill, results, mainVars>>

-----------------------------------------------------------------------------
(* The key/value model                                                     *)

\* KvModel.Partition: the operations of each key that occurs, in the order of the keys.
Partition(h) ==
  LET keys == {h[i].Key : i \in DOMAIN h}
      sorted == SortSeq(SetToSeq(keys), LAMBDA a, b : a < b)
  IN [p \in 1..Len(sorted) |-> SelectSeq(h, LAMBDA o : o.Key = sorted[p])]

KvInit == <<>>

\* KvModel.Step: may an operation with this input and output be executed in state st?
Legal(st, o) == o.Op \in {GET, APPENDRET} => o.Output = st
NewState(st, o) == CASE o.Op = GET -> st
                     [] o.Op = PUT -> o.Value
                     [] o.Op \in {APPEND, APPENDRET} -> st \o o.Value

-----------------------------------------------------------------------------
(* Entries and the linked list                                             *)

\* byTime.Less: a call comes before a return of the same time.
Less(a, b) == a.time < b.time \/ (a.time = b.time /\ ~a.ret /\ b.ret)

\* makeEntries: a call and a return for each operation, sorted; the sort may order entries that
\* Less does not tell apart in any way, here by a permutation of the operations.
makeEntries(sub, perm) ==
  SortSeq([k \in 1..2 * Len(sub) |->
             LET i == (k + 1) \div 2 IN
             [id |-> i, ret |-> k % 2 = 0, op |-> sub[i],
              time |-> IF k % 2 = 1 THEN sub[i].Call ELSE sub[i].Return]],
          LAMBDA a, b : Less(a, b) \/ (~Less(b, a) /\ perm[a.id] < perm[b.id]))

Perms(m) == {f \in [1..m -> 1..m] : \A i, j \in 1..m : f[i] = f[j] => i = j}

\* node.match: the return of a call, -1 for a return.
match(entries, e) == IF entries[e].ret THEN -1
                     ELSE CHOOSE k \in 1..Len(entries) : entries[k].ret /\ entries[k].id = entries[e].id

\* makeLinkedEntries, with headEntry inserted before it.
makeLinkedEntries(entries) ==
  LET last == Len(entries) IN
  [next |-> [k \in 0..last |-> IF k = last THEN -1 ELSE k + 1],
   prev |-> [k \in 0..last |-> k - 1]]

Unlink(l, e) == [next |-> [l.next EXCEPT ![l.prev[e]] = l.next[e]],
                 prev |-> IF l.next[e] = -1 THEN l.prev ELSE [l.prev EXCEPT ![l.next[e]] = l.prev[e]]]
Relink(l, e) == [next |-> [l.next EXCEPT ![l.prev[e]] = e],
                 prev |-> IF l.next[e] = -1 THEN l.prev ELSE [l.prev EXCEPT ![l.next[e]] = e]]

lift(l, e, m) == Unlink(Unlink(l, e), m)

\* Mutant: the return is not put back.
unliftCall(l, e, m) == Relink(l, e)

unlift(l, e, m) == Relink(Relink(l, m), e)

-----------------------------------------------------------------------------
(* checkSingle                                                             *)

\* The state at the start of the loop.
StartSingle(entries) ==
  [list |-> makeLinkedEntries(entries), entry |-> IF entries = <<>> THEN -1 ELSE 1,
   state |-> KvInit, linearized |-> {}, cache |-> {}, calls |-> <<>>,
   longest |-> [i \in 1..(Len(entries) \div 2) |-> <<>>], running |-> TRUE]

Ids(entries, calls) == [k \in 1..Len(calls) |-> entries[calls[k].entry].id]

\* Mutant: states are not compared.
cacheContainsSet(cache, lin, st) == \E c \in cache : c.linearized = lin

cacheContains(cache, lin, st) == [linearized |-> lin, state |-> st] \in cache

\* Mutant: the first prefix that is found is kept.
LongerFirst(old, new) == IF old = <<>> THEN new ELSE old

\* A longer prefix replaces a shorter one; <<>> is nil.
Longer(old, new) == IF Len(new) > Len(old) THEN new ELSE old

\* One round of the loop at a call: it is linearized, or skipped when it is not legal here or
\* leads to a place where the search has been.
TryCall(s, entries) ==
  LET e == s.entry
      o == entries[e].op
      newState == NewState(s.state, o)
      newLinearized == s.linearized \cup {entries[e].id}
      list == lift(s.list, e, match(entries, e))
  IN IF Legal(s.state, o) /\ ~cacheContains(s.cache, newLinearized, newState)
     THEN [s EXCEPT !.cache = @ \cup {[linearized |-> newLinearized, state |-> newState]},
                    !.calls = Append(@, [entry |-> e, state |-> s.state]),
                    !.state = newState, !.linearized = newLinearized,
                    !.list = list, !.entry = list.next[0]]
     ELSE [s EXCEPT !.entry = s.list.next[e]]

\* One round at a return of an operation that is not linearized: the prefix is recorded and the
\* last call is taken back.
Backtrack(s, entries) ==
  LET top == s.calls[Len(s.calls)]
      seq == Ids(entries, s.calls)
      list == unlift(s.list, top.entry, match(entries, top.entry))
  IN [s EXCEPT !.longest = IF computeInfo
                           THEN [i \in DOMAIN @ |-> IF i \in s.linearized THEN Longer(@[i], seq)
                                                                          ELSE @[i]]
                           ELSE @,
               !.calls = Front(@), !.state = top.state,
               !.linearized = @ \ {entries[top.entry].id},
               !.list = list, !.entry = list.next[top.entry]]

\* checkSingle returns and its goroutine sends the verdict.
Return(p, verdict, longest) ==
  /\ single' = [single EXCEPT ![p].running = FALSE, ![p].longest = longest]
  /\ results' = Append(results, verdict)

Iterate(p) ==
  LET s == single[p]
      entries == parts[p] IN
  /\ s.running
  /\ \/ /\ s.list.next[0] = -1
        /\ Return(p, TRUE, [i \in DOMAIN s.longest |-> Ids(entries, s.calls)])
     \/ /\ s.list.next[0] # -1 /\ kill
        /\ Return(p, FALSE, s.longest)
     \/ /\ s.list.next[0] # -1 /\ ~kill
        /\ ~entries[s.entry].ret
        /\ single' = [single EXCEPT ![p] = TryCall(s, entries)]
        /\ UNCHANGED results
     \/ /\ s.list.next[0] # -1 /\ ~kill
        /\ entries[s.entry].ret
        /\ IF s.calls = <<>>
           THEN Return(p, FALSE, s.longest)
           ELSE single' = [single EXCEPT ![p] = Backtrack(s, entries)] /\ UNCHANGED results
  /\ UNCHANGED <<inputVars, kill, mainVars>>

-----------------------------------------------------------------------------
(* checkOperations and checkParallel                                       *)

Init ==
  /\ history \in History
  /\ computeInfo \in BOOLEAN
  /\ timeout \in BOOLEAN
  /\ LET subs == Partition(history) IN
     \E perm \in Perms(Len(history)) :
       parts = [p \in DOMAIN subs |-> makeEntries(subs[p], perm)]
  /\ single = [p \in DOMAIN parts |-> StartSingle(parts[p])]
  /\ kill = FALSE /\ results = <<>>
  /\ pc = "loop" /\ count = 0 /\ ok = TRUE /\ timedOut = FALSE
  /\ result = "none"

\* Mutant: one verdict too many is waited for.
ReceiveMore ==
  /\ pc = "loop" /\ results # <<>>
  /\ count' = count + 1
  /\ ok' = (ok /\ Head(results))
  /\ results' = Tail(results)
  /\ pc' = IF count' > Len(parts) THEN "drain" ELSE "loop"
  /\ UNCHANGED <<inputVars, single, kill, timedOut, result>>

\* A verdict is received in the select loop.
Receive ==
  /\ pc = "loop" /\ results # <<>>
  /\ count' = count + 1
  /\ ok' = (ok /\ Head(results))
  /\ results' = Tail(results)
  /\ IF ~ok' /\ ~computeInfo
     THEN kill' = TRUE /\ pc' = "drain"
     ELSE /\ pc' = IF count' >= Len(parts) THEN "drain" ELSE "loop"
          /\ UNCHANGED kill
  /\ UNCHANGED <<inputVars, single, timedOut, result>>

\* The timer fires first.
Timeout ==
  /\ pc = "loop" /\ timeout
  /\ timedOut' = TRUE
  /\ kill' = TRUE
  /\ pc' = "drain"
  /\ UNCHANGED <<inputVars, single, results, count, ok, result>>

\* Before the partial linearizations are read every goroutine has ended.
Drain ==
  /\ pc = "drain" /\ computeInfo /\ count < Len(parts)
  /\ results # <<>>
  /\ results' = Tail(results)
  /\ count' = count + 1
  /\ UNCHANGED <<inputVars, single, kill, pc, ok, timedOut, result>>

Finish ==
  /\ pc = "drain" /\ (computeInfo => count >= Len(parts))
  /\ pc' = "done"
  /\ result' = IF ~ok THEN "Illegal" ELSE IF timedOut THEN "Unknown" ELSE "Ok"
  /\ UNCHANGED <<inputVars, single, kill, results, count, ok, timedOut>>

Main == Receive \/ Drain \/ Finish

Next == Main \/ Timeout \/ \E p \in DOMAIN parts : Iterate(p)

Spec == Init /\ [][Next]_vars

\* The goroutines run and a timer, if there is one, fires in the end.
FairSpec == Spec /\ WF_vars(Main) /\ WF_vars(Timeout)
                 /\ \A p \in 1..KeyCount : WF_vars(p \in DOMAIN parts /\ Iterate(p))

=============================================================================
