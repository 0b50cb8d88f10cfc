------------------------------- MODULE KVStore -------------------------------
(***************************************************************************)
(* What the key/value service promises (labNotes/lab2.md:5): each operation *)
(* takes effect once, at one moment between its invocation and its return,  *)
(* and returns the value that the key had at that moment.                   *)
(*                                                                         *)
(* A value is the sequence of the pieces that were put and appended; the    *)
(* empty sequence is the empty string.                                      *)
(***************************************************************************)
EXTENDS Sequences

CONSTANTS Clerk, Key, Piece, Nil

VARIABLES store,     \* the value of each key
          pending,   \* the operation each clerk is waiting for, or Nil
          result,    \* the result of the pending operation once it has taken effect, or Nil
          returned   \* the result of the last operation of each clerk that has returned

storeVars == <<store, pending, result, returned>>

Operation == [type : {"Get"}, key : Key, value : {Nil}]
             \cup [type : {"Put", "Append"}, key : Key, value : Piece]

NewValue(op, old) == CASE op.type = "Get" -> old
                       [] op.type = "Put" -> <<op.value>>
                       [] op.type = "Append" -> Append(old, op.value)

StoreInit ==
  /\ store = [k \in Key |-> <<>>]
  /\ pending = [c \in Clerk |-> Nil]
  /\ result = [c \in Clerk |-> Nil]
  /\ returned = [c \in Clerk |-> <<>>]

Invoke(c, op) ==
  /\ pending[c] = Nil
  /\ pending' = [pending EXCEPT ![c] = op]
  /\ UNCHANGED <<store, result, returned>>

\* The operation takes effect.  A Get has none, so it may be looked up again before it returns;
\* the moment that counts is the last one.
TakeEffect(c) ==
  LET op == pending[c] IN
  /\ op # Nil
  /\ op.type # "Get" => result[c] = Nil
  /\ result' = [result EXCEPT ![c] = store[op.key]]
  /\ store' = [store EXCEPT ![op.key] = NewValue(op, @)]
  /\ UNCHANGED <<pending, returned>>

Respond(c) ==
  /\ pending[c] # Nil
  /\ result[c] # Nil
  /\ returned' = [returned EXCEPT ![c] = result[c]]
  /\ pending' = [pending EXCEPT ![c] = Nil]
  /\ result' = [result EXCEPT ![c] = Nil]
  /\ UNCHANGED store

StoreNext == \E c \in Clerk : \/ \E op \in Operation : Invoke(c, op)
                              \/ TakeEffect(c)
                              \/ Respond(c)

StoreSpec == StoreInit /\ [][StoreNext]_storeVars

=============================================================================
