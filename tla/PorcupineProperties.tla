------------------------- MODULE PorcupineProperties -------------------------
(***************************************************************************)
(* What linearizability means, and what the checker promises about it.     *)
(***************************************************************************)
EXTENDS Porcupine

\* Operation a of h has returned before operation b is called.
Before(h, a, b) == h[a].Return < h[b].Call

\* s lists operations of h in an order in which they could have taken effect, one after the other:
\* none is listed before one that returned before its call, and each is legal for its key.
IsLinearization(h, s) ==
  LET Valid[k \in 0..Len(s)] ==
        IF k = 0 THEN [key \in {h[i].Key : i \in DOMAIN h} |-> KvInit]
        ELSE [Valid[k - 1] EXCEPT ![h[s[k]].Key] = NewState(@, h[s[k]])]
  IN \A k \in DOMAIN s :
       /\ \A i \in DOMAIN h : Before(h, i, s[k]) => \E j \in 1..(k - 1) : s[j] = i
       /\ Legal(Valid[k - 1][h[s[k]].Key], h[s[k]])

Arrangements(h, m) == {s \in [1..m -> DOMAIN h] : \A i, j \in 1..m : s[i] = s[j] => i = j}

\* The whole history, all keys together, is linearizable.
Linearizable(h) == \E s \in Arrangements(h, Len(h)) : IsLinearization(h, s)

\* The verdict is right: Ok only for a linearizable history and Illegal only for one that is not,
\* although each key is checked alone, goroutines are killed when the verdict is known or time is
\* up, and a place where the search has been is not searched again (model.go:28,
\* porcupine.go:11, checkSingle, checkParallel).
VerdictRight == /\ result = "Ok" => Linearizable(history)
                /\ result = "Illegal" => ~Linearizable(history)
                /\ result = "Unknown" => timeout

LongestOf(h, i) == {s \in UNION {Arrangements(h, m) : m \in 0..Len(h)} : i \in Range(s) /\ IsLinearization(h, s)}

\* "longest linearizable prefix that includes the given entry" (checker.go:185), for each operation
\* of a partition, when the search was not cut short by a timeout; and a legal prefix in any case.
PartialsLongest ==
  pc = "done" /\ computeInfo =>
    \A p \in DOMAIN parts :
      LET sub == Partition(history)[p] IN
      \A i \in DOMAIN sub :
        LET found == single[p].longest[i] IN
        /\ found # <<>> => found \in LongestOf(sub, i)
        /\ ~timedOut => \A s \in LongestOf(sub, i) : Len(s) <= Len(found)

\* The linked list holds the entries of the operations that are not linearized, in their order,
\* linked in both directions, whatever has been lifted and put back (lift, unlift).
ListIntact ==
  \A p \in DOMAIN parts :
    LET s == single[p]
        left == {k \in 1..Len(parts[p]) : parts[p][k].id \notin s.linearized}
        after(k) == {j \in left : j > k}
    IN \A k \in left \cup {0} :
         /\ after(k) = {} => s.list.next[k] = -1
         /\ after(k) # {} => LET j == s.list.next[k] IN
                             j \in after(k) /\ s.list.prev[j] = k /\ \A i \in after(k) : j <= i

\* checkOperations returns, unless it is called without a timeout and with no operation at all: it
\* waits for a first verdict then, which nobody sends (checker.go:294).
Terminates == <>(pc = "done" \/ (parts = <<>> /\ ~timeout))

=============================================================================
