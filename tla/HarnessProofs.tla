--------------------------- MODULE HarnessProofs ---------------------------
(***************************************************************************)
(* The tester replaces servers without losing what they have acknowledged, *)
(* keeps replaced servers off the network, and partitions the servers as   *)
(* it is asked to: for any number of servers, any groups, clerks, calls,   *)
(* restarts and functions of the tester.                                   *)
(***************************************************************************)
EXTENDS HarnessSteps, NaturalsInduction, WellFoundedInduction, SequenceTheorems

\* Where a proof names no prover, Zenon finds it.
USE Zenon

-----------------------------------------------------------------------------
(* Sequences                                                               *)

\* A set of numbers that is not empty has a least one.
LEMMA Least ==
  ASSUME NEW T, T \subseteq Nat, T # {}
  PROVE  \E x \in T : \A y \in T : x <= y
  <1>1. IsWellFoundedOn(OpToRel(<, Nat), Nat) BY NatLessThanWellFounded
  <1>2. \E x \in T : \A y \in T : ~ (<<y, x>> \in OpToRel(<, Nat)) BY <1>1, WFMin
  <1>3. PICK x \in T : \A y \in T : ~ (<<y, x>> \in OpToRel(<, Nat)) BY <1>2
  <1>4. \A y \in T : ~(y < x) BY <1>3 DEF OpToRel
  <1>5. x \in Nat /\ \A y \in T : y \in Nat OBVIOUS
  <1>6. \A y \in T : x <= y BY <1>4, <1>5, SMT
  <1> QED BY <1>6

\* f[i] is the concatenation of the first i sequences of ss, for i up to m.
Joins(f, ss, m) == \A i \in 1..m : f[i] = IF i = 1 THEN ss[i] ELSE f[i - 1] \o ss[i]

\* There is such a function.
LEMMA JoinsExist ==
  ASSUME NEW S, NEW ss \in Seq(Seq(S)), NEW m \in 1..Len(ss)
  PROVE  \E f \in [1..m -> Seq(S)] : Joins(f, ss, m)
  <1> DEFINE L == Len(ss)
             No(k) == ~ \E f \in [1..k -> Seq(S)] : Joins(f, ss, k)
             T == {k \in 1..L : No(k)}
  <1> SUFFICES ASSUME T # {} PROVE FALSE OBVIOUS
  <1>0. L \in Nat /\ \A i \in 1..L : ss[i] \in Seq(S) BY LenProperties, ElementOfSeq
  <1>1. PICK k \in T : \A y \in T : k <= y
    <2>1. T \subseteq Nat BY SMT
    <2> HIDE DEF T
    <2> QED BY <2>1, Least
  <1>2. k \in 1..L /\ No(k) OBVIOUS
  <1> HIDE DEF T, No
  <1>3. CASE k = 1
    <2> DEFINE f == [i \in 1..1 |-> ss[1]]
    <2>1. f \in [1..1 -> Seq(S)] BY <1>0, <1>2, <1>3
    <2>2. Joins(f, ss, 1) BY SMT DEF Joins
    <2> QED BY <1>2, <1>3, <2>1, <2>2 DEF No
  <1>4. CASE k # 1
    <2>1. k - 1 \in 1..L /\ k - 1 \notin T
      <3>1. k - 1 \in 1..L BY <1>0, <1>2, <1>4, SMT
      <3>2. ~(k <= k - 1) BY <1>2, SMT
      <3> QED BY <1>1, <3>1, <3>2
    <2>2. PICK f \in [1..(k - 1) -> Seq(S)] : Joins(f, ss, k - 1) BY <2>1 DEF T, No
    <2> DEFINE g == [i \in 1..k |-> IF i = k THEN f[k - 1] \o ss[k] ELSE f[i]]
    <2>3. g \in [1..k -> Seq(S)]
      <3> SUFFICES ASSUME NEW i \in 1..k PROVE g[i] \in Seq(S) OBVIOUS
      <3>1. CASE i = k
        <4>1. f[k - 1] \in Seq(S) /\ ss[k] \in Seq(S) BY <1>0, <1>2, <1>4, <2>2, SMT
        <4>2. f[k - 1] \o ss[k] \in Seq(S) BY <4>1, ConcatProperties
        <4> QED BY <3>1, <4>2
      <3>2. CASE i # k BY <1>2, <2>2, <3>2, SMT
      <3> QED BY <3>1, <3>2
    <2>4. g[k] = f[k - 1] \o ss[k] /\ \A i \in 1..(k - 1) : g[i] = f[i]
      <3>1. k \in Nat /\ 1 <= k BY <1>0, <1>2, SMT
      <3>2. k \in 1..k /\ \A i \in 1..(k - 1) : i \in 1..k /\ i # k BY <3>1, SMT
      <3> QED BY <3>2
    <2> HIDE DEF g
    <2>5. Joins(g, ss, k)
      <3>1. ASSUME NEW i \in 1..(k - 1)
            PROVE  g[i] = IF i = 1 THEN ss[i] ELSE g[i - 1] \o ss[i]
        <4>1. i # 1 => i - 1 \in 1..(k - 1) BY <1>2, SMT
        <4> QED BY <2>2, <2>4, <3>1, <4>1 DEF Joins
      <3>2. k - 1 \in 1..(k - 1) BY <1>2, <1>4, SMT
      <3>3. \A i \in 1..k : i = k \/ i \in 1..(k - 1) BY <1>2, SMT
      <3> QED BY <1>4, <2>4, <3>1, <3>2, <3>3 DEF Joins
    <2> QED BY <1>2, <2>3, <2>5 DEF No
  <1> QED BY <1>3, <1>4

\* Joined concatenates all of them.
LEMMA JoinedJoins ==
  ASSUME NEW S, NEW ss \in Seq(Seq(S)), ss # <<>>
  PROVE  \E f \in [1..Len(ss) -> Seq(S)] : Joins(f, ss, Len(ss)) /\ Joined(ss) = f[Len(ss)]
  <1>0. Len(ss) \in Nat /\ Len(ss) # 0 BY EmptySeq
  <1> DEFINE Rec(f) == [i \in 1..Len(ss) |-> IF i = 1 THEN ss[i] ELSE f[i - 1] \o ss[i]]
             h == CHOOSE f : f = Rec(f)
  <1>1. \E f : f = Rec(f)
    <2>1. PICK f \in [1..Len(ss) -> Seq(S)] : Joins(f, ss, Len(ss)) BY <1>0, JoinsExist, SMT
    <2>2. f = Rec(f) BY <2>1 DEF Joins
    <2> QED BY <2>2
  <1>2. h = Rec(h) BY <1>1
  <1>3. Joined(ss) = h[Len(ss)] BY <1>0 DEF Joined
  <1> HIDE DEF h
  <1>4. \A i \in 1..Len(ss) : h[i] = IF i = 1 THEN ss[i] ELSE h[i - 1] \o ss[i] BY <1>2
  <1>5. DOMAIN h = 1..Len(ss) BY <1>2
  <1> DEFINE T == {i \in 1..Len(ss) : h[i] \notin Seq(S)}
  <1>6. T = {}
    <2> SUFFICES ASSUME T # {} PROVE FALSE OBVIOUS
    <2>1. PICK k \in T : \A y \in T : k <= y
      <3>1. T \subseteq Nat BY SMT
      <3> HIDE DEF T
      <3> QED BY <3>1, Least
    <2>2. k \in 1..Len(ss) /\ h[k] \notin Seq(S) /\ ss[k] \in Seq(S) BY ElementOfSeq
    <2>3. CASE k = 1 BY <1>4, <2>2, <2>3
    <2>4. CASE k # 1
      <3>1. k - 1 \in 1..Len(ss) /\ ~(k <= k - 1) BY <1>0, <2>2, <2>4, SMT
      <3>2. h[k - 1] \in Seq(S) BY <2>1, <3>1
      <3>3. h[k - 1] \o ss[k] \in Seq(S) BY <2>2, <3>2, ConcatProperties
      <3> QED BY <1>4, <2>2, <2>4, <3>3
    <2> QED BY <2>3, <2>4
  <1>7. h \in [1..Len(ss) -> Seq(S)]
    <2>1. h = [i \in 1..Len(ss) |-> h[i]] BY <1>2
    <2>2. \A i \in 1..Len(ss) : h[i] \in Seq(S) BY <1>6
    <2> QED BY <2>1, <2>2
  <1> QED BY <1>3, <1>4, <1>7 DEF Joins

\* Element p of t is element o[p] of sequence b[p] of ss, in the order of ss and without omissions,
\* for the first m sequences of ss.
Places(b, o, t, ss, m) ==
  /\ b \in [1..Len(t) -> 1..m] /\ o \in [1..Len(t) -> Nat]
  /\ \A p \in 1..Len(t) : o[p] \in 1..Len(ss[b[p]]) /\ t[p] = ss[b[p]][o[p]]
  /\ \A p, q \in 1..Len(t) : p < q => b[p] < b[q] \/ (b[p] = b[q] /\ o[p] < o[q])
  /\ \A k \in 1..m : \A j \in 1..Len(ss[k]) : \E p \in 1..Len(t) : b[p] = k /\ o[p] = j

\* One more sequence.
LEMMA PlaceNext ==
  ASSUME NEW S, NEW ss \in Seq(Seq(S)), NEW m \in 1..Len(ss), NEW t \in Seq(S), NEW b, NEW o,
         Places(b, o, t, ss, m - 1)
  PROVE  \E c, u : Places(c, u, t \o ss[m], ss, m)
  <1> DEFINE x == ss[m]
             tx == t \o x
             l == Len(t)
  <1>0. x \in Seq(S) /\ Len(x) \in Nat /\ l \in Nat /\ m \in Nat /\ m >= 1
    BY ElementOfSeq, LenProperties, SMT
  <1>1. tx \in Seq(S) /\ Len(tx) = l + Len(x)
        /\ \A i \in 1..(l + Len(x)) : tx[i] = IF i <= l THEN t[i] ELSE x[i - l]
    BY <1>0, ConcatProperties
  <1> DEFINE c == [p \in 1..(l + Len(x)) |-> IF p <= l THEN b[p] ELSE m]
             u == [p \in 1..(l + Len(x)) |-> IF p <= l THEN o[p] ELSE p - l]
  <1>2. /\ b \in [1..l -> 1..(m - 1)] /\ o \in [1..l -> Nat]
        /\ \A p \in 1..l : o[p] \in 1..Len(ss[b[p]]) /\ t[p] = ss[b[p]][o[p]]
        /\ \A p, q \in 1..l : p < q => b[p] < b[q] \/ (b[p] = b[q] /\ o[p] < o[q])
        /\ \A k \in 1..(m - 1) : \A j \in 1..Len(ss[k]) : \E p \in 1..l : b[p] = k /\ o[p] = j
    BY DEF Places
  <1>3. ASSUME NEW p \in 1..(l + Len(x))
        PROVE  /\ p <= l => /\ p \in 1..l /\ c[p] = b[p] /\ u[p] = o[p] /\ tx[p] = t[p]
                            /\ c[p] \in 1..(m - 1)
               /\ ~(p <= l) => /\ p - l \in 1..Len(x) /\ c[p] = m /\ u[p] = p - l
                               /\ tx[p] = x[p - l]
    <2>1. c[p] = (IF p <= l THEN b[p] ELSE m) /\ u[p] = (IF p <= l THEN o[p] ELSE p - l)
          /\ tx[p] = (IF p <= l THEN t[p] ELSE x[p - l])
      BY <1>1
    <2> HIDE DEF c, u, tx, l, x
    <2>2. (p <= l => p \in 1..l) /\ (~(p <= l) => p - l \in 1..Len(x)) BY <1>0, SMT
    <2>3. p <= l => b[p] \in 1..(m - 1) BY <1>2, <2>2
    <2> QED BY <2>1, <2>2, <2>3
  <1> HIDE DEF c, u, tx, l, x
  <1>4. c \in [1..(l + Len(x)) -> 1..m] /\ u \in [1..(l + Len(x)) -> Nat]
    <2>1. ASSUME NEW p \in 1..(l + Len(x)) PROVE c[p] \in 1..m /\ u[p] \in Nat
      <3>1. CASE p <= l
        <4>1. c[p] \in 1..(m - 1) /\ u[p] = o[p] /\ o[p] \in Nat BY <1>2, <1>3, <3>1
        <4> QED BY <1>0, <4>1, SMT
      <3>2. CASE ~(p <= l)
        <4>1. c[p] = m /\ u[p] = p - l /\ p - l \in 1..Len(x) BY <1>3, <3>2
        <4> QED BY <1>0, <4>1, SMT
      <3> QED BY <3>1, <3>2
    <2>2. /\ c = [p \in 1..(l + Len(x)) |-> c[p]]
          /\ u = [p \in 1..(l + Len(x)) |-> u[p]]
      BY DEF c, u
    <2> QED BY <2>1, <2>2
  <1>5. \A p \in 1..(l + Len(x)) : u[p] \in 1..Len(ss[c[p]]) /\ tx[p] = ss[c[p]][u[p]]
    BY <1>2, <1>3, ZenonT(60) DEF x
  <1>6. ASSUME NEW p \in 1..(l + Len(x)), NEW q \in 1..(l + Len(x)), p < q
        PROVE  c[p] < c[q] \/ (c[p] = c[q] /\ u[p] < u[q])
    <2>1. CASE q <= l
      <3>1. p <= l BY <1>0, <1>6, <2>1, SMT
      <3> QED BY <1>2, <1>3, <1>6, <2>1, <3>1, SMT
    <2>2. CASE ~(q <= l) /\ p <= l
      <3>1. c[q] = m /\ c[p] \in 1..(m - 1) BY <1>3, <2>2
      <3> QED BY <1>0, <3>1, SMT
    <2>3. CASE ~(q <= l) /\ ~(p <= l)
      <3>1. c[q] = m /\ c[p] = m /\ u[p] = p - l /\ u[q] = q - l BY <1>3, <2>3
      <3> QED BY <1>0, <1>6, <3>1, SMT
    <2> QED BY <2>1, <2>2, <2>3
  <1>7. ASSUME NEW k \in 1..m, NEW j \in 1..Len(ss[k])
        PROVE  \E p \in 1..(l + Len(x)) : c[p] = k /\ u[p] = j
    <2>1. CASE k = m
      <3>1. l + j \in 1..(l + Len(x)) /\ ~(l + j <= l) /\ (l + j) - l = j
        BY <1>0, <1>7, <2>1, SMT DEF x
      <3>2. c[l + j] = m /\ u[l + j] = j BY <1>3, <3>1
      <3> QED BY <2>1, <3>1, <3>2
    <2>2. CASE k # m
      <3>1. k \in 1..(m - 1) BY <1>0, <2>2, SMT
      <3>2. PICK p \in 1..l : b[p] = k /\ o[p] = j BY <1>2, <3>1, ZenonT(60)
      <3>3. p \in 1..(l + Len(x)) /\ p <= l BY <1>0, SMT
      <3> QED BY <1>3, <3>2, <3>3
    <2> QED BY <2>1, <2>2
  <1>8. Places(c, u, tx, ss, m)
    <2>1. Len(tx) = l + Len(x) BY <1>1 DEF tx, x, l
    <2> QED BY <1>4, <1>5, <1>6, <1>7, <2>1, SMT DEF Places
  <1> QED BY <1>8 DEF tx, x

\* Where the elements of Joined(ss) come from.
LEMMA JoinedPlaces ==
  ASSUME NEW S, NEW ss \in Seq(Seq(S))
  PROVE  /\ Joined(ss) \in Seq(S)
         /\ \E b, o : Places(b, o, Joined(ss), ss, Len(ss))
  <1>1. CASE ss = <<>>
    <2>1. Joined(ss) = <<>> /\ Len(ss) = 0 BY <1>1 DEF Joined
    <2>2. Places(<<>>, <<>>, <<>>, ss, 0) BY SMT DEF Places
    <2> QED BY <2>1, <2>2, SMT
  <1>2. CASE ss # <<>>
    <2>0. Len(ss) \in Nat /\ Len(ss) # 0 BY <1>2, EmptySeq
    <2>1. PICK f \in [1..Len(ss) -> Seq(S)] :
            Joins(f, ss, Len(ss)) /\ Joined(ss) = f[Len(ss)]
      BY <1>2, JoinedJoins
    <2> DEFINE No(k) == ~ \E b, o : Places(b, o, f[k], ss, k)
               T == {k \in 1..Len(ss) : No(k)}
    <2>2. T = {}
      <3> SUFFICES ASSUME T # {} PROVE FALSE OBVIOUS
      <3>1. PICK k \in T : \A y \in T : k <= y
        <4>1. T \subseteq Nat BY SMT
        <4> HIDE DEF T
        <4> QED BY <4>1, Least
      <3>2. k \in 1..Len(ss) /\ No(k) /\ f[k] = IF k = 1 THEN ss[k] ELSE f[k - 1] \o ss[k]
        BY <2>1 DEF Joins
      <3>3. CASE k = 1
        <4>1. <<>> \in Seq(S) /\ Places(<<>>, <<>>, <<>>, ss, k - 1) BY <3>3, SMT DEF Places
        <4>2. \E b, o : Places(b, o, <<>> \o ss[k], ss, k) BY <3>2, <4>1, PlaceNext
        <4>3. ss[k] \in Seq(S) BY <3>2, ElementOfSeq
        <4>4. <<>> \o ss[k] = ss[k] BY <4>3, ConcatEmptySeq
        <4> QED BY <3>2, <3>3, <4>2, <4>4
      <3>4. CASE k # 1
        <4>1. k - 1 \in 1..Len(ss) /\ ~(k <= k - 1) BY <2>0, <3>2, <3>4, SMT
        <4>2. k - 1 \notin T BY <3>1, <4>1
        <4>3. PICK b, o : Places(b, o, f[k - 1], ss, k - 1) BY <4>1, <4>2
        <4>4. f[k - 1] \in Seq(S) BY <2>1, <4>1
        <4>5. \E c, u : Places(c, u, f[k - 1] \o ss[k], ss, k) BY <3>2, <4>3, <4>4, PlaceNext
        <4> QED BY <3>2, <3>4, <4>5
      <3> QED BY <3>3, <3>4
    <2>3. \E b, o : Places(b, o, f[Len(ss)], ss, Len(ss)) BY <2>0, <2>2, SMT
    <2>4. f[Len(ss)] \in Seq(S)
      <3>1. Len(ss) \in 1..Len(ss) BY <2>0, SMT
      <3> QED BY <2>1, <3>1
    <2> QED BY <2>1, <2>3, <2>4
  <1> QED BY <1>1, <1>2

\* The first element and the others.
LEMMA TailParts ==
  ASSUME NEW S, NEW s \in Seq(S), s # <<>>
  PROVE  /\ Head(s) \in S /\ Tail(s) \in Seq(S)
         /\ Range(s) = {Head(s)} \cup Range(Tail(s))
         /\ \A x, y : Before(s, x, y) <=> \/ Before(Tail(s), x, y)
                                          \/ x = Head(s) /\ y \in Range(Tail(s))
  <1> DEFINE t == Tail(s)
  <1>1. /\ Head(s) \in S /\ t \in Seq(S) /\ Len(t) = Len(s) - 1 /\ Head(s) = s[1]
        /\ \A i \in 1..Len(t) : t[i] = s[i + 1]
    BY HeadTailProperties, SMT
  <1>2. DOMAIN s = 1..Len(s) /\ DOMAIN t = 1..Len(t) /\ Len(s) \in Nat /\ Len(t) \in Nat
    BY <1>1, LenProperties
  <1> HIDE DEF t
  <1>3. \A p \in DOMAIN s : p = 1 \/ (p - 1 \in DOMAIN t /\ s[p] = t[p - 1])
    <2> TAKE p \in DOMAIN s
    <2>1. p # 1 => p - 1 \in 1..Len(t) /\ (p - 1) + 1 = p BY <1>1, <1>2, SMT
    <2> QED BY <1>1, <1>2, <2>1
  <1>4. 1 \in DOMAIN s /\ \A p \in DOMAIN t : p + 1 \in DOMAIN s /\ t[p] = s[p + 1]
    BY <1>1, <1>2, SMT
  <1>5. Range(s) = {Head(s)} \cup Range(t)
    <2>1. \A x \in Range(s) : x = Head(s) \/ x \in Range(t) BY <1>1, <1>3, SMT DEF Range
    <2>2. Head(s) \in Range(s) /\ \A x \in Range(t) : x \in Range(s) BY <1>1, <1>4, SMT DEF Range
    <2> QED BY <2>1, <2>2
  <1>6. ASSUME NEW x, NEW y
        PROVE  Before(s, x, y) <=> (Before(t, x, y) \/ (x = Head(s) /\ y \in Range(t)))
    <2>1. ASSUME Before(s, x, y) PROVE Before(t, x, y) \/ (x = Head(s) /\ y \in Range(t))
      <3>1. PICK p \in DOMAIN s, q \in DOMAIN s : p < q /\ s[p] = x /\ s[q] = y
        BY <2>1 DEF Before
      <3>2. q # 1 BY <1>2, <3>1, SMT
      <3>3. q - 1 \in DOMAIN t /\ t[q - 1] = y BY <1>3, <3>1, <3>2
      <3>4. CASE p = 1 BY <1>1, <3>1, <3>3, <3>4 DEF Range
      <3>5. CASE p # 1
        <4>1. p - 1 \in DOMAIN t /\ t[p - 1] = x /\ p - 1 < q - 1 BY <1>2, <1>3, <3>1, <3>5, SMT
        <4> QED BY <3>3, <4>1 DEF Before
      <3> QED BY <3>4, <3>5
    <2>2. ASSUME Before(t, x, y) PROVE Before(s, x, y)
      <3>1. PICK p \in DOMAIN t, q \in DOMAIN t : p < q /\ t[p] = x /\ t[q] = y
        BY <2>2 DEF Before
      <3>2. p + 1 < q + 1 BY <1>2, <3>1, SMT
      <3> QED BY <1>4, <3>1, <3>2 DEF Before
    <2>3. ASSUME x = Head(s), y \in Range(t) PROVE Before(s, x, y)
      <3>1. PICK q \in DOMAIN t : t[q] = y BY <2>3 DEF Range
      <3>2. 1 < q + 1 BY <1>2, SMT
      <3> QED BY <1>1, <1>4, <2>3, <3>1, <3>2 DEF Before
    <2> QED BY <2>1, <2>2, <2>3
  <1> QED BY <1>1, <1>5, <1>6 DEF t

\* Two parts.
LEMMA ConcatParts ==
  ASSUME NEW S, NEW s \in Seq(S), NEW t \in Seq(S)
  PROVE  /\ s \o t \in Seq(S)
         /\ Range(s \o t) = Range(s) \cup Range(t)
         /\ \A x, y : Before(s \o t, x, y) <=> \/ Before(s, x, y) \/ Before(t, x, y)
                                               \/ x \in Range(s) /\ y \in Range(t)
  <1> DEFINE u == s \o t
             l == Len(s)
  <1>1. /\ u \in Seq(S) /\ Len(u) = l + Len(t) /\ Range(u) = Range(s) \cup Range(t)
        /\ \A i \in 1..(l + Len(t)) : u[i] = IF i <= l THEN s[i] ELSE t[i - l]
    BY ConcatProperties, RangeConcatenation, SMT
  <1>2. /\ DOMAIN s = 1..l /\ DOMAIN t = 1..Len(t) /\ DOMAIN u = 1..(l + Len(t))
        /\ l \in Nat /\ Len(t) \in Nat
    BY <1>1, LenProperties
  <1> HIDE DEF u, l
  <1>3. \A p \in DOMAIN u : /\ p <= l => p \in DOMAIN s /\ u[p] = s[p]
                            /\ ~(p <= l) => p - l \in DOMAIN t /\ u[p] = t[p - l]
    <2> TAKE p \in DOMAIN u
    <2>1. (p <= l => p \in 1..l) /\ (~(p <= l) => p - l \in 1..Len(t)) BY <1>2, SMT
    <2> QED BY <1>1, <1>2, <2>1
  <1>4. /\ \A p \in DOMAIN s : p \in DOMAIN u /\ u[p] = s[p]
        /\ \A p \in DOMAIN t : l + p \in DOMAIN u /\ u[l + p] = t[p]
    <2>1. \A p \in DOMAIN s : p \in DOMAIN u /\ p <= l BY <1>2, SMT
    <2>2. \A p \in DOMAIN t : l + p \in DOMAIN u /\ ~(l + p <= l) /\ (l + p) - l = p BY <1>2, SMT
    <2> QED BY <1>3, <2>1, <2>2
  <1>5. ASSUME NEW x, NEW y
        PROVE  Before(u, x, y) <=> \/ Before(s, x, y) \/ Before(t, x, y)
                                   \/ x \in Range(s) /\ y \in Range(t)
    <2>1. ASSUME Before(u, x, y)
          PROVE  Before(s, x, y) \/ Before(t, x, y) \/ (x \in Range(s) /\ y \in Range(t))
      <3>1. PICK p \in DOMAIN u, q \in DOMAIN u : p < q /\ u[p] = x /\ u[q] = y
        BY <2>1 DEF Before
      <3>2. CASE q <= l
        <4>1. p <= l BY <1>2, <3>1, <3>2, SMT
        <4> QED BY <1>3, <3>1, <3>2, <4>1 DEF Before
      <3>3. CASE ~(q <= l) /\ p <= l BY <1>3, <3>1, <3>3 DEF Range
      <3>4. CASE ~(q <= l) /\ ~(p <= l)
        <4>1. p - l < q - l BY <1>2, <3>1, SMT
        <4> QED BY <1>3, <3>1, <3>4, <4>1 DEF Before
      <3> QED BY <3>2, <3>3, <3>4
    <2>2. ASSUME Before(s, x, y) PROVE Before(u, x, y)
      <3>1. PICK p \in DOMAIN s, q \in DOMAIN s : p < q /\ s[p] = x /\ s[q] = y
        BY <2>2 DEF Before
      <3> QED BY <1>4, <3>1 DEF Before
    <2>3. ASSUME Before(t, x, y) PROVE Before(u, x, y)
      <3>1. PICK p \in DOMAIN t, q \in DOMAIN t : p < q /\ t[p] = x /\ t[q] = y
        BY <2>3 DEF Before
      <3>2. l + p < l + q BY <1>2, <3>1, SMT
      <3> QED BY <1>4, <3>1, <3>2 DEF Before
    <2>4. ASSUME x \in Range(s), y \in Range(t) PROVE Before(u, x, y)
      <3>1. PICK p \in DOMAIN s, q \in DOMAIN t : s[p] = x /\ t[q] = y BY <2>4 DEF Range
      <3>2. p < l + q BY <1>2, SMT
      <3> QED BY <1>4, <3>1, <3>2 DEF Before
    <2> QED BY <2>1, <2>2, <2>3, <2>4
  <1> QED BY <1>1, <1>5 DEF u

\* Many parts.
LEMMA JoinedParts ==
  ASSUME NEW S, NEW ss \in Seq(Seq(S))
  PROVE  /\ Joined(ss) \in Seq(S)
         /\ Range(Joined(ss)) = UNION {Range(ss[k]) : k \in 1..Len(ss)}
         /\ \A x, y : Before(Joined(ss), x, y) =>
              \/ \E k \in 1..Len(ss) : Before(ss[k], x, y)
              \/ \E k, l \in 1..Len(ss) : k < l /\ x \in Range(ss[k]) /\ y \in Range(ss[l])
         /\ \A k, l \in 1..Len(ss) : \A x \in Range(ss[k]), y \in Range(ss[l]) :
              k < l => Before(Joined(ss), x, y)
  <1> DEFINE t == Joined(ss)
             L == Len(ss)
  <1>1. t \in Seq(S) /\ \E b, o : Places(b, o, t, ss, L) BY JoinedPlaces
  <1>2. DOMAIN t = 1..Len(t) /\ L \in Nat BY <1>1, LenProperties
  <1>3. \A k \in 1..L : DOMAIN ss[k] = 1..Len(ss[k])
    <2> TAKE k \in 1..L
    <2>1. ss[k] \in Seq(S) BY ElementOfSeq
    <2> QED BY <2>1, LenProperties
  <1> HIDE DEF t, L
  <1>4. PICK b, o : Places(b, o, t, ss, L) BY <1>1
  <1>5. /\ b \in [1..Len(t) -> 1..L]
        /\ \A p \in 1..Len(t) : o[p] \in 1..Len(ss[b[p]]) /\ t[p] = ss[b[p]][o[p]]
        /\ \A p, q \in 1..Len(t) : p < q => b[p] < b[q] \/ (b[p] = b[q] /\ o[p] < o[q])
        /\ \A k \in 1..L : \A j \in 1..Len(ss[k]) : \E p \in 1..Len(t) : b[p] = k /\ o[p] = j
    BY <1>4 DEF Places
  <1>6. \A p \in DOMAIN t : b[p] \in 1..L /\ o[p] \in DOMAIN ss[b[p]] /\ t[p] = ss[b[p]][o[p]]
    BY <1>2, <1>3, <1>5, SMT
  <1>7. ASSUME NEW k \in 1..L, NEW x \in Range(ss[k])
        PROVE  \E p \in DOMAIN t : b[p] = k /\ t[p] = x
    <2>1. PICK j \in DOMAIN ss[k] : x = ss[k][j] BY DEF Range
    <2>2. j \in 1..Len(ss[k]) BY <1>3, <2>1
    <2>3. PICK p \in DOMAIN t : b[p] = k /\ o[p] = j
      <3>1. \A i \in 1..Len(ss[k]) : \E p \in 1..Len(t) : b[p] = k /\ o[p] = i BY <1>5
      <3> QED BY <1>2, <2>2, <3>1
    <2> QED BY <1>6, <2>1, <2>3
  <1>8. Range(t) = UNION {Range(ss[k]) : k \in 1..L}
    <2>1. ASSUME NEW x \in Range(t) PROVE \E k \in 1..L : x \in Range(ss[k])
      BY <1>6, SMT DEF Range
    <2>2. ASSUME NEW k \in 1..L, NEW x \in Range(ss[k]) PROVE x \in Range(t)
      <3>1. \E p \in DOMAIN t : t[p] = x BY <1>7
      <3> QED BY <3>1 DEF Range
    <2> QED BY <2>1, <2>2
  <1>9. ASSUME NEW x, NEW y, Before(t, x, y)
        PROVE  \/ \E k \in 1..L : Before(ss[k], x, y)
               \/ \E k, l \in 1..L : k < l /\ x \in Range(ss[k]) /\ y \in Range(ss[l])
    <2>1. PICK p \in DOMAIN t, q \in DOMAIN t : p < q /\ t[p] = x /\ t[q] = y BY <1>9 DEF Before
    <2>2. b[p] < b[q] \/ (b[p] = b[q] /\ o[p] < o[q]) BY <1>2, <1>5, <2>1
    <2>3. CASE b[p] < b[q] BY <1>6, <2>1, <2>3, SMT DEF Range
    <2>4. CASE b[p] = b[q] /\ o[p] < o[q] BY <1>6, <2>1, <2>4, SMT DEF Before
    <2> QED BY <2>2, <2>3, <2>4
  <1>10. ASSUME NEW k \in 1..L, NEW l \in 1..L, k < l,
                NEW x \in Range(ss[k]), NEW y \in Range(ss[l])
         PROVE  Before(t, x, y)
    <2>1. PICK p \in DOMAIN t : b[p] = k /\ t[p] = x BY <1>7
    <2>2. PICK q \in DOMAIN t : b[q] = l /\ t[q] = y BY <1>7
    <2>3. p \in Nat /\ q \in Nat /\ k \in Nat /\ l \in Nat BY <1>1, <1>2, LenProperties, SMT
    <2>4. ~(q < p)
      <3> SUFFICES ASSUME q < p PROVE FALSE OBVIOUS
      <3>1. b[q] < b[p] \/ b[q] = b[p] BY <1>2, <1>5
      <3> QED BY <1>10, <2>1, <2>2, <2>3, <3>1, SMT
    <2>5. p # q BY <1>10, <2>1, <2>2, <2>3, SMT
    <2> QED BY <2>1, <2>2, <2>3, <2>4, <2>5, SMT DEF Before
  <1> QED BY <1>1, <1>8, <1>9, <1>10 DEF t, L

-----------------------------------------------------------------------------
(* The operations of the tester                                            *)

\* Operations with proper arguments.
LEMMA OpsTyped ==
  /\ \A e \in Endname, yes \in BOOLEAN : EnableOp(e, yes) \in Op
  /\ \A name \in OpName, i \in Server : ServerOp(name, i) \in Op
  /\ \A e \in Endname : MakeEndOp(e) \in Op
  /\ \A yes \in BOOLEAN : ReliableOp(yes) \in Op
  <1>1. \A e \in Endname, yes \in BOOLEAN :
          EnableOp(e, yes) \in {EnableOp(f, on) : f \in Endname, on \in BOOLEAN}
    BY SMT
  <1>2. \A name \in OpName, i \in Server :
          ServerOp(name, i) \in {ServerOp(a, j) : a \in OpName, j \in Server}
    BY SMT
  <1> QED BY <1>1, <1>2, SMT DEF Op

\* Only an Enable is left out, and only if it finds the end as it wants it.
LEMMA ChangesMeans ==
  /\ \A e, yes : Changes(EnableOp(e, yes)) <=> enabled[e] # yes
  /\ \A i : \A name \in OpName : Changes(ServerOp(name, i))
  /\ \A e : Changes(MakeEndOp(e))
  BY DEF Changes, EnableOp, ServerOp, MakeEndOp, OpName

\* Begin leaves the order of the operations alone.
LEMMA KeptParts ==
  ASSUME NEW S, NEW ops \in Seq(S)
  PROVE  /\ Kept(ops) \in Seq(S)
         /\ Range(Kept(ops)) = {o \in Range(ops) : Changes(o)}
         /\ \A x, y : Before(Kept(ops), x, y) <=> Before(ops, x, y) /\ Changes(x) /\ Changes(y)
  <1> DEFINE L == Len(ops)
             Part(k) == IF Changes(ops[k]) THEN <<ops[k]>> ELSE <<>>
             ss == [k \in 1..L |-> Part(k)]
  <1>0. L \in Nat /\ DOMAIN ops = 1..L /\ \A k \in 1..L : ops[k] \in S
    BY LenProperties, ElementOfSeq
  <1>1. ss \in Seq(Seq(S)) /\ Len(ss) = L
    <2>1. \A k \in 1..L : Part(k) \in Seq(S) BY <1>0, SMT
    <2> HIDE DEF Part, L
    <2> QED BY <1>0, <2>1, SMT
  <1>2. \A k \in 1..L : /\ Range(ss[k]) = IF Changes(ops[k]) THEN {ops[k]} ELSE {}
                        /\ \A x, y : ~Before(ss[k], x, y)
    <2> TAKE k \in 1..L
    <2>1. ss[k] = Part(k) OBVIOUS
    <2>2. CASE Changes(ops[k])
      <3>1. ss[k] = <<ops[k]>> BY <2>1, <2>2
      <3> QED BY <2>2, <3>1, SMT DEF Range, Before
    <2>3. CASE ~Changes(ops[k])
      <3>1. ss[k] = <<>> BY <2>1, <2>3
      <3> QED BY <2>3, <3>1, SMT DEF Range, Before
    <2> QED BY <2>2, <2>3
  <1>3. Kept(ops) = Joined(ss) BY DEF Kept
  <1> HIDE DEF ss, L, Part
  <1>4. /\ Joined(ss) \in Seq(S)
        /\ Range(Joined(ss)) = UNION {Range(ss[k]) : k \in 1..L}
        /\ \A x, y : Before(Joined(ss), x, y) =>
              \/ \E k \in 1..L : Before(ss[k], x, y)
              \/ \E k, l \in 1..L : k < l /\ x \in Range(ss[k]) /\ y \in Range(ss[l])
        /\ \A k, l \in 1..L : \A x \in Range(ss[k]), y \in Range(ss[l]) :
              k < l => Before(Joined(ss), x, y)
    BY <1>1, JoinedParts
  <1>5. Range(Kept(ops)) = {o \in Range(ops) : Changes(o)}
    <2>1. ASSUME NEW o \in Range(Kept(ops)) PROVE o \in Range(ops) /\ Changes(o)
      <3>1. PICK k \in 1..L : o \in Range(ss[k]) BY <1>3, <1>4, SMT
      <3>2. o = ops[k] /\ Changes(o) BY <1>2, <3>1
      <3> QED BY <1>0, <3>2 DEF Range
    <2>2. ASSUME NEW o \in Range(ops), Changes(o) PROVE o \in Range(Kept(ops))
      <3>1. PICK k \in 1..L : ops[k] = o BY <1>0 DEF Range
      <3>2. o \in Range(ss[k]) BY <1>2, <2>2, <3>1
      <3> QED BY <1>3, <1>4, <3>2
    <2> QED BY <2>1, <2>2
  <1>6. ASSUME NEW x, NEW y, Before(Kept(ops), x, y)
        PROVE  Before(ops, x, y) /\ Changes(x) /\ Changes(y)
    <2>1. PICK k \in 1..L, l \in 1..L : k < l /\ x \in Range(ss[k]) /\ y \in Range(ss[l])
      <3>1. Before(Joined(ss), x, y) BY <1>3, <1>6
      <3>2. ~ \E k \in 1..L : Before(ss[k], x, y) BY <1>2
      <3> QED BY <1>4, <3>1, <3>2
    <2>2. x = ops[k] /\ Changes(x) /\ y = ops[l] /\ Changes(y) BY <1>2, <2>1
    <2> QED BY <1>0, <2>1, <2>2 DEF Before
  <1>7. ASSUME NEW x, NEW y, Before(ops, x, y), Changes(x), Changes(y)
        PROVE  Before(Kept(ops), x, y)
    <2>1. PICK k \in 1..L, l \in 1..L : k < l /\ ops[k] = x /\ ops[l] = y BY <1>0, <1>7 DEF Before
    <2>2. x \in Range(ss[k]) /\ y \in Range(ss[l]) BY <1>2, <1>7, <2>1
    <2> QED BY <1>3, <1>4, <2>1, <2>2
  <1> QED BY <1>3, <1>4, <1>5, <1>6, <1>7

\* All lists every server (config.go:All).
LEMMA AllListed == All \in Seq(Server) /\ Len(All) = n /\ Range(All) = Server
  <1>1. n \in Nat BY HarnessAssumption
  <1>2. \A k \in 1..n : k - 1 \in Server BY <1>1, SMT DEF Server
  <1>3. \A i \in Server : i + 1 \in 1..n /\ (i + 1) - 1 = i BY <1>1, SMT DEF Server
  <1>4. All \in [1..n -> Server] /\ \A k \in 1..n : All[k] = k - 1 BY <1>2 DEF All
  <1>5. Range(All) = Server BY <1>3, <1>4 DEF Range
  <1> QED BY <1>1, <1>4, <1>5, SMT

\* One operation for each server of a list.
LEMMA Listed ==
  ASSUME NEW to \in Seq(Server), NEW g \in [Server -> Op]
  PROVE  LET s == [k \in 1..Len(to) |-> g[to[k]]]
         IN  s \in Seq(Op) /\ Range(s) = {g[j] : j \in Range(to)}
  <1> DEFINE s == [k \in 1..Len(to) |-> g[to[k]]]
  <1>1. Len(to) \in Nat /\ DOMAIN to = 1..Len(to) /\ \A k \in 1..Len(to) : to[k] \in Server
    BY LenProperties, ElementOfSeq
  <1>2. s \in Seq(Op) BY <1>1, SMT
  <1>3. Range(s) = {g[j] : j \in Range(to)} BY <1>1 DEF Range
  <1> QED BY <1>2, <1>3

\* connectUnlocked enables the ends between a server and those of a list, both ways.
LEMMA ConnectParts ==
  ASSUME gen \in [Server -> 0..MaxGen], NEW i \in Server, NEW to \in Seq(Server)
  PROVE  /\ connectUnlocked(i, to) \in Seq(Op)
         /\ Range(connectUnlocked(i, to)) = {EnableOp(endname(i, j), TRUE) : j \in Range(to)}
                                            \cup {EnableOp(endname(j, i), TRUE) : j \in Range(to)}
  <1> DEFINE g == [j \in Server |-> EnableOp(endname(i, j), TRUE)]
             h == [j \in Server |-> EnableOp(endname(j, i), TRUE)]
             s == [k \in 1..Len(to) |-> g[to[k]]]
             t == [k \in 1..Len(to) |-> h[to[k]]]
  <1>0. (\A k \in 1..Len(to) : to[k] \in Server) /\ Range(to) \subseteq Server
    BY ElementOfSeq, RangeOfSeq
  <1>1. g \in [Server -> Op] /\ h \in [Server -> Op]
    <2>1. \A j \in Server : endname(i, j) \in Endname /\ endname(j, i) \in Endname BY Named
    <2> QED BY <2>1, OpsTyped
  <1>2. connectUnlocked(i, to) = s \o t BY <1>0 DEF connectUnlocked
  <1>3. /\ \A j \in Range(to) : g[j] = EnableOp(endname(i, j), TRUE)
        /\ \A j \in Range(to) : h[j] = EnableOp(endname(j, i), TRUE)
    BY <1>0
  <1> HIDE DEF g, h
  <1>4. s \in Seq(Op) /\ Range(s) = {g[j] : j \in Range(to)} BY <1>1, Listed
  <1>5. t \in Seq(Op) /\ Range(t) = {h[j] : j \in Range(to)} BY <1>1, Listed
  <1> HIDE DEF s, t
  <1>6. s \o t \in Seq(Op) /\ Range(s \o t) = Range(s) \cup Range(t) BY <1>4, <1>5, ConcatParts
  <1>7. /\ {g[j] : j \in Range(to)} = {EnableOp(endname(i, j), TRUE) : j \in Range(to)}
        /\ {h[j] : j \in Range(to)} = {EnableOp(endname(j, i), TRUE) : j \in Range(to)}
    BY <1>3
  <1> QED BY <1>2, <1>4, <1>5, <1>6, <1>7

\* disconnectUnlocked disables them.
LEMMA DisconnectParts ==
  ASSUME gen \in [Server -> 0..MaxGen], NEW i \in Server, NEW from \in Seq(Server)
  PROVE  /\ disconnectUnlocked(i, from) \in Seq(Op)
         /\ Range(disconnectUnlocked(i, from))
              = {EnableOp(endname(i, j), FALSE) : j \in Range(from)}
                \cup {EnableOp(endname(j, i), FALSE) : j \in Range(from)}
  <1> DEFINE g == [j \in Server |-> EnableOp(endname(i, j), FALSE)]
             h == [j \in Server |-> EnableOp(endname(j, i), FALSE)]
             s == [k \in 1..Len(from) |-> g[from[k]]]
             t == [k \in 1..Len(from) |-> h[from[k]]]
  <1>0. (\A k \in 1..Len(from) : from[k] \in Server) /\ Range(from) \subseteq Server
    BY ElementOfSeq, RangeOfSeq
  <1>1. g \in [Server -> Op] /\ h \in [Server -> Op]
    <2>1. \A j \in Server : endname(i, j) \in Endname /\ endname(j, i) \in Endname BY Named
    <2> QED BY <2>1, OpsTyped
  <1>2. disconnectUnlocked(i, from) = s \o t BY <1>0 DEF disconnectUnlocked
  <1>3. /\ \A j \in Range(from) : g[j] = EnableOp(endname(i, j), FALSE)
        /\ \A j \in Range(from) : h[j] = EnableOp(endname(j, i), FALSE)
    BY <1>0
  <1> HIDE DEF g, h
  <1>4. s \in Seq(Op) /\ Range(s) = {g[j] : j \in Range(from)} BY <1>1, Listed
  <1>5. t \in Seq(Op) /\ Range(t) = {h[j] : j \in Range(from)} BY <1>1, Listed
  <1> HIDE DEF s, t
  <1>6. s \o t \in Seq(Op) /\ Range(s \o t) = Range(s) \cup Range(t) BY <1>4, <1>5, ConcatParts
  <1>7. /\ {g[j] : j \in Range(from)} = {EnableOp(endname(i, j), FALSE) : j \in Range(from)}
        /\ {h[j] : j \in Range(from)} = {EnableOp(endname(j, i), FALSE) : j \in Range(from)}
    BY <1>3
  <1> QED BY <1>2, <1>4, <1>5, <1>6, <1>7

\* ConnectClientUnlocked enables ends of a clerk.
LEMMA ClientParts ==
  ASSUME NEW ck \in Clerk, NEW to \in Seq(Server)
  PROVE  /\ ConnectClientUnlocked(ck, to) \in Seq(Op)
         /\ Range(ConnectClientUnlocked(ck, to)) = {EnableOp(<<ck, j>>, TRUE) : j \in Range(to)}
  <1> DEFINE g == [j \in Server |-> EnableOp(<<ck, j>>, TRUE)]
             s == [k \in 1..Len(to) |-> g[to[k]]]
  <1>0. (\A k \in 1..Len(to) : to[k] \in Server) /\ Range(to) \subseteq Server
    BY ElementOfSeq, RangeOfSeq
  <1>1. g \in [Server -> Op]
    <2>1. \A j \in Server : <<ck, j>> \in Endname BY HarnessAssumption
    <2> QED BY <2>1, OpsTyped
  <1>2. ConnectClientUnlocked(ck, to) = s BY <1>0 DEF ConnectClientUnlocked
  <1>3. \A j \in Range(to) : g[j] = EnableOp(<<ck, j>>, TRUE) BY <1>0
  <1> HIDE DEF g
  <1>4. s \in Seq(Op) /\ Range(s) = {g[j] : j \in Range(to)} BY <1>1, Listed
  <1>5. {g[j] : j \in Range(to)} = {EnableOp(<<ck, j>>, TRUE) : j \in Range(to)} BY <1>3
  <1> QED BY <1>2, <1>4, <1>5

\* What comes before something, or after it, is there.
LEMMA BeforeInRange ==
  ASSUME NEW s, NEW x, NEW y, Before(s, x, y)
  PROVE  x \in Range(s) /\ y \in Range(s)
  BY DEF Before, Range

\* Three operations in a row.
LEMMA Triple ==
  ASSUME NEW x, NEW y, NEW z
  PROVE  /\ Range(<<x, y, z>>) = {x, y, z}
         /\ \A u, v : Before(<<x, y, z>>, u, v) <=> \/ u = x /\ v \in {y, z}
                                                    \/ u = y /\ v = z
  <1> DEFINE s == <<x, y, z>>
  <1>1. DOMAIN s = {1, 2, 3} /\ s[1] = x /\ s[2] = y /\ s[3] = z BY SMT
  <1> HIDE DEF s
  <1>2. Range(s) = {x, y, z} BY <1>1 DEF Range
  <1>3. 1 < 2 /\ 1 < 3 /\ 2 < 3 /\ ~(2 < 1) /\ ~(3 < 1) /\ ~(3 < 2) /\ \A k \in {1, 2, 3} : ~(k < k)
    BY SMT
  <1>4. \A u, v : Before(s, u, v) <=> (u = x /\ v \in {y, z}) \/ (u = y /\ v = z)
    BY <1>1, <1>3 DEF Before
  <1> QED BY <1>2, <1>4 DEF s

\* s performs no operation on a server.
Plain(s) == \A name \in OpName, i \in Server : ServerOp(name, i) \notin Range(s)

\* Operations on the tables of ends do not disturb the order of those on the servers.
LEMMA PlainOrdered ==
  ASSUME NEW s, Plain(s)
  PROVE  Ordered(s) /\ \A i \in Server : OpsOn(s, i) = {}
  BY BeforeInRange DEF Plain, Ordered, OpsOn

\* The same after a plain sequence.
LEMMA PlainThen ==
  ASSUME NEW s \in Seq(Op), NEW t \in Seq(Op), Plain(s), Ordered(t)
  PROVE  /\ Ordered(s \o t) /\ \A i \in Server : OpsOn(s \o t, i) = OpsOn(t, i)
         /\ Plain(t) => Plain(s \o t)
  <1>1. /\ Range(s \o t) = Range(s) \cup Range(t)
        /\ \A x, y : Before(s \o t, x, y) <=> \/ Before(s, x, y) \/ Before(t, x, y)
                                              \/ x \in Range(s) /\ y \in Range(t)
    BY ConcatParts
  <1>2. ASSUME NEW a \in OpName, NEW b \in OpName, NEW i \in Server,
               Before(s \o t, ServerOp(a, i), ServerOp(b, i))
        PROVE  Rank[a] < Rank[b]
    <2>1. ServerOp(a, i) \notin Range(s) BY DEF Plain
    <2>2. Before(t, ServerOp(a, i), ServerOp(b, i)) BY <1>1, <1>2, <2>1, BeforeInRange
    <2> QED BY <2>2 DEF Ordered
  <1>3. \A i \in Server : OpsOn(s \o t, i) = OpsOn(t, i) BY <1>1 DEF Plain, OpsOn
  <1>4. Plain(t) => Plain(s \o t) BY <1>1 DEF Plain
  <1>5. Ordered(s \o t) BY <1>2 DEF Ordered
  <1> QED BY <1>3, <1>4, <1>5

\* A sequence of Enable and MakeEnd operations is plain.
LEMMA EndOpsPlain ==
  ASSUME NEW s, \A o \in Range(s) : \/ \E e, yes : o = EnableOp(e, yes)
                                    \/ \E e : o = MakeEndOp(e)
  PROVE  Plain(s)
  BY OpsApart, SMT DEF Plain

\* ConnectAll enables all ends between servers.
LEMMA ConnectAllParts ==
  ASSUME gen \in [Server -> 0..MaxGen]
  PROVE  /\ connectAllOps \in Seq(Op)
         /\ \A o \in Range(connectAllOps) : \E i, j \in Server : o = EnableOp(endname(i, j), TRUE)
         /\ \A i, j \in Server : EnableOp(endname(i, j), TRUE) \in Range(connectAllOps)
         /\ Plain(connectAllOps)
  <1> DEFINE ss == [k \in 1..n |-> connectUnlocked(All[k], All)]
  <1>0. n \in Nat BY HarnessAssumption
  <1>1. All \in Seq(Server) /\ Range(All) = Server /\ Len(All) = n BY AllListed
  <1>2. \A k \in 1..n : All[k] \in Server BY <1>0, <1>1, SMT
  <1>3. \A k \in 1..n :
          /\ ss[k] \in Seq(Op)
          /\ Range(ss[k]) = {EnableOp(endname(All[k], j), TRUE) : j \in Server}
                            \cup {EnableOp(endname(j, All[k]), TRUE) : j \in Server}
    <2> TAKE k \in 1..n
    <2>1. ss[k] = connectUnlocked(All[k], All) OBVIOUS
    <2> HIDE DEF ss
    <2>2. /\ connectUnlocked(All[k], All) \in Seq(Op)
          /\ Range(connectUnlocked(All[k], All))
               = {EnableOp(endname(All[k], j), TRUE) : j \in Range(All)}
                 \cup {EnableOp(endname(j, All[k]), TRUE) : j \in Range(All)}
      BY <1>1, <1>2, ConnectParts
    <2> QED BY <1>1, <2>1, <2>2
  <1>4. ss \in Seq(Seq(Op)) /\ Len(ss) = n
    <2>1. \A k \in 1..n : connectUnlocked(All[k], All) \in Seq(Op) BY <1>3
    <2> QED BY <1>0, <2>1, SMT
  <1>5. connectAllOps = Joined(ss) BY DEF connectAllOps
  <1> HIDE DEF ss
  <1>6. /\ connectAllOps \in Seq(Op)
        /\ Range(connectAllOps) = UNION {Range(ss[k]) : k \in 1..n}
    BY <1>4, <1>5, JoinedParts
  <1>7. ASSUME NEW o \in Range(connectAllOps)
        PROVE  \E i, j \in Server : o = EnableOp(endname(i, j), TRUE)
    <2>1. PICK k \in 1..n : o \in Range(ss[k]) BY <1>6
    <2> QED BY <1>2, <1>3, <2>1
  <1>8. ASSUME NEW i \in Server, NEW j \in Server
        PROVE  EnableOp(endname(i, j), TRUE) \in Range(connectAllOps)
    <2>1. PICK k \in 1..n : All[k] = i
      <3>1. DOMAIN All = 1..n /\ i \in Range(All) BY <1>1, LenProperties
      <3> QED BY <3>1 DEF Range
    <2>2. EnableOp(endname(i, j), TRUE) \in Range(ss[k]) BY <1>3, <2>1
    <2> QED BY <1>6, <2>2
  <1>9. Plain(connectAllOps) BY <1>7, EndOpsPlain
  <1> QED BY <1>6, <1>7, <1>8, <1>9

\* Three operations on one server, in the order of Rank.
LEMMA TripleOps ==
  ASSUME NEW i \in Server, NEW a \in OpName, NEW b \in OpName, NEW c \in OpName,
         Rank[a] < Rank[b], Rank[b] < Rank[c], Rank[a] < Rank[c]
  PROVE  LET t == <<ServerOp(a, i), ServerOp(b, i), ServerOp(c, i)>>
         IN  /\ t \in Seq(Op) /\ Range(t) = {ServerOp(a, i), ServerOp(b, i), ServerOp(c, i)}
             /\ Ordered(t) /\ OpsOn(t, i) = {a, b, c}
             /\ \A j \in Server \ {i} : OpsOn(t, j) = {}
  <1> DEFINE x == ServerOp(a, i)
             y == ServerOp(b, i)
             z == ServerOp(c, i)
             t == <<x, y, z>>
  <1>7. t \in Seq(Op) /\ Range(t) = {x, y, z}
    <2>1. x \in Op /\ y \in Op /\ z \in Op BY OpsTyped
    <2> HIDE DEF x, y, z
    <2>2. Range(t) = {x, y, z} BY Triple
    <2> QED BY <2>1, <2>2, SMT
  <1>8. Ordered(t)
    <2> SUFFICES ASSUME NEW u \in OpName, NEW v \in OpName, NEW k \in Server,
                        Before(t, ServerOp(u, k), ServerOp(v, k))
                 PROVE  Rank[u] < Rank[v]
      BY DEF Ordered
    <2>1. \/ ServerOp(u, k) = x /\ ServerOp(v, k) \in {y, z}
          \/ ServerOp(u, k) = y /\ ServerOp(v, k) = z
      <3> HIDE DEF x, y, z
      <3> QED BY Triple, SMT
    <2>2. (u = a /\ v \in {b, c}) \/ (u = b /\ v = c) BY <2>1, OpsApart, SMT
    <2> QED BY <2>2
  <1>9. OpsOn(t, i) = {a, b, c}
    <2>1. \A name \in OpName : ServerOp(name, i) \in Range(t) <=> name \in {a, b, c}
      BY <1>7, OpsApart, ZenonT(60)
    <2> QED BY <2>1 DEF OpsOn
  <1>10. ASSUME NEW j \in Server \ {i} PROVE OpsOn(t, j) = {} BY <1>7, OpsApart, SMT DEF OpsOn
  <1> QED BY <1>7, <1>8, <1>9, <1>10

\* StartServer: new ends, a new persister, a new instance, and the instance joins the network.
LEMMA StartParts ==
  ASSUME NEW i \in Server, NEW g \in 0..MaxGen
  PROVE  /\ StartOps(i, g) \in Seq(Op)
         /\ \A o \in Range(StartOps(i, g)) :
              \/ \E j \in Server : o = MakeEndOp(<<<<i, g>>, j>>)
              \/ \E name \in OpName : o = ServerOp(name, i)
         /\ Ordered(StartOps(i, g))
         /\ OpsOn(StartOps(i, g), i) = {"Copy", "StartKVServer", "AddServer"}
         /\ \A j \in Server \ {i} : OpsOn(StartOps(i, g), j) = {}
  <1> DEFINE h == [j \in Server |-> MakeEndOp(<<<<i, g>>, j>>)]
             s == [k \in 1..Len(All) |-> h[All[k]]]
             t == <<ServerOp("Copy", i), ServerOp("StartKVServer", i), ServerOp("AddServer", i)>>
  <1>0. n \in Nat BY HarnessAssumption
  <1>1. All \in Seq(Server) /\ Range(All) = Server /\ Len(All) = n BY AllListed
  <1>2. h \in [Server -> Op] /\ \A j \in Server : h[j] = MakeEndOp(<<<<i, g>>, j>>)
    <2>1. \A j \in Server : <<<<i, g>>, j>> \in Endname BY HarnessAssumption
    <2> QED BY <2>1, OpsTyped
  <1>3. StartOps(i, g) = s \o t
    <2>1. \A k \in 1..n : All[k] \in Server BY <1>0, <1>1, SMT
    <2>2. s = [k \in 1..n |-> MakeEndOp(<<<<i, g>>, All[k]>>)] BY <1>1, <2>1
    <2> QED BY <2>2 DEF StartOps
  <1> HIDE DEF h
  <1>4. s \in Seq(Op) /\ Range(s) = {h[j] : j \in Server} BY <1>1, <1>2, Listed
  <1> HIDE DEF s
  <1>5. \A o \in Range(s) : \E j \in Server : o = MakeEndOp(<<<<i, g>>, j>>) BY <1>2, <1>4
  <1>6. Plain(s) BY <1>5, EndOpsPlain
  <1>7. /\ t \in Seq(Op) /\ Ordered(t) /\ OpsOn(t, i) = {"Copy", "StartKVServer", "AddServer"}
        /\ \A j \in Server \ {i} : OpsOn(t, j) = {}
        /\ \A o \in Range(t) : \E name \in OpName : o = ServerOp(name, i)
    <2>1. /\ "Copy" \in OpName /\ "StartKVServer" \in OpName /\ "AddServer" \in OpName
          /\ Rank["Copy"] < Rank["StartKVServer"] /\ Rank["StartKVServer"] < Rank["AddServer"]
          /\ Rank["Copy"] < Rank["AddServer"]
      BY SMT DEF OpName, Rank
    <2> QED BY <2>1, TripleOps, SMT
  <1> HIDE DEF t
  <1>11. /\ Ordered(s \o t) /\ \A j \in Server : OpsOn(s \o t, j) = OpsOn(t, j)
    BY <1>4, <1>6, <1>7, PlainThen
  <1>12. s \o t \in Seq(Op) /\ Range(s \o t) = Range(s) \cup Range(t) BY <1>4, <1>7, ConcatParts
  <1> QED BY <1>3, <1>5, <1>7, <1>11, <1>12

\* ShutdownServer: server i is cut off before it is deleted, copied and killed.
LEMMA ShutParts ==
  ASSUME gen \in [Server -> 0..MaxGen], NEW i \in Server
  PROVE  LET s == disconnectUnlocked(i, All)
                  \o <<ServerOp("DeleteServer", i), ServerOp("Copy", i), ServerOp("Kill", i)>>
         IN  /\ s \in Seq(Op)
             /\ \A o \in Range(s) : \/ \E j \in Server : \/ o = EnableOp(endname(i, j), FALSE)
                                                         \/ o = EnableOp(endname(j, i), FALSE)
                                    \/ \E name \in OpName : o = ServerOp(name, i)
             /\ Ordered(s) /\ OpsOn(s, i) = {"DeleteServer", "Copy", "Kill"}
             /\ \A j \in Server \ {i} : OpsOn(s, j) = {}
             /\ \A j \in Server : Before(s, EnableOp(endname(i, j), FALSE), ServerOp("Kill", i))
             /\ \A j \in Server : EnableOp(endname(j, i), FALSE) \in Range(s)
  <1> DEFINE s == disconnectUnlocked(i, All)
             t == <<ServerOp("DeleteServer", i), ServerOp("Copy", i), ServerOp("Kill", i)>>
  <1>1. All \in Seq(Server) /\ Range(All) = Server BY AllListed
  <1>2. /\ s \in Seq(Op)
        /\ Range(s) = {EnableOp(endname(i, j), FALSE) : j \in Range(All)}
                      \cup {EnableOp(endname(j, i), FALSE) : j \in Range(All)}
    BY <1>1, DisconnectParts
  <1> HIDE DEF s
  <1>3. /\ \A j \in Server : /\ EnableOp(endname(i, j), FALSE) \in Range(s)
                             /\ EnableOp(endname(j, i), FALSE) \in Range(s)
        /\ \A o \in Range(s) : \E j \in Server : \/ o = EnableOp(endname(i, j), FALSE)
                                                 \/ o = EnableOp(endname(j, i), FALSE)
    BY <1>1, <1>2
  <1>4. Plain(s) BY <1>3, EndOpsPlain
  <1>5. /\ t \in Seq(Op) /\ Ordered(t) /\ OpsOn(t, i) = {"DeleteServer", "Copy", "Kill"}
        /\ \A j \in Server \ {i} : OpsOn(t, j) = {}
        /\ \A o \in Range(t) : \E name \in OpName : o = ServerOp(name, i)
        /\ ServerOp("Kill", i) \in Range(t)
    <2>1. /\ "DeleteServer" \in OpName /\ "Copy" \in OpName /\ "Kill" \in OpName
          /\ Rank["DeleteServer"] < Rank["Copy"] /\ Rank["Copy"] < Rank["Kill"]
          /\ Rank["DeleteServer"] < Rank["Kill"]
      BY SMT DEF OpName, Rank
    <2> QED BY <2>1, TripleOps, SMT
  <1> HIDE DEF t
  <1>6. /\ Ordered(s \o t) /\ \A j \in Server : OpsOn(s \o t, j) = OpsOn(t, j)
    BY <1>2, <1>4, <1>5, PlainThen
  <1>7. /\ s \o t \in Seq(Op) /\ Range(s \o t) = Range(s) \cup Range(t)
        /\ \A x, y : x \in Range(s) /\ y \in Range(t) => Before(s \o t, x, y)
    BY <1>2, <1>5, ConcatParts
  <1>8. \A j \in Server : Before(s \o t, EnableOp(endname(i, j), FALSE), ServerOp("Kill", i))
    BY <1>3, <1>5, <1>7
  <1> QED BY <1>3, <1>5, <1>6, <1>7, <1>8 DEF s, t

\* What partition does for the servers of a group a, which it cuts off from group b.
PartOps(a, b) == Joined([k \in 1..Len(a) |-> disconnectUnlocked(a[k], b)
                                             \o connectUnlocked(a[k], a)])

\* It disables the ends between a and b and enables those within a.
LEMMA PartParts ==
  ASSUME gen \in [Server -> 0..MaxGen], NEW a \in Seq(Server), NEW b \in Seq(Server)
  PROVE  /\ PartOps(a, b) \in Seq(Op)
         /\ \A o \in Range(PartOps(a, b)) :
              \/ \E i \in Range(a), j \in Range(b) : \/ o = EnableOp(endname(i, j), FALSE)
                                                     \/ o = EnableOp(endname(j, i), FALSE)
              \/ \E i, j \in Range(a) : o = EnableOp(endname(i, j), TRUE)
         /\ \A i \in Range(a), j \in Range(b) :
              EnableOp(endname(i, j), FALSE) \in Range(PartOps(a, b))
         /\ \A i, j \in Range(a) : EnableOp(endname(i, j), TRUE) \in Range(PartOps(a, b))
  <1> DEFINE L == Len(a)
             u(k) == disconnectUnlocked(a[k], b)
             v(k) == connectUnlocked(a[k], a)
             ss == [k \in 1..L |-> u(k) \o v(k)]
  <1>0. L \in Nat /\ DOMAIN a = 1..L /\ \A k \in 1..L : a[k] \in Server
    BY LenProperties, ElementOfSeq
  <1>1. ASSUME NEW k \in 1..L
        PROVE  /\ u(k) \in Seq(Op)
               /\ Range(u(k)) = {EnableOp(endname(a[k], j), FALSE) : j \in Range(b)}
                                \cup {EnableOp(endname(j, a[k]), FALSE) : j \in Range(b)}
               /\ v(k) \in Seq(Op)
               /\ Range(v(k)) = {EnableOp(endname(a[k], j), TRUE) : j \in Range(a)}
                                \cup {EnableOp(endname(j, a[k]), TRUE) : j \in Range(a)}
    <2>1. a[k] \in Server BY <1>0
    <2> QED BY <2>1, ConnectParts, DisconnectParts
  <1> HIDE DEF u, v
  <1>2. \A k \in 1..L : u(k) \o v(k) \in Seq(Op) /\ Range(u(k) \o v(k)) = Range(u(k)) \cup Range(v(k))
    BY <1>1, ConcatParts
  <1>3. ss \in Seq(Seq(Op)) /\ Len(ss) = L
    <2> HIDE DEF L
    <2> QED BY <1>0, <1>2, SMT
  <1>4. \A k \in 1..L : Range(ss[k]) = Range(u(k)) \cup Range(v(k)) BY <1>2
  <1>5. PartOps(a, b) = Joined(ss) BY DEF PartOps, u, v
  <1> HIDE DEF ss, L
  <1>6. Joined(ss) \in Seq(Op) /\ Range(Joined(ss)) = UNION {Range(ss[k]) : k \in 1..L}
    BY <1>3, JoinedParts
  <1>7. \A k \in 1..L : a[k] \in Range(a) BY <1>0 DEF Range
  <1>8. ASSUME NEW i \in Range(a) PROVE \E k \in 1..L : a[k] = i BY <1>0 DEF Range
  <1>9. ASSUME NEW o \in Range(Joined(ss))
        PROVE  \/ \E i \in Range(a), j \in Range(b) : \/ o = EnableOp(endname(i, j), FALSE)
                                                      \/ o = EnableOp(endname(j, i), FALSE)
               \/ \E i, j \in Range(a) : o = EnableOp(endname(i, j), TRUE)
    <2>1. PICK k \in 1..L : o \in Range(u(k)) \/ o \in Range(v(k)) BY <1>4, <1>6, SMT
    <2>2. CASE o \in Range(u(k))
      <3>1. PICK j \in Range(b) : \/ o = EnableOp(endname(a[k], j), FALSE)
                                  \/ o = EnableOp(endname(j, a[k]), FALSE)
        BY <1>1, <2>2
      <3> QED BY <1>7, <3>1
    <2>3. CASE o \in Range(v(k))
      <3>1. PICK j \in Range(a) : \/ o = EnableOp(endname(a[k], j), TRUE)
                                  \/ o = EnableOp(endname(j, a[k]), TRUE)
        BY <1>1, <2>3
      <3> QED BY <1>7, <3>1
    <2> QED BY <2>1, <2>2, <2>3
  <1>10. ASSUME NEW i \in Range(a), NEW j \in Range(b)
         PROVE  EnableOp(endname(i, j), FALSE) \in Range(Joined(ss))
    <2>1. PICK k \in 1..L : a[k] = i BY <1>8
    <2>2. EnableOp(endname(i, j), FALSE) \in Range(u(k)) BY <1>1, <2>1
    <2> QED BY <1>4, <1>6, <2>2
  <1>11. ASSUME NEW i \in Range(a), NEW j \in Range(a)
         PROVE  EnableOp(endname(i, j), TRUE) \in Range(Joined(ss))
    <2>1. PICK k \in 1..L : a[k] = i BY <1>8
    <2>2. EnableOp(endname(i, j), TRUE) \in Range(v(k)) BY <1>1, <2>1
    <2> QED BY <1>4, <1>6, <2>2
  <1> QED BY <1>5, <1>6, <1>9, <1>10, <1>11

\* i and j are in the same one of the two groups.
Same(a, b, i, j) == IF <<i, j>> \in Inside(a, b) THEN TRUE ELSE FALSE

\* partition enables the ends within the groups and disables those between them.
LEMMA PartitionParts ==
  ASSUME gen \in [Server -> 0..MaxGen], NEW a \in Seq(Server), NEW b \in Seq(Server), Split(a, b)
  PROVE  LET s == PartOps(a, b) \o PartOps(b, a)
         IN  /\ s \in Seq(Op) /\ Plain(s)
             /\ \A o \in Range(s) : \E i, j \in Server : o = EnableOp(endname(i, j), Same(a, b, i, j))
             /\ \A i, j \in Server : EnableOp(endname(i, j), Same(a, b, i, j)) \in Range(s)
  <1> DEFINE s == PartOps(a, b) \o PartOps(b, a)
  <1>1. Range(a) \cap Range(b) = {} /\ Range(a) \cup Range(b) = Server BY DEF Split
  <1>2. a \in Seq(Server) /\ b \in Seq(Server) OBVIOUS
  <1>3. /\ \A i, j \in Range(a) : Same(a, b, i, j) = TRUE
        /\ \A i, j \in Range(b) : Same(a, b, i, j) = TRUE
        /\ \A i \in Range(a), j \in Range(b) : Same(a, b, i, j) = FALSE /\ Same(a, b, j, i) = FALSE
    BY <1>1 DEF Same, Inside
  <1>4. /\ s \in Seq(Op) /\ Range(s) = Range(PartOps(a, b)) \cup Range(PartOps(b, a))
    BY <1>2, PartParts, ConcatParts
  <1>5. ASSUME NEW o \in Range(s)
        PROVE  \E i, j \in Server : o = EnableOp(endname(i, j), Same(a, b, i, j))
    <2>1. \/ \E i \in Range(a), j \in Range(b) : \/ o = EnableOp(endname(i, j), FALSE)
                                                 \/ o = EnableOp(endname(j, i), FALSE)
          \/ \E i, j \in Range(a) : o = EnableOp(endname(i, j), TRUE)
          \/ \E i, j \in Range(b) : o = EnableOp(endname(i, j), TRUE)
      <3>1. CASE o \in Range(PartOps(a, b)) BY <1>2, <3>1, PartParts
      <3>2. CASE o \in Range(PartOps(b, a))
        <4>1. \/ \E i \in Range(b), j \in Range(a) : \/ o = EnableOp(endname(i, j), FALSE)
                                                     \/ o = EnableOp(endname(j, i), FALSE)
              \/ \E i, j \in Range(b) : o = EnableOp(endname(i, j), TRUE)
          BY <1>2, <3>2, PartParts
        <4> QED BY <4>1
      <3> QED BY <1>4, <3>1, <3>2
    <2>2. Range(a) \subseteq Server /\ Range(b) \subseteq Server BY <1>1
    <2>3. CASE \E i \in Range(a), j \in Range(b) : \/ o = EnableOp(endname(i, j), FALSE)
                                                   \/ o = EnableOp(endname(j, i), FALSE)
      <3>1. PICK i \in Range(a), j \in Range(b) : \/ o = EnableOp(endname(i, j), FALSE)
                                                  \/ o = EnableOp(endname(j, i), FALSE)
        BY <2>3
      <3>2. \/ o = EnableOp(endname(i, j), Same(a, b, i, j))
            \/ o = EnableOp(endname(j, i), Same(a, b, j, i))
        BY <1>3, <3>1
      <3> QED BY <2>2, <3>2
    <2>4. CASE \E i, j \in Range(a) : o = EnableOp(endname(i, j), TRUE)
      <3>1. PICK i \in Range(a), j \in Range(a) : o = EnableOp(endname(i, j), TRUE) BY <2>4
      <3>2. o = EnableOp(endname(i, j), Same(a, b, i, j)) BY <1>3, <3>1
      <3> QED BY <2>2, <3>2
    <2>5. CASE \E i, j \in Range(b) : o = EnableOp(endname(i, j), TRUE)
      <3>1. PICK i \in Range(b), j \in Range(b) : o = EnableOp(endname(i, j), TRUE) BY <2>5
      <3>2. o = EnableOp(endname(i, j), Same(a, b, i, j)) BY <1>3, <3>1
      <3> QED BY <2>2, <3>2
    <2> QED BY <2>1, <2>3, <2>4, <2>5
  <1>6. ASSUME NEW i \in Server, NEW j \in Server
        PROVE  EnableOp(endname(i, j), Same(a, b, i, j)) \in Range(s)
    <2>1. CASE i \in Range(a) /\ j \in Range(a) BY <1>2, <1>3, <1>4, <2>1, PartParts
    <2>2. CASE i \in Range(a) /\ j \in Range(b) BY <1>2, <1>3, <1>4, <2>2, PartParts, ZenonT(60)
    <2>3. CASE i \in Range(b) /\ j \in Range(a) BY <1>2, <1>3, <1>4, <2>3, PartParts
    <2>4. CASE i \in Range(b) /\ j \in Range(b) BY <1>2, <1>3, <1>4, <2>4, PartParts
    <2> QED BY <1>1, <2>1, <2>2, <2>3, <2>4
  <1>7. Plain(s) BY <1>5, EndOpsPlain
  <1> QED BY <1>4, <1>5, <1>6, <1>7

\* make_config: all servers are started, then connected.
LEMMA InitParts ==
  ASSUME gen = [i \in Server |-> 0], NEW yes \in BOOLEAN,
         script = Joined([k \in 1..n |-> StartOps(All[k], 0)]) \o connectAllOps \o <<ReliableOp(yes)>>
  PROVE  /\ script \in Seq(Op) /\ Ordered(script)
         /\ \A i \in Server : Left(i) = {"Copy", "StartKVServer", "AddServer"}
         /\ \A i, j \in Server : EnableOp(endname(i, j), TRUE) \in Range(script)
         /\ \A e, on : EnableOp(e, on) \in Range(script) =>
              on = TRUE /\ \E i, j \in Server : e = endname(i, j)
         /\ \A e, f, on : ~Before(script, EnableOp(e, on), MakeEndOp(f))
  <1> DEFINE ss == [k \in 1..n |-> StartOps(All[k], 0)]
             a == Joined(ss)
             b == connectAllOps
             c == <<ReliableOp(yes)>>
  <1>0. n \in Nat /\ MaxGen \in Nat /\ gen \in [Server -> 0..MaxGen] BY HarnessAssumption, SMT
  <1>1. All \in Seq(Server) /\ Range(All) = Server /\ Len(All) = n BY AllListed
  <1>2. DOMAIN All = 1..n /\ \A k \in 1..n : All[k] \in Server /\ All[k] = k - 1
    BY <1>0, <1>1, LenProperties, SMT DEF All
  <1>3. \A i \in Server : \E k \in 1..n : All[k] = i BY <1>1, <1>2 DEF Range
  <1>4. ASSUME NEW k \in 1..n
        PROVE  /\ StartOps(All[k], 0) \in Seq(Op) /\ Ordered(StartOps(All[k], 0))
               /\ \A o \in Range(StartOps(All[k], 0)) :
                    (\E e : o = MakeEndOp(e)) \/ \E name \in OpName : o = ServerOp(name, All[k])
               /\ OpsOn(StartOps(All[k], 0), All[k]) = {"Copy", "StartKVServer", "AddServer"}
               /\ \A j \in Server \ {All[k]} : OpsOn(StartOps(All[k], 0), j) = {}
    <2> DEFINE i == All[k]
    <2>1. 0 \in 0..MaxGen /\ i \in Server BY <1>0, <1>2
    <2> HIDE DEF i
    <2>2. /\ StartOps(i, 0) \in Seq(Op) /\ Ordered(StartOps(i, 0))
          /\ \A o \in Range(StartOps(i, 0)) :
               \/ \E j \in Server : o = MakeEndOp(<<<<i, 0>>, j>>)
               \/ \E name \in OpName : o = ServerOp(name, i)
          /\ OpsOn(StartOps(i, 0), i) = {"Copy", "StartKVServer", "AddServer"}
          /\ \A j \in Server \ {i} : OpsOn(StartOps(i, 0), j) = {}
      BY <2>1, StartParts
    <2> QED BY <2>2 DEF i
  <1>5. ss \in Seq(Seq(Op)) /\ Len(ss) = n /\ \A k \in 1..n : ss[k] = StartOps(All[k], 0)
    BY <1>0, <1>4, SMT
  <1> HIDE DEF ss
  <1>6. /\ a \in Seq(Op) /\ Range(a) = UNION {Range(ss[k]) : k \in 1..n}
        /\ \A x, y : Before(a, x, y) =>
              \/ \E k \in 1..n : Before(ss[k], x, y)
              \/ \E k, m \in 1..n : k < m /\ x \in Range(ss[k]) /\ y \in Range(ss[m])
    BY <1>5, JoinedParts
  <1>7. b \in Seq(Op) /\ Plain(b)
        /\ (\A o \in Range(b) : \E i, j \in Server : o = EnableOp(endname(i, j), TRUE))
        /\ (\A i, j \in Server : EnableOp(endname(i, j), TRUE) \in Range(b))
    BY <1>0, ConnectAllParts
  <1>8. c \in Seq(Op) /\ Range(c) = {ReliableOp(yes)} /\ Plain(c)
    <2>1. ReliableOp(yes) \in Op BY OpsTyped
    <2>2. Range(c) = {ReliableOp(yes)} BY SMT DEF Range
    <2>3. Plain(c) BY <2>2, OpsApart DEF Plain
    <2> QED BY <2>1, <2>2, <2>3, SMT
  <1> HIDE DEF a, b, c
  <1> DEFINE ab == a \o b
  <1>9. /\ ab \in Seq(Op) /\ Range(ab) = Range(a) \cup Range(b)
        /\ \A x, y : Before(ab, x, y) <=> \/ Before(a, x, y) \/ Before(b, x, y)
                                          \/ x \in Range(a) /\ y \in Range(b)
    BY <1>6, <1>7, ConcatParts
  <1> HIDE DEF ab
  <1>10. /\ script = ab \o c BY DEF ab, a, b, c, ss
  <1>11. /\ script \in Seq(Op) /\ Range(script) = Range(ab) \cup Range(c)
         /\ \A x, y : Before(script, x, y) <=> \/ Before(ab, x, y) \/ Before(c, x, y)
                                               \/ x \in Range(ab) /\ y \in Range(c)
    <2>1. /\ ab \o c \in Seq(Op) /\ Range(ab \o c) = Range(ab) \cup Range(c)
          /\ \A x, y : Before(ab \o c, x, y) <=> \/ Before(ab, x, y) \/ Before(c, x, y)
                                                 \/ x \in Range(ab) /\ y \in Range(c)
      BY <1>8, <1>9, ConcatParts
    <2> QED BY <1>10, <2>1
  <1>12. \A o \in Range(a) : \/ \E e : o = MakeEndOp(e)
                             \/ \E name \in OpName : \E i \in Server : o = ServerOp(name, i)
    <2> TAKE o \in Range(a)
    <2>1. PICK k \in 1..n : o \in Range(StartOps(All[k], 0)) BY <1>5, <1>6, SMT
    <2> QED BY <1>2, <1>4, <2>1, SMT
  <1>12e. ASSUME NEW e, NEW on PROVE EnableOp(e, on) \notin Range(a)
    <2> SUFFICES ASSUME EnableOp(e, on) \in Range(a) PROVE FALSE OBVIOUS
    <2>1. CASE \E f : EnableOp(e, on) = MakeEndOp(f) BY <2>1, OpsApart
    <2>2. CASE \E name \in OpName : \E i \in Server : EnableOp(e, on) = ServerOp(name, i)
      BY <2>2, OpsApart
    <2> QED BY <1>12, <2>1, <2>2
  <1>13. \A name \in OpName, i \in Server :
           ServerOp(name, i) \in Range(script) <=> ServerOp(name, i) \in Range(a)
    BY <1>7, <1>8, <1>9, <1>11 DEF Plain
  <1>14. \A name \in OpName, k \in 1..n, i \in Server :
           ServerOp(name, i) \in Range(ss[k]) => i = All[k]
    BY <1>2, <1>4, <1>5 DEF OpsOn
  <1>15. \A i \in Server : Left(i) = {"Copy", "StartKVServer", "AddServer"}
    <2> TAKE i \in Server
    <2>1. PICK k \in 1..n : All[k] = i BY <1>3
    <2>2. \A m \in 1..n : All[m] = i => m = k BY <1>2, <2>1, SMT
    <2>3. \A name \in OpName : ServerOp(name, i) \in Range(a) <=> ServerOp(name, i) \in Range(ss[k])
      <3> TAKE name \in OpName
      <3>1. ASSUME ServerOp(name, i) \in Range(a) PROVE ServerOp(name, i) \in Range(ss[k])
        <4>1. PICK m \in 1..n : ServerOp(name, i) \in Range(ss[m]) BY <1>6, <3>1, SMT
        <4>2. m = k BY <1>14, <2>2, <4>1
        <4> QED BY <4>1, <4>2
      <3>2. ASSUME ServerOp(name, i) \in Range(ss[k]) PROVE ServerOp(name, i) \in Range(a)
        BY <1>6, <3>2
      <3> QED BY <3>1, <3>2
    <2>4. OpsOn(ss[k], i) = {"Copy", "StartKVServer", "AddServer"} BY <1>4, <1>5, <2>1
    <2> QED BY <1>13, <2>3, <2>4 DEF Left, OpsOn
  <1>16. ASSUME NEW x \in OpName, NEW y \in OpName, NEW i \in Server,
                Before(script, ServerOp(x, i), ServerOp(y, i))
         PROVE  Rank[x] < Rank[y]
    <2>1. /\ ServerOp(x, i) \notin Range(b) /\ ServerOp(y, i) \notin Range(b)
          /\ ServerOp(x, i) \notin Range(c) /\ ServerOp(y, i) \notin Range(c)
      BY <1>7, <1>8 DEF Plain
    <2>2. Before(ab, ServerOp(x, i), ServerOp(y, i)) BY <1>11, <1>16, <2>1, BeforeInRange
    <2>3. Before(a, ServerOp(x, i), ServerOp(y, i)) BY <1>9, <2>1, <2>2, BeforeInRange
    <2>4. ~ \E k, m \in 1..n : k < m /\ ServerOp(x, i) \in Range(ss[k]) /\ ServerOp(y, i) \in Range(ss[m])
      <3> SUFFICES ASSUME NEW k \in 1..n, NEW m \in 1..n, k < m,
                          ServerOp(x, i) \in Range(ss[k]), ServerOp(y, i) \in Range(ss[m])
                   PROVE  FALSE
        OBVIOUS
      <3>1. All[k] = i /\ All[m] = i BY <1>14
      <3> QED BY <1>2, <3>1, SMT
    <2>5. PICK k \in 1..n : Before(ss[k], ServerOp(x, i), ServerOp(y, i)) BY <1>6, <2>3, <2>4
    <2> QED BY <1>4, <1>5, <2>5 DEF Ordered
  <1>17. ASSUME NEW e, NEW on, EnableOp(e, on) \in Range(script)
         PROVE  on = TRUE /\ \E i, j \in Server : e = endname(i, j)
    <2>1. EnableOp(e, on) \notin Range(a) /\ EnableOp(e, on) \notin Range(c)
      <3>1. EnableOp(e, on) \notin Range(a) BY <1>12e
      <3>2. EnableOp(e, on) \notin Range(c) BY <1>8, OpsApart
      <3> QED BY <3>1, <3>2
    <2>2. PICK i \in Server, j \in Server : EnableOp(e, on) = EnableOp(endname(i, j), TRUE)
      BY <1>7, <1>9, <1>11, <1>17, <2>1
    <2>3. e = endname(i, j) /\ on = TRUE BY <2>2, OpsApart
    <2> QED BY <2>3
  <1>18. ASSUME NEW e, NEW f, NEW on PROVE ~Before(script, EnableOp(e, on), MakeEndOp(f))
    <2>1. EnableOp(e, on) \notin Range(a) BY <1>12e
    <2>2. MakeEndOp(f) \notin Range(b) BY <1>7, OpsApart
    <2>3. MakeEndOp(f) \notin Range(c) BY <1>8, OpsApart
    <2> QED BY <1>9, <1>11, <2>1, <2>2, <2>3, BeforeInRange
  <1>19. \A i, j \in Server : EnableOp(endname(i, j), TRUE) \in Range(script)
    BY <1>7, <1>9, <1>11
  <1>20. Ordered(script) BY <1>16 DEF Ordered
  <1> QED BY <1>11, <1>15, <1>17, <1>18, <1>19, <1>20

-----------------------------------------------------------------------------
(* The steps of the tester                                                 *)

\* The tester performs the first operation of its script.
LEMMA HeadPerformed ==
  ASSUME script \in Seq(Op), Ordered(script), script # <<>>, script' = Tail(script)
  PROVE  Performed(Head(script))
  <1> DEFINE o == Head(script)
  <1>1. /\ o \in Op /\ Tail(script) \in Seq(Op) /\ Range(script) = {o} \cup Range(Tail(script))
        /\ \A x, y : Before(script, x, y) <=> \/ Before(Tail(script), x, y)
                                              \/ x = o /\ y \in Range(Tail(script))
    BY TailParts
  <1> HIDE DEF o
  <1>2. \A x, y : Before(script', x, y) => Before(script, x, y) BY <1>1
  <1>3. Ordered(script') BY <1>2 DEF Ordered
  <1>4. /\ o \in Range(script)
        /\ \A x : x \in Range(script') => x \in Range(script)
        /\ \A x : x \in Range(script) /\ x # o => x \in Range(script')
    BY <1>1
  <1>5. \A x, y : Before(script', x, y) => y \in Range(script') BY BeforeInRange
  <1>6. Performed(o) BY <1>1, <1>2, <1>3, <1>4, <1>5 DEF Performed
  <1> QED BY <1>6 DEF o

\* What Begin makes of operations on ends.
LEMMA PlainKept ==
  ASSUME NEW ops \in Seq(Op), Plain(ops), script' = Kept(ops)
  PROVE  /\ script' \in Seq(Op) /\ Ordered(script') /\ \A i \in Server : Left(i)' = {}
         /\ Range(script') = {o \in Range(ops) : Changes(o)}
  <1>1. script' \in Seq(Op) /\ Range(script') = {o \in Range(ops) : Changes(o)} BY KeptParts
  <1>2. Plain(script') BY <1>1 DEF Plain
  <1>3. Ordered(script') /\ \A i \in Server : OpsOn(script', i) = {} BY <1>2, PlainOrdered
  <1> QED BY <1>1, <1>3 DEF Left

\* The ends of two servers have different names.
LEMMA EndsApart ==
  ASSUME NEW i, NEW j, NEW k, NEW l, endname(i, j) = endname(k, l)
  PROVE  i = k /\ j = l
  <1>1. endname(i, j)[1] = InstanceOf(i) /\ endname(i, j)[2] = j BY DEF endname
  <1>2. endname(k, l)[1] = InstanceOf(k) /\ endname(k, l)[2] = l BY DEF endname
  <1>3. InstanceOf(i)[1] = i /\ InstanceOf(k)[1] = k BY DEF InstanceOf
  <1> QED BY <1>1, <1>2, <1>3

\* An Enable is known by its end and its argument.
LEMMA EnableOnly ==
  ASSUME NEW e, NEW f, NEW yes, NEW on, EnableOp(e, yes) = EnableOp(f, on)
  PROVE  e = f /\ yes = on
  <1>1. /\ EnableOp(e, yes).end = e /\ EnableOp(e, yes).yes = yes
        /\ EnableOp(f, on).end = f /\ EnableOp(f, on).yes = on
    BY DEF EnableOp
  <1> QED BY <1>1

\* A function that makes groups of all servers while they are up.
LEMMA GroupBegun ==
  ASSUME HarnessInv, NEW ops \in Seq(Op), Plain(ops), Begin(ops), kvservers = Server,
         UNCHANGED <<gen, kvservers, saved>>,
         \A o \in Range(ops) : \E i, j \in Server : o = EnableOp(endname(i, j), Linked(i, j)'),
         \A i, j \in Server : EnableOp(endname(i, j), Linked(i, j)') \in Range(ops)
  PROVE  HarnessInv'
  <1>0. script' = Kept(ops) BY DEF Begin
  <1>1. /\ script' \in Seq(Op) /\ Ordered(script') /\ \A i \in Server : Left(i)' = {}
        /\ Range(script') = {o \in Range(ops) : Changes(o)}
    BY <1>0, PlainKept
  <1>2. Begun BY <1>1 DEF Begun, Begin
  <1>3. enabled' = enabled BY DEF Begin, netVars, tableVars
  <1>4. ASSUME NEW s \in Instance, NEW j \in Server, EnableOp(<<s, j>>, TRUE) \in Range(script')
        PROVE  s = InstanceOf(s[1]) /\ s[1] \in kvservers
    <2>1. EnableOp(<<s, j>>, TRUE) \in Range(ops) BY <1>1, <1>4
    <2>2. PICK i, k \in Server : EnableOp(<<s, j>>, TRUE) = EnableOp(endname(i, k), Linked(i, k)')
      BY <2>1
    <2>a. PICK e, f, w : e = <<s, j>> /\ f = endname(i, k) /\ w = Linked(i, k)' OBVIOUS
    <2>b. EnableOp(e, TRUE) = EnableOp(f, w) BY <2>2, <2>a
    <2>c. e = f BY <2>b, EnableOnly
    <2>3. <<s, j>> = endname(i, k) BY <2>a, <2>c
    <2>4. s = InstanceOf(i) BY <2>3 DEF endname
    <2>5. s[1] = i BY <2>4 DEF InstanceOf
    <2> QED BY <2>4, <2>5
  <1>5. ASSUME NEW i \in Server, NEW j \in Server PROVE EndAt(endname(i, j), Linked(i, j))'
    <2>1. PICK e, g : e = endname(i, j) /\ g = Linked(i, j)' OBVIOUS
    <2>2. endname(i, j)' = e BY <2>1 DEF endname, InstanceOf
    <2>3. ASSUME NEW yes \in BOOLEAN, EnableOp(e, yes) \in Range(script') PROVE yes = g
      <3>1. EnableOp(e, yes) \in Range(ops) BY <1>1, <2>3
      <3>2. PICK k, l \in Server : EnableOp(e, yes) = EnableOp(endname(k, l), Linked(k, l)')
        BY <3>1
      <3>a. PICK f, w : f = endname(k, l) /\ w = Linked(k, l)' OBVIOUS
      <3>b. EnableOp(e, yes) = EnableOp(f, w) BY <3>2, <3>a
      <3>c. e = f /\ yes = w BY <3>b, EnableOnly, SMT
      <3>3. e = endname(k, l) /\ yes = Linked(k, l)' BY <3>a, <3>c
      <3>d. endname(i, j) = endname(k, l) BY <2>1, <3>3
      <3>4. i = k /\ j = l BY <3>d, EndsApart, SMTT(30)
      <3> QED BY <2>1, <3>3, <3>4
    <2>4. ASSUME enabled'[e] # g PROVE EnableOp(e, g) \in Range(script')
      <3>1. EnableOp(e, g) \in Range(ops) BY <2>1
      <3>2. Changes(EnableOp(e, g)) BY <1>3, <2>4, ChangesMeans
      <3> QED BY <1>1, <3>1, <3>2
    <2>5. MakeEndOp(e) \notin Range(script')
      <3> SUFFICES ASSUME MakeEndOp(e) \in Range(script') PROVE FALSE OBVIOUS
      <3>1. MakeEndOp(e) \in Range(ops) BY <1>1
      <3>2. PICK k, l \in Server : MakeEndOp(e) = EnableOp(endname(k, l), Linked(k, l)')
        BY <3>1
      <3> QED BY <3>2, OpsApart
    <2>6. /\ \A yes \in BOOLEAN : EnableOp(e, yes) \in Range(script') => yes = g
          /\ enabled'[e] # g => EnableOp(e, g) \in Range(script')
          /\ MakeEndOp(e) \in Range(script') =>
              ~enabled'[e] /\ \A yes \in BOOLEAN : ~Before(script', EnableOp(e, yes), MakeEndOp(e))
      BY <2>3, <2>4, <2>5
    <2> QED BY <2>1, <2>2, <2>6 DEF EndAt
  <1> QED BY <1>1, <1>2, <1>4, <1>5, PlainBegun

\* config.ConnectAll.
LEMMA ConnectAllKeeps == HarnessInv /\ ConnectAll => HarnessInv'
  <1> SUFFICES ASSUME HarnessInv, ConnectAll PROVE HarnessInv' OBVIOUS
  <1>0. gen \in [Server -> 0..MaxGen] BY DEF HarnessInv, Types
  <1>1. /\ connectAllOps \in Seq(Op) /\ Plain(connectAllOps)
        /\ \A o \in Range(connectAllOps) : \E i, j \in Server : o = EnableOp(endname(i, j), TRUE)
        /\ \A i, j \in Server : EnableOp(endname(i, j), TRUE) \in Range(connectAllOps)
    BY <1>0, ConnectAllParts
  <1>4. \A i, j \in Server : Linked(i, j)' = TRUE
    <2>1. linked' = Server \X Server BY DEF ConnectAll
    <2> QED BY <2>1 DEF Linked
  <1>5. Begin(connectAllOps) /\ kvservers = Server /\ UNCHANGED <<gen, kvservers, saved>>
    BY DEF ConnectAll
  <1>6. /\ \A o \in Range(connectAllOps) :
             \E i, j \in Server : o = EnableOp(endname(i, j), Linked(i, j)')
        /\ \A i, j \in Server : EnableOp(endname(i, j), Linked(i, j)') \in Range(connectAllOps)
    BY <1>1, <1>4
  <1> QED BY <1>1, <1>5, <1>6, GroupBegun

\* config.partition.
LEMMA PartitionKeeps ==
  ASSUME HarnessInv, NEW a \in Group, NEW b \in Group, partition(a, b)
  PROVE  HarnessInv'
  <1> DEFINE s == PartOps(a, b) \o PartOps(b, a)
  <1>0. gen \in [Server -> 0..MaxGen] BY DEF HarnessInv, Types
  <1>1. a \in Seq(Server) /\ b \in Seq(Server) BY HarnessAssumption
  <1>2. /\ Begin(s) /\ linked' = Inside(a, b) /\ kvservers = Server /\ Split(a, b)
        /\ UNCHANGED <<gen, kvservers, saved>>
    BY DEF partition, PartOps
  <1>3. /\ s \in Seq(Op) /\ Plain(s)
        /\ \A o \in Range(s) : \E i, j \in Server : o = EnableOp(endname(i, j), Same(a, b, i, j))
        /\ \A i, j \in Server : EnableOp(endname(i, j), Same(a, b, i, j)) \in Range(s)
    BY <1>0, <1>1, <1>2, PartitionParts
  <1> HIDE DEF s
  <1>4. \A i, j \in Server : Linked(i, j)' = Same(a, b, i, j) BY <1>2 DEF Linked, Same
  <1> QED BY <1>2, <1>3, <1>4, GroupBegun, ZenonT(60)

\* A function that makes or enables ends of a clerk only.
LEMMA ClientBegun ==
  ASSUME HarnessInv, NEW ck \in Clerk, NEW ops \in Seq(Op), Begin(ops),
         UNCHANGED <<gen, kvservers, saved, linked>>,
         \A o \in Range(ops) : \E j : o = MakeEndOp(<<ck, j>>) \/ o = EnableOp(<<ck, j>>, TRUE)
  PROVE  HarnessInv'
  <1>0. script' = Kept(ops) BY DEF Begin
  <1>1. Plain(ops)
    <2>1. \A o \in Range(ops) : (\E e, yes : o = EnableOp(e, yes)) \/ (\E e : o = MakeEndOp(e)) OBVIOUS
    <2> QED BY <2>1, EndOpsPlain
  <1>2. /\ script' \in Seq(Op) /\ Ordered(script') /\ \A i \in Server : Left(i)' = {}
        /\ Range(script') = {o \in Range(ops) : Changes(o)}
    BY <1>0, <1>1, PlainKept
  <1>3. gen \in [Server -> 0..MaxGen] BY DEF HarnessInv, Types
  <1>4. Begun BY <1>2, <1>3 DEF Begun, Begin
  <1>5. ASSUME NEW s \in Instance, NEW j, NEW o \in Range(script')
        PROVE  /\ \A yes : o # EnableOp(<<s, j>>, yes)
               /\ o # MakeEndOp(<<s, j>>)
    <2>0. s # ck BY HarnessAssumption
    <2>1. PICK k : o = MakeEndOp(<<ck, k>>) \/ o = EnableOp(<<ck, k>>, TRUE) BY <1>2
    <2>2. PICK e, f : e = <<s, j>> /\ f = <<ck, k>> OBVIOUS
    <2>3. e # f BY <2>0, <2>2
    <2>4. CASE o = MakeEndOp(f)
      <3>1. o # MakeEndOp(e) BY <2>3, <2>4, OpsApart
      <3>2. \A yes : o # EnableOp(e, yes) BY <2>4, OpsApart
      <3> QED BY <2>2, <3>1, <3>2
    <2>5. CASE o = EnableOp(f, TRUE)
      <3>1. o # MakeEndOp(e) BY <2>5, OpsApart
      <3>2. \A yes : o # EnableOp(e, yes) BY <2>3, <2>5, EnableOnly
      <3> QED BY <2>2, <3>1, <3>2
    <2> QED BY <2>1, <2>2, <2>4, <2>5
  <1>6. ASSUME NEW i \in Server, NEW j \in Server PROVE EndAt(endname(i, j), Linked(i, j))'
    <2>1. PICK e, g : e = endname(i, j) /\ g = Linked(i, j) OBVIOUS
    <2>2. endname(i, j)' = e /\ Linked(i, j)' = g
      BY <2>1 DEF endname, InstanceOf, Linked
    <2>3. InstanceOf(i) \in Instance /\ e = <<InstanceOf(i), j>> BY <1>3, <2>1, Named DEF endname
    <2>4. MakeEndOp(e) \notin Range(script') /\ \A yes : EnableOp(e, yes) \notin Range(script')
      BY <1>5, <2>3
    <2>5. EndAt(e, g) BY <2>1 DEF HarnessInv, GroupsRight
    <2>6. Range(script) = {} BY SMT DEF Begin, Range
    <2>7. enabled[e] = g BY <2>5, <2>6 DEF EndAt
    <2>8. enabled' = enabled BY DEF Begin, netVars, tableVars
    <2>9. /\ \A yes \in BOOLEAN : EnableOp(e, yes) \in Range(script') => yes = g
          /\ enabled'[e] # g => EnableOp(e, g) \in Range(script')
          /\ MakeEndOp(e) \in Range(script') =>
              ~enabled'[e] /\ \A yes \in BOOLEAN : ~Before(script', EnableOp(e, yes), MakeEndOp(e))
      BY <2>4, <2>7, <2>8
    <2> QED BY <2>2, <2>9 DEF EndAt
  <1>7. \A s \in Instance, j \in Server : EnableOp(<<s, j>>, TRUE) \notin Range(script') BY <1>5
  <1>8. \A i \in Server : i \notin kvservers => \A j \in Server : ~Linked(i, j)' /\ ~Linked(j, i)'
    <2>1. \A i, j : Linked(i, j)' <=> Linked(i, j) BY DEF Linked
    <2>2. \A i \in Server : Left(i) = {} BY <1>4, BegunFree
    <2>3. \A i \in Server : i \notin kvservers => Gone(i) BY <2>2 DEF Gone, Down
    <2> QED BY <2>1, <2>3 DEF HarnessInv, GroupsRight
  <1> QED BY <1>2, <1>4, <1>6, <1>7, <1>8, PlainBegun

\* config.makeClient.
LEMMA MakeClientKeeps ==
  ASSUME HarnessInv, NEW ck \in Clerk, NEW to \in Group \cup {All}, makeClient(ck, to)
  PROVE  HarnessInv'
  <1> DEFINE h == [j \in Server |-> MakeEndOp(<<ck, j>>)]
             s == [k \in 1..Len(All) |-> h[All[k]]]
             t == ConnectClientUnlocked(ck, to)
  <1>0. All \in Seq(Server) /\ Range(All) = Server /\ Len(All) = n /\ n \in Nat
    BY AllListed, HarnessAssumption
  <1>1. to \in Seq(Server) BY <1>0, HarnessAssumption
  <1>2. h \in [Server -> Op] /\ \A j \in Server : h[j] = MakeEndOp(<<ck, j>>)
    <2>1. \A j \in Server : <<ck, j>> \in Endname BY HarnessAssumption
    <2> QED BY <2>1, OpsTyped
  <1>3. s = [k \in 1..n |-> MakeEndOp(<<ck, All[k]>>)]
    <2>1. \A k \in 1..n : All[k] \in Server BY <1>0, SMT
    <2> QED BY <1>0, <2>1
  <1>4. Begin(s \o t) /\ UNCHANGED <<gen, kvservers, saved, linked>> BY <1>3 DEF makeClient
  <1> HIDE DEF h
  <1>5. s \in Seq(Op) /\ Range(s) = {h[j] : j \in Server} BY <1>0, <1>2, Listed
  <1> HIDE DEF s
  <1>6. t \in Seq(Op) /\ Range(t) = {EnableOp(<<ck, j>>, TRUE) : j \in Range(to)} BY <1>1, ClientParts
  <1> HIDE DEF t
  <1>7. s \o t \in Seq(Op) /\ Range(s \o t) = Range(s) \cup Range(t) BY <1>5, <1>6, ConcatParts
  <1>8. \A o \in Range(s) : \E j : o = MakeEndOp(<<ck, j>>) BY <1>2, <1>5
  <1>9. \A o \in Range(t) : \E j : o = EnableOp(<<ck, j>>, TRUE) BY <1>6
  <1>10. \A o \in Range(s \o t) : \E j : o = MakeEndOp(<<ck, j>>) \/ o = EnableOp(<<ck, j>>, TRUE)
    <2>1. ASSUME NEW o \in Range(s \o t)
          PROVE  \E j : o = MakeEndOp(<<ck, j>>) \/ o = EnableOp(<<ck, j>>, TRUE)
      <3>1. o \in Range(s) \/ o \in Range(t) BY <1>7
      <3> QED BY <1>8, <1>9, <3>1
    <2> QED BY <2>1
  <1> QED BY <1>4, <1>7, <1>10, ClientBegun

\* config.ConnectClient.
LEMMA ConnectClientKeeps ==
  ASSUME HarnessInv, NEW ck \in Clerk, ConnectClient(ck, All)
  PROVE  HarnessInv'
  <1> DEFINE t == ConnectClientUnlocked(ck, All)
  <1>1. t \in Seq(Op) /\ Range(t) = {EnableOp(<<ck, j>>, TRUE) : j \in Range(All)}
    BY AllListed, ClientParts
  <1>2. Begin(t) /\ UNCHANGED <<gen, kvservers, saved, linked>> BY DEF ConnectClient
  <1> HIDE DEF t
  <1>3. \A o \in Range(t) : \E j : o = MakeEndOp(<<ck, j>>) \/ o = EnableOp(<<ck, j>>, TRUE) BY <1>1
  <1> QED BY <1>1, <1>2, <1>3, ClientBegun

\* Begin drops no operation on a server and changes no order.
LEMMA KeptOrdered ==
  ASSUME NEW ops \in Seq(Op), Ordered(ops), script' = Kept(ops)
  PROVE  /\ script' \in Seq(Op) /\ Ordered(script')
         /\ Range(script') = {o \in Range(ops) : Changes(o)}
         /\ \A i \in Server : Left(i)' = OpsOn(ops, i)
         /\ \A x, y : Before(ops, x, y) /\ Changes(x) /\ Changes(y) => Before(script', x, y)
  <1>1. /\ script' \in Seq(Op) /\ Range(script') = {o \in Range(ops) : Changes(o)}
        /\ \A x, y : Before(script', x, y) <=> Before(ops, x, y) /\ Changes(x) /\ Changes(y)
    BY KeptParts
  <1>2. Ordered(script') BY <1>1 DEF Ordered
  <1>3. \A i \in Server : OpsOn(script', i) = OpsOn(ops, i)
    <2>1. \A i : \A name \in OpName : ServerOp(name, i) \in Range(script') <=> ServerOp(name, i) \in Range(ops)
      BY <1>1, ChangesMeans
    <2> QED BY <2>1 DEF OpsOn
  <1> QED BY <1>1, <1>2, <1>3 DEF Left

\* config.ShutdownServer.
LEMMA ShutdownServerKeeps ==
  ASSUME HarnessInv, NEW i \in Server, ShutdownServer(i)
  PROVE  HarnessInv'
  <1> DEFINE s == disconnectUnlocked(i, All)
                  \o <<ServerOp("DeleteServer", i), ServerOp("Copy", i), ServerOp("Kill", i)>>
  <1>1. gen \in [Server -> 0..MaxGen] /\ enabled \in [Endname -> BOOLEAN]
    BY DEF HarnessInv, Types
  <1>2. /\ s \in Seq(Op)
        /\ \A o \in Range(s) : \/ \E j \in Server : \/ o = EnableOp(endname(i, j), FALSE)
                                                    \/ o = EnableOp(endname(j, i), FALSE)
                               \/ \E name \in OpName : o = ServerOp(name, i)
        /\ Ordered(s) /\ OpsOn(s, i) = {"DeleteServer", "Copy", "Kill"}
        /\ \A j \in Server \ {i} : OpsOn(s, j) = {}
        /\ \A j \in Server : Before(s, EnableOp(endname(i, j), FALSE), ServerOp("Kill", i))
        /\ \A j \in Server : EnableOp(endname(j, i), FALSE) \in Range(s)
    BY <1>1, ShutParts
  <1>3. /\ Begin(s) /\ i \in kvservers /\ linked' = linked \ Of(i)
        /\ UNCHANGED <<gen, kvservers, saved, clerks>>
    BY DEF ShutdownServer
  <1> HIDE DEF s
  <1>4. script' = Kept(s) BY <1>3 DEF Begin
  <1>5. /\ script' \in Seq(Op) /\ Ordered(script')
        /\ Range(script') = {o \in Range(s) : Changes(o)}
        /\ \A j \in Server : Left(j)' = OpsOn(s, j)
        /\ \A x, y : Before(s, x, y) /\ Changes(x) /\ Changes(y) => Before(script', x, y)
    BY <1>2, <1>4, KeptOrdered
  <1>6. Begun BY <1>1, <1>3, <1>5 DEF Begun, Begin
  <1>7. Left(i)' = {"DeleteServer", "Copy", "Kill"} BY <1>2, <1>5
  <1>8. \A j \in Server : j # i => Left(j)' = {}
    <2>1. \A j \in Server : j # i => OpsOn(s, j) = {} BY <1>2
    <2> QED BY <1>5, <2>1
  <1>9. \A e : EnableOp(e, TRUE) \notin Range(script') /\ MakeEndOp(e) \notin Range(script')
    <2>1. ASSUME NEW e, EnableOp(e, TRUE) \in Range(s) PROVE FALSE
      <3>1. CASE \E f : EnableOp(e, TRUE) = EnableOp(f, FALSE) BY <3>1, EnableOnly
      <3>2. CASE \E name \in OpName : EnableOp(e, TRUE) = ServerOp(name, i) BY <3>2, OpsApart
      <3> QED BY <1>2, <2>1, <3>1, <3>2
    <2>2. ASSUME NEW e, MakeEndOp(e) \in Range(s) PROVE FALSE
      <3>1. CASE \E f : MakeEndOp(e) = EnableOp(f, FALSE) BY <3>1, OpsApart
      <3>2. CASE \E name \in OpName : MakeEndOp(e) = ServerOp(name, i) BY <3>2, OpsApart
      <3> QED BY <1>2, <2>2, <3>1, <3>2
    <2> QED BY <1>5, <2>1, <2>2
  <1>10. ASSUME NEW j \in Server, enabled[endname(i, j)]
         PROVE  Before(script', EnableOp(endname(i, j), FALSE), ServerOp("Kill", i))
    <2>1. Changes(EnableOp(endname(i, j), FALSE)) BY <1>10, ChangesMeans
    <2>2. Changes(ServerOp("Kill", i)) BY ChangesMeans DEF OpName
    <2> QED BY <1>2, <1>5, <2>1, <2>2
  <1>11. ASSUME NEW j \in Server, NEW k \in Server, EnableOp(endname(j, k), FALSE) \in Range(script')
         PROVE  i \in {j, k}
    <2>1. PICK e : e = endname(j, k) OBVIOUS
    <2>2. EnableOp(e, FALSE) \in Range(s) BY <1>5, <1>11, <2>1
    <2>3. \A name \in OpName : EnableOp(e, FALSE) # ServerOp(name, i) BY OpsApart
    <2>4. PICK l \in Server : \/ EnableOp(e, FALSE) = EnableOp(endname(i, l), FALSE)
                              \/ EnableOp(e, FALSE) = EnableOp(endname(l, i), FALSE)
      BY <1>2, <2>2, <2>3
    <2>5. e = endname(i, l) \/ e = endname(l, i) BY <2>4, EnableOnly
    <2>6. CASE e = endname(i, l)
      <3>1. endname(j, k) = endname(i, l) BY <2>1, <2>6
      <3>2. j = i BY <3>1, EndsApart, SMTT(30)
      <3> QED BY <3>2
    <2>7. CASE e = endname(l, i)
      <3>1. endname(j, k) = endname(l, i) BY <2>1, <2>7
      <3>2. k = i BY <3>1, EndsApart, SMTT(30)
      <3> QED BY <3>2
    <2> QED BY <2>5, <2>6, <2>7
  <1>12. ASSUME NEW j \in Server, enabled[endname(j, i)]
         PROVE  EnableOp(endname(j, i), FALSE) \in Range(script')
    <2>1. Changes(EnableOp(endname(j, i), FALSE)) BY <1>12, ChangesMeans
    <2> QED BY <1>2, <1>5, <2>1
  <1> QED BY <1>3, <1>6, <1>7, <1>8, <1>9, <1>10, <1>11, <1>12, ShutBegun

\* config.StartServer.
LEMMA StartServerKeeps ==
  ASSUME HarnessInv, NEW i \in Server, StartServer(i)
  PROVE  HarnessInv'
  <1>1. gen \in [Server -> 0..MaxGen]
    BY DEF HarnessInv, Types
  <1>2. /\ i \notin kvservers /\ gen[i] < MaxGen /\ gen' = [gen EXCEPT ![i] = @ + 1]
        /\ Begin(StartOps(i, gen[i] + 1)) /\ UNCHANGED <<kvservers, saved, clerks, linked>>
    BY DEF StartServer
  <1>3. PICK g : g = gen[i] + 1 OBVIOUS
  <1>4. g \in 0..MaxGen BY <1>1, <1>2, <1>3, HarnessAssumption, SMT
  <1> DEFINE s == StartOps(i, g)
  <1>5. /\ s \in Seq(Op)
        /\ \A o \in Range(s) : \/ \E j \in Server : o = MakeEndOp(<<<<i, g>>, j>>)
                               \/ \E name \in OpName : o = ServerOp(name, i)
        /\ Ordered(s) /\ OpsOn(s, i) = {"Copy", "StartKVServer", "AddServer"}
        /\ \A j \in Server \ {i} : OpsOn(s, j) = {}
    BY <1>4, StartParts
  <1>6. Begin(s) BY <1>2, <1>3
  <1> HIDE DEF s
  <1>7. script' = Kept(s) BY <1>6 DEF Begin
  <1>8. /\ script' \in Seq(Op) /\ Ordered(script')
        /\ Range(script') = {o \in Range(s) : Changes(o)}
        /\ \A j \in Server : Left(j)' = OpsOn(s, j)
    BY <1>5, <1>7, KeptOrdered
  <1>9. Begun BY <1>1, <1>2, <1>6, <1>8 DEF Begun, Begin
  <1>10. Left(i)' = {"Copy", "StartKVServer", "AddServer"} BY <1>5, <1>8
  <1>11. \A j \in Server : j # i => Left(j)' = {}
    <2>1. \A j \in Server : j # i => OpsOn(s, j) = {} BY <1>5
    <2> QED BY <1>8, <2>1
  <1>12. \A e, yes : EnableOp(e, yes) \notin Range(script')
    <2>1. ASSUME NEW e, NEW yes, EnableOp(e, yes) \in Range(s) PROVE FALSE
      <3>1. CASE \E f : EnableOp(e, yes) = MakeEndOp(f) BY <3>1, OpsApart
      <3>2. CASE \E name \in OpName : EnableOp(e, yes) = ServerOp(name, i) BY <3>2, OpsApart
      <3> QED BY <1>5, <2>1, <3>1, <3>2
    <2> QED BY <1>8, <2>1
  <1>13. ASSUME NEW t, NEW j, MakeEndOp(<<t, j>>) \in Range(script') PROVE t = <<i, gen'[i]>>
    <2>1. PICK e : e = <<t, j>> OBVIOUS
    <2>2. MakeEndOp(e) \in Range(s) BY <1>8, <1>13, <2>1
    <2>3. \A name \in OpName : MakeEndOp(e) # ServerOp(name, i) BY OpsApart
    <2>4. PICK k \in Server : MakeEndOp(e) = MakeEndOp(<<<<i, g>>, k>>) BY <1>5, <2>2, <2>3
    <2>5. e = <<<<i, g>>, k>> BY <2>4, OpsApart
    <2>6. t = <<i, g>>
      <3>1. e[1] = t BY <2>1
      <3>2. e[1] = <<i, g>> BY <2>5
      <3> QED BY <3>1, <3>2
    <2>7. gen'[i] = g BY <1>1, <1>2, <1>3, SMT
    <2> QED BY <2>6, <2>7
  <1> QED BY <1>2, <1>9, <1>10, <1>11, <1>12, <1>13, StartBegun

\* make_config.
LEMMA HarnessInit == Init => HarnessInv
  <1> SUFFICES ASSUME Init PROVE HarnessInv OBVIOUS
  <1>1. gen = [i \in Server |-> 0] /\ linked = Server \X Server BY DEF Init
  <1>2. PICK yes \in BOOLEAN :
          script = Joined([k \in 1..n |-> StartOps(All[k], 0)]) \o connectAllOps \o <<ReliableOp(yes)>>
    BY DEF Init
  <1>3. /\ script \in Seq(Op) /\ Ordered(script)
        /\ \A i \in Server : Left(i) = {"Copy", "StartKVServer", "AddServer"}
        /\ \A i, j \in Server : EnableOp(endname(i, j), TRUE) \in Range(script)
        /\ \A e, on : EnableOp(e, on) \in Range(script) =>
             on = TRUE /\ \E i, j \in Server : e = endname(i, j)
        /\ \A e, f, on : ~Before(script, EnableOp(e, on), MakeEndOp(f))
    BY <1>1, <1>2, InitParts
  <1>4. \A i, j \in Server : Linked(i, j) = TRUE BY <1>1 DEF Linked
  <1> QED BY <1>3, <1>4, InitRight

\* Every step of the tester, of the network and of the servers keeps the invariant.
LEMMA HarnessNext == HarnessInv /\ [Next]_vars => HarnessInv'
  <1> SUFFICES ASSUME HarnessInv, [Next]_vars PROVE HarnessInv' OBVIOUS
  <1>1. CASE ConnectAll BY <1>1, ConnectAllKeeps
  <1>2. ASSUME NEW a \in Group, NEW b \in Group, partition(a, b) PROVE HarnessInv'
    BY <1>2, PartitionKeeps
  <1>3. ASSUME NEW ck \in Clerk, NEW to \in Group \cup {All}, makeClient(ck, to) PROVE HarnessInv'
    BY <1>3, MakeClientKeeps
  <1>4. ASSUME NEW ck \in Clerk, ConnectClient(ck, All) PROVE HarnessInv'
    BY <1>4, ConnectClientKeeps
  <1>5. ASSUME NEW i \in Server, ShutdownServer(i) PROVE HarnessInv' BY <1>5, ShutdownServerKeeps
  <1>6. ASSUME NEW i \in Server, StartServer(i) PROVE HarnessInv' BY <1>6, StartServerKeeps
  <1>7. CASE TesterStep
    <2>1. script \in Seq(Op) /\ Ordered(script) BY DEF HarnessInv, Types
    <2>2. Performed(Head(script)) BY <1>7, <2>1, HeadPerformed DEF TesterStep
    <2> QED BY <1>7, <2>2, OperationKeeps DEF TesterStep
  <1>8. ASSUME NEW c \in Caller, NEW j \in Server, Call(c, j) PROVE HarnessInv' BY <1>8, CallKeeps
  <1>9. ASSUME NEW c \in Caller, Handle(c) PROVE HarnessInv' BY <1>9, HandleKeeps
  <1>10. ASSUME NEW c \in Caller, NetStep(c) PROVE HarnessInv' BY <1>10, NetStepKeeps
  <1>11. ASSUME NEW c \in Caller, Reply(c) PROVE HarnessInv' BY <1>11, ReplyKeeps
  <1>12. ASSUME NEW o \in orphans, OrphanReturns(o) PROVE HarnessInv' BY <1>12, OrphanKeeps
  <1>13. CASE UNCHANGED vars BY <1>13, StutterKeeps
  <1> QED
    BY <1>1, <1>2, <1>3, <1>4, <1>5, <1>6, <1>7, <1>8, <1>9, <1>10, <1>11, <1>12, <1>13
    DEF Next, Tester

-----------------------------------------------------------------------------
(* What holds for any number of servers, clerks, calls and restarts        *)

\* What the tester has still to do, the table of the network, the instances that run, their
\* persisters and the calls under way fit together in every state.
THEOREM HarnessInvariant == Spec => []HarnessInv
  BY HarnessInit, HarnessNext, PTL DEF Spec

\* The variables of the tester and the network keep their types; in particular ShutdownServer and
\* StartServer make at most two persisters for each incarnation of a server.
THEOREM HarnessTyped == Spec => []TypeOK
  BY HarnessInvariant, TypesFollow, PTL

\* An update that a caller got a positive reply for is on the persister that the next instance of
\* that server is started from, however ShutdownServer (DeleteServer, then Copy, then Kill) falls
\* between the steps of the handler and of processReq: a handler of a deleted server may still save,
\* to the old persister, but isServerDead makes its reply an error.
THEOREM AckedNotLost == Spec => []AckedPersisted
  BY HarnessInvariant, AckedFollow, PTL

\* The ends of an instance that has been replaced stay disabled: ShutdownServer disables them, and
\* connect and partition name only the ends of the current instances.
THEOREM OldInstancesCut == Spec => []OldInstanceDisabled
  BY HarnessInvariant, OldFollow, PTL

\* An end between two servers that nothing is left to do on is enabled exactly if the last partition,
\* into any two groups, or ConnectAll put the two together and neither was shut down since, whatever
\* ends the functions before had enabled or disabled and whichever servers were restarted.
THEOREM PartitionsHold == Spec => []PartitionIsolates
  BY HarnessInvariant, GroupsFollow, PTL

=============================================================================
