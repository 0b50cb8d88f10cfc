----------------------------- MODULE MCPorcupine -----------------------------
(***************************************************************************)
(* The histories for TLC: every history of three operations on one key     *)
(* within the times below, histories of two operations on one key, one     *)
(* after the other or at the same time, with a third on another key, and   *)
(* the empty one.  Histories that differ only in the numbering of the      *)
(* operations are taken once.                                              *)
(***************************************************************************)
EXTENDS PorcupineProperties

Kinds == {<<GET, <<>>, <<>>>>, <<GET, <<>>, <<"a">>>>, <<PUT, <<"a">>, <<>>>>,
          <<APPEND, <<"a">>, <<>>>>, <<APPENDRET, <<"a">>, <<"a">>>>}
Intervals == {<<1, 2>>, <<1, 3>>, <<2, 3>>, <<3, 3>>}
Ops(key, kinds, intervals) ==
  {[Op |-> kind[1], Key |-> key, Value |-> kind[2], Call |-> i[1], Output |-> kind[3],
    Return |-> i[2]] : kind \in kinds, i \in intervals}

Rank(o) == 100 * o.Call + 10 * o.Return + o.Op
OneKey == {h \in [1..3 -> Ops(1, Kinds, Intervals)] : Rank(h[1]) <= Rank(h[2]) /\ Rank(h[2]) <= Rank(h[3])}
TwoKeys == {<<a, y, b>> : a, b \in Ops(1, Kinds, {<<1, 2>>, <<3, 3>>}),
                          y \in Ops(2, {<<GET, <<>>, <<>>>>, <<GET, <<>>, <<"a">>>>}, {<<1, 3>>})}
MCHistory == OneKey \cup TwoKeys \cup {<<>>}

=============================================================================
