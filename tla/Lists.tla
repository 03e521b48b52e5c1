-------------------------------- MODULE Lists --------------------------------
(***************************************************************************)
(* Lists as the daemon keeps them: JavaScript Maps and arrays in insertion *)
(* order, from which entries are dropped without moving the others.        *)
(* SelectSeq and SetToSortSeq would say the same; they are defined here    *)
(* without recursion, so that one can reason about them.                   *)
(***************************************************************************)
EXTENDS Naturals, Sequences, FiniteSets

Elements(s) == {s[i] : i \in DOMAIN s}

(* The numbers of the finite set S, the smallest first. *)
Rank(S, x) == Cardinality({y \in S : y <= x})
Ordered(S) == [k \in 1..Cardinality(S) |-> CHOOSE x \in S : Rank(S, x) = k]

(* What is left of s when every entry that is in S is dropped. *)
Without(s, S) ==
    LET at == Ordered({i \in DOMAIN s : s[i] \notin S})
    IN  [k \in DOMAIN at |-> s[at[k]]]

(* s without its i-th entry. *)
CutAt(s, i) == [j \in 1..(Len(s) - 1) |-> s[IF j < i THEN j ELSE j + 1]]

NoneTwice(s) == \A i, j \in DOMAIN s : s[i] = s[j] => i = j
=============================================================================
