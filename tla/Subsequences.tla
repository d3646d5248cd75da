---------------------------- MODULE Subsequences ----------------------------
(* The part of a sequence at some of its positions, and a sequence of        *)
(* numbered elements in order, defined by counting and not by recursion:     *)
(* what SelectSeq and SortSeq compute, in a form the provers can use.        *)
EXTENDS Naturals, Sequences, FiniteSets

\* The place of position i among the positions of idx.
Rank(i, idx) == Cardinality({j \in idx : j <= i})

\* The elements of s at the positions of idx, in order.
Pick(s, idx) == [n \in 1..Cardinality(idx) |-> s[CHOOSE i \in idx : Rank(i, idx) = n]]

\* The place of s[i] when s is sorted by seq, which is stable.
Place(s, i) == Cardinality({j \in DOMAIN s : s[j].seq < s[i].seq \/ (s[j].seq = s[i].seq /\ j <= i)})
SortedBySeq(s) == [n \in 1..Len(s) |-> s[CHOOSE i \in DOMAIN s : Place(s, i) = n]]

=============================================================================
