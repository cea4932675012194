------------------------------- MODULE SeqOps -------------------------------
(***************************************************************************)
(* The filter loop of the code ("for ... if keep { alive = append(alive,    *)
(* x) }") as an operator on sequences.  It is defined by the places of the  *)
(* elements that stay, not by recursion, so that theorems can be proved     *)
(* about it.                                                                *)
(***************************************************************************)
EXTENDS Integers, Sequences, FiniteSets

\* The places of the elements of s that are in S, and how many there are up to
\* and including place i.
Places(s, S) == {i \in 1 .. Len(s) : s[i] \in S}
Rank(s, S, i) == Cardinality({j \in Places(s, S) : j <= i})

\* The elements of s that are in S, in the order they have in s.
Filter(s, S) ==
    [n \in 1 .. Cardinality(Places(s, S)) |->
        s[CHOOSE i \in Places(s, S) : Rank(s, S, i) = n]]
=============================================================================
