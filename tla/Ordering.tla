------------------------------ MODULE Ordering ------------------------------
(***************************************************************************)
(* Sorting, as the code's sorted() and sort.Slice use it: by a key that    *)
(* orders the members strictly.                                            *)
(***************************************************************************)
EXTENDS Integers, FiniteSets

\* The members of S in a strict order: each behind those that come before it.
Ordered(S, before(_, _)) ==
    [n \in 1..Cardinality(S) |->
        CHOOSE x \in S : Cardinality({y \in S : before(y, x)}) = n - 1]

\* The elements of a sequence at some of its positions, in order.
Subsequence(s, positions) ==
    LET order == Ordered(positions, <) IN [n \in DOMAIN order |-> s[order[n]]]
=============================================================================
