------------------------------ MODULE Listings ------------------------------
(***************************************************************************)
(* What the exporter may expect of GitLab's list endpoints: items, numbered *)
(* in the order in which they were created, come newest first and in pages *)
(* cut out of that order by position, at the moment of the request.        *)
(***************************************************************************)
EXTENDS Naturals, FiniteSets

\* The orders in which a set can be written down, each element once.
Orders(S) ==
    {q \in [1..Cardinality(S) -> S] :
        /\ \A a, b \in 1..Cardinality(S) : a # b => q[a] # q[b]
        /\ \A x \in S : \E a \in 1..Cardinality(S) : q[a] = x}

NewestFirst(S) == {q \in Orders(S) : \A a, b \in DOMAIN q : a < b => q[a] > q[b]}

\* The position of an item: how many are listed up to and including it.
Rank(S, x) == Cardinality({y \in S : y >= x})

Page(S, n, size) == {x \in S : (n - 1) * size < Rank(S, x) /\ Rank(S, x) <= n * size}

\* NextPage is not 0.
HasNextPage(S, n, size) == Cardinality(S) > n * size
=============================================================================
