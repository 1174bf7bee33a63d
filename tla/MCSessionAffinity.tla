-------------------------- MODULE MCSessionAffinity --------------------------
(* Small instances of SessionAffinity for TLC. *)
EXTENDS SessionAffinity, TLC

\* Nothing tells two requests, two keys or two providers apart.
Symmetry ==
    Permutations(Requests) \cup Permutations(Keys) \cup Permutations(Providers)

AnySet == (SUBSET Providers) \ {{}}
Pairs == {C \in SUBSET Providers : Cardinality(C) = 2}
=============================================================================
