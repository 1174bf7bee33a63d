------------------------- MODULE MCWeightedScheduler -------------------------
(* A small instance of WeightedScheduler for TLC. *)
EXTENDS WeightedScheduler

TwoScopes == {"chat", "responses"}

GivenWeights == <<{2}, {1}, {1, 2}>>

\* Every chat request finds the same candidates; those of the other scope come
\* and go.
Mixed == [s \in Scopes |->
            IF s = "chat" THEN {{1, 2}} ELSE (SUBSET Providers) \ {{}}]
=============================================================================
