-------------------------- MODULE MCGatewaySelection --------------------------
(* Small instances of GatewaySelection for TLC. *)
EXTENDS GatewaySelection

OneScope == {"chat"}

GivenWeights == <<{1}, {1, 2}>>

\* The first provider is now and then disabled.
Changing == [s \in Scopes |-> {Providers, Providers \ {1}}]
\* Two accounts that weigh the same, both always eligible.
EqualWeights == <<{1}, {1}>>
Steady == [s \in Scopes |-> {Providers}]
=============================================================================
