----------------------------- MODULE MCGateway -----------------------------
(* Gateway with two backends in use; a third one, d, is disabled.          *)
EXTENDS Gateway, TLC

CONSTANTS a, b, d

TwoNames == <<a, b>>
TwoOne == a :> 2 @@ b :> 1
Equal == a :> 1 @@ b :> 1
NoLimit == a :> 0 @@ b :> 0
Small == a :> 1 @@ b :> 0
Tokens2 == [k \in Kinds |-> 2]
NoTokens == [k \in Kinds |-> 0]
OneRoute == [k \in Kinds |-> <<[backends |-> <<d, a, a>>, fallback |-> <<b>>, strategy |-> "least_connections"]>>]
NoRoute == [k \in Kinds |-> <<>>]
DefaultRoute == [backends |-> <<a, b, a>>, fallback |-> <<d>>, strategy |-> "weighted_round_robin"]
Symmetry == Permutations(Requests)
=============================================================================
