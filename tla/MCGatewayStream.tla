-------------------------- MODULE MCGatewayStream ---------------------------
(* A small instance of GatewayStream for TLC. *)
EXTENDS GatewayStream, TLC

\* A placeholder, and one in two halves.
MCFragment ==
  {<<Open, Open, n, Close, Close>> : n \in Name}
    \cup {<<Open, Open, n>> : n \in Name} \cup {<<Close, Close>>}

Symmetric == Permutations(Channel)
=============================================================================
