----------------------------- MODULE MCGateway ------------------------------
(* A small instance of Gateway for TLC: two sessions, one of which makes   *)
(* two requests.                                                           *)
EXTENDS Gateway, TLC

CONSTANTS a, b, r1, r2, r3

MCSessionOf == [r \in Request |-> IF r = r3 THEN b ELSE a]

\* Bodies of at most two values, each reported under one type.
MCBody ==
  {body \in SUBSET (Value \X Type) : Cardinality(body) <= 2 /\ \A f, g \in body : f[1] = g[1] => f = g}

\* The requests of one session are alike, and so are the values.
Symmetry == Permutations(Value) \cup Permutations({r1, r2})
=============================================================================
