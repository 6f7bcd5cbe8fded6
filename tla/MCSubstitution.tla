--------------------------- MODULE MCSubstitution ---------------------------
(* A small instance of Substitution for TLC. *)
EXTENDS Substitution

CONSTANTS a, b, w

\* All texts of up to 3 characters, one of which is wide.
MCText == UNION {[1 .. n -> {a, b, w}] : n \in 1 .. 3}

MCValue == Seq({"unit"} \X {a, b, w} \X {1, 2})
=============================================================================
