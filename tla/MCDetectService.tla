-------------------------- MODULE MCDetectService ---------------------------
(* A small instance of DetectService for TLC: chunks of 3 characters in    *)
(* texts of 5.  Character 0 is the line end.                               *)
EXTENDS DetectService

\* A secret of a known form, a longer one that ends like a placeholder, a
\* custom word that is part of them, a name that takes the language pipeline,
\* a random one, three of GLiNER's of which the fallback model is sure of one
\* and does not know another, and a block of lines.
MCWord == {<<1, 2>>, <<1, 2, 3>>, <<1>>, <<2, 2>>, <<2, 1>>, <<3>>, <<3, 1>>, <<3, 2>>, <<1, 0, 1>>}

MCBy == [w \in Word |->
  CASE w = <<1>> -> "custom"
    [] w = <<2, 2>> -> "presidio"
    [] w = <<2, 1>> -> "entropy"
    [] w[1] = 3 -> "gliner"
    [] OTHER -> "gitleaks"]

MCScore == [w \in Word |-> IF w = <<3>> THEN 70 ELSE 60]

MCScoreV1 == [w \in Word |-> IF w = <<3, 2>> THEN 80 ELSE 90]

MCEntropy == [w \in Word |-> 40]

MCLabel == [w \in Word |-> IF w = <<3>> THEN "secret" ELSE "person"]

MCPolicy ==
  {[custom |-> {<<1>>}, allow |-> {}, labels |-> {}, threshold |-> 0, fastino |-> TRUE,
    entropy |-> 45, llm |-> FALSE],
   [custom |-> {}, allow |-> {<<1, 2>>}, labels |-> {"person", "secret"}, threshold |-> 65, fastino |-> FALSE,
    entropy |-> 40, llm |-> TRUE]}

MCNlp == {<<2, 2>>}

MCLookalike == {<<2, 3>>}

MCBlock == {<<1, 0, 1>>}

MCHint == {<<1>>}

\* A span of the text, one behind its end, one that ends before it begins.
MCLlmAnswer == {{}, {<<0, 2>>, <<2, 4>>, <<1, 1>>}}

MCText ==
  {<<1, 2, 3>>, <<2, 2>>, <<3, 2>>, <<2, 1, 3>>, <<2, 0, 1, 2, 0>>, <<1, 2, 0, 2, 1>>, <<1, 2, 0, 1, 2>>, <<2, 2, 1, 0, 1>>,
   <<1, 2, 3, 1, 2>>, <<3, 1, 0, 2, 3>>, <<2, 3, 1, 0, 3>>}
=============================================================================
