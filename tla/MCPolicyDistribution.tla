------------------------ MODULE MCPolicyDistribution ------------------------
(* A small instance of PolicyDistribution for TLC.                         *)
EXTENDS PolicyDistribution, TLC

CONSTANTS ssh, env, pem, host, person, iban, acme

MCDefault ==
  [deny |-> {ssh}, literals |-> <<>>, labels |-> {person, iban}, allow |-> {host}, threshold |-> 2,
   entropy |-> Absent, fail_open |-> FALSE]

\* One policy with a list of labels and a threshold below the default one, and
\* one that has no labels, a threshold above it, and does not say fail_open.
MCCentral ==
  LET first == [MCDefault EXCEPT !.deny = {env}, !.literals = <<acme>>, !.labels = {iban},
                                 !.threshold = 1, !.entropy = 3]
  IN  {first, [first EXCEPT !.labels = Absent, !.threshold = 4, !.entropy = Absent, !.fail_open = Absent]}

\* No file; one that adds a label, sets the thresholds to zero and tries to
\* loosen the rest; and one that has its labels null.
MCLocal ==
  LET empty == [deny |-> {}, literals |-> <<>>, labels |-> Absent, allow |-> Absent,
                threshold |-> Absent, entropy |-> Absent, fail_open |-> Absent]
  IN  {Absent,
       [deny |-> {pem}, literals |-> <<acme>>, labels |-> {person}, allow |-> {host, acme},
        threshold |-> 0, entropy |-> 0, fail_open |-> TRUE],
       [empty EXCEPT !.labels = Null]}

MCExtraDeny == {{pem}}

Symmetric == Permutations(Key)
=============================================================================
