------------------------------- MODULE Vault --------------------------------
(***************************************************************************)
(* The pseudonym table the extension keeps for a session (vault.ts), as a  *)
(* value: two maps that must stay mutual inverses, a counter per entity    *)
(* type and the number of values redacted.  The operators are the methods  *)
(* of class Vault, each returning the table the method leaves behind.      *)
(*                                                                         *)
(* A placeholder [[TYPE_n]] is the pair <<TYPE, n>>.  The module covers    *)
(* the bracket mode; the format-preserving one names the same pairs by     *)
(* look-alike strings.                                                     *)
(***************************************************************************)
EXTENDS Integers, FiniteSets, Functions

CONSTANTS
  Value,        \* sensitive strings
  Type,         \* entity types the detection service reports
  Rehydratable  \* the types whose name rehydrate's pattern [A-Z_]+ matches

ASSUME RehydratableAssumption == Rehydratable \subseteq Type

Placeholder == Type \X (Nat \ {0})

EmptyMap == [k \in {} |-> k]

EmptyVault ==
  [forward |-> EmptyMap, reverse |-> EmptyMap,
   counters |-> [t \in Type |-> 0], redactedCount |-> 0]

Put(map, key, val) ==
  [k \in DOMAIN map \cup {key} |-> IF k = key THEN val ELSE map[k]]

-----------------------------------------------------------------------------
(* getPlaceholder: a value already known keeps its placeholder, a new one  *)
(* takes the next number of the type it was detected under.                *)

\* Bug: the counter is read before it is incremented.
NextPlaceholderTooEarly(v, t) == <<t, v.counters[t]>>

NextPlaceholder(v, t) == <<t, v.counters[t] + 1>>

\* Bug: the incremented counter is not stored.
MintedCounterLost(v, x, t) ==
  [forward |-> Put(v.forward, NextPlaceholder(v, t), x),
   reverse |-> Put(v.reverse, x, NextPlaceholder(v, t)),
   counters |-> v.counters,
   redactedCount |-> v.redactedCount + 1]

Minted(v, x, t) ==
  [forward |-> Put(v.forward, NextPlaceholder(v, t), x),
   reverse |-> Put(v.reverse, x, NextPlaceholder(v, t)),
   counters |-> [v.counters EXCEPT ![t] = @ + 1],
   redactedCount |-> v.redactedCount + 1]

\* Bug: a known value is given a second placeholder.
GetPlaceholderAlwaysMints(v, x, t) == Minted(v, x, t)

GetPlaceholder(v, x, t) == IF x \in DOMAIN v.reverse THEN v ELSE Minted(v, x, t)

\* What a placeholder in a tool argument turns into; an unknown one is left.
Rehydrate(v, p) ==
  IF p \in DOMAIN v.forward /\ p[1] \in Rehydratable THEN v.forward[p] ELSE p

-----------------------------------------------------------------------------
(* The saved form has no reverse map: restoreFrom rebuilds it.             *)

Serialize(v) ==
  [forward |-> v.forward, counters |-> v.counters,
   redactedCount |-> v.redactedCount]

\* Bug: the counters are not taken over, so numbers are given out again.
RestoreFromForgettingCounters(d) ==
  [forward |-> d.forward, reverse |-> AntiFunction(d.forward),
   counters |-> [t \in Type |-> 0], redactedCount |-> d.redactedCount]

RestoreFrom(d) ==
  [forward |-> d.forward, reverse |-> AntiFunction(d.forward),
   counters |-> d.counters, redactedCount |-> d.redactedCount]

-----------------------------------------------------------------------------
(* What every reachable table satisfies.                                   *)

\* Placeholders are ones the counters have already given out.
NamesOK(v) ==
  /\ v.forward \in [DOMAIN v.forward -> Value]
  /\ DOMAIN v.forward \subseteq Placeholder
  /\ v.counters \in [Type -> Nat]
  /\ \A p \in DOMAIN v.forward : p[2] <= v.counters[p[1]]

\* The two maps are inverse to each other.
InverseOK(v) ==
  /\ DOMAIN v.reverse = Range(v.forward)
  /\ \A p \in DOMAIN v.forward : v.reverse[v.forward[p]] = p

\* The count shown to the user is the number of values replaced.
CountOK(v) ==
  /\ IsFiniteSet(DOMAIN v.forward)
  /\ v.redactedCount = Cardinality(DOMAIN v.forward)

VaultOK(v) == NamesOK(v) /\ InverseOK(v) /\ CountOK(v)

\* The table as the set of its entries.
Entries(v) == {<<p, v.forward[p]>> : p \in DOMAIN v.forward}
=============================================================================
