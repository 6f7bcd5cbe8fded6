---------------------------- MODULE VaultProofs -----------------------------
(***************************************************************************)
(* What the vault's operations preserve, for every table, value and type,  *)
(* and what is needed to reason about the texts its names stand in: how    *)
(* texts are put together from pieces.                                     *)
(***************************************************************************)
EXTENDS Vault, SequencesExt, FiniteSetTheorems, SequenceTheorems, TLAPS

\* What the saved form of a table satisfies.
FileOK(d) == NamesOK(d) /\ IsInjective(d.forward) /\ CountOK(d)

\* The constructor's table is consistent.
LEMMA EmptyVaultOK == VaultOK(EmptyVault)
<1>1. NamesOK(EmptyVault)
  BY DEF NamesOK, EmptyVault, EmptyMap
<1>2. InverseOK(EmptyVault)
  BY DEF InverseOK, EmptyVault, EmptyMap, Range
<1>3. CountOK(EmptyVault)
  BY FS_EmptySet DEF CountOK, EmptyVault, EmptyMap
<1> QED BY <1>1, <1>2, <1>3 DEF VaultOK

\* The forward map of a consistent table names each value once.
LEMMA ForwardInjective ==
  ASSUME NEW v, VaultOK(v)
  PROVE  IsInjective(v.forward)
BY DEF VaultOK, InverseOK, IsInjective

\* getPlaceholder keeps every entry and knows the value afterwards; the
\* table stays consistent because the next number of a type is unused.
LEMMA GetPlaceholderOK ==
  ASSUME NEW v, VaultOK(v), NEW x \in Value, NEW t \in Type
  PROVE  LET w == GetPlaceholder(v, x, t) IN
         /\ VaultOK(w)
         /\ \A n \in DOMAIN v.forward :
              n \in DOMAIN w.forward /\ w.forward[n] = v.forward[n]
         /\ w.reverse[x] \in DOMAIN w.forward
         /\ w.forward[w.reverse[x]] = x
<1> DEFINE w == GetPlaceholder(v, x, t)
           n == NextPlaceholder(v, t)
           m == Minted(v, x, t)
<1>1. CASE x \in DOMAIN v.reverse
  <2>1. w = v
    BY <1>1 DEF GetPlaceholder
  <2>2. PICK p \in DOMAIN v.forward : v.forward[p] = x
    BY <1>1 DEF VaultOK, InverseOK, Range
  <2>3. v.reverse[x] = p
    BY <2>2 DEF VaultOK, InverseOK
  <2> QED BY <2>1, <2>2, <2>3
<1>2. CASE x \notin DOMAIN v.reverse
  <2>1. w = m
    BY <1>2 DEF GetPlaceholder
  <2> HIDE DEF w
  <2>2. n \in Placeholder /\ n[1] = t /\ n[2] = v.counters[t] + 1
    BY DEF NextPlaceholder, Placeholder, VaultOK, NamesOK
  <2>3. n \notin DOMAIN v.forward
    BY <2>2 DEF VaultOK, NamesOK
  <2> HIDE DEF n
  <2>4. /\ m.forward = [k \in DOMAIN v.forward \cup {n} |-> IF k = n THEN x ELSE v.forward[k]]
        /\ m.reverse = [k \in DOMAIN v.reverse \cup {x} |-> IF k = x THEN n ELSE v.reverse[k]]
        /\ m.counters = [v.counters EXCEPT ![t] = @ + 1]
        /\ m.redactedCount = v.redactedCount + 1
    BY DEF Minted, Put, n
  <2> HIDE DEF m
  <2>5. NamesOK(m)
    <3>1. m.forward \in [DOMAIN m.forward -> Value] /\ DOMAIN m.forward \subseteq Placeholder
      BY <2>2, <2>4 DEF VaultOK, NamesOK
    <3>2. m.counters \in [Type -> Nat]
      BY <2>4 DEF VaultOK, NamesOK
    <3>3. \A p \in DOMAIN m.forward : p[2] <= m.counters[p[1]]
      <4> TAKE p \in DOMAIN m.forward
      <4>1. CASE p = n
        BY <4>1, <2>2, <2>4 DEF VaultOK, NamesOK
      <4>2. CASE p # n
        <5>1. p \in DOMAIN v.forward /\ p[2] <= v.counters[p[1]] /\ p \in Type \X (Nat \ {0})
          BY <4>2, <2>4 DEF VaultOK, NamesOK, Placeholder
        <5>2. m.counters[p[1]] \in {v.counters[p[1]], v.counters[p[1]] + 1}
          BY <5>1, <2>4 DEF VaultOK, NamesOK
        <5> QED BY <5>1, <5>2 DEF VaultOK, NamesOK
      <4> QED BY <4>1, <4>2
    <3> QED BY <3>1, <3>2, <3>3 DEF NamesOK
  <2>6. InverseOK(m)
    <3>1. DOMAIN m.reverse = Range(m.forward)
      BY <2>3, <2>4 DEF VaultOK, InverseOK, Range
    <3>2. \A p \in DOMAIN m.forward : m.reverse[m.forward[p]] = p
      <4> TAKE p \in DOMAIN m.forward
      <4>1. CASE p = n
        BY <4>1, <2>4
      <4>2. CASE p # n
        <5>1. p \in DOMAIN v.forward /\ m.forward[p] = v.forward[p]
          BY <4>2, <2>4
        <5>2. v.forward[p] # x /\ v.forward[p] \in DOMAIN v.reverse
          BY <5>1, <1>2 DEF VaultOK, InverseOK, Range
        <5> QED BY <5>1, <5>2, <2>4 DEF VaultOK, InverseOK
      <4> QED BY <4>1, <4>2
    <3> QED BY <3>1, <3>2 DEF InverseOK
  <2>7. CountOK(m)
    <3>1. DOMAIN m.forward = DOMAIN v.forward \cup {n}
      BY <2>4
    <3> QED BY <3>1, <2>3, <2>4, FS_AddElement DEF VaultOK, CountOK
  <2>8. m.reverse[x] = n /\ n \in DOMAIN m.forward /\ m.forward[n] = x
    BY <2>4
  <2>9. \A k \in DOMAIN v.forward : k \in DOMAIN m.forward /\ m.forward[k] = v.forward[k]
    BY <2>3, <2>4
  <2> QED BY <2>1, <2>5, <2>6, <2>7, <2>8, <2>9 DEF VaultOK, w
<1> QED BY <1>1, <1>2

\* A consistent table can be saved.
LEMMA SerializeOK ==
  ASSUME NEW v, VaultOK(v)
  PROVE  FileOK(Serialize(v)) /\ Serialize(v).forward = v.forward
BY ForwardInjective DEF FileOK, Serialize, VaultOK, NamesOK, CountOK

\* The file that stands for none is well formed too.
LEMMA EmptyFileOK == FileOK(Serialize(EmptyVault))
BY EmptyVaultOK, SerializeOK

\* restoreFrom rebuilds the reverse map of a consistent table.
LEMMA RestoreFromOK ==
  ASSUME NEW d, FileOK(d)
  PROVE  VaultOK(RestoreFrom(d)) /\ RestoreFrom(d).forward = d.forward
<1> DEFINE v == RestoreFrom(d)
<1>1. /\ v.forward = d.forward /\ v.counters = d.counters
      /\ v.redactedCount = d.redactedCount /\ v.reverse = AntiFunction(d.forward)
  BY DEF RestoreFrom
<1> HIDE DEF v
<1>2. NamesOK(v) /\ CountOK(v)
  BY <1>1 DEF FileOK, NamesOK, CountOK
<1>3. DOMAIN v.reverse = Range(v.forward)
  BY <1>1 DEF AntiFunction, Inverse
<1>4. \A p \in DOMAIN v.forward : v.reverse[v.forward[p]] = p
  <2> TAKE p \in DOMAIN v.forward
  <2>1. d.forward[p] \in Range(d.forward)
    BY <1>1 DEF Range
  <2>2. v.reverse[d.forward[p]] = CHOOSE s \in DOMAIN d.forward :
          d.forward[p] \in Range(d.forward) => d.forward[s] = d.forward[p]
    BY <1>1, <2>1 DEF AntiFunction, Inverse
  <2>3. \A s \in DOMAIN d.forward : d.forward[s] = d.forward[p] => s = p
    BY <1>1 DEF FileOK, IsInjective
  <2> QED BY <1>1, <2>1, <2>2, <2>3
<1> QED BY <1>1, <1>2, <1>3, <1>4 DEF VaultOK, InverseOK, v

\* Minting adds one entry whose name and value are both new.
LEMMA MintedEntry ==
  ASSUME NEW v, VaultOK(v), NEW x \in Value, NEW t \in Type, x \notin DOMAIN v.reverse
  PROVE  /\ Entries(GetPlaceholder(v, x, t)) = Entries(v) \cup {<<NextPlaceholder(v, t), x>>}
         /\ <<NextPlaceholder(v, t), x>> \in Placeholder \X Value
         /\ \A e \in Entries(v) : e[1] # NextPlaceholder(v, t) /\ e[2] # x
<1> DEFINE n == NextPlaceholder(v, t)
           w == GetPlaceholder(v, x, t)
<1>1. n \in Placeholder /\ n[1] = t /\ n[2] = v.counters[t] + 1
  BY DEF NextPlaceholder, Placeholder, VaultOK, NamesOK
<1>2. n \notin DOMAIN v.forward
  BY <1>1 DEF VaultOK, NamesOK
<1> HIDE DEF n
<1>3. w.forward = [k \in DOMAIN v.forward \cup {n} |-> IF k = n THEN x ELSE v.forward[k]]
  BY DEF GetPlaceholder, Minted, Put, n
<1> HIDE DEF w
<1>4. Entries(w) = Entries(v) \cup {<<n, x>>}
  BY <1>2, <1>3 DEF Entries
<1>5. \A e \in Entries(v) : e[1] # n /\ e[2] # x
  BY <1>2 DEF Entries, VaultOK, InverseOK, Range
<1> QED BY <1>1, <1>4, <1>5 DEF n, w

-----------------------------------------------------------------------------
(* Texts made of pieces.                                                   *)

\* Induction: a set that has 0, and with a number the next, has all of them.
LEMMA NatSetInduction ==
  ASSUME NEW T, 0 \in T, \A n \in Nat : n \in T => n + 1 \in T
  PROVE  \A n \in Nat : n \in T
<1> DEFINE C == {n \in Nat : n \notin T}
<1> SUFFICES ASSUME C # {} PROVE FALSE
  OBVIOUS
<1>1. PICK n \in C : \A k \in C : ~(<<k, n>> \in OpToRel(<, Nat))
  BY NatLessThanWellFounded, WFMin
<1>2. \A k \in C : ~(k < n)
  BY <1>1 DEF OpToRel
<1>3. n \in Nat /\ n \notin T /\ n # 0
  BY <1>1
<1>4. n - 1 \in Nat /\ n - 1 < n /\ (n - 1) + 1 = n
  BY <1>3
<1>5. n - 1 \notin C
  BY <1>2, <1>4
<1> QED BY <1>3, <1>4, <1>5

\* The part of a text between two places.
LEMMA PartOK ==
  ASSUME NEW D, NEW s \in Seq(D), NEW a \in Nat, NEW b \in Nat, a <= b, b <= Len(s)
  PROVE  /\ SubSeq(s, a + 1, b) \in Seq(D)
         /\ Len(SubSeq(s, a + 1, b)) = b - a
         /\ \A i \in 1 .. b - a : SubSeq(s, a + 1, b)[i] = s[a + i]
<1>1. a + 1 \in Int /\ b \in Int /\ \A i \in a + 1 .. b : s[i] \in D
  OBVIOUS
<1>2. /\ SubSeq(s, a + 1, b) \in Seq(D)
      /\ Len(SubSeq(s, a + 1, b)) = IF a + 1 <= b THEN b - (a + 1) + 1 ELSE 0
      /\ \A i \in 1 .. b - (a + 1) + 1 : SubSeq(s, a + 1, b)[i] = s[a + 1 + i - 1]
  BY <1>1, SubSeqProperties
<1>3. \A i \in 1 .. b - a : SubSeq(s, a + 1, b)[i] = s[a + i]
  <2> TAKE i \in 1 .. b - a
  <2>1. i \in 1 .. b - (a + 1) + 1 /\ a + 1 + i - 1 = a + i
    OBVIOUS
  <2> QED BY <1>2, <2>1
<1> QED BY <1>2, <1>3

\* A text is what stands before a place and what stands behind it.
LEMMA SplitAt ==
  ASSUME NEW D, NEW s \in Seq(D), NEW a \in 0 .. Len(s)
  PROVE  s = SubSeq(s, 1, a) \o SubSeq(s, a + 1, Len(s))
<1>1. 1 \in 1 .. Len(s) + 1 /\ a \in 1 - 1 .. Len(s) /\ Len(s) \in a .. Len(s)
  OBVIOUS
<1> QED BY <1>1, ConcatAdjacentSubSeq, SubSeqFull

\* f has the text made of the first i pieces of s, for i up to n; this is the
\* equation FlattenSeq is defined by.
FlatEq(f, s, n) == f = [i \in 1 .. n |-> IF i = 1 THEN s[i] ELSE f[i - 1] \o s[i]]

\* The equation at one place.
LEMMA FlatValue ==
  ASSUME NEW f, NEW s, NEW n, FlatEq(f, s, n), NEW i \in 1 .. n
  PROVE  f[i] = IF i = 1 THEN s[i] ELSE f[i - 1] \o s[i]
BY DEF FlatEq

\* There is such a function, so FlattenSeq's choice is one.
LEMMA FlatExists ==
  ASSUME NEW s, NEW n \in Nat
  PROVE  \E f : FlatEq(f, s, n)
<1> DEFINE T == {k \in Nat : \E f : FlatEq(f, s, k)}
<1>1. 0 \in T
  <2>1. FlatEq([i \in {} |-> i], s, 0)
    BY DEF FlatEq
  <2> QED BY <2>1
<1>2. ASSUME NEW k \in Nat, k \in T PROVE k + 1 \in T
  <2>1. PICK f : FlatEq(f, s, k)
    BY <1>2
  <2> DEFINE g == [i \in 1 .. k + 1 |-> IF i = k + 1 THEN (IF i = 1 THEN s[i] ELSE f[i - 1] \o s[i]) ELSE f[i]]
  <2>2. \A i \in 1 .. k : f[i] = IF i = 1 THEN s[i] ELSE f[i - 1] \o s[i]
    BY <2>1 DEF FlatEq
  <2>3. \A i \in 1 .. k + 1 : g[i] = IF i = 1 THEN s[i] ELSE g[i - 1] \o s[i]
    BY <2>2
  <2>4. FlatEq(g, s, k + 1)
    BY <2>3 DEF FlatEq
  <2> QED BY <2>4
<1> HIDE DEF T
<1>3. n \in T
  BY <1>1, <1>2, NatSetInduction
<1> QED BY <1>3 DEF T

\* One more piece does not change what the earlier ones make.
LEMMA FlatPrefix ==
  ASSUME NEW s, NEW t, NEW n \in Nat, \A i \in 1 .. n : t[i] = s[i],
         NEW f, FlatEq(f, s, n), NEW g, FlatEq(g, t, n + 1)
  PROVE  \A i \in 1 .. n : f[i] = g[i]
<1> DEFINE T == {k \in Nat : k + 1 \in 1 .. n => f[k + 1] = g[k + 1]}
<1>1. \A i \in 1 .. n : f[i] = IF i = 1 THEN s[i] ELSE f[i - 1] \o s[i]
  BY FlatValue
<1>2. \A i \in 1 .. n + 1 : g[i] = IF i = 1 THEN t[i] ELSE g[i - 1] \o t[i]
  BY FlatValue
<1>3. 0 \in T
  BY <1>1, <1>2
<1>4. ASSUME NEW k \in Nat, k \in T PROVE k + 1 \in T
  <2> SUFFICES ASSUME k + 2 \in 1 .. n PROVE f[k + 2] = g[k + 2]
    OBVIOUS
  <2>1. f[k + 1] = g[k + 1] /\ (k + 2) - 1 = k + 1 /\ k + 2 # 1 /\ k + 2 \in 1 .. n + 1 /\ s[k + 2] = t[k + 2]
    BY <1>4
  <2>2. f[k + 2] = f[k + 1] \o s[k + 2]
    BY <1>1, <2>1
  <2>3. g[k + 2] = g[k + 1] \o t[k + 2]
    BY <1>2, <2>1
  <2> QED BY <2>1, <2>2, <2>3
<1>5. \A k \in Nat : k \in T
  BY <1>3, <1>4, NatSetInduction
<1> QED
  <2> TAKE i \in 1 .. n
  <2>1. i - 1 \in T /\ (i - 1) + 1 = i
    BY <1>5
  <2> QED BY <2>1

\* What FlattenSeq returns.
LEMMA FlatChosen ==
  ASSUME NEW s, Len(s) \in Nat, Len(s) # 0
  PROVE  \E f : FlatEq(f, s, Len(s)) /\ FlattenSeq(s) = f[Len(s)]
<1> DEFINE f == CHOOSE f : FlatEq(f, s, Len(s))
<1>1. FlatEq(f, s, Len(s))
  BY FlatExists
<1>2. FlattenSeq(s) = f[Len(s)]
  BY DEF FlattenSeq, FlatEq
<1> QED BY <1>1, <1>2

\* No pieces make the empty text.
LEMMA FlattenEmpty == FlattenSeq(<<>>) = <<>>
BY DEF FlattenSeq

\* A further piece is appended, whatever the pieces are.
LEMMA FlattenLonger ==
  ASSUME NEW s, NEW t, NEW n \in Nat, Len(s) = n, Len(t) = n + 1,
         \A i \in 1 .. n : t[i] = s[i]
  PROVE  FlattenSeq(t) = (IF n = 0 THEN t[1] ELSE FlattenSeq(s) \o t[n + 1])
<1>1. PICK g : FlatEq(g, t, n + 1) /\ FlattenSeq(t) = g[n + 1]
  BY FlatChosen
<1>2. g[n + 1] = IF n + 1 = 1 THEN t[n + 1] ELSE g[(n + 1) - 1] \o t[n + 1]
  <2>1. n + 1 \in 1 .. n + 1
    OBVIOUS
  <2> QED BY <1>1, <2>1, FlatValue
<1>3. CASE n = 0
  BY <1>1, <1>2, <1>3
<1>4. CASE n # 0
  <2>1. PICK f : FlatEq(f, s, n) /\ FlattenSeq(s) = f[n]
    BY <1>4, FlatChosen
  <2>2. \A i \in 1 .. n : f[i] = g[i]
    BY ONLY n \in Nat, \A i \in 1 .. n : t[i] = s[i], <1>1, <2>1, FlatPrefix
  <2>3. n \in 1 .. n /\ (n + 1) - 1 = n /\ n + 1 # 1
    BY <1>4
  <2> QED BY <1>1, <1>2, <1>4, <2>1, <2>2, <2>3
<1> QED BY <1>3, <1>4

\* The same of sequences of typed pieces.
LEMMA FlattenAppend ==
  ASSUME NEW E, NEW s \in Seq(Seq(E)), NEW p \in Seq(E)
  PROVE  FlattenSeq(Append(s, p)) = FlattenSeq(s) \o p
<1> DEFINE t == Append(s, p)
           n == Len(s)
<1>1. n \in Nat /\ Len(t) = n + 1 /\ t[n + 1] = p /\ \A i \in 1 .. n : t[i] = s[i]
  BY AppendProperties, LenProperties
<1>2. n = 0 => s = <<>>
  OBVIOUS
<1>3. <<>> \o p = p
  OBVIOUS
<1> HIDE DEF t, n
<1>4. FlattenSeq(t) = (IF n = 0 THEN t[1] ELSE FlattenSeq(s) \o t[n + 1])
  BY <1>1, FlattenLonger DEF n
<1>5. CASE n = 0
  <2>1. FlattenSeq(t) = p
    BY <1>1, <1>4, <1>5
  <2>2. FlattenSeq(s) = <<>>
    BY <1>2, <1>5, FlattenEmpty
  <2> QED BY <1>3, <2>1, <2>2 DEF t
<1>6. CASE n # 0
  BY <1>1, <1>4, <1>6 DEF t
<1> QED BY <1>5, <1>6

\* A sequence that is not empty is one that was appended to.
LEMMA SeqSnoc ==
  ASSUME NEW D, NEW q \in Seq(D), NEW n \in Nat, Len(q) = n + 1
  PROVE  \E p \in Seq(D), d \in D : q = Append(p, d) /\ Len(p) = n
<1>1. q # <<>>
  OBVIOUS
<1>2. PICK p \in Seq(D), d \in D : q = Append(p, d)
  BY <1>1, SequenceEmptyOrAppend
<1>3. Len(q) = Len(p) + 1 /\ Len(p) \in Nat
  BY <1>2, AppendProperties, LenProperties
<1> QED BY <1>2, <1>3

\* Pieces with elements in E make a text with elements in E.
LEMMA FlattenType ==
  ASSUME NEW E, NEW s \in Seq(Seq(E))
  PROVE  FlattenSeq(s) \in Seq(E)
<1> DEFINE P == Seq(E)
           T == {n \in Nat : \A q \in Seq(P) : Len(q) = n => FlattenSeq(q) \in P}
<1>1. 0 \in T
  <2>1. <<>> \in P
    OBVIOUS
  <2> HIDE DEF P
  <2>2. \A q \in Seq(P) : Len(q) = 0 => q = <<>>
    OBVIOUS
  <2> QED BY <2>1, <2>2, FlattenEmpty
<1>2. ASSUME NEW n \in Nat, n \in T PROVE n + 1 \in T
  <2> SUFFICES ASSUME NEW q \in Seq(P), Len(q) = n + 1 PROVE FlattenSeq(q) \in P
    OBVIOUS
  <2>1. PICK p \in Seq(P), e \in P : q = Append(p, e) /\ Len(p) = n
    <3> HIDE DEF P
    <3> QED BY SeqSnoc
  <2>2. FlattenSeq(p) \in P
    BY <1>2, <2>1
  <2>3. FlattenSeq(q) = FlattenSeq(p) \o e
    BY <2>1, FlattenAppend
  <2> QED BY <2>2, <2>3
<1>3. s \in Seq(P) /\ Len(s) \in Nat
  BY LenProperties
<1> HIDE DEF P, T
<1>4. Len(s) \in T
  BY <1>1, <1>2, <1>3, NatSetInduction
<1> QED BY <1>3, <1>4 DEF P, T

\* Texts made of pieces in two parts.
LEMMA FlattenConcat ==
  ASSUME NEW E, NEW s \in Seq(Seq(E)), NEW t \in Seq(Seq(E))
  PROVE  FlattenSeq(s \o t) = FlattenSeq(s) \o FlattenSeq(t)
<1> DEFINE P == Seq(E)
           T == {n \in Nat : \A q \in Seq(P) : Len(q) = n =>
                   FlattenSeq(s \o q) = FlattenSeq(s) \o FlattenSeq(q)}
<1>1. s \in Seq(P) /\ t \in Seq(P) /\ Len(t) \in Nat
  BY LenProperties
<1>2. 0 \in T
  <2>1. FlattenSeq(s) \o <<>> = FlattenSeq(s)
    BY FlattenType
  <2> HIDE DEF P
  <2>2. \A q \in Seq(P) : Len(q) = 0 => q = <<>> /\ s \o q = s
    BY <1>1
  <2> QED BY <2>1, <2>2, FlattenEmpty
<1>3. ASSUME NEW n \in Nat, n \in T PROVE n + 1 \in T
  <2> SUFFICES ASSUME NEW q \in Seq(P), Len(q) = n + 1
               PROVE FlattenSeq(s \o q) = FlattenSeq(s) \o FlattenSeq(q)
    OBVIOUS
  <2>1. PICK p \in Seq(P), e \in P : q = Append(p, e) /\ Len(p) = n
    <3> HIDE DEF P
    <3> QED BY SeqSnoc
  <2>2. FlattenSeq(s \o p) = FlattenSeq(s) \o FlattenSeq(p)
    BY <1>3, <2>1
  <2>3. s \o p \in Seq(P) /\ s \o q = Append(s \o p, e)
    <3> HIDE DEF P
    <3> QED BY <1>1, <2>1
  <2>4. FlattenSeq(s \o q) = FlattenSeq(s \o p) \o e
    BY <2>3, FlattenAppend
  <2>5. FlattenSeq(q) = FlattenSeq(p) \o e
    BY <2>1, FlattenAppend
  <2>6. FlattenSeq(s) \in P /\ FlattenSeq(p) \in P
    BY FlattenType
  <2>7. (FlattenSeq(s) \o FlattenSeq(p)) \o e = FlattenSeq(s) \o (FlattenSeq(p) \o e)
    <3> HIDE DEF P
    <3> QED BY <2>1, <2>6, ConcatAssociative
  <2> QED BY ONLY <2>2, <2>4, <2>5, <2>7
<1> HIDE DEF P, T
<1>4. Len(t) \in T
  BY <1>1, <1>2, <1>3, NatSetInduction
<1> QED BY <1>1, <1>4 DEF T

\* A single piece.
LEMMA FlattenOne ==
  ASSUME NEW E, NEW p \in Seq(E)
  PROVE  FlattenSeq(<<p>>) = p
<1>1. <<p>> = Append(<<>>, p) /\ <<>> \in Seq(Seq(E)) /\ <<>> \o p = p
  OBVIOUS
<1> QED BY <1>1, FlattenAppend, FlattenEmpty

\* Each element of s replaced by the piece that h has for it.
Mapped(h, s) == [i \in DOMAIN s |-> h[s[i]]]
FlatMap(h, s) == FlattenSeq(Mapped(h, s))

\* Pieces over E for each element of D.
Pieces(D, E) == [D -> Seq(E)]

\* The pieces that replace the elements of a text.
LEMMA MappedType ==
  ASSUME NEW D, NEW E, NEW h \in Pieces(D, E), NEW s \in Seq(D)
  PROVE  /\ Mapped(h, s) \in Seq(Seq(E))
         /\ Len(Mapped(h, s)) = Len(s)
         /\ \A i \in 1 .. Len(s) : Mapped(h, s)[i] = h[s[i]]
<1> DEFINE P == Seq(E)
<1>1. Len(s) \in Nat /\ DOMAIN s = 1 .. Len(s) /\ \A i \in 1 .. Len(s) : s[i] \in D
  OBVIOUS
<1>2. Mapped(h, s) = [i \in 1 .. Len(s) |-> h[s[i]]]
  BY <1>1 DEF Mapped
<1>3. \A i \in 1 .. Len(s) : h[s[i]] \in P
  BY <1>1 DEF Pieces
<1> HIDE DEF P
<1>4. Mapped(h, s) \in Seq(P) /\ Len(Mapped(h, s)) = Len(s)
  BY <1>1, <1>2, <1>3
<1> QED BY <1>2, <1>4 DEF P

\* Replacing element by element makes a text of what the pieces are made of.
LEMMA FlatMapType ==
  ASSUME NEW D, NEW E, NEW h \in Pieces(D, E), NEW s \in Seq(D)
  PROVE  FlatMap(h, s) \in Seq(E)
BY MappedType, FlattenType DEF FlatMap

\* Replacing element by element can be done in two parts.
LEMMA FlatMapConcat ==
  ASSUME NEW D, NEW E, NEW h \in Pieces(D, E), NEW s \in Seq(D), NEW t \in Seq(D)
  PROVE  FlatMap(h, s \o t) = FlatMap(h, s) \o FlatMap(h, t)
<1> DEFINE P == Seq(E)
<1>1. s \o t \in Seq(D) /\ Len(s \o t) = Len(s) + Len(t) /\ Len(s) \in Nat /\ Len(t) \in Nat
  OBVIOUS
<1>2. /\ Mapped(h, s) \in Seq(P) /\ Len(Mapped(h, s)) = Len(s)
      /\ \A i \in 1 .. Len(s) : Mapped(h, s)[i] = h[s[i]]
  BY MappedType
<1>3. /\ Mapped(h, t) \in Seq(P) /\ Len(Mapped(h, t)) = Len(t)
      /\ \A i \in 1 .. Len(t) : Mapped(h, t)[i] = h[t[i]]
  BY MappedType
<1>4. /\ Mapped(h, s \o t) \in Seq(P) /\ Len(Mapped(h, s \o t)) = Len(s) + Len(t)
      /\ \A i \in 1 .. Len(s) + Len(t) : Mapped(h, s \o t)[i] = h[(s \o t)[i]]
  <2> DEFINE u == s \o t
  <2>1. u \in Seq(D) /\ Len(u) = Len(s) + Len(t)
    BY <1>1
  <2> HIDE DEF u
  <2>2. /\ Mapped(h, u) \in Seq(P) /\ Len(Mapped(h, u)) = Len(u)
        /\ \A i \in 1 .. Len(u) : Mapped(h, u)[i] = h[u[i]]
    BY <2>1, MappedType
  <2> QED BY <2>1, <2>2 DEF u
<1>5. Mapped(h, s \o t) = Mapped(h, s) \o Mapped(h, t)
  <2> HIDE DEF P
  <2>1. /\ Mapped(h, s) \o Mapped(h, t) \in Seq(P)
        /\ Len(Mapped(h, s) \o Mapped(h, t)) = Len(s) + Len(t)
    <3> DEFINE a == Mapped(h, s)
               b == Mapped(h, t)
    <3>1. a \in Seq(P) /\ b \in Seq(P) /\ Len(a) = Len(s) /\ Len(b) = Len(t)
      BY ONLY <1>2, <1>3 DEF a, b
    <3> HIDE DEF a, b
    <3>2. a \o b \in Seq(P) /\ Len(a \o b) = Len(s) + Len(t)
      BY ONLY <3>1
    <3> QED BY <3>2 DEF a, b
  <2>2. ASSUME NEW i \in 1 .. Len(s) + Len(t)
        PROVE  Mapped(h, s \o t)[i] = (Mapped(h, s) \o Mapped(h, t))[i]
    <3>1. Mapped(h, s \o t)[i] = h[(s \o t)[i]]
      BY <1>4
    <3>2. CASE i <= Len(s)
      <4>1. (s \o t)[i] = s[i] /\ i \in 1 .. Len(s)
        BY <3>2
      <4>2. (Mapped(h, s) \o Mapped(h, t))[i] = Mapped(h, s)[i]
        BY <1>2, <1>3, <4>1
      <4> QED BY <1>2, <3>1, <4>1, <4>2
    <3>3. CASE ~(i <= Len(s))
      <4>1. (s \o t)[i] = t[i - Len(s)] /\ i - Len(s) \in 1 .. Len(t)
        BY <1>1, <3>3
      <4>2. (Mapped(h, s) \o Mapped(h, t))[i] = Mapped(h, t)[i - Len(s)]
        BY <1>2, <1>3, <3>3, <4>1
      <4> QED BY <1>3, <3>1, <4>1, <4>2
    <3> QED BY <3>2, <3>3
  <2> QED BY <1>4, <2>1, <2>2, SeqEqual
<1>6. FlattenSeq(Mapped(h, s) \o Mapped(h, t)) = FlattenSeq(Mapped(h, s)) \o FlattenSeq(Mapped(h, t))
  BY <1>2, <1>3, FlattenConcat
<1> QED BY <1>5, <1>6 DEF FlatMap

\* Replacing in a text of one element.
LEMMA FlatMapOne ==
  ASSUME NEW D, NEW E, NEW h \in Pieces(D, E), NEW d \in D
  PROVE  FlatMap(h, <<d>>) = h[d]
<1>1. Mapped(h, <<d>>) = <<h[d]>>
  BY DEF Mapped
<1>2. h[d] \in Seq(E)
  BY DEF Pieces
<1> QED BY <1>1, <1>2, FlattenOne DEF FlatMap

\* Replacing in the empty text.
LEMMA FlatMapEmpty == \A h : FlatMap(h, <<>>) = <<>>
<1>1. \A h : Mapped(h, <<>>) = <<>>
  BY DEF Mapped
<1> QED BY <1>1, FlattenEmpty DEF FlatMap

\* Replacing each element by itself changes nothing.
LEMMA FlatMapSame ==
  ASSUME NEW D, NEW h, NEW s \in Seq(D), \A i \in 1 .. Len(s) : h[s[i]] = <<s[i]>>
  PROVE  FlatMap(h, s) = s
<1> DEFINE one == [d \in D |-> <<d>>]
           T == {n \in Nat : \A q \in Seq(D) : Len(q) = n => FlatMap(one, q) = q}
<1>1. one \in Pieces(D, D) /\ \A d \in D : one[d] = <<d>>
  BY DEF Pieces
<1> HIDE DEF one
<1>2. 0 \in T
  BY FlatMapEmpty
<1>3. ASSUME NEW n \in Nat, n \in T PROVE n + 1 \in T
  <2> SUFFICES ASSUME NEW q \in Seq(D), Len(q) = n + 1 PROVE FlatMap(one, q) = q
    OBVIOUS
  <2>1. PICK p \in Seq(D), d \in D : q = Append(p, d) /\ Len(p) = n
    BY SeqSnoc
  <2>2. <<d>> \in Seq(D) /\ q = p \o <<d>> /\ one[d] = <<d>>
    BY <1>1, <2>1
  <2>3. FlatMap(one, q) = FlatMap(one, p) \o FlatMap(one, <<d>>)
    <3> DEFINE r == <<d>>
    <3>1. r \in Seq(D) /\ q = p \o r
      BY <2>2
    <3> HIDE DEF r
    <3>2. FlatMap(one, p \o r) = FlatMap(one, p) \o FlatMap(one, r)
      BY <1>1, <3>1, FlatMapConcat
    <3> QED BY <3>1, <3>2 DEF r
  <2>4. FlatMap(one, <<d>>) = <<d>>
    BY <1>1, <2>2, FlatMapOne
  <2>5. FlatMap(one, p) = p
    BY <1>3, <2>1
  <2> QED BY <2>2, <2>3, <2>4, <2>5
<1>4. FlatMap(h, s) = FlatMap(one, s)
  <2>1. \A i \in DOMAIN s : h[s[i]] = one[s[i]]
    <3>1. DOMAIN s = 1 .. Len(s) /\ \A i \in DOMAIN s : s[i] \in D
      OBVIOUS
    <3> QED BY <1>1, <3>1
  <2>2. Mapped(h, s) = Mapped(one, s)
    BY <2>1 DEF Mapped
  <2> QED BY <2>2 DEF FlatMap
<1> HIDE DEF T
<1>5. Len(s) \in T
  <2>1. Len(s) \in Nat
    OBVIOUS
  <2> QED BY <1>2, <1>3, <2>1, NatSetInduction
<1> QED BY <1>4, <1>5 DEF T
=============================================================================
