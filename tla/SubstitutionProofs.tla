------------------------- MODULE SubstitutionProofs -------------------------
(***************************************************************************)
(* For any texts, answers of the service and types: a scrubbed text        *)
(* rehydrates to the text it was made from, and every value the service    *)
(* reports behind narrow characters is in the vault.                       *)
(***************************************************************************)
EXTENDS Substitution, VaultProofs

Chars == UNION {Range(t) : t \in Text}

\* What a text consists of as JavaScript holds it.
Unit == {"unit"} \X Chars \X {1, 2}

\* The units of each character.
UnitsOf ==
  [c \in Chars |-> IF c \in Wide THEN <<<<"unit", c, 1>>, <<"unit", c, 2>>>> ELSE <<<<"unit", c, 1>>>>]

\* Texts are sequences of characters.
LEMMA TextType == \A t \in Text : t \in Seq(Chars)
<1> TAKE t \in Text
<1>1. t \in Seq(Range(t)) /\ Range(t) \subseteq Chars
  BY TextAssumption DEF Chars
<1> QED BY <1>1, SeqMonotonic

LEMMA UnitsOfType == UnitsOf \in Pieces(Chars, Unit) /\ \A c \in Chars : UnitsOf[c] \in Seq(Unit)
<1> SUFFICES ASSUME NEW c \in Chars PROVE UnitsOf[c] \in Seq(Unit)
  BY DEF UnitsOf, Pieces
<1>1. <<"unit", c, 1>> \in Unit /\ <<"unit", c, 2>> \in Unit
  BY DEF Unit
<1>2. <<<<"unit", c, 1>>, <<"unit", c, 2>>>> \in Seq(Unit) /\ <<<<"unit", c, 1>>>> \in Seq(Unit)
  <2> HIDE DEF Unit
  <2> QED BY <1>1
<1> QED BY <1>2 DEF UnitsOf

LEMMA UnitsMap ==
  ASSUME NEW s \in Seq(Chars)
  PROVE  Units(s) = FlatMap(UnitsOf, s)
<1>1. \A i \in DOMAIN s : s[i] \in Chars
  OBVIOUS
<1>2. [i \in DOMAIN s |-> IF s[i] \in Wide THEN <<<<"unit", s[i], 1>>, <<"unit", s[i], 2>>>>
                                           ELSE <<<<"unit", s[i], 1>>>>]
        = [i \in DOMAIN s |-> UnitsOf[s[i]]]
  BY <1>1 DEF UnitsOf
<1> QED BY <1>2 DEF Units, FlatMap, Mapped

\* The units of a text are those of its characters, one after the other.
LEMMA UnitsConcat ==
  ASSUME NEW s \in Seq(Chars), NEW t \in Seq(Chars)
  PROVE  Units(s \o t) = Units(s) \o Units(t) /\ Units(s) \in Seq(Unit)
<1>1. s \o t \in Seq(Chars)
  OBVIOUS
<1>2. FlatMap(UnitsOf, s \o t) = FlatMap(UnitsOf, s) \o FlatMap(UnitsOf, t) /\ FlatMap(UnitsOf, s) \in Seq(Unit)
  BY UnitsOfType, FlatMapConcat, FlatMapType
<1> QED BY <1>1, <1>2, UnitsMap

LEMMA UnitsOne ==
  ASSUME NEW c \in Chars
  PROVE  Units(<<c>>) = UnitsOf[c]
<1>1. <<c>> \in Seq(Chars)
  OBVIOUS
<1> QED BY <1>1, UnitsMap, UnitsOfType, FlatMapOne

LEMMA UnitsEmpty == Units(<<>>) = <<>>
<1>1. <<>> \in Seq(Chars)
  OBVIOUS
<1> QED BY <1>1, UnitsMap, FlatMapEmpty

\* A character has a unit at least, and a text of narrow characters has one
\* for each.
LEMMA UnitsLength ==
  ASSUME NEW s \in Seq(Chars)
  PROVE  /\ Len(s) <= Len(Units(s))
         /\ (\A i \in 1 .. Len(s) : s[i] \notin Wide) =>
              Units(s) = [i \in 1 .. Len(s) |-> <<"unit", s[i], 1>>]
<1> DEFINE Narrow(q) == \A i \in 1 .. Len(q) : q[i] \notin Wide
           Ok(q) == /\ Len(q) <= Len(Units(q))
                    /\ Narrow(q) => Units(q) = [i \in 1 .. Len(q) |-> <<"unit", q[i], 1>>]
           T == {n \in Nat : \A q \in Seq(Chars) : Len(q) = n => Ok(q)}
<1>1. 0 \in T
  BY UnitsEmpty
<1>2. ASSUME NEW n \in Nat, n \in T PROVE n + 1 \in T
  <2> SUFFICES ASSUME NEW q \in Seq(Chars), Len(q) = n + 1 PROVE Ok(q)
    OBVIOUS
  <2>1. PICK p \in Seq(Chars), c \in Chars : q = Append(p, c) /\ Len(p) = n
    BY SeqSnoc
  <2>2. Ok(p)
    BY <1>2, <2>1
  <2>3. <<c>> \in Seq(Chars) /\ q = p \o <<c>>
    BY <2>1
  <2>4. Units(q) = Units(p) \o UnitsOf[c] /\ Units(p) \in Seq(Unit)
    BY <2>3, UnitsConcat, UnitsOne
  <2>5. UnitsOf[c] \in Seq(Unit) /\ Len(UnitsOf[c]) >= 1
    BY UnitsOfType DEF UnitsOf
  <2>6. Len(q) <= Len(Units(q))
    <3> HIDE DEF Unit
    <3>1. Len(Units(q)) = Len(Units(p)) + Len(UnitsOf[c])
      BY <2>4, <2>5
    <3> QED BY <2>1, <2>2, <2>4, <2>5, <3>1
  <2>7. ASSUME Narrow(q) PROVE Units(q) = [i \in 1 .. Len(q) |-> <<"unit", q[i], 1>>]
    <3>1. Narrow(p) /\ c \notin Wide
      <4>1. q[n + 1] = c /\ \A i \in 1 .. n : q[i] = p[i]
        BY <2>1
      <4> QED BY <2>1, <2>7, <4>1
    <3>2. Units(p) = [i \in 1 .. n |-> <<"unit", p[i], 1>>] /\ UnitsOf[c] = <<<<"unit", c, 1>>>>
      BY <2>1, <2>2, <3>1 DEF UnitsOf
    <3>3. Units(q) = Append(Units(p), <<"unit", c, 1>>)
      BY <2>4, <3>2
    <3> QED BY <2>1, <3>2, <3>3
  <2> QED BY <2>6, <2>7
<1> HIDE DEF T
<1>3. Len(s) \in T
  BY <1>1, <1>2, NatSetInduction
<1> QED BY <1>3 DEF T

\* The units up to a span that only narrow characters precede.
LEMMA UnitsPrefix ==
  ASSUME NEW s \in Seq(Chars), NEW a \in Nat, NEW b \in Nat, a < b, b <= Len(s),
         \A i \in 1 .. b : s[i] \notin Wide
  PROVE  SubSeq(Units(s), a + 1, b) = Units(SubSeq(s, a + 1, b))
<1> DEFINE p == SubSeq(s, 1, b)
           r == SubSeq(s, b + 1, Len(s))
           m == SubSeq(s, a + 1, b)
<1>1. p \in Seq(Chars) /\ r \in Seq(Chars) /\ m \in Seq(Chars) /\ s = p \o r
      /\ Len(p) = b /\ Len(m) = b - a
      /\ (\A i \in 1 .. b : p[i] = s[i]) /\ (\A i \in 1 .. b - a : m[i] = s[a + i])
  <2>1. p \in Seq(Chars) /\ Len(p) = b /\ \A i \in 1 .. b : p[i] = s[i]
    <3>1. 0 \in Nat /\ 0 <= b /\ 0 + 1 = 1 /\ b - 0 = b /\ \A i \in 1 .. b : 0 + i = i
      OBVIOUS
    <3> QED BY <3>1, PartOK
  <2>2. m \in Seq(Chars) /\ Len(m) = b - a /\ \A i \in 1 .. b - a : m[i] = s[a + i]
    <3>1. a <= b
      OBVIOUS
    <3> QED BY <3>1, PartOK
  <2>3. r \in Seq(Chars)
    <3>1. Len(s) \in Nat /\ Len(s) <= Len(s)
      OBVIOUS
    <3> QED BY <3>1, PartOK
  <2>4. s = p \o r
    <3>1. b \in 0 .. Len(s)
      OBVIOUS
    <3> QED BY <3>1, SplitAt
  <2> QED BY <2>1, <2>2, <2>3, <2>4
<1> HIDE DEF p, r, m
<1>2. Units(s) = Units(p) \o Units(r) /\ Units(p) \in Seq(Unit) /\ Units(r) \in Seq(Unit)
  BY <1>1, UnitsConcat
<1>3. Units(p) = [i \in 1 .. b |-> <<"unit", s[i], 1>>]
  <2>1. \A i \in 1 .. Len(p) : p[i] \notin Wide
    BY <1>1
  <2>2. Units(p) = [i \in 1 .. Len(p) |-> <<"unit", p[i], 1>>]
    BY <1>1, <2>1, UnitsLength
  <2> QED BY <1>1, <2>2
<1>4. Units(m) = [i \in 1 .. b - a |-> <<"unit", s[a + i], 1>>]
  <2>1. \A i \in 1 .. Len(m) : m[i] \notin Wide
    <3> TAKE i \in 1 .. Len(m)
    <3>1. i \in 1 .. b - a /\ a + i \in 1 .. b
      BY <1>1
    <3> QED BY <1>1, <3>1
  <2>2. Units(m) = [i \in 1 .. Len(m) |-> <<"unit", m[i], 1>>]
    BY <1>1, <2>1, UnitsLength
  <2> QED BY <1>1, <2>2
<1>5. \A i \in 1 .. b : Units(s)[i] = <<"unit", s[i], 1>>
  <2> HIDE DEF Unit
  <2>1. Len(Units(p)) = b
    BY <1>3
  <2> QED BY <1>2, <1>3, <2>1
<1>6. SubSeq(Units(s), a + 1, b) = [i \in 1 .. b - a |-> <<"unit", s[a + i], 1>>]
  <2> DEFINE v == SubSeq(Units(s), a + 1, b)
  <2>1. Units(s) \in Seq(Unit) /\ b <= Len(Units(s)) /\ a <= b
    <3>1. Len(s) <= Len(Units(s)) /\ Units(s) \in Seq(Unit)
      BY UnitsLength, UnitsConcat
    <3>2. Len(s) \in Nat /\ Len(Units(s)) \in Nat
      BY <3>1, LenProperties
    <3> QED BY <3>1, <3>2
  <2>2. v \in Seq(Unit) /\ Len(v) = b - a /\ \A i \in 1 .. b - a : v[i] = Units(s)[a + i]
    BY <2>1, PartOK
  <2> HIDE DEF v
  <2>3. \A i \in 1 .. b - a : v[i] = <<"unit", s[a + i], 1>>
    <3> TAKE i \in 1 .. b - a
    <3>1. a + i \in 1 .. b
      OBVIOUS
    <3> QED BY <1>5, <2>2, <3>1
  <2>4. v = [i \in 1 .. b - a |-> v[i]]
    BY <2>2, LenProperties
  <2>5. v = [i \in 1 .. b - a |-> <<"unit", s[a + i], 1>>]
    BY <2>3, <2>4
  <2> QED BY <2>5 DEF v
<1> QED BY <1>4, <1>6 DEF m

-----------------------------------------------------------------------------
\* What text is made of while spans are replaced by names of a vault.
Element(v) == Unit \cup DOMAIN v.forward

\* What rehydrate turns each element into.
BackOf(v) ==
  [e \in Element(v) |-> IF e \in DOMAIN v.forward /\ e[1] \in Rehydratable THEN v.forward[e] ELSE <<e>>]

\* The values of the vault are texts.
ValuesAreTexts(v) == \A p \in DOMAIN v.forward : v.forward[p] \in Seq(Unit)

\* Up to the end of a span still to be replaced nothing has been changed.
Untouched ==
  \A sp \in todo : sp.end <= Len(out) /\ \A i \in 1 .. sp.end : out[i] = Units(text)[i]

\* All names in a text are of types whose names rehydrate.
Clean(v, s) == \A i \in DOMAIN s : s[i] \in DOMAIN v.forward => s[i][1] \in Rehydratable

\* RoundTrip, while the spans are replaced.
Restorable == Clean(vault, out) => FlatMap(BackOf(vault), out) = Units(text)

\* ExactIfNarrow, of the spans that have been replaced.
Recorded == \A sp \in spans \ todo : NarrowUpTo(sp) => Reported(sp) \in DOMAIN vault.reverse

(***************************************************************************)
(* The inductive invariant: spans are taken from last to first, so the     *)
(* text before those that are left is still the original.                  *)
(***************************************************************************)
IndInv ==
  /\ VaultOK(vault) /\ ValuesAreTexts(vault)
  /\ text \in Text \cup {<<>>} /\ texts \in 0 .. MaxTexts
  /\ spans \in Answers(text) /\ todo \subseteq spans
  /\ out \in Seq(Element(vault))
  /\ Untouched /\ Restorable /\ Recorded

-----------------------------------------------------------------------------
\* A name of the vault is no unit of a text.
LEMMA NamesAreNoUnits ==
  ASSUME NEW v, VaultOK(v)
  PROVE  Unit \cap DOMAIN v.forward = {}
BY DEF VaultOK, NamesOK, Placeholder, Unit

LEMMA BackOfType ==
  ASSUME NEW v, VaultOK(v), ValuesAreTexts(v)
  PROVE  BackOf(v) \in Pieces(Element(v), Element(v))
<1> SUFFICES ASSUME NEW e \in Element(v) PROVE BackOf(v)[e] \in Seq(Element(v))
  BY DEF BackOf, Pieces
<1>1. CASE e \in DOMAIN v.forward /\ e[1] \in Rehydratable
  <2>1. BackOf(v)[e] = v.forward[e]
    BY <1>1 DEF BackOf
  <2>2. v.forward[e] \in Seq(Unit) /\ Unit \subseteq Element(v)
    BY <1>1 DEF ValuesAreTexts, Element
  <2> QED BY <2>1, <2>2, SeqMonotonic
<1>2. CASE ~(e \in DOMAIN v.forward /\ e[1] \in Rehydratable)
  <2>1. BackOf(v)[e] = <<e>>
    BY <1>2 DEF BackOf
  <2> QED BY <2>1
<1> QED BY <1>1, <1>2

\* Rehydrated is this replacement with the vault of the moment.
LEMMA RehydratedMap ==
  ASSUME NEW s \in Seq(Element(vault))
  PROVE  Rehydrated(s) = FlatMap(BackOf(vault), s)
<1>1. \A i \in DOMAIN s : s[i] \in Element(vault)
  OBVIOUS
<1>2. [i \in DOMAIN s |-> IF s[i] \in DOMAIN vault.forward /\ ~Unmatched(s[i]) THEN Rehydrate(vault, s[i]) ELSE <<s[i]>>]
        = Mapped(BackOf(vault), s)
  BY <1>1 DEF BackOf, Mapped, Unmatched, Rehydrate
<1> QED BY <1>2 DEF Rehydrated, FlatMap

\* Text without names stays as it is.
LEMMA BackUnits ==
  ASSUME NEW v, VaultOK(v), NEW s \in Seq(Unit)
  PROVE  /\ s \in Seq(Element(v))
         /\ FlatMap(BackOf(v), s) = s
         /\ \A i \in 1 .. Len(s) : s[i] \notin DOMAIN v.forward
<1>1. Unit \subseteq Element(v)
  BY DEF Element
<1>2. s \in Seq(Element(v))
  BY <1>1, SeqMonotonic
<1>3. \A i \in 1 .. Len(s) : s[i] \in Unit
  OBVIOUS
<1>4. \A i \in 1 .. Len(s) : s[i] \notin DOMAIN v.forward
  BY <1>3, NamesAreNoUnits
<1>5. \A i \in 1 .. Len(s) : BackOf(v)[s[i]] = <<s[i]>>
  BY <1>1, <1>3, <1>4 DEF BackOf
<1> QED BY <1>2, <1>4, <1>5, FlatMapSame

\* Names and values that are added do not change what a text rehydrates to.
LEMMA BackKept ==
  ASSUME NEW v, NEW w, VaultOK(w), NEW s \in Seq(Element(v)),
         \A n \in DOMAIN v.forward : n \in DOMAIN w.forward /\ w.forward[n] = v.forward[n]
  PROVE  /\ s \in Seq(Element(w))
         /\ FlatMap(BackOf(w), s) = FlatMap(BackOf(v), s)
<1>1. Element(v) \subseteq Element(w)
  BY DEF Element
<1>2. s \in Seq(Element(w))
  BY <1>1, SeqMonotonic
<1>3. \A e \in Element(v) : e \in DOMAIN w.forward => e \in DOMAIN v.forward
  BY NamesAreNoUnits DEF Element
<1>4. \A e \in Element(v) : BackOf(w)[e] = BackOf(v)[e]
  BY <1>1, <1>3 DEF BackOf
<1>5. \A i \in DOMAIN s : s[i] \in Element(v)
  OBVIOUS
<1>6. Mapped(BackOf(w), s) = Mapped(BackOf(v), s)
  BY <1>4, <1>5 DEF Mapped
<1> QED BY <1>2, <1>6 DEF FlatMap

\* Two parts of a text rehydrate one after the other.
LEMMA BackConcat ==
  ASSUME NEW v, VaultOK(v), ValuesAreTexts(v), NEW s \in Seq(Element(v)), NEW t \in Seq(Element(v))
  PROVE  FlatMap(BackOf(v), s \o t) = FlatMap(BackOf(v), s) \o FlatMap(BackOf(v), t)
<1> DEFINE h == BackOf(v)
<1>1. h \in Pieces(Element(v), Element(v))
  BY BackOfType
<1> HIDE DEF h
<1>2. FlatMap(h, s \o t) = FlatMap(h, s) \o FlatMap(h, t)
  BY ONLY <1>1, s \in Seq(Element(v)), t \in Seq(Element(v)), FlatMapConcat
<1> QED BY <1>2 DEF h

LEMMA BackConcat3 ==
  ASSUME NEW v, VaultOK(v), ValuesAreTexts(v), NEW s \in Seq(Element(v)),
         NEW m \in Seq(Element(v)), NEW t \in Seq(Element(v))
  PROVE  FlatMap(BackOf(v), (s \o m) \o t)
           = (FlatMap(BackOf(v), s) \o FlatMap(BackOf(v), m)) \o FlatMap(BackOf(v), t)
<1> DEFINE c == s \o m
<1>1. c \in Seq(Element(v)) /\ FlatMap(BackOf(v), c) = FlatMap(BackOf(v), s) \o FlatMap(BackOf(v), m)
  BY BackConcat
<1> HIDE DEF c
<1>2. FlatMap(BackOf(v), c \o t) = FlatMap(BackOf(v), c) \o FlatMap(BackOf(v), t)
  BY <1>1, BackConcat
<1> QED BY <1>1, <1>2 DEF c

\* Text with a name in its place, and with the text that the name is for.
Spliced(a, p, b) == (a \o <<p>>) \o b

Joined(a, m, b) == (a \o m) \o b

Part(s, a, b) == SubSeq(s, a + 1, b)

\* Two texts that begin alike have the same parts there.
LEMMA SamePart ==
  ASSUME NEW D, NEW E, NEW s \in Seq(D), NEW u \in Seq(E), NEW a \in Nat, NEW b \in Nat,
         a < b, b <= Len(s), b <= Len(u), \A i \in 1 .. b : s[i] = u[i]
  PROVE  /\ Part(s, a, b) = Part(u, a, b)
         /\ Part(s, a, b) \in Seq(D) /\ Part(s, a, b) \in Seq(E)
         /\ Part(s, a, b) # <<>>
<1> DEFINE x == SubSeq(s, a + 1, b)
           y == SubSeq(u, a + 1, b)
<1>1. x \in Seq(D) /\ Len(x) = b - a /\ \A i \in 1 .. b - a : x[i] = s[a + i]
  BY PartOK
<1>2. y \in Seq(E) /\ Len(y) = b - a /\ \A i \in 1 .. b - a : y[i] = u[a + i]
  BY PartOK
<1> HIDE DEF x, y
<1>3. \A i \in 1 .. b - a : x[i] = y[i]
  <2> TAKE i \in 1 .. b - a
  <2>1. a + i \in 1 .. b
    OBVIOUS
  <2> QED BY <1>1, <1>2, <2>1
<1>4. x = [i \in 1 .. b - a |-> x[i]] /\ y = [i \in 1 .. b - a |-> y[i]]
  BY <1>1, <1>2, LenProperties
<1>5. x = y
  BY <1>3, <1>4
<1>6. x # <<>>
  BY <1>1
<1> QED BY <1>1, <1>2, <1>5, <1>6 DEF x, y, Part

\* A part of the text that holds no name can be replaced by a name for it.
LEMMA ReplacePart ==
  ASSUME NEW v, VaultOK(v), ValuesAreTexts(v), NEW w, VaultOK(w), ValuesAreTexts(w),
         \A n \in DOMAIN v.forward : n \in DOMAIN w.forward /\ w.forward[n] = v.forward[n],
         NEW a \in Seq(Element(v)), NEW b \in Seq(Element(v)), NEW val \in Seq(Unit),
         NEW p \in DOMAIN w.forward, w.forward[p] = val
  PROVE  /\ a \in Seq(Element(w)) /\ b \in Seq(Element(w)) /\ p \in Element(w)
         /\ p[1] \in Rehydratable =>
              FlatMap(BackOf(w), Spliced(a, p, b)) = FlatMap(BackOf(v), Joined(a, val, b))
<1> DEFINE r == <<p>>
<1>1. val \in Seq(Element(v)) /\ FlatMap(BackOf(v), val) = val
  BY BackUnits
<1>2. /\ a \in Seq(Element(w)) /\ FlatMap(BackOf(w), a) = FlatMap(BackOf(v), a)
      /\ b \in Seq(Element(w)) /\ FlatMap(BackOf(w), b) = FlatMap(BackOf(v), b)
  BY BackKept
<1>3. p \in Element(w) /\ r \in Seq(Element(w))
  BY DEF Element
<1>5. ASSUME p[1] \in Rehydratable
      PROVE  FlatMap(BackOf(w), (a \o r) \o b) = FlatMap(BackOf(v), (a \o val) \o b)
  <2>1. FlatMap(BackOf(w), r) = val
    <3>1. BackOf(w)[p] = val
      BY <1>3, <1>5 DEF BackOf
    <3> QED BY <1>3, <3>1, BackOfType, FlatMapOne
  <2> HIDE DEF r
  <2>2. FlatMap(BackOf(v), (a \o val) \o b) = (FlatMap(BackOf(v), a) \o val) \o FlatMap(BackOf(v), b)
    <3>1. FlatMap(BackOf(v), (a \o val) \o b)
            = (FlatMap(BackOf(v), a) \o FlatMap(BackOf(v), val)) \o FlatMap(BackOf(v), b)
      BY ONLY VaultOK(v), ValuesAreTexts(v), a \in Seq(Element(v)), b \in Seq(Element(v)), <1>1, BackConcat3
    <3> QED BY <1>1, <3>1
  <2>3. FlatMap(BackOf(w), (a \o r) \o b) = (FlatMap(BackOf(w), a) \o val) \o FlatMap(BackOf(w), b)
    BY ONLY VaultOK(w), ValuesAreTexts(w), <1>2, <1>3, <2>1, BackConcat3
  <2> QED BY <1>2, <2>2, <2>3
<1> QED BY <1>2, <1>3, <1>5 DEF r, Spliced, Joined

\* What the vault holds after a value has been given a name.
LEMMA NamedValue ==
  ASSUME NEW v, VaultOK(v), ValuesAreTexts(v), NEW x \in Seq(Unit), x \in Value, NEW t \in Type,
         NEW w, w = GetPlaceholder(v, x, t)
  PROVE  /\ VaultOK(w) /\ ValuesAreTexts(w)
         /\ \A n \in DOMAIN v.forward : n \in DOMAIN w.forward /\ w.forward[n] = v.forward[n]
         /\ w.reverse[x] \in DOMAIN w.forward /\ w.forward[w.reverse[x]] = x
         /\ x \in DOMAIN w.reverse /\ DOMAIN v.reverse \subseteq DOMAIN w.reverse
<1>1. /\ VaultOK(w)
      /\ \A n \in DOMAIN v.forward : n \in DOMAIN w.forward /\ w.forward[n] = v.forward[n]
      /\ w.reverse[x] \in DOMAIN w.forward /\ w.forward[w.reverse[x]] = x
  BY GetPlaceholderOK
<1>2. CASE x \in DOMAIN v.reverse
  BY <1>1, <1>2 DEF GetPlaceholder
<1>3. CASE x \notin DOMAIN v.reverse
  <2>1. /\ w.forward = Put(v.forward, NextPlaceholder(v, t), x)
        /\ w.reverse = Put(v.reverse, x, NextPlaceholder(v, t))
    BY <1>3 DEF GetPlaceholder, Minted
  <2>2. ValuesAreTexts(w)
    BY <2>1 DEF ValuesAreTexts, Put
  <2>3. x \in DOMAIN w.reverse /\ DOMAIN v.reverse \subseteq DOMAIN w.reverse
    BY <2>1 DEF Put
  <2> QED BY <1>1, <2>2, <2>3
<1> QED BY <1>2, <1>3
\* One turn of the loop: the last part that is left is replaced by a name.
LEMMA ReplaceStep ==
  ASSUME NEW v, VaultOK(v), ValuesAreTexts(v), NEW s \in Seq(Element(v)), NEW u \in Seq(Unit),
         NEW a \in Nat, NEW b \in Nat, a < b, b <= Len(s), b <= Len(u),
         \A i \in 1 .. b : s[i] = u[i],
         Clean(v, s) => FlatMap(BackOf(v), s) = u,
         NEW x, x = Part(s, a, b), x \in Value, NEW t \in Type,
         NEW w, w = GetPlaceholder(v, x, t),
         NEW r, r = Spliced(Part(s, 0, a), w.reverse[x], Part(s, b, Len(s)))
  PROVE  /\ VaultOK(w) /\ ValuesAreTexts(w)
         /\ r \in Seq(Element(w))
         /\ Clean(w, r) => FlatMap(BackOf(w), r) = u
         /\ a <= Len(r) /\ \A i \in 1 .. a : r[i] = u[i]
         /\ x \in DOMAIN w.reverse /\ DOMAIN v.reverse \subseteq DOMAIN w.reverse
<1> DEFINE head == SubSeq(s, 1, a)
           tail == SubSeq(s, b + 1, Len(s))
           y == SubSeq(u, a + 1, b)
           p == w.reverse[x]
<1>0. a <= b /\ a <= Len(s) /\ Len(s) \in Nat /\ Len(u) \in Nat
  OBVIOUS
<1>1. head \in Seq(Element(v)) /\ Len(head) = a /\ \A i \in 1 .. a : head[i] = s[i]
  <2>1. 0 \in Nat /\ 0 <= a /\ 0 + 1 = 1 /\ a - 0 = a /\ \A i \in 1 .. a : 0 + i = i
    OBVIOUS
  <2> QED BY <1>0, <2>1, PartOK
<1>2. tail \in Seq(Element(v)) /\ Len(tail) = Len(s) - b /\ \A i \in 1 .. Len(s) - b : tail[i] = s[b + i]
  BY <1>0, PartOK
<1>5. x = y /\ x \in Seq(Element(v)) /\ x \in Seq(Unit) /\ x # <<>>
  <2>1. /\ Part(s, a, b) = Part(u, a, b)
        /\ Part(s, a, b) \in Seq(Element(v)) /\ Part(s, a, b) \in Seq(Unit)
        /\ Part(s, a, b) # <<>>
    BY ONLY s \in Seq(Element(v)), u \in Seq(Unit), a \in Nat, b \in Nat, a < b, b <= Len(s), b <= Len(u),
            \A i \in 1 .. b : s[i] = u[i], SamePart
  <2> QED BY <2>1 DEF Part
<1>6. s = Joined(head, x, tail)
  <2>1. s = SubSeq(s, 1, b) \o tail
    <3>1. b \in 0 .. Len(s)
      BY <1>0
    <3> QED BY <3>1, SplitAt
  <2>2. SubSeq(s, 1, b) = head \o x
    <3>1. 1 \in 1 .. Len(s) + 1 /\ a \in 1 - 1 .. Len(s) /\ b \in a .. Len(s)
      BY <1>0
    <3>2. SubSeq(s, 1, b) = SubSeq(s, 1, a) \o SubSeq(s, a + 1, b)
      BY ONLY <3>1, s \in Seq(Element(v)), ConcatAdjacentSubSeq
    <3>3. x = SubSeq(s, a + 1, b)
      BY DEF Part
    <3> QED BY <3>2, <3>3
  <2> QED BY <2>1, <2>2 DEF Joined
<1> HIDE DEF head, tail, y
<1>7. /\ VaultOK(w) /\ ValuesAreTexts(w)
      /\ \A n \in DOMAIN v.forward : n \in DOMAIN w.forward /\ w.forward[n] = v.forward[n]
      /\ p \in DOMAIN w.forward /\ w.forward[p] = x
      /\ x \in DOMAIN w.reverse /\ DOMAIN v.reverse \subseteq DOMAIN w.reverse
  <2> QED BY ONLY <1>5, VaultOK(v), ValuesAreTexts(v), x \in Value, t \in Type, w = GetPlaceholder(v, x, t), NamedValue
<1> HIDE DEF p
<1>8. r = Spliced(head, p, tail)
  <2>1. 0 + 1 = 1
    OBVIOUS
  <2> QED BY <2>1 DEF head, tail, p, Part
<1>9. /\ head \in Seq(Element(w)) /\ tail \in Seq(Element(w)) /\ p \in Element(w)
      /\ p[1] \in Rehydratable => FlatMap(BackOf(w), r) = FlatMap(BackOf(v), s)
  <2>1. head \in Seq(Element(v)) /\ tail \in Seq(Element(v)) /\ x \in Seq(Unit)
    BY ONLY <1>1, <1>2, <1>5
  <2>2. /\ head \in Seq(Element(w)) /\ tail \in Seq(Element(w)) /\ p \in Element(w)
        /\ p[1] \in Rehydratable =>
             FlatMap(BackOf(w), Spliced(head, p, tail)) = FlatMap(BackOf(v), Joined(head, x, tail))
    BY ONLY VaultOK(v), ValuesAreTexts(v), <1>7, <2>1, ReplacePart
  <2> QED BY ONLY <1>6, <1>8, <2>2
<1>10. /\ r \in Seq(Element(w)) /\ Len(r) = a + 1 + Len(tail) /\ r[a + 1] = p
       /\ \A i \in 1 .. a : r[i] = head[i]
       /\ \A i \in 1 .. Len(tail) : r[a + 1 + i] = tail[i]
  <2>1. LET q == Spliced(head, p, tail) IN
         /\ q \in Seq(Element(w)) /\ Len(q) = Len(head) + 1 + Len(tail) /\ q[Len(head) + 1] = p
         /\ \A i \in 1 .. Len(head) : q[i] = head[i]
         /\ \A i \in 1 .. Len(tail) : q[Len(head) + 1 + i] = tail[i]
    <3> DEFINE D == Element(w)
    <3>1. head \in Seq(D) /\ tail \in Seq(D) /\ p \in D
      BY <1>9
    <3> HIDE DEF D
    <3> QED BY ONLY <3>1 DEF Spliced, D
  <2> QED BY ONLY <1>1, <1>8, <2>1
<1>11. a <= Len(r) /\ \A i \in 1 .. a : r[i] = u[i]
  <2>1. a <= Len(r)
    BY <1>0, <1>1, <1>2, <1>10
  <2>2. \A i \in 1 .. a : s[i] = u[i]
    BY <1>0
  <2> QED BY <1>1, <1>10, <2>1, <2>2
<1>12. ASSUME Clean(w, r) PROVE FlatMap(BackOf(w), r) = u
  <2>1. DOMAIN r = 1 .. Len(r) /\ DOMAIN s = 1 .. Len(s)
    BY <1>10, LenProperties
  <2>2. p[1] \in Rehydratable
    <3>1. a + 1 \in DOMAIN r
      <4>1. DOMAIN r = 1 .. Len(r) /\ a \in Nat /\ Len(tail) \in Nat /\ Len(r) = a + 1 + Len(tail)
        BY <1>2, <1>10, <2>1, LenProperties
      <4> QED BY ONLY <4>1
    <3> QED BY <1>7, <1>10, <1>12, <3>1 DEF Clean
  <2>3. ASSUME NEW i \in DOMAIN s, s[i] \in DOMAIN v.forward PROVE s[i][1] \in Rehydratable
    <3>1. i > b
      <4>1. SUFFICES ASSUME i <= b PROVE FALSE
        BY <2>1
      <4>2. i \in 1 .. b /\ i \in 1 .. Len(u)
        BY <1>0, <2>1, <4>1
      <4>3. u[i] \in Unit
        BY ONLY <4>2, u \in Seq(Unit), ElementOfSeq
      <4>4. s[i] \in Unit
        BY <4>2, <4>3
      <4> QED BY <2>3, <4>4, NamesAreNoUnits
    <3>2. i - b \in 1 .. Len(tail) /\ a + 1 + (i - b) \in DOMAIN r /\ b + (i - b) = i
      <4>1. /\ i \in 1 .. Len(s) /\ i > b /\ DOMAIN r = 1 .. Len(r) /\ Len(s) \in Nat /\ a \in Nat /\ b \in Nat
            /\ Len(tail) = Len(s) - b /\ Len(r) = a + 1 + Len(tail)
        BY <1>0, <1>2, <1>10, <2>1, <3>1
      <4> QED BY ONLY <4>1
    <3>3. r[a + 1 + (i - b)] = s[i]
      BY <1>2, <1>10, <3>2
    <3> QED BY <1>7, <1>12, <2>3, <3>2, <3>3 DEF Clean
  <2>4. Clean(v, s)
    BY <2>3 DEF Clean
  <2> QED BY <1>9, <2>2, <2>4
<1> QED BY <1>5, <1>7, <1>10, <1>11, <1>12 DEF y

-----------------------------------------------------------------------------
LEMMA InitInv == ASSUME Init PROVE IndInv
<1>1. VaultOK(vault)
  BY EmptyVaultOK DEF Init
<1>2. ValuesAreTexts(vault)
  BY DEF Init, ValuesAreTexts, EmptyVault, EmptyMap
<1>3. FlatMap(BackOf(vault), out) = Units(text)
  BY FlatMapEmpty, UnitsEmpty DEF Init
<1>4. spans \in Answers(text)
  BY DEF Init, Answers
<1> QED BY <1>1, <1>2, <1>3, <1>4, MaxTextsAssumption DEF Init, IndInv, Untouched, Restorable, Recorded

\* What is replaced of a text is within its units.
LEMMA SpanInText ==
  ASSUME NEW c \in Seq(Chars), NEW answer \in Answers(c), NEW sp \in answer
  PROVE  /\ sp.start \in Nat /\ sp.end \in Nat /\ sp.start < sp.end
         /\ sp.end <= Len(c) /\ sp.end <= Len(Units(c)) /\ sp.type \in Type
         /\ Units(c) \in Seq(Unit)
         /\ \A other \in answer : other = sp \/ other.end <= sp.start \/ sp.end <= other.start
<1>1. /\ sp \in [start : 0 .. Len(c), end : 0 .. Len(c), type : Type] /\ sp.start < sp.end
      /\ \A other \in answer : other = sp \/ other.end <= sp.start \/ sp.end <= other.start
  BY DEF Answers
<1>2. Len(c) <= Len(Units(c)) /\ Len(c) \in Nat /\ Units(c) \in Seq(Unit)
  BY UnitsLength, UnitsConcat
<1>3. Len(Units(c)) \in Nat
  BY <1>2, LenProperties
<1> QED BY <1>1, <1>2, <1>3

LEMMA BeginInv ==
  ASSUME IndInv, NEW chars \in Text, NEW answer \in Answers(chars), Begin(chars, answer)
  PROVE  IndInv'
<1>1. chars \in Seq(Chars) /\ Units(chars) \in Seq(Unit)
  BY TextType, UnitsConcat
<1>2. /\ text' = chars /\ out' = Units(chars) /\ spans' = answer /\ todo' = answer /\ vault' = vault
      /\ texts' \in 0 .. MaxTexts
  BY MaxTextsAssumption DEF Begin, IndInv
<1>3. VaultOK(vault)' /\ ValuesAreTexts(vault)'
  BY <1>2 DEF IndInv
<1>4. (out \in Seq(Element(vault)))' /\ Restorable'
  <2>1. Units(chars) \in Seq(Element(vault)) /\ FlatMap(BackOf(vault), Units(chars)) = Units(chars)
    BY <1>1, BackUnits DEF IndInv
  <2> QED BY <1>2, <2>1 DEF Restorable
<1>5. Untouched'
  BY <1>1, <1>2, SpanInText DEF Untouched
<1>6. Recorded'
  BY <1>2 DEF Recorded
<1> QED BY <1>2, <1>3, <1>4, <1>5, <1>6 DEF IndInv

LEMMA ReplaceInv ==
  ASSUME IndInv, NEW sp \in todo, Replace(sp)
  PROVE  IndInv'
<1>1. text \in Seq(Chars) /\ text \in Text
  <2>1. sp \in spans /\ spans \in Answers(text)
    BY DEF IndInv
  <2>2. text # <<>>
    <3>1. SUFFICES ASSUME text = <<>> PROVE FALSE
      OBVIOUS
    <3>2. text \in Seq(Chars)
      BY <3>1
    <3>3. sp.start < sp.end /\ sp.end <= 0 /\ sp.start \in Nat /\ sp.end \in Nat
      BY <2>1, <3>1, <3>2, SpanInText
    <3> QED BY <3>3
  <2> QED BY <2>2, TextType DEF IndInv
<1> DEFINE a == sp.start
           b == sp.end
           u == Units(text)
           x == SubSeq(out, a + 1, b)
           w == GetPlaceholder(vault, x, sp.type)
           r == Spliced(SubSeq(out, 1, a), w.reverse[x], SubSeq(out, b + 1, Len(out)))
<1>2. /\ a \in Nat /\ b \in Nat /\ a < b /\ b <= Len(text) /\ b <= Len(u) /\ sp.type \in Type /\ u \in Seq(Unit)
      /\ \A other \in spans : other = sp \/ other.end <= a \/ b <= other.start
  BY <1>1, SpanInText DEF IndInv
<1>3. /\ VaultOK(vault) /\ ValuesAreTexts(vault) /\ out \in Seq(Element(vault))
      /\ b <= Len(out) /\ (\A i \in 1 .. b : out[i] = u[i])
      /\ (Clean(vault, out) => FlatMap(BackOf(vault), out) = u)
  BY DEF IndInv, Untouched, Restorable
<1> HIDE DEF a, b, u
<1>4. x = SubSeq(u, a + 1, b) /\ x # <<>>
  <2>1. Part(out, a, b) = Part(u, a, b) /\ Part(out, a, b) # <<>>
    BY ONLY <1>2, <1>3, SamePart
  <2> QED BY <2>1 DEF Part
<1>5. x \in Value
  <2> HIDE DEF x
  <2>1. Len(u) \in Nat
    BY <1>2, LenProperties
  <2>2. a \in 0 .. Len(u) /\ b \in 0 .. Len(u)
    BY <1>2, <2>1
  <2>3. Slice(u, a, b) \in Value
    BY <1>1, <1>2, <2>2, ValueAssumption DEF u
  <2>4. Slice(u, a, b) = SubSeq(u, a + 1, b)
    <3>1. (IF b < Len(u) THEN b ELSE Len(u)) = b
      BY <1>2, <2>1
    <3> QED BY <3>1 DEF Slice
  <2> QED BY <1>4, <2>3, <2>4
<1>6. /\ x # <<>>
      /\ VaultOK(w) /\ ValuesAreTexts(w)
      /\ r \in Seq(Element(w))
      /\ (Clean(w, r) => FlatMap(BackOf(w), r) = u)
      /\ a <= Len(r) /\ (\A i \in 1 .. a : r[i] = u[i])
      /\ x \in DOMAIN w.reverse /\ DOMAIN vault.reverse \subseteq DOMAIN w.reverse
  <2> DEFINE xx == x
             ww == w
             rr == r
  <2>1. xx = Part(out, a, b) /\ ww = GetPlaceholder(vault, xx, sp.type)
        /\ rr = Spliced(Part(out, 0, a), ww.reverse[xx], Part(out, b, Len(out)))
    BY 0 + 1 = 1 DEF Part
  <2> HIDE DEF xx, ww, rr
  <2>2. xx \in Value
    BY <1>5 DEF xx
  <2>3. /\ VaultOK(ww) /\ ValuesAreTexts(ww)
        /\ rr \in Seq(Element(ww))
        /\ (Clean(ww, rr) => FlatMap(BackOf(ww), rr) = u)
        /\ a <= Len(rr) /\ (\A i \in 1 .. a : rr[i] = u[i])
        /\ xx \in DOMAIN ww.reverse /\ DOMAIN vault.reverse \subseteq DOMAIN ww.reverse
    BY ONLY <1>2, <1>3, <2>1, <2>2, ReplaceStep
  <2> QED BY <1>4, <2>3 DEF xx, ww, rr
<1>7. vault' = w /\ out' = r /\ todo' = todo \ {sp} /\ text' = text /\ spans' = spans /\ texts' = texts
  <2>1. Len(out) \in Nat /\ a <= Len(out)
    BY <1>2, <1>3, LenProperties
  <2>2. Slice(out, a, b) = x /\ Slice(out, 0, a) = SubSeq(out, 1, a)
        /\ Slice(out, b, Len(out)) = SubSeq(out, b + 1, Len(out))
    <3>1. /\ (IF b < Len(out) THEN b ELSE Len(out)) = b /\ (IF a < Len(out) THEN a ELSE Len(out)) = a
          /\ (IF Len(out) < Len(out) THEN Len(out) ELSE Len(out)) = Len(out) /\ 0 + 1 = 1
      BY <1>2, <1>3, <2>1
    <3> QED BY <3>1 DEF Slice
  <2>3. x # <<>>
    BY <1>6
  <2> HIDE DEF x
  <2> QED BY <2>2, <2>3 DEF Replace, a, b, Spliced
<1> HIDE DEF x, w, r
<1>8. Untouched'
  <2> SUFFICES ASSUME NEW other \in todo \ {sp}
               PROVE  other.end <= Len(r) /\ \A i \in 1 .. other.end : r[i] = u[i]
    BY <1>7 DEF Untouched, u
  <2>1. other.end \in Nat /\ other.start \in Nat /\ other.start < other.end
    BY <1>1, SpanInText DEF IndInv
  <2>2. other.end <= a
    BY <1>2, <2>1 DEF IndInv, Replace, NextSpan, a
  <2>3. Len(r) \in Nat
    BY <1>6, LenProperties
  <2> QED BY <1>2, <1>6, <2>1, <2>2, <2>3
<1>9. Restorable'
  BY <1>6, <1>7 DEF Restorable, u
<1>10. Recorded'
  <2> SUFFICES ASSUME NEW one \in spans \ (todo \ {sp}), NarrowUpTo(one)
               PROVE  Reported(one) \in DOMAIN w.reverse
    BY <1>7 DEF Recorded, NarrowUpTo, Reported
  <2>1. CASE one \in spans \ todo
    BY <1>6, <2>1 DEF IndInv, Recorded
  <2>2. CASE one = sp
    <3>1. SubSeq(u, a + 1, b) = Units(SubSeq(text, a + 1, b))
      BY <1>1, <1>2, <2>2, UnitsPrefix DEF NarrowUpTo, a, b, u
    <3> QED BY <1>4, <1>6, <2>2, <3>1 DEF Reported, a, b
  <2> QED BY <2>1, <2>2
<1> QED BY <1>6, <1>7, <1>8, <1>9, <1>10 DEF IndInv

LEMMA IndInvSafe == ASSUME IndInv PROVE TypeOK /\ RoundTrip /\ ExactIfNarrow
<1>1. TypeOK
  BY DEF IndInv, TypeOK, VaultOK
<1>2. RoundTrip
  <2> SUFFICES ASSUME \A i \in DOMAIN out : ~Unmatched(out[i]) PROVE Rehydrated(out) = Units(text)
    BY DEF RoundTrip
  <2>1. Clean(vault, out)
    BY DEF Unmatched, Clean
  <2> QED BY <2>1, RehydratedMap DEF IndInv, Restorable
<1>3. ExactIfNarrow
  BY DEF IndInv, Recorded, ExactIfNarrow
<1> QED BY <1>1, <1>2, <1>3

LEMMA NextInv == ASSUME IndInv, [Next]_vars PROVE IndInv'
<1>1. CASE UNCHANGED vars
  BY <1>1 DEF vars, IndInv, Untouched, Restorable, Recorded, NarrowUpTo, Reported
<1>2. ASSUME NEW chars \in Text, NEW answer \in Answers(chars), Begin(chars, answer) PROVE IndInv'
  BY <1>2, BeginInv
<1>3. ASSUME NEW sp \in todo, Replace(sp) PROVE IndInv'
  BY <1>3, ReplaceInv
<1> QED BY <1>1, <1>2, <1>3 DEF Next

LEMMA Invariant == Spec => []IndInv
BY InitInv, NextInv, PTL DEF Spec

\* The variables of substitute's loop keep their types.
THEOREM TypeCorrect == Spec => []TypeOK
BY Invariant, IndInvSafe, PTL

\* A text in which all names are of types that rehydrate's pattern matches
\* rehydrates to the text it was made from (ADR-5), however many texts the
\* vault has served and whatever was in them.
THEOREM RestoredExactly == Spec => []RoundTrip
BY Invariant, IndInvSafe, PTL

\* What the service reports behind narrow characters is what the vault
\* records, although the text changes while spans are replaced (ADR-3).
THEOREM ReportedIsRecorded == Spec => []ExactIfNarrow
BY Invariant, IndInvSafe, PTL
=============================================================================
