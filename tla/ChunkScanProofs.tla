-------------------------- MODULE ChunkScanProofs ---------------------------
(***************************************************************************)
(* For any chunk size, overlap, texts, words and policies, any size and age*)
(* of the cache, and any number of concurrent scans: short spans lie within*)
(* one chunk, the cache of clean chunks outlives a policy by a bounded     *)
(* time, and what a scan returns is exact and lacks no word that is short, *)
(* strong and long enough in force.                                        *)
(***************************************************************************)
EXTENDS ChunkScan, FiniteSetTheorems, SequenceTheorems, TLAPS

-----------------------------------------------------------------------------
(* The chunks of a text.                                                   *)

\* The property of integer division that the cutting of a text rests on.
LEMMA DivBounds ==
  ASSUME NEW a \in Nat, NEW d \in Nat \ {0}
  PROVE  /\ a \div d \in Nat
         /\ (a \div d) * d <= a
         /\ a < (a \div d) * d + d
OBVIOUS

\* chunker.ts:7-11, made exact: a span of at most Overlap + 1 characters,
\* wherever it lies in a text of any length, is within one of the chunks.
THEOREM ShortSpanInOneChunk ==
  ASSUME NEW len \in Nat, NEW a \in Nat, NEW b \in Nat,
         a < b, b <= len, b - a <= Overlap + 1
  PROVE  \E i \in Chunks(len) : Offset(i) <= a /\ b <= Offset(i) + ChunkSize
<1>1. CASE Whole(len)
  <2>1. 0 \in Chunks(len) /\ Offset(0) = 0
    BY <1>1, ChunkAssumption DEF Chunks, Offset, Stride
  <2> QED BY <1>1, <2>1, ChunkAssumption DEF Whole
<1>2. CASE ~Whole(len)
  <2> DEFINE k == a \div Stride
             n == (len - 1) \div Stride
  <2>1. Stride \in Nat \ {0}
    BY ChunkAssumption DEF Stride
  <2>2. k \in Nat /\ k * Stride <= a /\ a < k * Stride + Stride
    BY <2>1, DivBounds
  <2>3. len - 1 \in Nat /\ a <= len - 1
    OBVIOUS
  <2>4. n \in Nat /\ n * Stride <= len - 1 /\ len - 1 < n * Stride + Stride
    BY <2>1, <2>3, DivBounds
  <2> HIDE DEF k, n
  <2>5. k * Stride < (n + 1) * Stride
    BY <2>1, <2>2, <2>3, <2>4
  <2>6. k < n + 1
    BY <2>1, <2>2, <2>4, <2>5
  <2>7. k \in Chunks(len)
    BY <1>2, <2>2, <2>4, <2>6 DEF Chunks, n
  <2>8. b <= k * Stride + ChunkSize
    <3>1. k * Stride \in Nat /\ Stride + Overlap = ChunkSize
      BY <2>1, <2>2, ChunkAssumption DEF Stride
    <3> QED BY <2>1, <2>2, <3>1, ChunkAssumption
  <2> QED BY <2>2, <2>7, <2>8 DEF Offset
<1> QED BY <1>1, <1>2

-----------------------------------------------------------------------------
(* Numbers and sequences.                                                  *)

\* Induction over the numbers in a set.
LEMMA NatSetInduction ==
  ASSUME NEW T, 0 \in T, \A n \in Nat : n \in T => n + 1 \in T
  PROVE  \A n \in Nat : n \in T
<1> DEFINE C == {n \in Nat : n \notin T}
<1> SUFFICES ASSUME C # {} PROVE FALSE
  OBVIOUS
<1>1. PICK n \in C : \A k \in C : ~(<<k, n>> \in OpToRel(<, Nat))
  BY NatLessThanWellFounded, WFMin
<1>2. \A k \in C : ~(k < n)
  BY <1>1 DEF OpToRel
<1>3. n \in Nat /\ n \notin T /\ n # 0
  BY <1>1
<1>4. n - 1 \in Nat /\ n - 1 < n /\ (n - 1) + 1 = n
  BY <1>3
<1>5. n - 1 \notin C
  BY <1>2, <1>4
<1> QED BY <1>3, <1>4, <1>5

\* A part of a sequence, by what it holds.
LEMMA PartOK ==
  ASSUME NEW D, NEW s \in Seq(D), NEW a \in Nat, NEW b \in Nat, a <= b, b <= Len(s)
  PROVE  /\ SubSeq(s, a + 1, b) \in Seq(D)
         /\ Len(SubSeq(s, a + 1, b)) = b - a
         /\ \A i \in 1 .. b - a : SubSeq(s, a + 1, b)[i] = s[a + i]
<1>1. a + 1 \in Int /\ b \in Int /\ \A i \in a + 1 .. b : s[i] \in D
  OBVIOUS
<1>2. /\ SubSeq(s, a + 1, b) \in Seq(D)
      /\ Len(SubSeq(s, a + 1, b)) = IF a + 1 <= b THEN b - (a + 1) + 1 ELSE 0
      /\ \A i \in 1 .. b - (a + 1) + 1 : SubSeq(s, a + 1, b)[i] = s[a + 1 + i - 1]
  BY <1>1, SubSeqProperties
<1>3. \A i \in 1 .. b - a : SubSeq(s, a + 1, b)[i] = s[a + i]
  <2> TAKE i \in 1 .. b - a
  <2>1. i \in 1 .. b - (a + 1) + 1 /\ a + 1 + i - 1 = a + i
    OBVIOUS
  <2> QED BY <1>2, <2>1
<1> QED BY <1>2, <1>3

\* A set of numbers has a least one.
LEMMA LeastOf ==
  ASSUME NEW T, T \subseteq Nat, T # {}
  PROVE  \E n \in T : \A m \in T : n <= m
<1>1. PICK n \in T : \A k \in T : ~(<<k, n>> \in OpToRel(<, Nat))
  BY NatLessThanWellFounded, WFMin
<1>2. \A k \in T : ~(k < n)
  BY <1>1 DEF OpToRel
<1> QED BY <1>2

-----------------------------------------------------------------------------
(* The loop of mergeSpans.                                                 *)

\* Spans, as records.
SpanType == [start : Nat, end : Nat, score : Nat]

\* The loop has a next span as long as there are any.
LEMMA ForemostOK ==
  ASSUME NEW S, S \subseteq SpanType, S # {}
  PROVE  Foremost(S) \in S /\ \A y \in S \ {Foremost(S)} : Before(Foremost(S), y)
<1>1. \A x \in S : x.start \in Nat /\ x.end \in Nat /\ x.score \in Nat
                   /\ x = [start |-> x.start, end |-> x.end, score |-> x.score]
  BY DEF SpanType
<1>2. PICK a \in {x.start : x \in S} : \A b \in {x.start : x \in S} : a <= b
  <2>1. {x.start : x \in S} \subseteq Nat /\ {x.start : x \in S} # {}
    BY <1>1
  <2> QED BY <2>1, LeastOf
<1> DEFINE S1 == {x \in S : x.start = a}
<1>3. S1 # {}
  BY <1>2
<1>4. PICK e \in {x.end : x \in S1} : \A b \in {x.end : x \in S1} : e <= b
  <2>1. {x.end : x \in S1} \subseteq Nat /\ {x.end : x \in S1} # {}
    BY <1>1, <1>3
  <2> QED BY <2>1, LeastOf
<1> DEFINE S2 == {x \in S1 : x.end = e}
<1>5. S2 # {}
  BY <1>4
<1>6. PICK c \in {x.score : x \in S2} : \A b \in {x.score : x \in S2} : c <= b
  <2>1. {x.score : x \in S2} \subseteq Nat /\ {x.score : x \in S2} # {}
    BY <1>1, <1>5
  <2> QED BY <2>1, LeastOf
<1>7. PICK x \in S2 : x.score = c
  BY <1>6
<1>8. x \in S /\ x.start = a /\ x.end = e /\ x.score = c
  BY <1>7
<1>9. ASSUME NEW y \in S \ {x} PROVE Before(x, y)
  <2>1. y \in S /\ y # x
    OBVIOUS
  <2>2. a <= y.start
    BY <1>2, <2>1
  <2>3. y.start = a => e <= y.end
    BY <1>4, <2>1
  <2>4. y.start = a /\ y.end = e => c <= y.score
    BY <1>6, <2>1
  <2>5. ~(y.start = a /\ y.end = e /\ y.score = c)
    BY <1>1, <1>8, <2>1
  <2>6. y.start \in Nat /\ y.end \in Nat /\ y.score \in Nat /\ a \in Nat /\ e \in Nat /\ c \in Nat
    BY <1>1, <1>8, <2>1
  <2> QED BY ONLY <1>8, <2>2, <2>3, <2>4, <2>5, <2>6 DEF Before
<1> QED BY <1>8, <1>9 DEF Foremost

\* One turn of the loop.
Turned(last) ==
  LET span == Foremost(last.todo)
  IN  [todo |-> last.todo \ {span}, merged |-> Keep(last.merged, span)]

\* The equation the turns are defined by.
TurnEq(turn, S, n) ==
  turn = [k \in 0 .. n |-> IF k = 0 THEN [todo |-> S, merged |-> <<>>] ELSE Turned(turn[k - 1])]

\* It has a solution.
LEMMA TurnExists ==
  ASSUME NEW S, NEW n \in Nat
  PROVE  \E turn : TurnEq(turn, S, n)
<1> DEFINE T == {k \in Nat : \E turn : TurnEq(turn, S, k)}
           begin == [todo |-> S, merged |-> <<>>]
<1>1. 0 \in T
  <2> DEFINE g == [k \in 0 .. 0 |-> begin]
  <2>1. \A k \in 0 .. 0 : k = 0
    OBVIOUS
  <2>2. g = [k \in 0 .. 0 |-> IF k = 0 THEN begin ELSE Turned(g[k - 1])]
    BY <2>1
  <2> HIDE DEF g
  <2> QED BY <2>2 DEF TurnEq
<1>2. ASSUME NEW k \in Nat, k \in T PROVE k + 1 \in T
  <2>1. PICK f : TurnEq(f, S, k)
    BY <1>2
  <2> DEFINE g == [j \in 0 .. k + 1 |-> IF j = k + 1 THEN Turned(f[k]) ELSE f[j]]
  <2>2. \A j \in 0 .. k : f[j] = IF j = 0 THEN begin ELSE Turned(f[j - 1])
    BY <2>1 DEF TurnEq
  <2>3. \A j \in 0 .. k + 1 : g[j] = IF j = 0 THEN begin ELSE Turned(g[j - 1])
    <3> TAKE j \in 0 .. k + 1
    <3>1. CASE j = k + 1
      <4>1. j - 1 = k /\ k \in 0 .. k + 1 /\ k # k + 1 /\ j # 0
        BY <3>1
      <4>2. g[j - 1] = f[k] /\ g[j] = Turned(f[k])
        BY <3>1, <4>1
      <4> HIDE DEF g
      <4> QED BY <4>1, <4>2
    <3>2. CASE j # k + 1
      <4>1. j \in 0 .. k /\ (j # 0 => j - 1 \in 0 .. k + 1 /\ j - 1 # k + 1)
        BY <3>2
      <4>2. g[j] = f[j] /\ (j # 0 => g[j - 1] = f[j - 1])
        BY <3>2, <4>1
      <4> HIDE DEF g
      <4> QED BY <2>2, <4>1, <4>2
    <3> QED BY <3>1, <3>2
  <2>4. g = [j \in 0 .. k + 1 |-> g[j]]
    OBVIOUS
  <2> HIDE DEF g
  <2>5. TurnEq(g, S, k + 1)
    BY <2>3, <2>4 DEF TurnEq
  <2> QED BY <2>5
<1> HIDE DEF T
<1>3. n \in T
  BY <1>1, <1>2, NatSetInduction
<1> QED BY <1>3 DEF T

\* What mergeSpans returns is the list after the last turn.
LEMMA MergeTurns ==
  ASSUME NEW S, IsFiniteSet(S)
  PROVE  \E turn : /\ MergeSpans(S) = ToSet(turn[Cardinality(S)].merged)
                   /\ turn[0] = [todo |-> S, merged |-> <<>>]
                   /\ \A k \in Nat : k + 1 <= Cardinality(S) => turn[k + 1] = Turned(turn[k])
<1> DEFINE n == Cardinality(S)
           turn == CHOOSE turn : TurnEq(turn, S, n)
<1>1. n \in Nat
  BY FS_CardinalityType
<1>2. MergeSpans(S) = ToSet(turn[n].merged)
  BY DEF MergeSpans, TurnEq, Turned
<1> HIDE DEF n
<1>3. TurnEq(turn, S, n)
  BY <1>1, TurnExists
<1> HIDE DEF turn
<1>4. \A k \in 0 .. n : turn[k] = IF k = 0 THEN [todo |-> S, merged |-> <<>>] ELSE Turned(turn[k - 1])
  BY <1>3 DEF TurnEq
<1>5. turn[0] = [todo |-> S, merged |-> <<>>]
  BY <1>1, <1>4
<1>6. ASSUME NEW k \in Nat, k + 1 <= n PROVE turn[k + 1] = Turned(turn[k])
  <2>1. k + 1 \in 0 .. n /\ k + 1 # 0 /\ (k + 1) - 1 = k
    BY <1>1, <1>6
  <2> QED BY <1>4, <2>1
<1> QED BY <1>2, <1>5, <1>6 DEF n

\* The list after some turns, when the spans in todo are still to come.
ListOK(S, todo, list) ==
  /\ list \in Seq(S \ todo)
  /\ \A i, j \in DOMAIN list : i < j => list[i].end <= list[j].start
  /\ \A x \in S \ todo, y \in todo : x.start <= y.start

\* The spans Y of S share start and score.  Every other scores less or has no
\* part in common with any of them.
Standing(Y, S, a, c) ==
  /\ Y \subseteq S /\ \A y \in Y : y.start = a /\ y.score = c
  /\ \A z \in S \ Y : z.score < c \/ z.end <= a \/ \A y \in Y : y.end <= z.start

\* If one of Y is past, one of Y is in the list.
Listed(Y, todo, list) == (\E y \in Y : y \notin todo) => \E k \in DOMAIN list : list[k] \in Y

\* The last span of a list in another's place.
LEMMA Replaced ==
  ASSUME NEW D, NEW list \in Seq(D), list # <<>>, NEW E, NEW x \in E, D \subseteq E
  PROVE  LET r == Append(Front(list), x) IN
         /\ r \in Seq(E) /\ Len(r) = Len(list) /\ Len(list) \in Nat /\ Len(list) >= 1
         /\ r[Len(list)] = x /\ \A k \in 1 .. Len(list) - 1 : r[k] = list[k]
<1> DEFINE f == Front(list)
<1>1. Len(list) \in Nat /\ Len(list) >= 1
  OBVIOUS
<1>2. f = SubSeq(list, 1, Len(list) - 1)
  BY DEF Front
<1>3. f \in Seq(D) /\ Len(f) = Len(list) - 1 /\ \A k \in 1 .. Len(list) - 1 : f[k] = list[k]
  <2> DEFINE m == Len(list) - 1
  <2>1. 0 \in Nat /\ m \in Nat /\ 0 <= m /\ m <= Len(list)
    BY <1>1
  <2>2. 0 + 1 = 1 /\ m - 0 = m
    BY <2>1
  <2> HIDE DEF f, m
  <2>3. /\ SubSeq(list, 0 + 1, m) \in Seq(D) /\ Len(SubSeq(list, 0 + 1, m)) = m - 0
        /\ \A i \in 1 .. m - 0 : SubSeq(list, 0 + 1, m)[i] = list[0 + i]
    BY <2>1, PartOK
  <2>4. \A i \in 1 .. m : 0 + i = i
    BY <2>1
  <2>5. f = SubSeq(list, 1, m)
    BY <1>2 DEF m
  <2>6. f \in Seq(D) /\ Len(f) = m /\ \A i \in 1 .. m : f[i] = list[i]
    BY ONLY <2>2, <2>3, <2>4, <2>5
  <2> QED BY <2>6 DEF m
<1> HIDE DEF f
<1>4. f \in Seq(E)
  BY <1>3
<1>5. /\ Append(f, x) \in Seq(E) /\ Len(Append(f, x)) = Len(f) + 1 /\ Append(f, x)[Len(f) + 1] = x
      /\ \A k \in 1 .. Len(f) : Append(f, x)[k] = f[k]
  BY <1>4
<1>6. Len(f) + 1 = Len(list)
  BY <1>1, <1>3
<1> QED BY ONLY <1>1, <1>3, <1>5, <1>6 DEF f

\* A list one longer.
LEMMA Appended ==
  ASSUME NEW D, NEW list \in Seq(D), NEW E, NEW x \in E, D \subseteq E
  PROVE  /\ Append(list, x) \in Seq(E) /\ Len(list) \in Nat /\ Len(Append(list, x)) = Len(list) + 1
         /\ Append(list, x)[Len(list) + 1] = x /\ \A k \in 1 .. Len(list) : Append(list, x)[k] = list[k]
         /\ list \in Seq(E)
<1>1. list \in Seq(E)
  OBVIOUS
<1> QED BY <1>1

\* A turn of the loop keeps the list in order, and what stands in it.
LEMMA KeepOK ==
  ASSUME NEW S, S \subseteq SpanType, \A y \in S : y.start < y.end,
         NEW todo, todo \subseteq S, NEW x \in todo, \A y \in todo \ {x} : Before(x, y),
         NEW list, ListOK(S, todo, list), NEW Y, NEW a, NEW c, Standing(Y, S, a, c), Listed(Y, todo, list)
  PROVE  /\ ListOK(S, todo \ {x}, Keep(list, x))
         /\ Listed(Y, todo \ {x}, Keep(list, x))
<1> DEFINE D == S \ todo
           E == S \ (todo \ {x})
           last == Last(list)
           n == Len(list)
           new == Keep(list, x)
<1>1. \A y \in S : y.start \in Nat /\ y.end \in Nat /\ y.score \in Nat /\ y.start < y.end
  BY DEF SpanType
<1>2. x \in S /\ x \in E /\ D \subseteq E /\ E \subseteq S /\ E = D \cup {x}
  OBVIOUS
<1>3. \A y \in todo \ {x} : x.start <= y.start
  <2> SUFFICES ASSUME NEW y \in todo \ {x} PROVE x.start <= y.start
    OBVIOUS
  <2>1. Before(x, y) /\ x.start \in Nat /\ y.start \in Nat
    BY <1>1, <1>2
  <2> QED BY ONLY <2>1 DEF Before
<1>4. /\ list \in Seq(D) /\ \A i, j \in DOMAIN list : i < j => list[i].end <= list[j].start
      /\ \A z \in D : z.start <= x.start
  BY DEF ListOK
<1>5. \A z \in E, y \in todo \ {x} : z.start <= y.start
  BY <1>2, <1>3 DEF ListOK
<1>6. n \in Nat /\ DOMAIN list = 1 .. n /\ (n = 0 <=> list = <<>>) /\ \A k \in 1 .. n : list[k] \in D /\ list[k] \in S
  BY <1>4
<1>7. last = list[n] /\ (list # <<>> => last \in D /\ last \in S /\ n \in 1 .. n)
  <2>1. last = list[n]
    BY DEF Last
  <2> QED BY <1>6, <2>1
<1> HIDE DEF n, last
<1> SUFFICES /\ new \in Seq(E)
             /\ \A i, j \in DOMAIN new : i < j => new[i].end <= new[j].start
             /\ Listed(Y, todo \ {x}, new)
  BY <1>5 DEF ListOK
<1>8. /\ Y \subseteq S /\ \A y \in Y : y.start = a /\ y.score = c
      /\ \A z \in S \ Y : z.score < c \/ z.end <= a \/ \A y \in Y : y.end <= z.start
  BY DEF Standing
<1>9. (\E y \in Y : y \notin todo \ {x}) => (\E k \in 1 .. n : list[k] \in Y) \/ x \in Y
  BY <1>6 DEF Listed
<1>10. CASE list = <<>> \/ x.start >= last.end
  <2>1. new = Append(list, x)
    BY <1>10 DEF Keep, last
  <2> HIDE DEF new, D, E
  <2>2. /\ new \in Seq(E) /\ Len(new) = n + 1 /\ new[n + 1] = x /\ \A k \in 1 .. n : new[k] = list[k]
    BY ONLY <1>2, <1>4, <2>1, Appended DEF n
  <2>3. DOMAIN new = 1 .. n + 1
    BY <2>2
  <2>4. \A i, j \in DOMAIN new : i < j => new[i].end <= new[j].start
    <3> SUFFICES ASSUME NEW i \in 1 .. n + 1, NEW j \in 1 .. n + 1, i < j PROVE new[i].end <= new[j].start
      BY <2>3
    <3>1. CASE j = n + 1
      <4>1. i \in 1 .. n /\ n # 0
        BY <1>6, <3>1
      <4>2. x.start >= last.end
        BY <1>6, <1>10, <4>1
      <4>3. list[i].end <= last.end
        <5>1. CASE i = n
          <6>1. last \in S
            BY <1>6, <1>7, <4>1
          <6>2. last.end <= last.end
            BY <1>1, <6>1
          <6> QED BY <1>7, <5>1, <6>2
        <5>2. CASE i # n
          <6>1. list[i].end <= list[n].start
            BY <1>4, <1>6, <4>1, <5>2
          <6>2. list[n] \in S /\ list[i] \in S
            BY <1>6, <4>1
          <6>3. list[n].start < list[n].end /\ list[n].start \in Nat /\ list[n].end \in Nat /\ list[i].end \in Nat
            BY <1>1, <6>2
          <6>4. list[i].end <= list[n].end
            BY ONLY <6>1, <6>3
          <6> QED BY <1>7, <6>4
        <5> QED BY <5>1, <5>2
      <4>4. list[i].end \in Nat /\ last.end \in Nat /\ x.start \in Nat
        BY <1>1, <1>2, <1>6, <1>7, <4>1
      <4>5. new[i] = list[i] /\ new[j] = x
        BY <2>2, <3>1, <4>1
      <4>6. list[i].end <= x.start
        BY ONLY <4>2, <4>3, <4>4
      <4> QED BY <4>5, <4>6
    <3>2. CASE j # n + 1
      <4>1. i \in 1 .. n /\ j \in 1 .. n
        BY <1>6, <3>2
      <4> QED BY <1>4, <1>6, <2>2, <4>1
    <3> QED BY <3>1, <3>2
  <2>5. Listed(Y, todo \ {x}, new)
    <3> SUFFICES ASSUME \E y \in Y : y \notin todo \ {x} PROVE \E k \in 1 .. n + 1 : new[k] \in Y
      BY <2>3 DEF Listed
    <3>1. n + 1 \in 1 .. n + 1 /\ \A k \in 1 .. n : k \in 1 .. n + 1
      BY <1>6
    <3> QED BY <1>9, <2>2, <3>1
  <2> QED BY <2>2, <2>4, <2>5 DEF new, E
<1>11. CASE list # <<>> /\ ~(x.start >= last.end)
  <2>0. /\ x.start < last.end /\ last.start <= x.start
        /\ last.start \in Nat /\ last.end \in Nat /\ last.score \in Nat
        /\ x.start \in Nat /\ x.end \in Nat /\ x.score \in Nat /\ x.start < x.end
        /\ last \in S /\ x \in S /\ n \in 1 .. n /\ list[n] = last
    BY <1>1, <1>2, <1>4, <1>7, <1>11
  <2>1. CASE Preferred(x, last)
    <3>1. new = Append(Front(list), x)
      BY <1>11, <2>1 DEF Keep, last
    <3> HIDE DEF new, D, E
    <3>2. /\ new \in Seq(E) /\ Len(new) = n /\ new[n] = x /\ \A k \in 1 .. n - 1 : new[k] = list[k]
      <4>1. list \in Seq(D)
        BY ONLY <1>4
      <4>2. list # <<>>
        BY ONLY <1>11
      <4>3. x \in E
        BY ONLY <1>2
      <4>4. D \subseteq E
        BY ONLY <1>2
      <4> QED BY ONLY <3>1, <4>1, <4>2, <4>3, <4>4, Replaced DEF n
    <3>3. DOMAIN new = 1 .. n
      BY <3>2
    <3>4. \A i, j \in DOMAIN new : i < j => new[i].end <= new[j].start
      <4> SUFFICES ASSUME NEW i \in 1 .. n, NEW j \in 1 .. n, i < j PROVE new[i].end <= new[j].start
        BY <3>3
      <4>1. i \in 1 .. n - 1
        BY <1>6
      <4>2. list[i].end <= list[j].start
        BY <1>4, <1>6
      <4>3. CASE j = n
        <5>1. list[i].end \in Nat
          BY <1>1, <1>6, <4>1
        <5>2. list[i].end <= last.start
          BY <2>0, <4>2, <4>3
        <5>3. list[i].end <= x.start
          BY ONLY <2>0, <5>1, <5>2
        <5> QED BY <3>2, <4>1, <4>3, <5>3
      <4>4. CASE j # n
        <5>1. j \in 1 .. n - 1
          BY <1>6, <4>4
        <5> QED BY <3>2, <4>1, <4>2, <5>1
      <4> QED BY <4>3, <4>4
    <3>5. ASSUME last \in Y, x \notin Y PROVE FALSE
      <4>1. last.start = a /\ last.score = c /\ (x.score < c \/ x.end <= a \/ last.end <= x.start)
        BY <1>8, <2>0, <3>5
      <4>2. x.score >= last.score
        BY ONLY <2>0, <2>1 DEF Preferred
      <4> QED BY ONLY <2>0, <4>1, <4>2
    <3>6. Listed(Y, todo \ {x}, new)
      <4> SUFFICES ASSUME \E y \in Y : y \notin todo \ {x} PROVE \E k \in 1 .. n : new[k] \in Y
        BY <3>3 DEF Listed
      <4>1. CASE x \in Y
        BY <2>0, <3>2, <4>1
      <4>2. CASE x \notin Y
        <5>1. PICK k \in 1 .. n : list[k] \in Y
          BY <1>9, <4>2
        <5>2. k # n
          BY <2>0, <3>5, <4>2, <5>1
        <5>3. k \in 1 .. n - 1
          BY <1>6, <5>2
        <5> QED BY <3>2, <5>1, <5>3
      <4> QED BY <4>1, <4>2
    <3> QED BY <3>2, <3>4, <3>6 DEF new, E
  <2>2. CASE ~Preferred(x, last)
    <3>1. new = list
      BY <1>11, <2>2 DEF Keep, last
    <3>2. new \in Seq(E)
      <4> HIDE DEF D, E, new
      <4> QED BY <1>2, <1>4, <3>1
    <3>3. ASSUME x \in Y, last \notin Y PROVE FALSE
      <4>1. x.start = a /\ x.score = c /\ (last.score < c \/ last.end <= a \/ x.end <= last.start)
        BY <1>8, <2>0, <3>3
      <4>2. ~(x.score > last.score)
        BY ONLY <2>2 DEF Preferred
      <4> QED BY ONLY <2>0, <4>1, <4>2
    <3>4. Listed(Y, todo \ {x}, new)
      <4> SUFFICES ASSUME \E y \in Y : y \notin todo \ {x} PROVE \E k \in 1 .. n : list[k] \in Y
        BY <1>6, <3>1 DEF Listed
      <4> QED BY <1>9, <2>0, <3>3
    <3> QED BY <1>4, <3>1, <3>2, <3>4
  <2> QED BY <2>1, <2>2
<1> QED BY <1>10, <1>11

\* What k turns of the loop over S have reached.
TurnInv(S, u, k) ==
  /\ u.todo \subseteq S /\ IsFiniteSet(u.todo) /\ Cardinality(u.todo) = Cardinality(S) - k
  /\ ListOK(S, u.todo, u.merged)
  /\ \A Y, a, c : Standing(Y, S, a, c) => Listed(Y, u.todo, u.merged)

\* A turn of the loop preserves what is known of it.
LEMMA TurnOK ==
  ASSUME NEW S, IsFiniteSet(S), S \subseteq SpanType, \A y \in S : y.start < y.end,
         NEW u, NEW k \in Nat, k + 1 <= Cardinality(S), TurnInv(S, u, k)
  PROVE  TurnInv(S, Turned(u), k + 1)
<1> DEFINE todo == u.todo
           list == u.merged
           x == Foremost(todo)
           v == Turned(u)
<1>1. /\ todo \subseteq S /\ IsFiniteSet(todo) /\ Cardinality(todo) = Cardinality(S) - k
      /\ ListOK(S, todo, list)
      /\ \A Y, a, c : Standing(Y, S, a, c) => Listed(Y, todo, list)
  BY DEF TurnInv
<1>2. v.todo = todo \ {x} /\ v.merged = Keep(list, x)
  BY DEF Turned
<1>3. Cardinality(S) \in Nat
  BY FS_CardinalityType
<1> HIDE DEF todo, list, x, v
<1>4. todo # {}
  <2>1. Cardinality({}) = 0
    BY FS_EmptySet
  <2>2. Cardinality(todo) # 0
    BY ONLY <1>1, <1>3, k \in Nat, k + 1 <= Cardinality(S)
  <2> QED BY ONLY <2>1, <2>2
<1>5. x \in todo /\ \A y \in todo \ {x} : Before(x, y)
  BY <1>1, <1>4, ForemostOK DEF x
<1>6. v.todo \subseteq S /\ IsFiniteSet(v.todo) /\ Cardinality(v.todo) = Cardinality(S) - (k + 1)
  <2>1. IsFiniteSet(todo \ {x}) /\ Cardinality(todo \ {x}) = Cardinality(todo) - 1
    BY <1>1, <1>5, FS_RemoveElement
  <2>2. Cardinality(v.todo) = Cardinality(S) - (k + 1)
    BY <1>1, <1>2, <1>3, <2>1
  <2> QED BY <1>1, <1>2, <2>1, <2>2
<1>7. ASSUME NEW Y, NEW a, NEW c, Standing(Y, S, a, c)
      PROVE  ListOK(S, v.todo, v.merged) /\ Listed(Y, v.todo, v.merged)
  <2>1. Listed(Y, todo, list)
    BY <1>1, <1>7
  <2>2. todo \subseteq S /\ ListOK(S, todo, list)
    BY <1>1
  <2>3. S \subseteq SpanType /\ \A y \in S : y.start < y.end
    OBVIOUS
  <2>4. ListOK(S, todo \ {x}, Keep(list, x)) /\ Listed(Y, todo \ {x}, Keep(list, x))
    BY ONLY <1>5, <1>7, <2>1, <2>2, <2>3, KeepOK
  <2> QED BY <1>2, <2>4
<1>8. Standing({}, S, 0, 0)
  BY DEF Standing
<1>9. ListOK(S, v.todo, v.merged)
  BY <1>7, <1>8
<1> QED BY <1>6, <1>7, <1>9 DEF TurnInv, v

\* mergeSpans returns some of the spans it is given, no two of them
\* overlapping, and one of any that stand out.
THEOREM MergeSpansOK ==
  ASSUME NEW S, IsFiniteSet(S), S \subseteq SpanType, \A y \in S : y.start < y.end
  PROVE  /\ MergeSpans(S) \subseteq S
         /\ PairwiseDisjoint(MergeSpans(S))
         /\ \A Y, a, c : Standing(Y, S, a, c) /\ Y # {} => \E y \in Y : y \in MergeSpans(S)
<1> DEFINE n == Cardinality(S)
<1>1. n \in Nat
  BY FS_CardinalityType
<1>2. PICK turn : /\ MergeSpans(S) = ToSet(turn[n].merged)
                  /\ turn[0] = [todo |-> S, merged |-> <<>>]
                  /\ \A k \in Nat : k + 1 <= n => turn[k + 1] = Turned(turn[k])
  BY MergeTurns
<1> HIDE DEF n
<1> DEFINE T == {k \in Nat : k <= n => TurnInv(S, turn[k], k)}
<1>3. 0 \in T
  <2>1. turn[0].todo = S /\ turn[0].merged = <<>>
    BY <1>2
  <2>2. ListOK(S, S, <<>>)
    BY DEF ListOK
  <2>3. ASSUME NEW Y, NEW a, NEW c, Standing(Y, S, a, c) PROVE Listed(Y, S, <<>>)
    BY <2>3 DEF Listed, Standing
  <2>4. Cardinality(S) = Cardinality(S) - 0
    BY <1>1 DEF n
  <2> QED BY <2>1, <2>2, <2>3, <2>4 DEF TurnInv
<1>4. ASSUME NEW k \in Nat, k \in T PROVE k + 1 \in T
  <2> SUFFICES ASSUME k + 1 <= n PROVE TurnInv(S, turn[k + 1], k + 1)
    OBVIOUS
  <2>1. k <= n
    BY <1>1
  <2>2. TurnInv(S, turn[k], k) /\ turn[k + 1] = Turned(turn[k])
    BY <1>2, <1>4, <2>1
  <2> QED BY <2>2, TurnOK DEF n
<1> HIDE DEF T
<1>5. n \in T
  BY <1>1, <1>3, <1>4, NatSetInduction
<1> DEFINE todo == turn[n].todo
           list == turn[n].merged
<1>6. TurnInv(S, turn[n], n)
  BY <1>1, <1>5 DEF T
<1>7. todo = {}
  <2>1. IsFiniteSet(todo) /\ Cardinality(todo) = 0
    BY <1>1, <1>6 DEF TurnInv, n
  <2> HIDE DEF todo
  <2> QED BY <2>1, FS_EmptySet
<1>8. /\ list \in Seq(S) /\ \A i, j \in DOMAIN list : i < j => list[i].end <= list[j].start
      /\ \A Y, a, c : Standing(Y, S, a, c) => Listed(Y, {}, list)
  <2>1. S \ {} = S
    OBVIOUS
  <2> QED BY <1>6, <1>7, <2>1 DEF TurnInv, ListOK
<1>9. MergeSpans(S) = ToSet(list)
  BY <1>2
<1> HIDE DEF list, todo
<1>10. DOMAIN list \subseteq Nat /\ \A k \in DOMAIN list : list[k] \in S
  BY <1>8
<1>11. MergeSpans(S) = {list[k] : k \in DOMAIN list}
  BY <1>9 DEF ToSet
<1>12. PairwiseDisjoint(MergeSpans(S))
  <2> SUFFICES ASSUME NEW i \in DOMAIN list, NEW j \in DOMAIN list
               PROVE  list[i] = list[j] \/ ~Overlapping(list[i], list[j])
    BY <1>11 DEF PairwiseDisjoint
  <2>1. /\ list[i].start \in Nat /\ list[i].end \in Nat /\ list[j].start \in Nat /\ list[j].end \in Nat
    BY <1>10 DEF SpanType
  <2>2. i = j \/ i < j \/ j < i
    BY <1>10
  <2>3. list[i] = list[j] \/ list[i].end <= list[j].start \/ list[j].end <= list[i].start
    BY <1>8, <2>2
  <2> QED BY ONLY <2>1, <2>3 DEF Overlapping
<1>13. ASSUME NEW Y, NEW a, NEW c, Standing(Y, S, a, c), Y # {}
       PROVE  \E y \in Y : y \in MergeSpans(S)
  <2>1. Listed(Y, {}, list)
    BY <1>8, <1>13
  <2>2. \E k \in DOMAIN list : list[k] \in Y
    BY <1>13, <2>1 DEF Listed
  <2> QED BY <1>11, <2>2
<1> QED BY <1>10, <1>11, <1>12, <1>13

-----------------------------------------------------------------------------
(* Words of a text and of its chunks.                                      *)

\* w stands in text behind the first k characters.
At(text, k, w) == k + Len(w) <= Len(text) /\ \A i \in 1 .. Len(w) : text[k + i] = w[i]

\* The span that reports w there.
Place(k, w) == [start |-> k, end |-> k + Len(w), score |-> Score[w]]

\* A word has characters, and a score.
LEMMA WordOK ==
  ASSUME NEW w \in Word
  PROVE  w \in Seq(Int) /\ Len(w) \in Nat /\ Len(w) >= 1 /\ Score[w] \in Nat
BY TextAssumption, ScoreAssumption, EmptySeq

\* A text is a sequence of characters.
LEMMA TextOK ==
  ASSUME NEW t \in Text
  PROVE  t \in Seq(Int) /\ Len(t) \in Nat
BY TextAssumption

\* The places of a word, by what stands there.
LEMMA PlacesOK ==
  ASSUME NEW text \in Seq(Int), NEW w \in Word
  PROVE  Places(text, w) = {Place(k, w) : k \in {j \in Nat : At(text, j, w)}}
<1>1. w \in Seq(Int) /\ Len(w) \in Nat /\ Len(w) >= 1 /\ Len(text) \in Nat
  BY WordOK
<1>2. ASSUME NEW j \in 0 .. Len(text)
      PROVE  IsPrefix(w, SubSeq(text, j + 1, Len(text))) <=> At(text, j, w)
  <2> DEFINE u == SubSeq(text, j + 1, Len(text))
  <2>1. j \in Nat /\ j <= Len(text)
    BY <1>1
  <2>2. u \in Seq(Int) /\ Len(u) = Len(text) - j /\ \A i \in 1 .. Len(text) - j : u[i] = text[j + i]
    BY <1>1, <2>1, PartOK
  <2> HIDE DEF u
  <2>3. j + Len(w) <= Len(text) <=> Len(w) <= Len(u)
    BY <1>1, <2>1, <2>2
  <2>4. SubSeq(w, 1, Len(w)) = w
    BY <1>1, SubSeqFull
  <2>5. ASSUME Len(w) <= Len(u)
        PROVE  w = SubSeq(u, 1, Len(w)) <=> \A i \in 1 .. Len(w) : text[j + i] = w[i]
    <3> DEFINE v == SubSeq(u, 0 + 1, Len(w))
    <3>1. v \in Seq(Int) /\ Len(v) = Len(w) - 0 /\ \A i \in 1 .. Len(w) - 0 : v[i] = u[0 + i]
      <4>1. 0 \in Nat /\ 0 <= Len(w)
        BY ONLY <1>1
      <4> DEFINE n == Len(w)
      <4>2. n \in Nat /\ 0 <= n /\ n <= Len(u)
        BY <1>1, <2>5, <4>1
      <4> HIDE DEF n
      <4>3. /\ SubSeq(u, 0 + 1, n) \in Seq(Int) /\ Len(SubSeq(u, 0 + 1, n)) = n - 0
            /\ \A i \in 1 .. n - 0 : SubSeq(u, 0 + 1, n)[i] = u[0 + i]
        BY ONLY <2>2, <4>1, <4>2, PartOK
      <4> QED BY ONLY <4>3 DEF n, v
    <3>2. 0 + 1 = 1 /\ Len(w) - 0 = Len(w) /\ \A i \in 1 .. Len(w) : 0 + i = i /\ i \in 1 .. Len(text) - j
      <4> DEFINE n == Len(w)
                 k == Len(text)
      <4>1. n \in Nat /\ k \in Nat /\ j \in Nat /\ n <= k - j
        BY <1>1, <2>1, <2>2, <2>5
      <4> HIDE DEF n, k
      <4>2. 0 + 1 = 1 /\ n - 0 = n /\ \A i \in 1 .. n : 0 + i = i /\ i \in 1 .. k - j
        BY ONLY <4>1
      <4> QED BY <4>2 DEF n, k
    <3>3. v = SubSeq(u, 1, Len(w))
      BY <3>2
    <3> HIDE DEF v
    <3>4. v \in Seq(Int) /\ Len(v) = Len(w) /\ \A i \in 1 .. Len(w) : v[i] = text[j + i]
      BY <2>2, <3>1, <3>2
    <3>5. w = v <=> \A i \in 1 .. Len(w) : w[i] = v[i]
      BY <1>1, <3>4, SeqEqual
    <3> QED BY <3>3, <3>4, <3>5
  <2>6. IsPrefix(w, u) <=> (Len(w) <= Len(u) /\ w = SubSeq(u, 1, Len(w)))
    BY <2>4 DEF IsPrefix
  <2> QED BY ONLY <2>3, <2>5, <2>6 DEF At, u
<1>3. \A j \in Nat : At(text, j, w) => j \in 0 .. Len(text)
  <2> TAKE j \in Nat
  <2> HAVE At(text, j, w)
  <2>1. j + Len(w) <= Len(text)
    BY DEF At
  <2> QED BY <1>1, <2>1
<1>4. {j \in 0 .. Len(text) : IsPrefix(w, SubSeq(text, j + 1, Len(text)))} = {j \in Nat : At(text, j, w)}
  <2>1. \A j \in 0 .. Len(text) : j \in Nat
    BY <1>1
  <2> QED BY <1>2, <1>3, <2>1
<1> QED BY <1>4 DEF Places, Place

\* A chunk of a text, and where it lies.
LEMMA ChunkOK ==
  ASSUME NEW t \in Seq(Int), NEW i \in Chunks(Len(t))
  PROVE  /\ Offset(i) \in Nat /\ Chunk(t, i) \in Seq(Int)
         /\ \A k \in Nat : k <= Len(Chunk(t, i)) <=>
              (Offset(i) + k <= Len(t) /\ k <= ChunkSize)
         /\ \A k \in 1 .. Len(Chunk(t, i)) : Chunk(t, i)[k] = t[Offset(i) + k]
<1> DEFINE off == i * Stride
           hi == Min({Len(t), off + ChunkSize})
<1>1. Len(t) \in Nat /\ Stride \in Nat \ {0} /\ ChunkSize \in Nat
  BY ChunkAssumption DEF Stride
<1>2. i \in Nat /\ off \in Nat /\ off <= Len(t)
  <2>1. CASE Whole(Len(t))
    BY <1>1, <2>1 DEF Chunks
  <2>2. CASE ~Whole(Len(t))
    <3> DEFINE n == (Len(t) - 1) \div Stride
    <3>1. Len(t) - 1 \in Nat
      BY <1>1, <2>2 DEF Whole
    <3>2. n \in Nat /\ n * Stride <= Len(t) - 1
      BY <1>1, <3>1, DivBounds
    <3>3. i \in 0 .. n
      BY <2>2 DEF Chunks
    <3> HIDE DEF n
    <3>4. i \in Nat /\ i <= n
      BY <3>2, <3>3
    <3>5. i * Stride <= n * Stride /\ i * Stride \in Nat /\ n * Stride \in Nat
      BY <1>1, <3>2, <3>4
    <3> QED BY <1>1, <3>2, <3>4, <3>5
  <2> QED BY <2>1, <2>2
<1> HIDE DEF off
<1>3. hi \in Nat /\ hi <= Len(t) /\ hi <= off + ChunkSize /\ (hi = Len(t) \/ hi = off + ChunkSize)
  <2> DEFINE T == {Len(t), off + ChunkSize}
  <2>1. T \subseteq Nat /\ T # {}
    BY <1>1, <1>2
  <2>2. \E x \in T : \A y \in T : x <= y
    BY <2>1, LeastOf
  <2>3. hi \in T /\ \A y \in T : hi <= y
    BY <2>2 DEF Min
  <2> HIDE DEF hi
  <2> QED BY <2>1, <2>3
<1> HIDE DEF hi
<1>4. off <= hi
  BY <1>1, <1>2, <1>3
<1>5. Chunk(t, i) = SubSeq(t, off + 1, hi) /\ Offset(i) = off
  BY DEF Chunk, Offset, off, hi
<1>6. /\ Chunk(t, i) \in Seq(Int) /\ Len(Chunk(t, i)) = hi - off
      /\ \A k \in 1 .. hi - off : Chunk(t, i)[k] = t[off + k]
  BY <1>2, <1>3, <1>4, <1>5, PartOK
<1>7. \A k \in Nat : k <= hi - off <=> (off + k <= Len(t) /\ k <= ChunkSize)
  BY ONLY <1>1, <1>2, <1>3, <1>4
<1> QED BY <1>2, <1>5, <1>6, <1>7

\* What stands in a chunk stands in the text, and the other way round if it
\* lies within the chunk.
LEMMA AtChunk ==
  ASSUME NEW t \in Seq(Int), NEW i \in Chunks(Len(t)), NEW w \in Word, NEW k \in Nat
  PROVE  At(Chunk(t, i), k, w) <=> At(t, Offset(i) + k, w) /\ k + Len(w) <= ChunkSize
<1> DEFINE c == Chunk(t, i)
           off == Offset(i)
<1>1. /\ off \in Nat /\ c \in Seq(Int)
      /\ \A j \in Nat : j <= Len(c) <=> (off + j <= Len(t) /\ j <= ChunkSize)
      /\ \A j \in 1 .. Len(c) : c[j] = t[off + j]
  BY ChunkOK
<1> HIDE DEF c, off
<1>2. Len(w) \in Nat /\ Len(w) >= 1 /\ Len(c) \in Nat
  BY <1>1, WordOK
<1>3. k + Len(w) \in Nat /\ off + (k + Len(w)) = (off + k) + Len(w)
  BY <1>1, <1>2
<1>4. k + Len(w) <= Len(c) <=> (off + k) + Len(w) <= Len(t) /\ k + Len(w) <= ChunkSize
  BY <1>1, <1>3
<1>5. ASSUME k + Len(w) <= Len(c), NEW j \in 1 .. Len(w)
      PROVE  c[k + j] = t[(off + k) + j]
  <2>1. off \in Nat
    BY <1>1
  <2>2. k + j \in 1 .. Len(c) /\ off + (k + j) = (off + k) + j
    BY ONLY <1>2, <1>5, <2>1, k \in Nat, j \in 1 .. Len(w)
  <2> QED BY <1>1, <2>2
<1> QED BY <1>4, <1>5 DEF At, c, off

-----------------------------------------------------------------------------
\* A span d characters further on.
Moved(x, d) == [start |-> x.start + d, end |-> x.end + d, score |-> x.score]

\* All of them d characters further on.
MovedAll(spans, d) == {Moved(x, d) : x \in spans}

\* The words of a chunk, as spans of the text.
Found(t, i, words) == MovedAll(Occurrences(Chunk(t, i), words), Offset(i))

\* A span is known by its fields.
LEMMA SameSpan ==
  ASSUME NEW x \in SpanType, NEW y \in SpanType, x.start = y.start, x.end = y.end, x.score = y.score
  PROVE  x = y
BY DEF SpanType

\* Moving a span, as detectChunked does it.
LEMMA MovedOK ==
  ASSUME NEW x \in SpanType, NEW d \in Nat
  PROVE  /\ Moved(x, d) \in SpanType
         /\ Moved(x, d).start = x.start + d /\ Moved(x, d).end = x.end + d /\ Moved(x, d).score = x.score
         /\ Moved(x, d) = [x EXCEPT !.start = @ + d, !.end = @ + d]
         /\ x.start \in Nat /\ x.end \in Nat /\ x.score \in Nat
<1> DEFINE m == Moved(x, d)
           y == [x EXCEPT !.start = @ + d, !.end = @ + d]
<1>1. x.start \in Nat /\ x.end \in Nat /\ x.score \in Nat
  BY DEF SpanType
<1>2. x.start + d \in Nat /\ x.end + d \in Nat
  BY <1>1
<1>3. m.start = x.start + d /\ m.end = x.end + d /\ m.score = x.score /\ m \in SpanType
  BY <1>1, <1>2 DEF Moved, SpanType
<1>4. y.start = x.start + d /\ y.end = x.end + d /\ y.score = x.score /\ y \in SpanType
  <2> SUFFICES ASSUME NEW a \in Nat, NEW b \in Nat
               PROVE  LET z == [x EXCEPT !.start = a, !.end = b]
                      IN  z.start = a /\ z.end = b /\ z.score = x.score /\ z \in SpanType
    BY <1>2
  <2> QED BY DEF SpanType
<1> HIDE DEF m, y
<1>5. m = y
  BY <1>3, <1>4, SameSpan
<1> QED BY <1>1, <1>3, <1>5 DEF m, y

\* Different spans stay different.
LEMMA MovedApart ==
  ASSUME NEW x \in SpanType, NEW y \in SpanType, NEW d \in Nat, Moved(x, d) = Moved(y, d)
  PROVE  x = y
<1>1. x.start + d = y.start + d /\ x.end + d = y.end + d /\ x.score = y.score
  <2> DEFINE m == Moved(x, d)
  <2>1. m.start = x.start + d /\ m.end = x.end + d /\ m.score = x.score
    BY MovedOK
  <2>2. m.start = y.start + d /\ m.end = y.end + d /\ m.score = y.score
    BY MovedOK
  <2> QED BY ONLY <2>1, <2>2
<1>2. x.start \in Nat /\ y.start \in Nat /\ x.end \in Nat /\ y.end \in Nat
  BY MovedOK
<1>3. x.start = y.start /\ x.end = y.end
  BY ONLY <1>1, <1>2, d \in Nat
<1> QED BY <1>1, <1>3 DEF SpanType

\* The occurrences of words are spans of the text.
LEMMA OccurrencesOK ==
  ASSUME NEW t \in Seq(Int), NEW words, words \subseteq Word
  PROVE  /\ Occurrences(t, words) \subseteq SpanType
         /\ \A x \in Occurrences(t, words) : x.start < x.end /\ x.end <= Len(t)
<1> SUFFICES ASSUME NEW w \in words, NEW x \in Places(t, w)
             PROVE  x \in SpanType /\ x.start < x.end /\ x.end <= Len(t)
  BY DEF Occurrences
<1>1. w \in Word /\ Len(w) \in Nat /\ Len(w) >= 1 /\ Score[w] \in Nat
  BY WordOK
<1>2. PICK k \in Nat : At(t, k, w) /\ x = Place(k, w)
  BY <1>1, PlacesOK
<1>3. k + Len(w) <= Len(t) /\ k + Len(w) \in Nat /\ k < k + Len(w)
  BY <1>1, <1>2 DEF At
<1> QED BY <1>1, <1>2, <1>3 DEF Place, SpanType

\* The words of a chunk are words of the text.
LEMMA FoundInText ==
  ASSUME NEW t \in Seq(Int), NEW i \in Chunks(Len(t)), NEW words, words \subseteq Word
  PROVE  Found(t, i, words) \subseteq Occurrences(t, words)
<1> SUFFICES ASSUME NEW w \in words, NEW x \in Places(Chunk(t, i), w)
             PROVE  Moved(x, Offset(i)) \in Places(t, w)
  BY DEF Found, MovedAll, Occurrences
<1>1. w \in Word /\ Len(w) \in Nat
  BY WordOK
<1>2. Chunk(t, i) \in Seq(Int) /\ Offset(i) \in Nat
  BY ChunkOK
<1>3. PICK k \in Nat : At(Chunk(t, i), k, w) /\ x = Place(k, w)
  BY <1>1, <1>2, PlacesOK
<1>4. At(t, Offset(i) + k, w) /\ Offset(i) + k \in Nat
  BY <1>1, <1>2, <1>3, AtChunk
<1>5. Moved(x, Offset(i)) = Place(Offset(i) + k, w)
  <2>1. k + Offset(i) = Offset(i) + k /\ k + Len(w) + Offset(i) = Offset(i) + k + Len(w)
    BY <1>1, <1>2
  <2> QED BY <1>3, <2>1 DEF Moved, Place
<1> QED BY <1>1, <1>4, <1>5, PlacesOK

\* A word within a chunk is found there.
LEMMA FoundInChunk ==
  ASSUME NEW t \in Seq(Int), NEW i \in Chunks(Len(t)), NEW w \in Word, NEW o \in Places(t, w),
         Offset(i) <= o.start, o.end <= Offset(i) + ChunkSize
  PROVE  \E x \in Places(Chunk(t, i), w) : Moved(x, Offset(i)) = o
<1>1. Len(w) \in Nat /\ ChunkSize \in Nat
  BY WordOK, ChunkAssumption
<1>2. Chunk(t, i) \in Seq(Int) /\ Offset(i) \in Nat
  BY ChunkOK
<1>3. PICK k \in Nat : At(t, k, w) /\ o = Place(k, w)
  BY PlacesOK
<1>4. o.start = k /\ o.end = k + Len(w)
  BY <1>3 DEF Place
<1> DEFINE j == k - Offset(i)
<1>5. j \in Nat /\ Offset(i) + j = k /\ j + Len(w) <= ChunkSize
  BY <1>1, <1>2, <1>4
<1> HIDE DEF j
<1>6. At(Chunk(t, i), j, w)
  BY <1>3, <1>5, AtChunk
<1>7. Place(j, w) \in Places(Chunk(t, i), w)
  BY <1>2, <1>5, <1>6, PlacesOK
<1>8. Moved(Place(j, w), Offset(i)) = Place(k, w)
  <2>1. Offset(i) \in Nat
    BY <1>2
  <2>2. Len(w) \in Nat /\ j \in Nat /\ Offset(i) + j = k
    BY <1>1, <1>5
  <2>3. j + Offset(i) = k /\ j + Len(w) + Offset(i) = k + Len(w)
    BY ONLY <2>1, <2>2
  <2> QED BY <2>3 DEF Moved, Place
<1> QED BY <1>3, <1>7, <1>8

-----------------------------------------------------------------------------
(* What an answer about a part of the text says about the text.            *)

\* What it means for a span to be a candidate.
LEMMA CandidatesOK ==
  ASSUME NEW all, all \subseteq SpanType
  PROVE  /\ \A s \in Candidates(all) :
              /\ s \in SpanType /\ s.start < s.end
              /\ \E x \in all : x.start = s.start /\ x.score = s.score
              /\ \E x \in all : x.end = s.end
         /\ \A s \in SpanType : \A x, y \in all :
              s.start < s.end /\ x.start = s.start /\ x.score = s.score /\ y.end = s.end
                => s \in Candidates(all)
<1>1. \A x \in all : x.start \in Nat /\ x.end \in Nat /\ x.score \in Nat
  BY DEF SpanType
<1>2. ASSUME NEW s \in Candidates(all)
      PROVE  /\ s \in SpanType /\ s.start < s.end
             /\ \E x \in all : x.start = s.start /\ x.score = s.score
             /\ \E x \in all : x.end = s.end
  <2>1. /\ s \in [start : {x.start : x \in all}, end : {x.end : x \in all}, score : {x.score : x \in all}]
        /\ s.start < s.end /\ \E x \in all : x.start = s.start /\ x.score = s.score
    BY DEF Candidates
  <2>2. {x.start : x \in all} \subseteq Nat /\ {x.end : x \in all} \subseteq Nat /\ {x.score : x \in all} \subseteq Nat
    BY <1>1
  <2> QED BY <2>1, <2>2 DEF SpanType
<1>3. ASSUME NEW s \in SpanType, NEW x \in all, NEW y \in all,
             s.start < s.end, x.start = s.start, x.score = s.score, y.end = s.end
      PROVE  s \in Candidates(all)
  <2>1. s = [start |-> s.start, end |-> s.end, score |-> s.score]
    BY DEF SpanType
  <2>2. s.start \in {z.start : z \in all} /\ s.end \in {z.end : z \in all} /\ s.score \in {z.score : z \in all}
    BY <1>3
  <2>3. s \in [start : {z.start : z \in all}, end : {z.end : z \in all}, score : {z.score : z \in all}]
    BY <2>1, <2>2
  <2> QED BY <1>3, <2>3 DEF Candidates
<1> QED BY <1>2, <1>3

-----------------------------------------------------------------------------
\* Some of the spans that end at e or before ends last.
LEMMA LatestBefore ==
  ASSUME NEW U, U \subseteq SpanType, NEW e \in Nat, NEW u \in U, u.end <= e
  PROVE  \E c \in U : c.end <= e /\ \A y \in U : y.end <= e => y.end <= c.end
<1> DEFINE W == {y \in U : y.end <= e}
           T == {e - y.end : y \in W}
<1>1. \A y \in U : y.end \in Nat
  BY DEF SpanType
<1>2. T \subseteq Nat /\ T # {}
  <2>1. \A y \in W : e - y.end \in Nat
    BY <1>1
  <2>2. u \in W
    OBVIOUS
  <2> HIDE DEF W
  <2> QED BY <2>1, <2>2
<1>3. PICK n \in T : \A m \in T : n <= m
  BY <1>2, LeastOf
<1>4. PICK c \in W : n = e - c.end
  OBVIOUS
<1>5. ASSUME NEW y \in U, y.end <= e PROVE y.end <= c.end
  <2>1. e - y.end \in T
    BY <1>5
  <2>2. e - c.end <= e - y.end
    BY <1>3, <1>4, <2>1
  <2>3. y.end \in Nat /\ c.end \in Nat
    BY <1>1, <1>4
  <2> QED BY ONLY <2>2, <2>3, e \in Nat
<1> QED BY <1>4, <1>5

\* The spans of a text, each with at least one character.
SpanSet(V) == V \subseteq SpanType /\ \A x \in V : x.start < x.end

\* The fields of such a span.
LEMMA SpanSetOK ==
  ASSUME NEW V, SpanSet(V), NEW x \in V
  PROVE  x \in SpanType /\ x.start \in Nat /\ x.end \in Nat /\ x.score \in Nat /\ x.start < x.end
BY DEF SpanSet, SpanType

\* An answer to a part of the text that has something before the end of c
\* does not report across that end.
LEMMA CutBelow ==
  ASSUME NEW V, SpanSet(V), NEW M, M \subseteq V, NEW A, IsMerge(A, M),
         NEW c \in V, Cut(c, V), NEW u \in M, u.end <= c.end, NEW s \in A
  PROVE  s.end <= c.end \/ u.end <= s.start
<1>1. M \subseteq SpanType /\ c.end \in Nat /\ u.end \in Nat
  BY SpanSetOK
<1>2. PICK d \in M : d.end <= c.end /\ \A y \in M : y.end <= c.end => y.end <= d.end
  BY <1>1, LatestBefore
<1>3. d.end \in Nat
  BY SpanSetOK
<1>4. Cut(d, M)
  <2> SUFFICES ASSUME NEW y \in M PROVE y.end <= d.end \/ d.end <= y.start
    BY DEF Cut
  <2>1. y.end <= c.end \/ c.end <= y.start
    BY DEF Cut
  <2>2. y.start \in Nat
    BY SpanSetOK
  <2>3. CASE y.end <= c.end
    BY <1>2, <2>3
  <2>4. CASE c.end <= y.start
    <3>1. d.end <= c.end
      BY <1>2
    <3> QED BY ONLY <1>1, <1>3, <2>2, <2>4, <3>1
  <2> QED BY <2>1, <2>3, <2>4
<1>5. s.end <= d.end \/ d.end <= s.start
  BY <1>4 DEF IsMerge, Uncrossed
<1>6. s.start \in Nat /\ s.end \in Nat
  <2>1. s \in Candidates(M)
    BY DEF IsMerge
  <2>2. s \in SpanType
    BY <1>1, <2>1, CandidatesOK
  <2> QED BY <2>2 DEF SpanType
<1>7. u.end <= d.end /\ d.end <= c.end
  BY <1>2
<1> QED BY ONLY <1>1, <1>3, <1>5, <1>6, <1>7

\* Spans that are apart have no character in common.
LEMMA ApartOK ==
  ASSUME NEW V, SpanSet(V), NEW o \in V, NEW x \in V, Apart(o, x, V)
  PROVE  \E c \in V : /\ Cut(c, V) /\ c.end \in Nat
                      /\ \/ o.end <= c.end /\ c.end <= x.start
                         \/ x.end <= c.end /\ c.end <= o.start
<1>1. PICK c \in V : Cut(c, V) /\ (o.end <= c.end <=> c.end < x.end)
  BY DEF Apart
<1>2. c.end \in Nat /\ o.end \in Nat /\ x.end \in Nat
  BY SpanSetOK
<1>3. (o.end <= c.end \/ c.end <= o.start) /\ (x.end <= c.end \/ c.end <= x.start)
  BY <1>1 DEF Cut
<1>4. \/ o.end <= c.end /\ c.end <= x.start
      \/ x.end <= c.end /\ c.end <= o.start
  BY ONLY <1>1, <1>2, <1>3
<1> QED BY <1>1, <1>2, <1>4

\* The strongest of the text is preferred in any part of it.
LEMMA DominantIn ==
  ASSUME NEW V, SpanSet(V), NEW M, M \subseteq V, NEW o \in M, Strongest(o, V)
  PROVE  Dominant(o, M)
<1> SUFFICES ASSUME NEW x \in M \ {o} PROVE Preferred(o, x) \/ Apart(o, x, M)
  BY DEF Dominant
<1>1. o.score \in Nat /\ x.score \in Nat /\ o.end \in Nat /\ x.end \in Nat /\ o.start < o.end /\ x.start < x.end
      /\ o.start \in Nat /\ x.start \in Nat
  BY SpanSetOK
<1>2. x.score < o.score \/ Apart(o, x, V)
  BY DEF Strongest
<1>3. CASE x.score < o.score
  BY <1>1, <1>3 DEF Preferred
<1>4. CASE Apart(o, x, V)
  <2>1. PICK c \in V : /\ Cut(c, V) /\ c.end \in Nat
                       /\ \/ o.end <= c.end /\ c.end <= x.start
                          \/ x.end <= c.end /\ c.end <= o.start
    BY <1>4, ApartOK
  <2>2. \E u \in M : u.end <= c.end
    BY <2>1
  <2>3. M \subseteq SpanType
    BY SpanSetOK
  <2>4. PICK d \in M : d.end <= c.end /\ \A y \in M : y.end <= c.end => y.end <= d.end
    BY <2>1, <2>2, <2>3, LatestBefore
  <2>5. d.end \in Nat
    BY SpanSetOK
  <2>6. Cut(d, M)
    <3> SUFFICES ASSUME NEW y \in M PROVE y.end <= d.end \/ d.end <= y.start
      BY DEF Cut
    <3>1. y.end <= c.end \/ c.end <= y.start
      BY <2>1 DEF Cut
    <3>2. y.start \in Nat
      BY SpanSetOK
    <3>3. CASE y.end <= c.end
      BY <2>4, <3>3
    <3>4. CASE c.end <= y.start
      <4>1. d.end <= c.end /\ c.end \in Nat
        BY <2>1, <2>4
      <4> QED BY ONLY <2>5, <3>2, <3>4, <4>1
    <3> QED BY <3>1, <3>3, <3>4
  <2>7. /\ o.end <= c.end => o.end <= d.end
        /\ x.end <= c.end => x.end <= d.end
        /\ d.end <= c.end /\ c.end \in Nat
    BY <2>1, <2>4
  <2>8. o.end <= d.end <=> d.end < x.end
    <3>1. \/ o.end <= c.end /\ c.end <= x.start
          \/ x.end <= c.end /\ c.end <= o.start
      BY <2>1
    <3> QED BY ONLY <1>1, <2>5, <2>7, <3>1
  <2> QED BY <2>6, <2>8 DEF Apart
<1> QED BY <1>2, <1>3, <1>4

\* What starts with the strongest and scores as much is the strongest itself.
LEMMA SameStart ==
  ASSUME NEW V, SpanSet(V), NEW o \in V, Strongest(o, V),
         NEW x \in V, x.start = o.start, x.score = o.score
  PROVE  x = o
<1> SUFFICES ASSUME x # o PROVE FALSE
  OBVIOUS
<1>1. /\ o.score \in Nat /\ o.end \in Nat /\ x.end \in Nat /\ o.start < o.end /\ x.start < x.end
      /\ o.start \in Nat /\ x.start \in Nat
  BY SpanSetOK
<1>2. ~(x.score < o.score)
  BY <1>1
<1>3. Apart(o, x, V)
  BY <1>2 DEF Strongest
<1>4. PICK c \in V : /\ Cut(c, V) /\ c.end \in Nat
                     /\ \/ o.end <= c.end /\ c.end <= x.start
                        \/ x.end <= c.end /\ c.end <= o.start
  BY <1>3, ApartOK
<1> QED BY ONLY <1>1, <1>4, x.start = o.start

\* Every answer to a part of the text with the strongest in it reports it,
\* from its own start.
LEMMA Reported ==
  ASSUME NEW V, SpanSet(V), NEW M, M \subseteq V, NEW A, IsMerge(A, M), NEW o \in M, Strongest(o, V)
  PROVE  \E s \in A : s.start = o.start /\ s.score = o.score /\ o.end <= s.end
<1>1. PICK s \in A : Covers(s, o) /\ s.score = o.score
  BY DominantIn DEF IsMerge
<1>2. s.start <= o.start /\ o.end <= s.end
  BY <1>1 DEF Covers
<1>3. M \subseteq SpanType
  BY SpanSetOK
<1>4. s \in Candidates(M)
  BY DEF IsMerge
<1>5. /\ s \in SpanType /\ s.start < s.end
      /\ \E x \in M : x.start = s.start /\ x.score = s.score
  BY <1>3, <1>4, CandidatesOK
<1>6. PICK x \in M : x.start = s.start /\ x.score = s.score
  BY <1>5
<1>7. /\ s.start \in Nat /\ s.end \in Nat
      /\ o.start \in Nat /\ o.end \in Nat /\ o.score \in Nat /\ o.start < o.end
      /\ x.start \in Nat /\ x.end \in Nat /\ x.start < x.end
  BY <1>5, SpanSetOK DEF SpanType
<1>8. CASE x = o
  BY <1>1, <1>2, <1>6, <1>8
<1>9. CASE x # o
  <2>1. ~(x.score < o.score)
    BY <1>1, <1>6, <1>7
  <2>2. Apart(o, x, V)
    BY <1>9, <2>1 DEF Strongest
  <2>3. PICK c \in V : /\ Cut(c, V) /\ c.end \in Nat
                       /\ \/ o.end <= c.end /\ c.end <= x.start
                          \/ x.end <= c.end /\ c.end <= o.start
    BY <2>2, ApartOK
  <2>4. CASE o.end <= c.end /\ c.end <= x.start
    <3>1. c.end \in Nat /\ x.start = s.start
      BY <1>6, <2>3
    <3> QED BY ONLY <1>2, <1>7, <2>4, <3>1
  <2>5. CASE x.end <= c.end /\ c.end <= o.start
    <3>1. s.end <= c.end \/ x.end <= s.start
      BY <2>3, <2>5, CutBelow
    <3>2. c.end \in Nat /\ x.start = s.start
      BY <1>6, <2>3
    <3> QED BY ONLY <1>2, <1>7, <2>5, <3>1, <3>2
  <2> QED BY <2>3, <2>4, <2>5
<1> QED BY <1>8, <1>9

\* The spans of all answers together, those of the text cut up.
LEMMA StrongestStands ==
  ASSUME NEW V, SpanSet(V), NEW o \in V, Strongest(o, V),
         NEW S, \A z \in S : \E A, M : M \subseteq V /\ A \subseteq S /\ z \in A /\ IsMerge(A, M),
         NEW B, NEW N, N \subseteq V, B \subseteq S, o \in N, IsMerge(B, N)
  PROVE  LET Y == {y \in S : y.start = o.start /\ y.score = o.score /\ o.end <= y.end}
         IN  Y # {} /\ Standing(Y, S, o.start, o.score)
<1> DEFINE Y == {y \in S : y.start = o.start /\ y.score = o.score /\ o.end <= y.end}
<1>1. Y # {}
  <2>1. \E s \in B : s.start = o.start /\ s.score = o.score /\ o.end <= s.end
    BY Reported
  <2> QED BY <2>1
<1>2. /\ o.score \in Nat /\ o.end \in Nat /\ o.start < o.end /\ o.start \in Nat
  BY SpanSetOK
\* Each reported span and the one whose start and score it has.
<1>3. ASSUME NEW z \in S
      PROVE  \E A, M : \E x \in M :
               /\ M \subseteq V /\ A \subseteq S /\ z \in A /\ IsMerge(A, M)
               /\ x.start = z.start /\ x.score = z.score
               /\ z \in SpanType /\ z.start < z.end
  <2>1. PICK A, M : M \subseteq V /\ A \subseteq S /\ z \in A /\ IsMerge(A, M)
    OBVIOUS
  <2>2. M \subseteq SpanType /\ z \in Candidates(M)
    BY <2>1 DEF SpanSet, IsMerge
  <2>3. z \in SpanType /\ z.start < z.end /\ \E x \in M : x.start = z.start /\ x.score = z.score
    BY <2>2, CandidatesOK
  <2> QED BY <2>1, <2>3
<1>4. ASSUME NEW z \in S \ Y
      PROVE  z.score < o.score \/ z.end <= o.start \/ \A y \in Y : y.end <= z.start
  <2>1. PICK A, M : \E x \in M :
               /\ M \subseteq V /\ A \subseteq S /\ z \in A /\ IsMerge(A, M)
               /\ x.start = z.start /\ x.score = z.score
               /\ z \in SpanType /\ z.start < z.end
    BY <1>3
  <2>2. PICK x \in M :
               /\ M \subseteq V /\ A \subseteq S /\ z \in A /\ IsMerge(A, M)
               /\ x.start = z.start /\ x.score = z.score
               /\ z \in SpanType /\ z.start < z.end
    BY <2>1
  <2>3. x \in V
    BY <2>2
  <2>4. /\ z.start \in Nat /\ z.end \in Nat /\ z.score \in Nat /\ z.start < z.end
        /\ x.start = z.start /\ x.score = z.score /\ x.end \in Nat /\ x.start < x.end
    BY <2>2, <2>3, SpanSetOK DEF SpanType
  <2>5. CASE x = o
    <3>1. o \in M
      BY <2>5
    <3>2. M \subseteq V /\ IsMerge(A, M) /\ z \in A
      BY <2>2
    <3>3. PICK s \in A : s.start = o.start /\ s.score = o.score /\ o.end <= s.end
      BY <3>1, <3>2, Reported
    <3>4. s = z \/ ~Overlapping(s, z)
      BY <3>2 DEF IsMerge, PairwiseDisjoint
    <3>5. s.end \in Nat
      <4>1. s \in Candidates(M) /\ M \subseteq SpanType
        BY <3>2 DEF IsMerge, SpanSet
      <4>2. s \in SpanType
        BY <4>1, CandidatesOK
      <4> QED BY <4>2 DEF SpanType
    <3>6. z.start = o.start
      BY <2>4, <2>5
    <3>7. Overlapping(s, z)
      BY ONLY <1>2, <2>4, <3>3, <3>5, <3>6 DEF Overlapping
    <3>8. z \in Y
      <4>1. s = z
        BY <3>4, <3>7
      <4> QED BY <3>3, <4>1
    <3> QED BY <3>8
  <2>6. CASE x.score < o.score
    BY <2>4, <2>6
  <2>7. CASE x # o /\ ~(x.score < o.score)
    <3>1. Apart(o, x, V)
      BY <2>3, <2>7 DEF Strongest
    <3>2. PICK c \in V : /\ Cut(c, V) /\ c.end \in Nat
                         /\ \/ o.end <= c.end /\ c.end <= x.start
                            \/ x.end <= c.end /\ c.end <= o.start
      BY <2>3, <3>1, ApartOK
    <3>3. CASE o.end <= c.end /\ c.end <= x.start
      <4>1. ASSUME NEW y \in Y PROVE y.end <= z.start
        <5>1. y \in S /\ y.start = o.start /\ y.score = o.score
          OBVIOUS
        <5>2. PICK Ay, My : \E q \in My :
               /\ My \subseteq V /\ Ay \subseteq S /\ y \in Ay /\ IsMerge(Ay, My)
               /\ q.start = y.start /\ q.score = y.score
               /\ y \in SpanType /\ y.start < y.end
          BY <1>3, <5>1
        <5>3. PICK q \in My :
               /\ My \subseteq V /\ Ay \subseteq S /\ y \in Ay /\ IsMerge(Ay, My)
               /\ q.start = y.start /\ q.score = y.score
               /\ y \in SpanType /\ y.start < y.end
          BY <5>2
        <5>4. q = o
          <6>1. q \in V /\ q.start = o.start /\ q.score = o.score
            BY <5>1, <5>3
          <6> QED BY <6>1, SameStart
        <5>5. o \in My /\ My \subseteq V /\ IsMerge(Ay, My) /\ y \in Ay
          BY <5>3, <5>4
        <5>6. y.end <= c.end \/ o.end <= y.start
          <6>1. Cut(c, V) /\ o.end <= c.end
            BY <3>2, <3>3
          <6> QED BY <5>5, <6>1, CutBelow
        <5>7. y.end \in Nat /\ c.end \in Nat /\ y.start = o.start /\ c.end <= z.start
          BY <2>4, <3>2, <3>3, <5>1, <5>3 DEF SpanType
        <5> QED BY ONLY <1>2, <2>4, <5>6, <5>7
      <4> QED BY <4>1
    <3>4. CASE x.end <= c.end /\ c.end <= o.start
      <4>1. z.end <= c.end \/ x.end <= z.start
        <5>1. M \subseteq V /\ IsMerge(A, M) /\ z \in A
          BY <2>2
        <5>2. Cut(c, V) /\ x.end <= c.end
          BY <3>2, <3>4
        <5> QED BY <5>1, <5>2, CutBelow
      <4>2. c.end \in Nat
        BY <3>2
      <4>3. z.end <= o.start
        BY ONLY <1>2, <2>4, <3>4, <4>1, <4>2
      <4> QED BY <4>3
    <3> QED BY <3>2, <3>3, <3>4
  <2> QED BY <2>5, <2>6, <2>7
<1> QED BY <1>1, <1>4 DEF Standing

-----------------------------------------------------------------------------
\* Further on, spans are related as they were.
LEMMA MovedRelated ==
  ASSUME NEW x \in SpanType, NEW y \in SpanType, NEW d \in Nat
  PROVE  LET a == Moved(x, d)
             b == Moved(y, d)
         IN  /\ a.end <= b.end <=> x.end <= y.end
             /\ a.end <= b.start <=> x.end <= y.start
             /\ a.end < b.end <=> x.end < y.end
             /\ Overlapping(a, b) <=> Overlapping(x, y)
             /\ Preferred(a, b) <=> Preferred(x, y)
             /\ Covers(a, b) <=> Covers(x, y)
<1> DEFINE a == Moved(x, d)
           b == Moved(y, d)
<1>1. /\ x.start \in Nat /\ x.end \in Nat /\ x.score \in Nat
      /\ a.start = x.start + d /\ a.end = x.end + d /\ a.score = x.score
  BY MovedOK
<1>2. /\ y.start \in Nat /\ y.end \in Nat /\ y.score \in Nat
      /\ b.start = y.start + d /\ b.end = y.end + d /\ b.score = y.score
  BY MovedOK
<1> HIDE DEF a, b
<1>3. d \in Nat
  OBVIOUS
<1>4. /\ a.end <= b.end <=> x.end <= y.end
      /\ a.end <= b.start <=> x.end <= y.start
      /\ a.end < b.end <=> x.end < y.end
  BY ONLY <1>1, <1>2, <1>3
<1>5. Overlapping(a, b) <=> Overlapping(x, y)
  BY ONLY <1>1, <1>2, <1>3 DEF Overlapping
<1>6. Preferred(a, b) <=> Preferred(x, y)
  BY ONLY <1>1, <1>2, <1>3 DEF Preferred
<1>7. Covers(a, b) <=> Covers(x, y)
  BY ONLY <1>1, <1>2, <1>3 DEF Covers
<1> QED BY <1>4, <1>5, <1>6, <1>7 DEF a, b

\* An answer about a chunk is an answer about that part of the text.
LEMMA MovedMerge ==
  ASSUME NEW all, all \subseteq SpanType, NEW spans, IsMerge(spans, all), NEW d \in Nat
  PROVE  IsMerge(MovedAll(spans, d), MovedAll(all, d))
<1> DEFINE A == MovedAll(spans, d)
           M == MovedAll(all, d)
<1>1. spans \subseteq Candidates(all) /\ spans \subseteq SpanType
  BY CandidatesOK DEF IsMerge
<1>2. M \subseteq SpanType /\ \A x \in all : Moved(x, d) \in M
  BY MovedOK DEF MovedAll
<1>3. \A y \in M : \E x \in all : y = Moved(x, d)
  BY DEF MovedAll
<1>4. /\ \A y \in A : \E x \in spans : y = Moved(x, d)
      /\ \A x \in spans : Moved(x, d) \in A
  BY DEF MovedAll
<1> HIDE DEF A, M
<1>5. A \subseteq Candidates(M)
  <2> SUFFICES ASSUME NEW s \in spans PROVE Moved(s, d) \in Candidates(M)
    BY <1>4
  <2>1. s \in SpanType /\ s \in Candidates(all)
    BY <1>1
  <2>2. s.start < s.end
    BY <2>1, CandidatesOK
  <2>3. PICK x \in all : x.start = s.start /\ x.score = s.score
    BY <2>1, CandidatesOK
  <2>4. PICK y \in all : y.end = s.end
    BY <2>1, CandidatesOK
  <2> DEFINE m == Moved(s, d)
             mx == Moved(x, d)
             my == Moved(y, d)
  <2>5. /\ m \in SpanType /\ m.start = s.start + d /\ m.end = s.end + d /\ m.score = s.score
        /\ s.start \in Nat /\ s.end \in Nat
    BY <2>1, MovedOK
  <2>6. mx.start = x.start + d /\ mx.score = x.score
    BY MovedOK
  <2>7. my.end = y.end + d
    BY MovedOK
  <2>8. mx \in M /\ my \in M
    BY <1>2
  <2> HIDE DEF m, mx, my
  <2>9. m.start < m.end
    BY ONLY <2>2, <2>5, d \in Nat
  <2>10. mx.start = m.start /\ mx.score = m.score /\ my.end = m.end
    BY <2>3, <2>4, <2>5, <2>6, <2>7
  <2>11. m \in Candidates(M)
    BY <1>2, <2>5, <2>8, <2>9, <2>10, CandidatesOK
  <2> QED BY <2>11 DEF m
<1>6. PairwiseDisjoint(A)
  <2> SUFFICES ASSUME NEW s \in spans, NEW r \in spans
               PROVE  Moved(s, d) = Moved(r, d) \/ ~Overlapping(Moved(s, d), Moved(r, d))
    BY <1>4 DEF PairwiseDisjoint
  <2>1. s = r \/ ~Overlapping(s, r)
    BY DEF IsMerge, PairwiseDisjoint
  <2>2. Overlapping(Moved(s, d), Moved(r, d)) <=> Overlapping(s, r)
    BY <1>1, MovedRelated
  <2> QED BY <2>1, <2>2
<1>7. ASSUME NEW c \in all, Cut(Moved(c, d), M) PROVE Cut(c, all)
  <2> SUFFICES ASSUME NEW x \in all PROVE x.end <= c.end \/ c.end <= x.start
    BY DEF Cut
  <2>1. Moved(x, d).end <= Moved(c, d).end \/ Moved(c, d).end <= Moved(x, d).start
    BY <1>2, <1>7 DEF Cut
  <2>2. /\ Moved(x, d).end <= Moved(c, d).end <=> x.end <= c.end
        /\ Moved(c, d).end <= Moved(x, d).start <=> c.end <= x.start
    BY MovedRelated
  <2> QED BY <2>1, <2>2
<1>9. \A s \in A : Uncrossed(s, M)
  <2> SUFFICES ASSUME NEW s \in spans, NEW c \in all, Cut(Moved(c, d), M)
               PROVE  Moved(s, d).end <= Moved(c, d).end \/ Moved(c, d).end <= Moved(s, d).start
    BY <1>3, <1>4 DEF Uncrossed
  <2>1. Cut(c, all)
    BY <1>7
  <2>2. s.end <= c.end \/ c.end <= s.start
    BY <2>1 DEF IsMerge, Uncrossed
  <2>3. /\ Moved(s, d).end <= Moved(c, d).end <=> s.end <= c.end
        /\ Moved(c, d).end <= Moved(s, d).start <=> c.end <= s.start
    BY <1>1, MovedRelated
  <2> QED BY <2>2, <2>3
<1>10. A = {} => M = {}
  <2>1. A = {} => spans = {}
    BY <1>4
  <2>2. all = {} => M = {}
    BY <1>3
  <2> QED BY <2>1, <2>2 DEF IsMerge
<1>11. ASSUME NEW o \in all, Dominant(Moved(o, d), M)
       PROVE  \E s \in A : Covers(s, Moved(o, d)) /\ s.score = Moved(o, d).score
  <2>1. ASSUME NEW x \in all \ {o} PROVE Preferred(o, x) \/ Apart(o, x, all)
    <3>1. Moved(x, d) # Moved(o, d)
      BY MovedApart
    <3>2. Preferred(Moved(o, d), Moved(x, d)) \/ Apart(Moved(o, d), Moved(x, d), M)
      BY <1>2, <1>11, <3>1 DEF Dominant
    <3>3. CASE Preferred(Moved(o, d), Moved(x, d))
      BY <3>3, MovedRelated
    <3>4. CASE Apart(Moved(o, d), Moved(x, d), M)
      <4>1. PICK m \in M : Cut(m, M) /\ (Moved(o, d).end <= m.end <=> m.end < Moved(x, d).end)
        BY <3>4 DEF Apart
      <4>2. PICK c \in all : m = Moved(c, d)
        BY <1>3
      <4>3. Cut(c, all)
        BY <1>7, <4>1, <4>2
      <4>4. Moved(o, d).end <= Moved(c, d).end <=> o.end <= c.end
        BY MovedRelated
      <4>5. Moved(c, d).end < Moved(x, d).end <=> c.end < x.end
        BY MovedRelated
      <4>6. o.end <= c.end <=> c.end < x.end
        BY <4>1, <4>2, <4>4, <4>5
      <4> QED BY <4>3, <4>6 DEF Apart
    <3> QED BY <3>2, <3>3, <3>4
  <2>2. Dominant(o, all)
    BY <2>1 DEF Dominant
  <2>3. PICK s \in spans : Covers(s, o) /\ s.score = o.score
    BY <2>2 DEF IsMerge
  <2>4. Covers(Moved(s, d), Moved(o, d))
    BY <1>1, <2>3, MovedRelated
  <2>5. Moved(s, d).score = Moved(o, d).score
    BY <2>3 DEF Moved
  <2> QED BY <1>4, <2>4, <2>5
<1>12. \A o \in M : Dominant(o, M) => \E s \in A : Covers(s, o) /\ s.score = o.score
  BY <1>3, <1>11
<1>13. IsMerge(A, M)
  BY <1>5, <1>6, <1>9, <1>10, <1>12 DEF IsMerge
<1> QED BY <1>13 DEF A, M

-----------------------------------------------------------------------------
\* Nothing in a chunk has been in force from before the given moment.
CleanSince(chunk, moment) ==
  \A w \in Word : InForceBefore(w, moment) => Places(chunk, w) = {}

RecordOK(r) == DOMAIN r = {"st", "text", "start", "asked", "reply", "skipped", "spans"}

\* A stored chunk was asked about at most Timeout before it was stored.
CacheClean == \A c \in DOMAIN cache : CleanSince(c, cache[c] - Timeout)

\* A clean answer still under way was clean when its scan began, or later.
RepliesClean ==
  \A s \in Scan : \A i \in DOMAIN scan[s].reply :
    scan[s].reply[i] = {} => CleanSince(Chunk(scan[s].text, i), scan[s].start)

(***************************************************************************)
(* The inductive invariant: what makes a skipped chunk fresh is the age of *)
(* the entry it was skipped for, and of the answer that entry came from.   *)
(***************************************************************************)
IndInv ==
  /\ TypeOK
  /\ \A s \in Scan : RecordOK(scan[s])
  /\ CacheClean
  /\ RepliesClean
  /\ SkippedFresh

\* A chunk clean since some moment is clean since any earlier one.
LEMMA CleanMonotone ==
  ASSUME TypeOK, NEW chunk, NEW m \in Int, NEW n \in Int, m <= n, CleanSince(chunk, n)
  PROVE  CleanSince(chunk, m)
BY DEF CleanSince, InForceBefore, TypeOK

\* An answer without spans is given when no word in force occurs.
LEMMA EmptyAnswer ==
  ASSUME TypeOK, NEW text, {} \in Answers(text), NEW m
  PROVE  CleanSince(text, m)
<1>1. Occurrences(text, inForce) = {}
  BY DEF Answers, IsMerge
<1>2. \A w \in inForce : Places(text, w) = {}
  BY <1>1 DEF Occurrences
<1> QED BY <1>2 DEF CleanSince, InForceBefore

\* Eviction keeps what it keeps as it was, and makes room.
LEMMA EvictedOK ==
  ASSUME NEW map, IsFiniteSet(DOMAIN map), Cardinality(DOMAIN map) <= MaxEntries + 1,
         NEW kept \in Evicted(map)
  PROVE  /\ DOMAIN kept \subseteq DOMAIN map
         /\ \A c \in DOMAIN kept : kept[c] = map[c]
         /\ IsFiniteSet(DOMAIN kept)
         /\ Cardinality(DOMAIN kept) <= MaxEntries
<1> DEFINE fresh == Without(map, {c \in DOMAIN map : time - map[c] > MaxAge})
<1>1. /\ DOMAIN fresh \subseteq DOMAIN map
      /\ \A c \in DOMAIN fresh : fresh[c] = map[c]
  BY DEF Without
<1>2. /\ IsFiniteSet(DOMAIN fresh)
      /\ Cardinality(DOMAIN fresh) <= MaxEntries + 1
      /\ Cardinality(DOMAIN fresh) \in Nat
  BY <1>1, FS_Subset, FS_CardinalityType, BoundsAssumption
<1> HIDE DEF fresh
<1>3. CASE Cardinality(DOMAIN fresh) <= MaxEntries
  <2>1. kept = fresh
    BY <1>3 DEF Evicted, fresh
  <2> QED BY <1>1, <1>2, <1>3, <2>1
<1>4. CASE ~(Cardinality(DOMAIN fresh) <= MaxEntries)
  <2>1. PICK c \in DOMAIN fresh : kept = Without(fresh, {c})
    BY <1>4 DEF Evicted, fresh
  <2>2. DOMAIN kept = DOMAIN fresh \ {c} /\ \A b \in DOMAIN kept : kept[b] = fresh[b]
    BY <2>1 DEF Without
  <2>3. IsFiniteSet(DOMAIN kept) /\ Cardinality(DOMAIN kept) = Cardinality(DOMAIN fresh) - 1
    BY <1>2, <2>2, FS_RemoveElement
  <2> QED BY <1>1, <1>2, <2>2, <2>3, BoundsAssumption
<1> QED BY <1>3, <1>4

-----------------------------------------------------------------------------
\* Nothing is cached or scanned initially.
LEMMA InitInv == Init => IndInv
<1> SUFFICES ASSUME Init PROVE IndInv
  OBVIOUS
<1>1. DOMAIN cache = {} /\ \A s \in Scan : scan[s] = Free
  BY DEF Init
<1>2. RecordOK(Free) /\ DOMAIN Free.reply = {} /\ Free.skipped = {}
  BY DEF Free, RecordOK
<1>3. TypeOK
  <2>1. ScanOK(Free)
    BY BoundsAssumption DEF Init, Free, ScanOK
  <2>2. IsFiniteSet({}) /\ Cardinality({}) = 0
    BY FS_EmptySet
  <2> QED BY <1>1, <2>1, <2>2, BoundsAssumption, PolicyAssumption DEF Init, TypeOK
<1> QED BY <1>1, <1>2, <1>3 DEF IndInv, CacheClean, RepliesClean, SkippedFresh

\* A scan skips what is in the cache and not too old.
LEMMA StartInv ==
  ASSUME IndInv, NEW s \in Scan, NEW t \in Text, Start(s, t)
  PROVE  IndInv'
<1> DEFINE chunks == Chunks(Len(t))
           skipped == IF Whole(Len(t)) THEN {} ELSE {i \in chunks : Has(Chunk(t, i))}
           r == [Free EXCEPT !.st = "running", !.text = t, !.start = time,
                             !.asked = chunks \ skipped, !.skipped = skipped]
<1>1. /\ Move(s, r)
      /\ \E gone : cache' = Without(cache, gone)
      /\ UNCHANGED <<time, inForce, since>>
  BY DEF Start
<1>2. /\ RecordOK(r) /\ r.st = "running" /\ r.text = t /\ r.start = time
      /\ r.skipped = skipped /\ r.asked \cup r.skipped \subseteq chunks
      /\ DOMAIN r.reply = {}
  <2>1. skipped \subseteq chunks
    OBVIOUS
  <2> HIDE DEF chunks, skipped
  <2>2. RecordOK(Free)
    BY DEF RecordOK, Free
  <2>3. RecordOK(r) /\ r.st = "running" /\ r.text = t /\ r.start = time
        /\ r.skipped = skipped /\ r.asked = chunks \ skipped /\ r.reply = Free.reply
    BY <2>2 DEF RecordOK
  <2>4. DOMAIN Free.reply = {}
    BY DEF Free
  <2> HIDE DEF r
  <2> QED BY <2>1, <2>3, <2>4
<1>3. \A i \in skipped : Chunk(t, i) \in DOMAIN cache /\ time - cache[Chunk(t, i)] <= MaxAge
  BY BoundsAssumption DEF Has, Expired, IndInv, TypeOK
<1> HIDE DEF r
<1>4. /\ DOMAIN cache' \subseteq DOMAIN cache /\ \A c \in DOMAIN cache' : cache'[c] = cache[c]
      /\ IsFiniteSet(DOMAIN cache') /\ Cardinality(DOMAIN cache') <= MaxEntries
  <2>1. DOMAIN cache' \subseteq DOMAIN cache /\ \A c \in DOMAIN cache' : cache'[c] = cache[c]
    BY <1>1 DEF Without
  <2>2. /\ IsFiniteSet(DOMAIN cache) /\ Cardinality(DOMAIN cache) <= MaxEntries
        /\ Cardinality(DOMAIN cache) \in Nat
    BY FS_CardinalityType DEF IndInv, TypeOK
  <2> QED BY <2>1, <2>2, FS_Subset, FS_CardinalityType, BoundsAssumption
<1>5. scan'[s] = r /\ DOMAIN scan' = Scan /\ \A q \in Scan \ {s} : scan'[q] = scan[q]
  BY <1>1 DEF Move, IndInv, TypeOK
<1>6. ScanOK(r)
  BY <1>2 DEF ScanOK, IndInv, TypeOK
<1>7. TypeOK'
  <2>1. \A q \in Scan : ScanOK(scan'[q])
    BY <1>5, <1>6 DEF IndInv, TypeOK
  <2> QED BY <1>1, <1>4, <1>5, <2>1 DEF IndInv, TypeOK, ScanOK
<1>8. CacheClean'
  BY <1>1, <1>4 DEF IndInv, CacheClean, CleanSince, InForceBefore
<1>9. RepliesClean'
  BY <1>1, <1>2, <1>5 DEF IndInv, RepliesClean, CleanSince, InForceBefore
<1>10. SkippedFresh'
  <2>1. ASSUME NEW i \in skipped PROVE CleanSince(Chunk(t, i), time - MaxAge - Timeout)
    <3> DEFINE c == Chunk(t, i)
    <3>1. /\ cache[c] - Timeout \in Int /\ time - MaxAge - Timeout \in Int
          /\ time - MaxAge - Timeout <= cache[c] - Timeout
      BY <1>3, BoundsAssumption DEF IndInv, TypeOK
    <3>2. CleanSince(c, cache[c] - Timeout)
      BY <1>3 DEF IndInv, CacheClean
    <3> HIDE DEF c
    <3>3. CleanSince(c, time - MaxAge - Timeout)
      BY <3>1, <3>2, CleanMonotone DEF IndInv
    <3> QED BY <3>3 DEF c
  <2> HIDE DEF skipped
  <2>2. ASSUME NEW q \in Scan, NEW i \in scan'[q].skipped, NEW w \in Word,
               InForceBefore(w, scan'[q].start - MaxAge - Timeout)
        PROVE  Places(Chunk(scan'[q].text, i), w) = {}
    <3>1. CASE q = s
      BY <1>2, <1>5, <2>1, <2>2, <3>1 DEF CleanSince
    <3>2. CASE q # s
      BY <1>5, <2>2, <3>2 DEF IndInv, SkippedFresh
    <3> QED BY <3>1, <3>2
  <2> QED BY <1>1, <2>2 DEF SkippedFresh, InForceBefore
<1>11. \A q \in Scan : RecordOK(scan'[q])
  BY <1>2, <1>5 DEF IndInv
<1> QED BY <1>7, <1>8, <1>9, <1>10, <1>11 DEF IndInv, RecordOK

\* A step that moves one scan on, with nothing new skipped.
LEMMA AdvanceInv ==
  ASSUME IndInv, NEW s \in Scan, NEW r,
         scan'[s] = r, DOMAIN scan' = Scan, \A q \in Scan \ {s} : scan'[q] = scan[q],
         RecordOK(r), ScanOK(r),
         r.text = scan[s].text, r.start = scan[s].start, r.skipped = scan[s].skipped,
         \A i \in DOMAIN r.reply : r.reply[i] = {} => CleanSince(Chunk(r.text, i), r.start),
         time' = time, inForce' = inForce, since' = since,
         \A c \in DOMAIN cache' : cache'[c] \in 0 .. time /\ CleanSince(c, cache'[c] - Timeout),
         IsFiniteSet(DOMAIN cache'), Cardinality(DOMAIN cache') <= MaxEntries
  PROVE  IndInv'
<1>1. scan'[s] = r /\ DOMAIN scan' = Scan /\ \A q \in Scan \ {s} : scan'[q] = scan[q]
  OBVIOUS
<1>2. TypeOK'
  <2>1. \A q \in Scan : ScanOK(scan'[q])
    BY <1>1 DEF IndInv, TypeOK
  <2> QED BY <1>1, <2>1 DEF IndInv, TypeOK, ScanOK
<1>3. CacheClean'
  BY DEF CacheClean, CleanSince, InForceBefore
<1>4. RepliesClean'
  BY <1>1 DEF IndInv, RepliesClean, CleanSince, InForceBefore
<1>5. SkippedFresh'
  BY <1>1 DEF IndInv, SkippedFresh, InForceBefore
<1>6. \A q \in Scan : RecordOK(scan'[q])
  BY <1>1 DEF IndInv
<1> QED BY <1>2, <1>3, <1>4, <1>5, <1>6 DEF IndInv, RecordOK

\* The facts about a scan and the cache that the steps below start from.
LEMMA Current ==
  ASSUME IndInv, NEW s \in Scan
  PROVE  /\ RecordOK(scan[s]) /\ ScanOK(scan[s])
         /\ \A i \in DOMAIN scan[s].reply : scan[s].reply[i] = {} =>
              CleanSince(Chunk(scan[s].text, i), scan[s].start)
         /\ \A c \in DOMAIN cache : cache[c] \in 0 .. time /\ CleanSince(c, cache[c] - Timeout)
         /\ IsFiniteSet(DOMAIN cache) /\ Cardinality(DOMAIN cache) <= MaxEntries
BY DEF IndInv, TypeOK, RepliesClean, CacheClean

\* An empty answer is clean at the moment it is given.
LEMMA ServeInv ==
  ASSUME IndInv, NEW s \in Scan, NEW i \in scan[s].asked, Serve(s, i)
  PROVE  IndInv'
<1> DEFINE o == scan[s]
<1>1. PICK spans \in Answers(Chunk(o.text, i)) :
        Move(s, [o EXCEPT !.asked = @ \ {i}, !.reply = With(@, i, spans)])
  BY DEF Serve
<1> DEFINE r == [o EXCEPT !.asked = @ \ {i}, !.reply = With(@, i, spans)]
<1>2. Move(s, r)
  BY <1>1
<1>3. /\ RecordOK(r) /\ r.st = o.st /\ r.text = o.text /\ r.start = o.start
      /\ r.skipped = o.skipped /\ r.asked = o.asked \ {i} /\ r.reply = With(o.reply, i, spans)
  BY Current DEF RecordOK
<1> HIDE DEF r
<1>4. scan'[s] = r /\ DOMAIN scan' = Scan /\ \A q \in Scan \ {s} : scan'[q] = scan[q]
  BY <1>2 DEF Move, IndInv, TypeOK
<1>5. DOMAIN r.reply = DOMAIN o.reply \cup {i}
  BY <1>3 DEF With
<1>6. ScanOK(r)
  BY <1>3, <1>5, Current DEF ScanOK, Free
<1>7. \A j \in DOMAIN r.reply : r.reply[j] = {} => CleanSince(Chunk(r.text, j), r.start)
  <2>1. spans = {} => CleanSince(Chunk(o.text, i), o.start)
    BY EmptyAnswer DEF IndInv
  <2> QED BY <1>3, <2>1, Current DEF With
<1>8. time' = time /\ inForce' = inForce /\ since' = since /\ cache' = cache
  BY DEF Serve
<1>9. /\ \A c \in DOMAIN cache' : cache'[c] \in 0 .. time /\ CleanSince(c, cache'[c] - Timeout)
      /\ IsFiniteSet(DOMAIN cache') /\ Cardinality(DOMAIN cache') <= MaxEntries
  BY <1>8, Current
<1> QED BY <1>4, <1>3, <1>6, <1>7, <1>8, <1>9, AdvanceInv

\* A clean answer is stored with the time it arrives, within Timeout of the
\* start of its scan.
LEMMA ReceiveInv ==
  ASSUME IndInv, NEW s \in Scan, NEW i \in DOMAIN scan[s].reply, Receive(s, i)
  PROVE  IndInv'
<1> DEFINE o == scan[s]
           shifted == {[x EXCEPT !.start = @ + Offset(i), !.end = @ + Offset(i)] : x \in o.reply[i]}
           r == [o EXCEPT !.reply = Without(@, {i}), !.spans = @ \cup shifted]
<1>1. Move(s, r)
  BY DEF Receive
<1>2. /\ RecordOK(r) /\ r.st = o.st /\ r.text = o.text /\ r.start = o.start
      /\ r.skipped = o.skipped /\ r.asked = o.asked /\ r.reply = Without(o.reply, {i})
  BY Current DEF RecordOK
<1> HIDE DEF r
<1>3. scan'[s] = r /\ DOMAIN scan' = Scan /\ \A q \in Scan \ {s} : scan'[q] = scan[q]
  BY <1>1 DEF Move, IndInv, TypeOK
<1>4. DOMAIN r.reply = DOMAIN o.reply \ {i} /\ \A j \in DOMAIN r.reply : r.reply[j] = o.reply[j]
  BY <1>2 DEF Without
<1>5. ScanOK(r)
  <2>1. o.text \in Text /\ ScanOK(o)
    BY Current DEF ScanOK, Free
  <2> HIDE DEF o
  <2> QED BY <1>2, <1>4, <2>1 DEF ScanOK
<1>6. \A j \in DOMAIN r.reply : r.reply[j] = {} => CleanSince(Chunk(r.text, j), r.start)
  BY <1>2, <1>4, Current
<1>7. /\ time' = time /\ inForce' = inForce /\ since' = since
  BY DEF Receive
<1>8. /\ \A c \in DOMAIN cache' : cache'[c] \in 0 .. time /\ CleanSince(c, cache'[c] - Timeout)
      /\ IsFiniteSet(DOMAIN cache') /\ Cardinality(DOMAIN cache') <= MaxEntries
  <2> DEFINE chunk == Chunk(o.text, i)
             map == With(cache, chunk, time)
  <2>1. CASE cache' = cache
    BY <2>1, Current
  <2>2. CASE cache' # cache
    <3>1. o.reply[i] = {} /\ cache' \in Evicted(map) /\ time - o.start <= Timeout
      BY <2>2 DEF Receive, MarkClean
    <3>2. /\ DOMAIN map = DOMAIN cache \cup {chunk} /\ map[chunk] = time
          /\ \A c \in DOMAIN cache \ {chunk} : map[c] = cache[c]
      BY DEF With
    <3>3. IsFiniteSet(DOMAIN map) /\ Cardinality(DOMAIN map) <= MaxEntries + 1
      <4>1. /\ IsFiniteSet(DOMAIN cache) /\ Cardinality(DOMAIN cache) <= MaxEntries
            /\ Cardinality(DOMAIN cache) \in Nat
        BY Current, FS_CardinalityType
      <4> HIDE DEF map
      <4>2. \/ Cardinality(DOMAIN map) = Cardinality(DOMAIN cache)
            \/ Cardinality(DOMAIN map) = Cardinality(DOMAIN cache) + 1
        BY <3>2, <4>1, FS_AddElement
      <4>3. IsFiniteSet(DOMAIN map)
        BY <3>2, <4>1, FS_AddElement
      <4> QED BY <4>1, <4>2, <4>3, BoundsAssumption
    <3>4. CleanSince(chunk, time - Timeout)
      <4>1. /\ time - Timeout \in Int /\ o.start \in Int /\ time - Timeout <= o.start
        BY <3>1, Current, BoundsAssumption DEF ScanOK, IndInv, TypeOK
      <4>2. CleanSince(chunk, o.start)
        BY <3>1, Current
      <4> QED BY <4>1, <4>2, CleanMonotone DEF IndInv
    <3>5. time \in 0 .. time
      BY DEF IndInv, TypeOK
    <3>6. \A c \in DOMAIN map : map[c] \in 0 .. time /\ CleanSince(c, map[c] - Timeout)
      BY <3>2, <3>4, <3>5, Current
    <3> HIDE DEF map
    <3> QED BY <3>1, <3>3, <3>6, EvictedOK
  <2> QED BY <2>1, <2>2
<1> QED BY <1>3, <1>2, <1>5, <1>6, <1>7, <1>8, AdvanceInv

\* A failed request leaves nothing behind.
LEMMA FailInv ==
  ASSUME IndInv, NEW s \in Scan, NEW i, Fail(s, i)
  PROVE  IndInv'
<1> DEFINE o == scan[s]
           r == [o EXCEPT !.asked = @ \ {i}, !.reply = Without(@, {i}), !.st = "failed"]
<1>1. Move(s, r)
  BY DEF Fail
<1>2. /\ RecordOK(r) /\ r.st = "failed" /\ r.text = o.text /\ r.start = o.start
      /\ r.skipped = o.skipped /\ r.asked = o.asked \ {i} /\ r.reply = Without(o.reply, {i})
  BY Current DEF RecordOK
<1> HIDE DEF r
<1>3. scan'[s] = r /\ DOMAIN scan' = Scan /\ \A q \in Scan \ {s} : scan'[q] = scan[q]
  BY <1>1 DEF Move, IndInv, TypeOK
<1>4. DOMAIN r.reply = DOMAIN o.reply \ {i} /\ \A j \in DOMAIN r.reply : r.reply[j] = o.reply[j]
  BY <1>2 DEF Without
<1>5. ScanOK(r)
  <2>1. i \in o.asked \cup DOMAIN o.reply
    BY DEF Fail
  <2>2. o.text \in Text
    BY <2>1, Current DEF ScanOK, Free
  <2> QED BY <1>2, <1>4, <2>2, Current DEF ScanOK
<1>6. \A j \in DOMAIN r.reply : r.reply[j] = {} => CleanSince(Chunk(r.text, j), r.start)
  BY <1>2, <1>4, Current
<1>7. /\ time' = time /\ inForce' = inForce /\ since' = since /\ cache' = cache
  BY DEF Fail
<1>8. /\ \A c \in DOMAIN cache' : cache'[c] \in 0 .. time /\ CleanSince(c, cache'[c] - Timeout)
      /\ IsFiniteSet(DOMAIN cache') /\ Cardinality(DOMAIN cache') <= MaxEntries
  BY <1>7, Current
<1> QED BY <1>3, <1>2, <1>5, <1>6, <1>7, <1>8, AdvanceInv

LEMMA ReturnInv ==
  ASSUME IndInv, NEW s \in Scan, Return(s)
  PROVE  IndInv'
<1> DEFINE o == scan[s]
           r == [o EXCEPT !.st = "done", !.spans = IF Whole(Len(o.text)) THEN @ ELSE MergeSpans(@)]
<1>1. Move(s, r) /\ o.st = "running"
  BY DEF Return
<1>2. /\ RecordOK(r) /\ r.st = "done" /\ r.text = o.text /\ r.start = o.start
      /\ r.skipped = o.skipped /\ r.asked = o.asked /\ r.reply = o.reply
  BY Current DEF RecordOK
<1> HIDE DEF r
<1>3. scan'[s] = r /\ DOMAIN scan' = Scan /\ \A q \in Scan \ {s} : scan'[q] = scan[q]
  BY <1>1 DEF Move, IndInv, TypeOK
<1>4. ScanOK(r)
  <2>1. ScanOK(o) /\ o # Free
    BY <1>1, Current DEF Free
  <2>2. o.text \in Text
    BY <2>1 DEF ScanOK
  <2> HIDE DEF o
  <2> QED BY <1>2, <2>1, <2>2 DEF ScanOK
<1>5. \A j \in DOMAIN r.reply : r.reply[j] = {} => CleanSince(Chunk(r.text, j), r.start)
  BY <1>2, Current
<1>6. /\ time' = time /\ inForce' = inForce /\ since' = since /\ cache' = cache
  BY DEF Return
<1>7. /\ \A c \in DOMAIN cache' : cache'[c] \in 0 .. time /\ CleanSince(c, cache'[c] - Timeout)
      /\ IsFiniteSet(DOMAIN cache') /\ Cardinality(DOMAIN cache') <= MaxEntries
  BY <1>6, Current
<1> QED BY <1>3, <1>2, <1>4, <1>5, <1>6, <1>7, AdvanceInv

\* Nothing is skipped for an emptied cache.
LEMMA ClearCacheInv ==
  ASSUME IndInv, ClearCache
  PROVE  IndInv'
<1>1. /\ DOMAIN cache' = {}
      /\ time' = time /\ inForce' = inForce /\ since' = since /\ scan' = scan
  BY DEF ClearCache
<1>2. IsFiniteSet({}) /\ Cardinality({}) = 0
  BY FS_EmptySet
<1>3. TypeOK'
  BY <1>1, <1>2, BoundsAssumption DEF IndInv, TypeOK, ScanOK
<1> QED BY <1>1, <1>3
        DEF IndInv, RecordOK, CacheClean, RepliesClean, CleanSince, SkippedFresh, InForceBefore

\* A policy change dates the words it brings at the present.
LEMMA PolicyChangeInv ==
  ASSUME IndInv, NEW words \in Policy, PolicyChange(words)
  PROVE  IndInv'
<1>1. time' = time /\ cache' = cache /\ scan' = scan /\ inForce' = words
  BY DEF PolicyChange
<1>2. TypeOK'
  <2>1. since' \in [Word -> 0 .. time]
    BY DEF PolicyChange, IndInv, TypeOK
  <2> QED BY <1>1, <2>1, PolicyAssumption DEF IndInv, TypeOK, ScanOK
<1>3. ASSUME NEW w \in Word, NEW m \in Int, m <= time, InForceBefore(w, m)'
      PROVE  InForceBefore(w, m)
  BY <1>3 DEF InForceBefore, PolicyChange, IndInv, TypeOK
<1>4. \A c \in DOMAIN cache : cache[c] - Timeout \in Int /\ cache[c] - Timeout <= time
  BY BoundsAssumption DEF IndInv, TypeOK
<1>5. \A s \in Scan : /\ scan[s].start \in Int /\ scan[s].start <= time
                      /\ scan[s].start - MaxAge - Timeout \in Int
                      /\ scan[s].start - MaxAge - Timeout <= time
  BY BoundsAssumption DEF IndInv, TypeOK, ScanOK
<1>6. \A c \in DOMAIN cache : \A w \in Word :
        InForceBefore(w, cache[c] - Timeout)' => InForceBefore(w, cache[c] - Timeout)
  BY <1>1, <1>3, <1>4
<1>7. \A s \in Scan : \A w \in Word :
        /\ InForceBefore(w, scan[s].start)' => InForceBefore(w, scan[s].start)
        /\ InForceBefore(w, scan[s].start - MaxAge - Timeout)'
             => InForceBefore(w, scan[s].start - MaxAge - Timeout)
  BY <1>1, <1>3, <1>5
<1>8. CacheClean'
  BY <1>1, <1>6 DEF IndInv, CacheClean, CleanSince
<1>9. RepliesClean'
  BY <1>1, <1>7 DEF IndInv, RepliesClean, CleanSince
<1>10. SkippedFresh'
  BY <1>1, <1>7 DEF IndInv, SkippedFresh
<1> QED BY <1>1, <1>2, <1>8, <1>9, <1>10 DEF IndInv, RecordOK

\* Time passing makes nothing dirty.
LEMMA TickInv ==
  ASSUME IndInv, Tick
  PROVE  IndInv'
<1>1. /\ time' = time + 1 /\ time' \in 0 .. MaxTime
      /\ inForce' = inForce /\ since' = since /\ cache' = cache /\ scan' = scan
  BY BoundsAssumption DEF Tick, IndInv, TypeOK
<1>2. TypeOK'
  <2>1. \A s \in Scan : ScanOK(scan[s])'
    BY <1>1 DEF IndInv, TypeOK, ScanOK
  <2>2. since' \in [Word -> 0 .. time'] /\ \A c \in DOMAIN cache : cache[c] \in 0 .. time'
    BY <1>1 DEF IndInv, TypeOK
  <2> QED BY <1>1, <2>1, <2>2 DEF IndInv, TypeOK
<1> QED BY <1>1, <1>2
        DEF IndInv, RecordOK, CacheClean, RepliesClean, CleanSince, SkippedFresh, InForceBefore

-----------------------------------------------------------------------------
\* Every step preserves the inductive invariant.
LEMMA NextInv == IndInv /\ [Next]_vars => IndInv'
<1> SUFFICES ASSUME IndInv, [Next]_vars PROVE IndInv'
  OBVIOUS
<1>1. CASE UNCHANGED vars
  BY <1>1 DEF vars, IndInv, TypeOK, ScanOK, RecordOK, CacheClean, RepliesClean,
              CleanSince, SkippedFresh, InForceBefore
<1>2. CASE Next
  BY <1>2, StartInv, ServeInv, ReceiveInv, FailInv, ReturnInv, ClearCacheInv,
              PolicyChangeInv, TickInv DEF Next
<1> QED BY <1>1, <1>2

-----------------------------------------------------------------------------
(* Scans over several answers.                                             *)

\* A text has finitely many candidates.
LEMMA CandidatesFinite ==
  ASSUME NEW t \in Seq(Int)
  PROVE  IsFiniteSet(Candidates(Occurrences(t, Word)))
<1> DEFINE L == Len(t)
           all == Occurrences(t, Word)
           D == (0 .. L) \X ((0 .. L) \X Word)
           f == [q \in D |-> [start |-> q[1], end |-> q[2][1], score |-> Score[q[2][2]]]]
           T == {f[q] : q \in D}
<1>1. IsFiniteSet(D)
  <2>1. IsFiniteSet(0 .. L)
    BY FS_Interval
  <2>2. IsFiniteSet((0 .. L) \X Word)
    BY <2>1, TextAssumption, FS_Product
  <2> QED BY <2>1, <2>2, FS_Product
<1>2. IsFiniteSet(T)
  <2> HIDE DEF D
  <2>1. f \in [D -> T] /\ \A x \in T : \E q \in D : f[q] = x
    OBVIOUS
  <2> HIDE DEF f, T
  <2>2. f \in Surjection(D, T)
    BY <2>1 DEF Surjection
  <2> QED BY <1>1, <2>2, FS_Surjection
<1>3. all \subseteq SpanType /\ \A x \in all : x.start < x.end /\ x.end <= L
  BY OccurrencesOK
<1>4. \A x \in all : \E w \in Word : x.score = Score[w]
  <2> SUFFICES ASSUME NEW w \in Word, NEW x \in Places(t, w) PROVE x.score = Score[w]
    BY DEF Occurrences
  <2>1. PICK k \in Nat : x = Place(k, w)
    BY PlacesOK
  <2> QED BY <2>1 DEF Place
<1> HIDE DEF all
<1>5. ASSUME NEW s \in Candidates(all) PROVE s \in T
  <2>1. s \in SpanType /\ s.start < s.end
    BY <1>3, CandidatesOK
  <2>2. PICK x \in all : x.start = s.start /\ x.score = s.score
    BY <1>3, CandidatesOK
  <2>3. PICK y \in all : y.end = s.end
    BY <1>3, CandidatesOK
  <2>4. PICK w \in Word : s.score = Score[w]
    BY <1>4, <2>2
  <2>5. s.start \in Nat /\ s.end \in Nat
    BY <2>1 DEF SpanType
  <2>6. s.end <= L /\ L \in Nat
    BY <1>3, <2>3
  <2>7. s.start \in 0 .. L /\ s.end \in 0 .. L
    BY ONLY <2>1, <2>5, <2>6
  <2> DEFINE q == <<s.start, <<s.end, w>>>>
  <2>8. q \in D /\ q[1] = s.start /\ q[2][1] = s.end /\ q[2][2] = w
    BY <2>7
  <2>9. s = [start |-> s.start, end |-> s.end, score |-> s.score]
    BY <2>1 DEF SpanType
  <2> HIDE DEF q, D
  <2>10. f[q] = s
    BY <2>4, <2>8, <2>9
  <2> QED BY <2>8, <2>10
<1> HIDE DEF T
<1>6. Candidates(all) \subseteq T
  BY <1>5
<1> QED BY <1>2, <1>6, FS_Subset DEF all

-----------------------------------------------------------------------------
\* A is an answer about chunk i of text: a merge of the places of some words
\* there, the given ones among them.
AnswerTo(text, sure, i, A) ==
  \E words \in SUBSET Word : sure \subseteq words /\ IsMerge(A, Found(text, i, words))

\* What has been received of a scan, and is still to come.
Collecting(r, sure) ==
  /\ \A i \in DOMAIN r.reply :
       r.reply[i] \subseteq SpanType /\ AnswerTo(r.text, sure, i, MovedAll(r.reply[i], Offset(i)))
  /\ \A y \in r.spans : \E i \in Chunks(Len(r.text)) : \E A \in SUBSET r.spans :
       y \in A /\ AnswerTo(r.text, sure, i, A)
  /\ \A i \in Chunks(Len(r.text)) \ (r.asked \cup DOMAIN r.reply \cup r.skipped) :
       \E A \in SUBSET r.spans : AnswerTo(r.text, sure, i, A)
  /\ Whole(Len(r.text)) =>
       PairwiseDisjoint(r.spans) /\ (r.asked \cup DOMAIN r.reply # {} => r.spans = {})

\* SpansExact, of one scan.
Exact(r) ==
  /\ r.spans \subseteq Candidates(Occurrences(r.text, Word))
  /\ PairwiseDisjoint(r.spans)

\* FoundWhole, of one scan and the words in force for long enough.
FoundIn(r, old) ==
  \A w \in old : Len(w) <= Overlap + 1 =>
    \A o \in Places(r.text, w) :
      Strongest(o, Occurrences(r.text, Word)) => \E x \in r.spans : Covers(x, o)

Answered(r, sure, old) ==
  /\ r.st = "running" => Collecting(r, sure)
  /\ r.st = "done" => r.asked = {} /\ DOMAIN r.reply = {} /\ Exact(r) /\ FoundIn(r, old)

\* The words in force from before the given moment.
Lasting(m) == {w \in Word : InForceBefore(w, m)}

(***************************************************************************)
(* The second inductive invariant: every answer is complete as to the words*)
(* in force since before its scan began, and what a running scan has       *)
(* gathered is made of such answers, one for every chunk it has heard of.  *)
(***************************************************************************)
AllAnswered ==
  \A s \in Scan :
    Answered(scan[s], Lasting(scan[s].start), Lasting(scan[s].start - MaxAge - Timeout))

\* What is complete as to some words is complete as to fewer.
LEMMA AnsweredStays ==
  ASSUME NEW r, NEW sure, NEW old, Answered(r, sure, old),
         NEW sure2, NEW old2, sure2 \subseteq sure, old2 \subseteq old
  PROVE  Answered(r, sure2, old2)
<1>1. \A i, A : AnswerTo(r.text, sure, i, A) => AnswerTo(r.text, sure2, i, A)
  BY DEF AnswerTo
<1>2. FoundIn(r, old) => FoundIn(r, old2)
  BY DEF FoundIn
<1>3. Collecting(r, sure) => Collecting(r, sure2)
  BY <1>1 DEF Collecting
<1> QED BY <1>2, <1>3 DEF Answered

\* A step that puts scan s into state r.
LEMMA AnsweredStep ==
  ASSUME IndInv, AllAnswered, NEW s \in Scan, NEW r, scan'[s] = r,
         \A q \in Scan \ {s} : scan'[q] = scan[q],
         Answered(r, Lasting(r.start), Lasting(r.start - MaxAge - Timeout)),
         inForce' = inForce, since' = since
  PROVE  AllAnswered'
<1>1. ASSUME NEW q \in Scan
      PROVE  Answered(scan[q], Lasting(scan[q].start), Lasting(scan[q].start - MaxAge - Timeout))'
  <2>1. CASE q = s
    BY <2>1 DEF Lasting, InForceBefore
  <2>2. CASE q # s
    <3>1. scan'[q] = scan[q] /\ inForce' = inForce /\ since' = since
      BY <2>2
    <3>2. Answered(scan[q], Lasting(scan[q].start), Lasting(scan[q].start - MaxAge - Timeout))
      BY DEF AllAnswered
    <3> QED BY ONLY <3>1, <3>2 DEF Lasting, InForceBefore
  <2> QED BY <2>1, <2>2
<1> QED BY <1>1 DEF AllAnswered

\* What the steps below need to know of a scan.
LEMMA ScanFacts ==
  ASSUME IndInv, NEW s \in Scan
  PROVE  /\ RecordOK(scan[s]) /\ DOMAIN scan = Scan
         /\ scan[s].asked \cup DOMAIN scan[s].reply \cup scan[s].skipped \subseteq Chunks(Len(scan[s].text))
         /\ scan[s].asked \cap DOMAIN scan[s].reply = {}
         /\ scan[s].start \in 0 .. time
         /\ scan[s].st = "running" => scan[s].text \in Text
<1>1. RecordOK(scan[s]) /\ DOMAIN scan = Scan /\ ScanOK(scan[s])
  BY DEF IndInv, TypeOK
<1>2. scan[s].st = "running" => scan[s] # Free
  BY DEF Free
<1> QED BY <1>1, <1>2 DEF ScanOK

\* Initially no scan is under way.
LEMMA AnsweredInit == Init => AllAnswered
<1> SUFFICES ASSUME Init, NEW s \in Scan PROVE scan[s].st = "free"
  BY DEF AllAnswered, Answered
<1> QED BY DEF Init, Free

\* A scan begins with every chunk that is not skipped asked for.
LEMMA AnsweredStart ==
  ASSUME IndInv, AllAnswered, NEW s \in Scan, NEW t \in Text, Start(s, t)
  PROVE  AllAnswered'
<1> DEFINE chunks == Chunks(Len(t))
           skipped == IF Whole(Len(t)) THEN {} ELSE {i \in chunks : Has(Chunk(t, i))}
           r == [Free EXCEPT !.st = "running", !.text = t, !.start = time,
                             !.asked = chunks \ skipped, !.skipped = skipped]
<1>1. Move(s, r) /\ inForce' = inForce /\ since' = since
  BY DEF Start
<1>2. /\ r.st = "running" /\ r.text = t /\ r.skipped = skipped /\ r.asked = chunks \ skipped
      /\ DOMAIN r.reply = {} /\ r.spans = {}
  <2> HIDE DEF chunks, skipped
  <2>1. DOMAIN Free = {"st", "text", "start", "asked", "reply", "skipped", "spans"}
        /\ DOMAIN Free.reply = {} /\ Free.spans = {}
    BY DEF Free
  <2>2. /\ r.st = "running" /\ r.text = t /\ r.skipped = skipped /\ r.asked = chunks \ skipped
        /\ r.reply = Free.reply /\ r.spans = Free.spans
    BY <2>1
  <2> HIDE DEF r
  <2> QED BY <2>1, <2>2
<1> HIDE DEF r, skipped
<1>3. \A sure : Collecting(r, sure)
  BY <1>2 DEF Collecting, PairwiseDisjoint
<1>4. \A sure, old : Answered(r, sure, old)
  BY <1>2, <1>3 DEF Answered
<1>5. scan'[s] = r /\ \A q \in Scan \ {s} : scan'[q] = scan[q]
  BY <1>1, ScanFacts DEF Move
<1> QED BY <1>1, <1>4, <1>5, AnsweredStep

\* The answer to a request is made with the words then in force, all that
\* were in force when the scan began and still are among them.
LEMMA AnsweredServe ==
  ASSUME IndInv, AllAnswered, NEW s \in Scan, NEW i \in scan[s].asked, Serve(s, i)
  PROVE  AllAnswered'
<1> DEFINE o == scan[s]
<1>1. PICK spans \in Answers(Chunk(o.text, i)) :
        Move(s, [o EXCEPT !.asked = @ \ {i}, !.reply = With(@, i, spans)])
  BY DEF Serve
<1> DEFINE r == [o EXCEPT !.asked = @ \ {i}, !.reply = With(@, i, spans)]
<1>2. Move(s, r)
  BY <1>1
<1>3. /\ r.st = o.st /\ r.text = o.text /\ r.start = o.start /\ r.spans = o.spans
      /\ r.skipped = o.skipped /\ r.asked = o.asked \ {i} /\ r.reply = With(o.reply, i, spans)
  BY ScanFacts DEF RecordOK
<1> HIDE DEF r
<1>4. scan'[s] = r /\ \A q \in Scan \ {s} : scan'[q] = scan[q]
  BY <1>2, ScanFacts DEF Move
<1>5. inForce' = inForce /\ since' = since
  BY DEF Serve
<1>6. /\ DOMAIN r.reply = DOMAIN o.reply \cup {i} /\ r.reply[i] = spans
      /\ \A j \in DOMAIN o.reply \ {i} : r.reply[j] = o.reply[j]
  BY <1>3 DEF With
<1> DEFINE sure == Lasting(o.start)
           old == Lasting(o.start - MaxAge - Timeout)
<1>7. Answered(o, sure, old)
  BY DEF AllAnswered
<1>8. ASSUME r.st = "running" PROVE Collecting(r, sure)
  <2>1. o.text \in Text /\ i \in Chunks(Len(o.text)) /\ Collecting(o, sure)
    BY <1>3, <1>7, <1>8, ScanFacts DEF Answered
  <2>2. o.text \in Seq(Int)
    BY <2>1, TextOK
  <2>3. Chunk(o.text, i) \in Seq(Int) /\ Offset(i) \in Nat
    BY <2>1, <2>2, ChunkOK
  <2>4. inForce \subseteq Word /\ sure \subseteq inForce
    BY DEF IndInv, TypeOK, Lasting, InForceBefore
  <2> DEFINE all == Occurrences(Chunk(o.text, i), inForce)
  <2>5. IsMerge(spans, all)
    BY DEF Answers
  <2>6. all \subseteq SpanType
    BY <2>3, <2>4, OccurrencesOK
  <2>7. spans \subseteq SpanType
    BY <2>5, <2>6, CandidatesOK DEF IsMerge
  <2>8. IsMerge(MovedAll(spans, Offset(i)), MovedAll(all, Offset(i)))
    BY <2>3, <2>5, <2>6, MovedMerge
  <2>9. AnswerTo(o.text, sure, i, MovedAll(spans, Offset(i)))
    BY <2>4, <2>8 DEF AnswerTo, Found
  <2> HIDE DEF sure, o, all
  <2>10. \A j \in DOMAIN r.reply :
           r.reply[j] \subseteq SpanType /\ AnswerTo(r.text, sure, j, MovedAll(r.reply[j], Offset(j)))
    BY <1>3, <1>6, <2>1, <2>7, <2>9 DEF Collecting
  <2>11. r.asked \cup DOMAIN r.reply = o.asked \cup DOMAIN o.reply
    BY <1>3, <1>6 DEF o
  <2>12. /\ \A y \in r.spans : \E j \in Chunks(Len(r.text)) : \E A \in SUBSET r.spans :
              y \in A /\ AnswerTo(r.text, sure, j, A)
         /\ \A j \in Chunks(Len(r.text)) \ (r.asked \cup DOMAIN r.reply \cup r.skipped) :
              \E A \in SUBSET r.spans : AnswerTo(r.text, sure, j, A)
         /\ Whole(Len(r.text)) =>
              PairwiseDisjoint(r.spans) /\ (r.asked \cup DOMAIN r.reply # {} => r.spans = {})
    BY <1>3, <2>1, <2>11 DEF Collecting
  <2> QED BY <2>10, <2>12 DEF Collecting
<1>9. r.st # "done"
  BY <1>3, <1>7 DEF Answered
<1>10. Answered(r, Lasting(r.start), Lasting(r.start - MaxAge - Timeout))
  BY <1>3, <1>8, <1>9 DEF Answered
<1> QED BY <1>4, <1>5, <1>10, AnsweredStep

\* What an answer reports is gathered where it lies in the text.
LEMMA AnsweredReceive ==
  ASSUME IndInv, AllAnswered, NEW s \in Scan, NEW i \in DOMAIN scan[s].reply, Receive(s, i)
  PROVE  AllAnswered'
<1> DEFINE o == scan[s]
           shifted == {[x EXCEPT !.start = @ + Offset(i), !.end = @ + Offset(i)] : x \in o.reply[i]}
           r == [o EXCEPT !.reply = Without(@, {i}), !.spans = @ \cup shifted]
<1>1. Move(s, r)
  BY DEF Receive
<1>2. /\ r.st = o.st /\ r.text = o.text /\ r.start = o.start /\ r.spans = o.spans \cup shifted
      /\ r.skipped = o.skipped /\ r.asked = o.asked /\ r.reply = Without(o.reply, {i})
  <2> HIDE DEF shifted
  <2> QED BY ScanFacts DEF RecordOK
<1> HIDE DEF r
<1>3. scan'[s] = r /\ \A q \in Scan \ {s} : scan'[q] = scan[q]
  BY <1>1, ScanFacts DEF Move
<1>4. inForce' = inForce /\ since' = since
  BY DEF Receive
<1>5. DOMAIN r.reply = DOMAIN o.reply \ {i} /\ \A j \in DOMAIN r.reply : r.reply[j] = o.reply[j]
  BY <1>2 DEF Without
<1> DEFINE sure == Lasting(o.start)
           old == Lasting(o.start - MaxAge - Timeout)
<1>6. Answered(o, sure, old)
  BY DEF AllAnswered
<1>7. ASSUME r.st = "running" PROVE Collecting(r, sure)
  <2>1. o.text \in Text /\ i \in Chunks(Len(o.text)) /\ Collecting(o, sure)
    BY <1>2, <1>6, <1>7, ScanFacts DEF Answered
  <2>2. o.text \in Seq(Int)
    BY <2>1, TextOK
  <2>3. Offset(i) \in Nat
    BY <2>1, <2>2, ChunkOK
  <2> DEFINE B == MovedAll(o.reply[i], Offset(i))
  <2>4. o.reply[i] \subseteq SpanType /\ AnswerTo(o.text, sure, i, B)
    BY <2>1 DEF Collecting
  <2>5. shifted = B
    <3>1. \A x \in o.reply[i] :
            [x EXCEPT !.start = @ + Offset(i), !.end = @ + Offset(i)] = Moved(x, Offset(i))
      BY <2>3, <2>4, MovedOK
    <3> QED BY <3>1 DEF MovedAll
  <2> HIDE DEF shifted, B
  <2>6. PairwiseDisjoint(B)
    BY <2>4 DEF AnswerTo, IsMerge
  <2>7. o.asked \cap DOMAIN o.reply = {}
    BY ScanFacts
  <2> HIDE DEF sure, o
  <2>8. r.spans = o.spans \cup B
    BY <1>2, <2>5
  <2>9. \A j \in DOMAIN r.reply :
          r.reply[j] \subseteq SpanType /\ AnswerTo(r.text, sure, j, MovedAll(r.reply[j], Offset(j)))
    BY <1>2, <1>5, <2>1 DEF Collecting
  <2>10. \A y \in r.spans : \E j \in Chunks(Len(r.text)) : \E A \in SUBSET r.spans :
            y \in A /\ AnswerTo(r.text, sure, j, A)
    <3> SUFFICES ASSUME NEW y \in r.spans
                 PROVE  \E j \in Chunks(Len(r.text)) : \E A \in SUBSET r.spans :
                          y \in A /\ AnswerTo(r.text, sure, j, A)
      OBVIOUS
    <3>1. CASE y \in B
      BY <1>2, <2>1, <2>4, <2>8, <3>1
    <3>2. CASE y \in o.spans
      <4>1. PICK j \in Chunks(Len(o.text)) : \E A \in SUBSET o.spans :
              y \in A /\ AnswerTo(o.text, sure, j, A)
        BY <2>1, <3>2 DEF Collecting
      <4> QED BY <1>2, <2>8, <4>1
    <3> QED BY <2>8, <3>1, <3>2
  <2>11. \A j \in Chunks(Len(r.text)) \ (r.asked \cup DOMAIN r.reply \cup r.skipped) :
           \E A \in SUBSET r.spans : AnswerTo(r.text, sure, j, A)
    <3> SUFFICES ASSUME NEW j \in Chunks(Len(o.text)), j \notin r.asked \cup DOMAIN r.reply \cup r.skipped
                 PROVE  \E A \in SUBSET r.spans : AnswerTo(o.text, sure, j, A)
      BY <1>2
    <3>1. CASE j = i
      BY <2>4, <2>8, <3>1
    <3>2. CASE j # i
      <4>1. j \notin o.asked \cup DOMAIN o.reply \cup o.skipped
        BY <1>2, <1>5, <3>2
      <4>2. PICK A \in SUBSET o.spans : AnswerTo(o.text, sure, j, A)
        BY <2>1, <4>1 DEF Collecting
      <4> QED BY <2>8, <4>2
    <3> QED BY <3>1, <3>2
  <2>12. ASSUME Whole(Len(r.text))
         PROVE  PairwiseDisjoint(r.spans) /\ (r.asked \cup DOMAIN r.reply # {} => r.spans = {})
    <3>1. Whole(Len(o.text)) /\ i \in DOMAIN o.reply
      BY <1>2, <2>12 DEF o
    <3>2. o.spans = {}
      BY <2>1, <3>1 DEF Collecting
    <3>3. \A j \in Chunks(Len(o.text)) : j = 0
      BY <3>1 DEF Chunks
    <3>4. o.asked \cup DOMAIN o.reply \subseteq Chunks(Len(o.text))
      BY ScanFacts DEF o
    <3>5. r.asked \cup DOMAIN r.reply = {}
      BY <1>2, <1>5, <2>7, <3>1, <3>3, <3>4
    <3> QED BY <2>6, <2>8, <3>2, <3>5
  <2> QED BY <2>9, <2>10, <2>11, <2>12 DEF Collecting
<1>8. r.st # "done"
  BY <1>2, <1>6 DEF Answered
<1>9. Answered(r, Lasting(r.start), Lasting(r.start - MaxAge - Timeout))
  <2> HIDE DEF o
  <2> QED BY <1>2, <1>7, <1>8 DEF Answered, o
<1> QED BY <1>3, <1>4, <1>9, AnsweredStep

\* A failed scan returns nothing.
LEMMA AnsweredFail ==
  ASSUME IndInv, AllAnswered, NEW s \in Scan, NEW i, Fail(s, i)
  PROVE  AllAnswered'
<1> DEFINE o == scan[s]
           r == [o EXCEPT !.asked = @ \ {i}, !.reply = Without(@, {i}), !.st = "failed"]
<1>1. Move(s, r) /\ inForce' = inForce /\ since' = since
  BY DEF Fail
<1>2. r.st = "failed"
  BY ScanFacts DEF RecordOK
<1> HIDE DEF r
<1>3. scan'[s] = r /\ \A q \in Scan \ {s} : scan'[q] = scan[q]
  BY <1>1, ScanFacts DEF Move
<1>4. \A sure, old : Answered(r, sure, old)
  BY <1>2 DEF Answered
<1> QED BY <1>1, <1>3, <1>4, AnsweredStep

\* What answers report begins and ends with words of the text.
LEMMA AnswerCandidates ==
  ASSUME NEW t \in Seq(Int), NEW sure, NEW i \in Chunks(Len(t)), NEW A, AnswerTo(t, sure, i, A)
  PROVE  /\ A \subseteq Candidates(Occurrences(t, Word))
         /\ \E M : /\ M \subseteq Occurrences(t, Word) /\ IsMerge(A, M)
                   /\ \A w \in sure : \A x \in Places(Chunk(t, i), w) : Moved(x, Offset(i)) \in M
<1>1. PICK words \in SUBSET Word : sure \subseteq words /\ IsMerge(A, Found(t, i, words))
  BY DEF AnswerTo
<1> DEFINE M == Found(t, i, words)
           V == Occurrences(t, Word)
<1>2. M \subseteq V
  <2>1. M \subseteq Occurrences(t, words)
    BY FoundInText
  <2>2. Occurrences(t, words) \subseteq V
    BY DEF Occurrences
  <2> HIDE DEF M, V
  <2> QED BY <2>1, <2>2
<1>3. V \subseteq SpanType
  BY OccurrencesOK
<1>4. \A w \in sure : \A x \in Places(Chunk(t, i), w) : Moved(x, Offset(i)) \in M
  BY <1>1 DEF Found, MovedAll, Occurrences
<1>5. A \subseteq Candidates(M)
  BY <1>1 DEF IsMerge
<1> HIDE DEF V, M
<1>6. Candidates(M) \subseteq Candidates(V)
  <2> SUFFICES ASSUME NEW z \in Candidates(M) PROVE z \in Candidates(V)
    OBVIOUS
  <2>1. M \subseteq SpanType
    BY <1>2, <1>3
  <2>2. z \in SpanType /\ z.start < z.end
    BY <2>1, CandidatesOK
  <2>3. PICK x \in M : x.start = z.start /\ x.score = z.score
    BY <2>1, CandidatesOK
  <2>4. PICK y \in M : y.end = z.end
    BY <2>1, CandidatesOK
  <2>5. x \in V /\ y \in V
    BY <1>2
  <2> QED BY <1>3, <2>2, <2>3, <2>4, <2>5, CandidatesOK
<1> QED BY <1>1, <1>2, <1>4, <1>5, <1>6 DEF M, V

\* When all answers are in, what the scan returns is exact and has the words
\* that were in force for long enough.
LEMMA ReturnFinds ==
  ASSUME NEW r, r.text \in Seq(Int), r.asked = {}, DOMAIN r.reply = {},
         NEW sure, sure \subseteq Word, NEW old, old \subseteq sure,
         r.skipped \subseteq Chunks(Len(r.text)), Collecting(r, sure),
         \A i \in r.skipped : \A w \in old : Places(Chunk(r.text, i), w) = {},
         NEW q, q.text = r.text, q.spans = IF Whole(Len(r.text)) THEN r.spans ELSE MergeSpans(r.spans)
  PROVE  Exact(q) /\ FoundIn(q, old)
<1> DEFINE t == r.text
           V == Occurrences(t, Word)
           S == r.spans
<1>1. SpanSet(V)
  BY OccurrencesOK DEF SpanSet
<1>2. /\ \A y \in S : \E i \in Chunks(Len(t)) : \E A \in SUBSET S : y \in A /\ AnswerTo(t, sure, i, A)
      /\ \A i \in Chunks(Len(t)) \ r.skipped : \E A \in SUBSET S : AnswerTo(t, sure, i, A)
      /\ Whole(Len(t)) => PairwiseDisjoint(S)
  BY DEF Collecting
<1> HIDE DEF t, V, S
<1>3. t \in Seq(Int) /\ V = Occurrences(t, Word) /\ q.text = t /\ Len(t) \in Nat
      /\ q.spans = IF Whole(Len(t)) THEN S ELSE MergeSpans(S)
  BY DEF t, V, S
<1>4. \A z \in S : \E A, M : M \subseteq V /\ A \subseteq S /\ z \in A /\ IsMerge(A, M)
  <2> SUFFICES ASSUME NEW z \in S PROVE \E A, M : M \subseteq V /\ A \subseteq S /\ z \in A /\ IsMerge(A, M)
    OBVIOUS
  <2>1. PICK i \in Chunks(Len(t)) : \E A \in SUBSET S : z \in A /\ AnswerTo(t, sure, i, A)
    BY <1>2
  <2>2. PICK A \in SUBSET S : z \in A /\ AnswerTo(t, sure, i, A)
    BY <2>1
  <2>3. \E M : M \subseteq V /\ IsMerge(A, M)
    BY <1>3, <2>2, AnswerCandidates
  <2> QED BY <2>2, <2>3
<1>5. S \subseteq Candidates(V)
  <2> SUFFICES ASSUME NEW z \in S PROVE z \in Candidates(V)
    OBVIOUS
  <2>1. PICK i \in Chunks(Len(t)) : \E A \in SUBSET S : z \in A /\ AnswerTo(t, sure, i, A)
    BY <1>2
  <2>2. PICK A \in SUBSET S : z \in A /\ AnswerTo(t, sure, i, A)
    BY <2>1
  <2> QED BY <1>3, <2>2, AnswerCandidates
<1>6. IsFiniteSet(S) /\ S \subseteq SpanType /\ \A y \in S : y.start < y.end
  <2>1. IsFiniteSet(S)
    BY <1>3, <1>5, CandidatesFinite, FS_Subset
  <2>2. S \subseteq SpanType /\ \A y \in S : y.start < y.end
    BY <1>1, <1>5, CandidatesOK DEF SpanSet
  <2> QED BY <2>1, <2>2
<1>7. /\ MergeSpans(S) \subseteq S /\ PairwiseDisjoint(MergeSpans(S))
      /\ \A Y, a, c : Standing(Y, S, a, c) /\ Y # {} => \E y \in Y : y \in MergeSpans(S)
  BY <1>6, MergeSpansOK
<1>8. Exact(q)
  BY <1>2, <1>3, <1>5, <1>7 DEF Exact
<1>9. ASSUME NEW w \in old, Len(w) <= Overlap + 1, NEW o \in Places(t, w), Strongest(o, V)
      PROVE  \E x \in q.spans : Covers(x, o)
  <2>1. w \in Word /\ Len(w) \in Nat /\ Len(w) >= 1
    BY WordOK
  <2>2. o \in V
    BY <1>3, <2>1, <1>9 DEF Occurrences
  <2>3. o.start \in Nat /\ o.end \in Nat /\ o.start < o.end /\ o.end <= Len(t) /\ o.end - o.start <= Overlap + 1
    <3>1. PICK k \in Nat : At(t, k, w) /\ o = Place(k, w)
      BY <1>3, <1>9, <2>1, PlacesOK
    <3>2. o.start = k /\ o.end = k + Len(w) /\ k + Len(w) <= Len(t)
      BY <3>1 DEF Place, At
    <3>3. Overlap \in Nat
      BY ChunkAssumption
    <3> QED BY ONLY <1>3, <1>9, <2>1, <3>2, <3>3
  <2>4. PICK i \in Chunks(Len(t)) : Offset(i) <= o.start /\ o.end <= Offset(i) + ChunkSize
    BY <1>3, <2>3, ShortSpanInOneChunk
  <2>5. PICK p \in Places(Chunk(t, i), w) : Moved(p, Offset(i)) = o
    BY <1>3, <1>9, <2>1, <2>4, FoundInChunk
  <2>6. i \notin r.skipped
    BY <1>9, <2>5 DEF t
  <2>7. PICK B \in SUBSET S : AnswerTo(t, sure, i, B)
    BY <1>2, <2>6
  <2>8. PICK N : /\ N \subseteq V /\ IsMerge(B, N)
                 /\ \A v \in sure : \A x \in Places(Chunk(t, i), v) : Moved(x, Offset(i)) \in N
    BY <1>3, <2>7, AnswerCandidates
  <2>9. o \in N
    BY <1>9, <2>5, <2>8
  <2> DEFINE Y == {y \in S : y.start = o.start /\ y.score = o.score /\ o.end <= y.end}
  <2>10. Y # {} /\ Standing(Y, S, o.start, o.score)
    BY <1>1, <1>4, <1>9, <2>2, <2>7, <2>8, <2>9, StrongestStands
  <2>11. \E y \in Y : y \in q.spans
    <3> HIDE DEF Y
    <3>1. CASE Whole(Len(t))
      <4>1. Y \subseteq S
        BY DEF Y
      <4> QED BY <1>3, <2>10, <3>1, <4>1
    <3>2. CASE ~Whole(Len(t))
      BY <1>3, <1>7, <2>10, <3>2
    <3> QED BY <3>1, <3>2
  <2>12. PICK y \in Y : y \in q.spans
    BY <2>11
  <2>13. Covers(y, o)
    BY <2>3, <2>12 DEF Covers
  <2> QED BY <2>12, <2>13
<1>10. FoundIn(q, old)
  BY <1>3, <1>9 DEF FoundIn
<1> QED BY <1>8, <1>10

\* The scan returns what its answers, merged, amount to.
LEMMA AnsweredReturn ==
  ASSUME IndInv, AllAnswered, NEW s \in Scan, Return(s)
  PROVE  AllAnswered'
<1> DEFINE o == scan[s]
           q == [o EXCEPT !.st = "done", !.spans = IF Whole(Len(o.text)) THEN @ ELSE MergeSpans(@)]
           sure == Lasting(o.start)
           old == Lasting(o.start - MaxAge - Timeout)
<1>1. /\ Move(s, q) /\ o.st = "running" /\ o.asked = {} /\ DOMAIN o.reply = {}
      /\ inForce' = inForce /\ since' = since
  BY DEF Return
<1>2. /\ q.st = "done" /\ q.text = o.text /\ q.start = o.start
      /\ q.spans = IF Whole(Len(o.text)) THEN o.spans ELSE MergeSpans(o.spans)
      /\ q.skipped = o.skipped /\ q.asked = o.asked /\ q.reply = o.reply
  BY ScanFacts DEF RecordOK
<1> HIDE DEF q
<1>3. scan'[s] = q /\ \A p \in Scan \ {s} : scan'[p] = scan[p]
  BY <1>1, ScanFacts DEF Move
<1>4. o.text \in Seq(Int) /\ o.skipped \subseteq Chunks(Len(o.text))
  BY <1>1, ScanFacts, TextOK
<1>5. Collecting(o, sure)
  BY <1>1 DEF AllAnswered, Answered
<1>6. sure \subseteq Word /\ old \subseteq sure
  <2>1. o.start \in Nat /\ MaxAge \in Nat /\ Timeout \in Nat /\ \A w \in Word : since[w] \in Nat
    BY ScanFacts, BoundsAssumption DEF IndInv, TypeOK
  <2>2. o.start - MaxAge - Timeout <= o.start /\ o.start - MaxAge - Timeout \in Int
    BY <2>1
  <2>3. \A w \in Word : since[w] < o.start - MaxAge - Timeout => since[w] < o.start
    BY <2>1, <2>2
  <2> HIDE DEF o
  <2> QED BY <2>3 DEF Lasting, InForceBefore
<1>7. \A i \in o.skipped : \A w \in old : Places(Chunk(o.text, i), w) = {}
  BY DEF IndInv, SkippedFresh, Lasting
<1> HIDE DEF sure, old
<1>8. Exact(q) /\ FoundIn(q, old)
  <2> HIDE DEF o
  <2> QED BY <1>1, <1>2, <1>4, <1>5, <1>6, <1>7, ReturnFinds
<1>9. Answered(q, sure, old)
  BY <1>1, <1>2, <1>8 DEF Answered
<1> QED BY <1>1, <1>2, <1>3, <1>9, AnsweredStep DEF sure, old

\* A policy change can only take words out of those long in force.
LEMMA AnsweredPolicyChange ==
  ASSUME IndInv, AllAnswered, NEW words \in Policy, PolicyChange(words)
  PROVE  AllAnswered'
<1>1. scan' = scan /\ time \in Nat
  BY DEF PolicyChange, IndInv, TypeOK
<1>2. ASSUME NEW w \in Word, NEW m \in Int, m <= time, InForceBefore(w, m)'
      PROVE  InForceBefore(w, m)
  BY <1>2 DEF InForceBefore, PolicyChange, IndInv, TypeOK
<1>3. ASSUME NEW s \in Scan
      PROVE  Answered(scan[s], Lasting(scan[s].start), Lasting(scan[s].start - MaxAge - Timeout))'
  <2>1. PICK r : r = scan[s]
    OBVIOUS
  <2> DEFINE m == r.start
             n == r.start - MaxAge - Timeout
  <2>2. m \in Int /\ m <= time /\ n \in Int /\ n <= time
    <3>1. m \in Int /\ m <= time
      BY <1>1, <2>1, ScanFacts
    <3> QED BY <1>1, <3>1, BoundsAssumption
  <2>3. Answered(r, Lasting(m), Lasting(n))
    BY <2>1 DEF AllAnswered
  <2> HIDE DEF m, n
  <2>4. Lasting(m)' \subseteq Lasting(m) /\ Lasting(n)' \subseteq Lasting(n)
    BY <1>2, <2>2 DEF Lasting
  <2>5. Answered(r, Lasting(m)', Lasting(n)')
    BY <2>3, <2>4, AnsweredStays
  <2>6. scan'[s] = r
    BY <1>1, <2>1
  <2> QED BY ONLY <2>5, <2>6 DEF m, n, Lasting, InForceBefore
<1> QED BY <1>3 DEF AllAnswered

\* What leaves scans and policy alone leaves the invariant alone.
LEMMA AnsweredSame ==
  ASSUME AllAnswered, scan' = scan, inForce' = inForce, since' = since
  PROVE  AllAnswered'
BY DEF AllAnswered, Lasting, InForceBefore

\* Every step preserves the second invariant.
LEMMA AnsweredNext == IndInv /\ AllAnswered /\ [Next]_vars => AllAnswered'
<1> SUFFICES ASSUME IndInv, AllAnswered, [Next]_vars PROVE AllAnswered'
  OBVIOUS
<1>1. CASE UNCHANGED vars
  BY <1>1, AnsweredSame DEF vars
<1>2. ASSUME NEW s \in Scan, NEW t \in Text, Start(s, t) PROVE AllAnswered'
  BY <1>2, AnsweredStart
<1>3. ASSUME NEW s \in Scan, NEW i \in scan[s].asked, Serve(s, i) PROVE AllAnswered'
  BY <1>3, AnsweredServe
<1>4. ASSUME NEW s \in Scan, NEW i \in DOMAIN scan[s].reply, Receive(s, i) PROVE AllAnswered'
  BY <1>4, AnsweredReceive
<1>5. ASSUME NEW s \in Scan, NEW i, Fail(s, i) PROVE AllAnswered'
  BY <1>5, AnsweredFail
<1>6. ASSUME NEW s \in Scan, Return(s) PROVE AllAnswered'
  BY <1>6, AnsweredReturn
<1>7. ASSUME NEW words \in Policy, PolicyChange(words) PROVE AllAnswered'
  BY <1>7, AnsweredPolicyChange
<1>8. CASE ClearCache \/ Tick
  <2>1. scan' = scan /\ inForce' = inForce /\ since' = since
    BY <1>8 DEF ClearCache, Tick
  <2> QED BY <2>1, AnsweredSame
<1> QED BY <1>1, <1>2, <1>3, <1>4, <1>5, <1>6, <1>7, <1>8 DEF Next

-----------------------------------------------------------------------------
\* Both invariants hold throughout.
THEOREM Invariance == Spec => [](IndInv /\ AllAnswered)
<1>1. Init => IndInv /\ AllAnswered
  BY InitInv, AnsweredInit
<1>2. IndInv /\ AllAnswered /\ [Next]_vars => IndInv' /\ AllAnswered'
  BY NextInv, AnsweredNext
<1> QED BY <1>1, <1>2, PTL DEF Spec

\* Every variable keeps its type, and the cache its size.
THEOREM TypeCorrect == Spec => []TypeOK
<1>1. IndInv => TypeOK
  BY DEF IndInv
<1> QED BY <1>1, Invariance, PTL

\* The cache of clean chunks outlives a change of policy by at most the age
\* of an entry and the wait for an answer, whatever scans run concurrently.
THEOREM Freshness == Spec => []SkippedFresh
<1>1. IndInv => SkippedFresh
  BY DEF IndInv
<1> QED BY <1>1, Invariance, PTL

\* A scan returns disjoint spans that begin and end with words of its text,
\* however the text was cut and whichever policies its answers were given
\* under.
THEOREM Exactness == Spec => []SpansExact
<1>1. AllAnswered => SpansExact
  BY DEF AllAnswered, Answered, Exact, SpansExact
<1> QED BY <1>1, Invariance, PTL

\* No cut, no cached chunk and no merge costs a word that is no longer than
\* the overlap allows, scores more than what it overlaps and has been in
\* force for longer than the cache remembers.
THEOREM NothingLostToChunks == Spec => []FoundWhole
<1>1. AllAnswered => FoundWhole
  <2> SUFFICES ASSUME AllAnswered, NEW s \in Scan, NEW w \in Word,
                      scan[s].st = "done", Len(w) <= Overlap + 1,
                      InForceBefore(w, scan[s].start - MaxAge - Timeout),
                      NEW o \in Places(scan[s].text, w),
                      Strongest(o, Occurrences(scan[s].text, Word))
               PROVE  \E x \in scan[s].spans : Covers(x, o)
    BY DEF FoundWhole
  <2>1. FoundIn(scan[s], Lasting(scan[s].start - MaxAge - Timeout))
    BY DEF AllAnswered, Answered
  <2>2. w \in Lasting(scan[s].start - MaxAge - Timeout)
    BY DEF Lasting
  <2> QED BY <2>1, <2>2 DEF FoundIn
<1> QED BY <1>1, Invariance, PTL
=============================================================================
