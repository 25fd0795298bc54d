---------------------------- MODULE MatchProofs ----------------------------
(***************************************************************************)
(* Proofs about the operators of Routing that match a routing key: for     *)
(* patterns and keys of any length, matchTokens finds a match exactly when *)
(* the tokens can be laid over the words as a topic exchange does, and     *)
(* captures what the leftmost-shortest such reading assigns.               *)
(*                                                                         *)
(* Induction runs over how many tokens are left, as the absence of a least *)
(* counterexample.                                                         *)
(***************************************************************************)
EXTENDS Routing, FiniteSetTheorems, SequenceTheorems, TLAPS

-----------------------------------------------------------------------------
(* Numbers, maps and words *)

LEMMA LeastNatural ==
    ASSUME NEW T, T \subseteq Nat, T # {}
    PROVE  \E x \in T : \A y \in T : x <= y
<1> DEFINE Less == {ss \in Nat \X Nat : ss[1] < ss[2]}
<1>1. IsWellFoundedOn(Less, Nat)
  BY NatLessThanWellFounded DEF OpToRel
<1>2. \A x, y \in Nat : y < x => <<y, x>> \in Less
  OBVIOUS
<1> HIDE DEF Less
<1>3. PICK x \in T : \A y \in T : ~ (<<y, x>> \in Less)
  BY <1>1, WFMin
<1>4. \A y \in T : ~(y < x)
  BY <1>2, <1>3
<1>5. \A y \in T : x <= y
  BY <1>4
<1> QED
  BY <1>5

\* Induction up to n, over a set.
LEMMA Induction ==
    ASSUME NEW n \in Nat, NEW G, 0 \in G,
           \A d \in 0 .. n - 1 : d \in G => d + 1 \in G
    PROVE  \A d \in 0 .. n : d \in G
<1> DEFINE Bad == (0 .. n) \ G
<1> SUFFICES ASSUME Bad # {} PROVE FALSE
  OBVIOUS
<1>1. Bad \subseteq Nat
  OBVIOUS
<1> HIDE DEF Bad
<1>2. PICK d \in Bad : \A e \in Bad : d <= e
  BY <1>1, LeastNatural
<1> USE DEF Bad
<1>3. d # 0 /\ d - 1 \in 0 .. n - 1
  OBVIOUS
<1>4. d - 1 \in Bad
  BY <1>3
<1> QED
  BY <1>2, <1>4

\* First and Taken find the least element.
LEMMA FirstIsLeast ==
    ASSUME NEW T, T \subseteq Nat, T # {}
    PROVE  /\ First(T) \in T
           /\ \A y \in T : First(T) <= y
           /\ Taken(T) = {First(T)}
<1>1. PICK x \in T : \A y \in T : x <= y
  BY LeastNatural
<1>2. First(T) \in T /\ \A y \in T : First(T) <= y
  BY <1>1 DEF First
<1>3. ASSUME NEW y \in T, \A e \in T : y <= e
      PROVE  y = First(T)
  <2>1. y <= First(T) /\ First(T) <= y /\ y \in Nat /\ First(T) \in Nat
    BY <1>2, <1>3
  <2> QED
    BY <2>1
<1>4. Taken(T) = {First(T)}
  BY <1>2, <1>3 DEF Taken
<1> QED
  BY <1>2, <1>4

LEMMA EmptyMap ==
    ASSUME NEW f, f = [n \in DOMAIN f |-> f[n]], DOMAIN f = {}
    PROVE  f = <<>>
  OBVIOUS

LEMMA EmptyOver ==
    ASSUME NEW f, f = [n \in DOMAIN f |-> f[n]]
    PROVE  Over(<<>>, f) = f
  BY DEF Over

\* One word is joined to itself.
LEMMA JoinOne ==
    ASSUME NEW w
    PROVE  Join(<<w>>) = w
<1>1. Tail(<<w>>) = <<>> /\ Head(<<w>>) = w /\ <<w>> # <<>> /\ DOMAIN <<>> = {}
  OBVIOUS
<1>2. Join(<<w>>) = FoldLeft(LAMBDA t, v : t \o <<".">> \o v, w, <<>>)
  BY <1>1 DEF Join
<1> QED
  BY <1>1, <1>2 DEF FoldLeft, MapThenFoldSet

LEMMA TableIsSequence ==
    ASSUME NEW f, NEW n \in Nat, DOMAIN f = 1 .. n, f = [i \in 1 .. n |-> f[i]]
    PROVE  IsSeq(f)
<1> DEFINE S == {f[i] : i \in DOMAIN f}
<1>1. \A i \in 1 .. n : f[i] \in S
  OBVIOUS
<1> HIDE DEF S
<1>2. f \in [1 .. n -> S]
  BY <1>1
<1>3. f \in Seq(S)
  BY <1>2
<1> QED
  BY <1>3 DEF IsSeq, S

\* A text has a sequence of words.
LEMMA WordsSequence ==
    ASSUME NEW t, IsSeq(t)
    PROVE  IsSeq(splitDot(t))
<1> DEFINE cuts == {0, Len(t) + 1} \cup {i \in DOMAIN t : t[i] = "."}
           word(i) == SubSeq(t, SetToSortSeq(cuts, <)[i] + 1, SetToSortSeq(cuts, <)[i + 1] - 1)
<1>1. CASE t = <<>>
  BY <1>1 DEF splitDot, IsSeq
<1>2. CASE t # <<>>
  <2>1. Len(t) \in Nat /\ DOMAIN t = 1 .. Len(t)
    BY DEF IsSeq
  <2>2. cuts \subseteq 0 .. Len(t) + 1
    BY <2>1
  <2>3. IsFiniteSet(cuts)
    <3>1. IsFiniteSet(0 .. Len(t) + 1)
      BY <2>1, FS_Interval
    <3> QED
      BY <2>2, <3>1, FS_Subset
  <2>4. Cardinality(cuts) \in Nat
    BY <2>3, FS_CardinalityType
  <2>5. Cardinality(cuts) # 0
    BY <2>3, FS_EmptySet
  <2>6. splitDot(t) = [i \in 1 .. Cardinality(cuts) - 1 |-> word(i)]
    BY <1>2 DEF splitDot
  <2> HIDE DEF cuts, word
  <2>7. PICK n \in Nat : n = Cardinality(cuts) - 1
    BY <2>4, <2>5
  <2>8. splitDot(t) = [i \in 1 .. n |-> word(i)]
    BY <2>6, <2>7
  <2>9. DOMAIN splitDot(t) = 1 .. n /\ splitDot(t) = [i \in 1 .. n |-> splitDot(t)[i]]
    BY <2>8
  <2> QED
    BY <2>9, TableIsSequence
<1> QED
  BY <1>1, <1>2

LEMMA SequenceLength ==
    ASSUME NEW s, IsSeq(s)
    PROVE  Len(s) \in Nat /\ DOMAIN s = 1 .. Len(s)
  BY DEF IsSeq

\* A single word of a text, joined.
LEMMA JoinWord ==
    ASSUME NEW k, IsSeq(k), NEW j \in 1 .. Len(k)
    PROVE  Join(SubSeq(k, j, j)) = k[j]
<1> DEFINE S == {k[i] : i \in DOMAIN k}
<1>1. k \in Seq(S) /\ j \in Int /\ \A i \in j .. j : k[i] \in S
  BY DEF IsSeq
<1> HIDE DEF S
<1>2. /\ SubSeq(k, j, j) \in Seq(S) /\ Len(SubSeq(k, j, j)) = 1
      /\ SubSeq(k, j, j)[1] = k[j]
  <2>1. /\ SubSeq(k, j, j) \in Seq(S)
        /\ Len(SubSeq(k, j, j)) = IF j <= j THEN j - j + 1 ELSE 0
        /\ \A i \in 1 .. j - j + 1 : SubSeq(k, j, j)[i] = k[j + i - 1]
    BY <1>1, SubSeqProperties
  <2> QED
    BY <1>1, <2>1
<1>3. <<k[j]>> \in Seq(S) /\ Len(<<k[j]>>) = 1 /\ <<k[j]>>[1] = k[j]
  BY <1>1
<1>4. SubSeq(k, j, j) = <<k[j]>>
  <2>1. \A i \in 1 .. Len(SubSeq(k, j, j)) : SubSeq(k, j, j)[i] = <<k[j]>>[i]
    BY <1>2, <1>3
  <2> QED
    BY <1>2, <1>3, <2>1, SeqEqual
<1> QED
  BY <1>4, JoinOne

LEMMA PatternTokens ==
    ASSUME NEW p, IsPattern(p), NEW i \in DOMAIN p
    PROVE  /\ p[i].kind \in {"word", "star", "hash"}
           /\ p[i].kind = "word" => p[i].name = NoName
  BY DEF IsPattern, Lit, Star, Hash

-----------------------------------------------------------------------------
(* The recursion *)

\* What matchTokens makes of the tokens from i on, given what m holds for the
\* tokens after i.
Row(p, k, m, i) ==
    [j \in 1 .. Len(k) + 1 |->
       IF i <= Len(p) THEN matchToken(p, k, i, j, m[i + 1])
       ELSE IF j > Len(k) THEN {<<>>} ELSE {}]

\* A row depends on the row below it only.
LEMMA RowBelow ==
    ASSUME NEW p, NEW k, NEW f, NEW g, NEW i, i <= Len(p) => f[i + 1] = g[i + 1]
    PROVE  Row(p, k, f, i) = Row(p, k, g, i)
  BY DEF Row

\* The recursion has a solution: the rows can be filled in from the last one up.
LEMMA MatchEquation ==
    ASSUME NEW p, NEW k, Len(p) \in Nat
    PROVE  \A i \in 1 .. Len(p) + 1 : matchTokens(p, k)[i] = Row(p, k, matchTokens(p, k), i)
<1> DEFINE N == Len(p)
           Solves(f, d) == \A i \in N + 1 - d .. N + 1 : f[i] = Row(p, k, f, i)
           Solved == {d \in 0 .. N : \E f : Solves(f, d)}
<1>1. \A d \in 0 .. N : d \in Solved
  <2>1. 0 \in Solved
    <3> DEFINE f == [i \in 1 .. N + 1 |-> Row(p, k, <<>>, i)]
    <3>1. f[N + 1] = Row(p, k, <<>>, N + 1)
      OBVIOUS
    <3>2. Row(p, k, <<>>, N + 1) = Row(p, k, f, N + 1)
      BY RowBelow
    <3>3. Solves(f, 0)
      BY <3>1, <3>2
    <3> QED
      BY <3>3
  <2>2. ASSUME NEW d \in 0 .. N - 1, d \in Solved
        PROVE  d + 1 \in Solved
    <3>1. PICK g : Solves(g, d)
      BY <2>2
    <3> DEFINE f == [i \in 1 .. N + 1 |-> IF i = N - d THEN Row(p, k, g, i) ELSE g[i]]
    <3>2. ASSUME NEW i \in N - d .. N + 1 PROVE f[i] = Row(p, k, f, i)
      <4>1. i \in 1 .. N + 1
        OBVIOUS
      <4>2. i <= N => f[i + 1] = g[i + 1]
        BY <4>1
      <4> HIDE DEF f
      <4>3. Row(p, k, f, i) = Row(p, k, g, i)
        BY <4>2, RowBelow
      <4> USE DEF f
      <4>4. f[i] = Row(p, k, g, i)
        <5>1. CASE i = N - d
          BY <4>1, <5>1
        <5>2. CASE i # N - d
          <6>1. f[i] = g[i]
            BY <4>1, <5>2
          <6>2. i \in N + 1 - d .. N + 1
            BY <5>2
          <6> QED
            BY <3>1, <6>1, <6>2
        <5> QED
          BY <5>1, <5>2
      <4> QED
        BY <4>3, <4>4
    <3>3. Solves(f, d + 1)
      <4> HIDE DEF f
      <4> QED
        BY <3>2
    <3> HIDE DEF f, Solves
    <3> QED
      BY <3>3
  <2> HIDE DEF Solved
  <2> QED
    BY <2>1, <2>2, Induction
<1>2. PICK g : Solves(g, N)
  BY <1>1
<1> DEFINE f == [i \in 1 .. N + 1 |-> g[i]]
<1>3. f = [i \in 1 .. N + 1 |-> Row(p, k, f, i)]
  <2>1. ASSUME NEW i \in 1 .. N + 1 PROVE f[i] = Row(p, k, f, i)
    <3>1. i <= N => f[i + 1] = g[i + 1]
      OBVIOUS
    <3>2. Row(p, k, f, i) = Row(p, k, g, i)
      BY <3>1, RowBelow
    <3>3. g[i] = Row(p, k, g, i)
      BY <1>2
    <3> QED
      BY <3>2, <3>3
  <2> QED
    BY <2>1
<1> DEFINE IsSolution(h) == h = [i \in 1 .. N + 1 |-> Row(p, k, h, i)]
<1>4. matchTokens(p, k) = CHOOSE h : IsSolution(h)
  BY DEF matchTokens, Row
<1>5. IsSolution(matchTokens(p, k))
  <2> HIDE DEF f
  <2>1. \E h : IsSolution(h)
    BY <1>3
  <2> QED
    BY <1>4, <2>1
<1> QED
  BY <1>5

-----------------------------------------------------------------------------
(* Readings *)

\* The ways to lay the tokens from i on over the words from j on.
Readings(p, k, i, j) ==
    {s \in [i .. Len(p) + 1 -> 1 .. Len(k) + 1] :
       /\ s[i] = j /\ s[Len(p) + 1] = Len(k) + 1
       /\ \A h \in i .. Len(p) : Takes(p[h], k, s[h], s[h + 1])}

\* s begins some token earlier than t does, and none before that elsewhere.
Earlier(p, i, s, t) ==
    \E h \in i .. Len(p) + 1 : s[h] < t[h] /\ \A g \in i .. h - 1 : s[g] = t[g]

IsLeftmost(p, k, i, j, s) ==
    /\ s \in Readings(p, k, i, j)
    /\ \A t \in Readings(p, k, i, j) : s = t \/ Earlier(p, i, s, t)

NamedFrom(p, i) == {h \in i .. Len(p) : p[h].name # NoName}

\* What a reading gives the names of the tokens from i on.
Assigned(p, k, i, s) ==
    [n \in {p[h].name : h \in NamedFrom(p, i)} |->
       LET h == First({g \in NamedFrom(p, i) : p[g].name = n})
       IN Join(SubSeq(k, s[h], s[h + 1] - 1))]

\* Token i in front of a reading of the tokens after it.
Ahead(p, i, j, r) == [h \in i .. Len(p) + 1 |-> IF h = i THEN j ELSE r[h]]

\* The reading of the tokens after i.
After(p, i, s) == [h \in i + 1 .. Len(p) + 1 |-> s[h]]

LEMMA AheadReads ==
    ASSUME NEW p, NEW k, Len(p) \in Nat, Len(k) \in Nat,
           NEW i \in 1 .. Len(p), NEW j \in 1 .. Len(k) + 1, NEW n \in 1 .. Len(k) + 1,
           NEW r \in Readings(p, k, i + 1, n), Takes(p[i], k, j, n)
    PROVE  Ahead(p, i, j, r) \in Readings(p, k, i, j)
<1> DEFINE s == Ahead(p, i, j, r)
<1>1. r \in [i + 1 .. Len(p) + 1 -> 1 .. Len(k) + 1] /\ r[i + 1] = n
  BY DEF Readings
<1>2. /\ s \in [i .. Len(p) + 1 -> 1 .. Len(k) + 1]
      /\ s[i] = j /\ \A h \in i + 1 .. Len(p) + 1 : s[h] = r[h]
  BY <1>1 DEF Ahead
<1> HIDE DEF s
<1>3. s[Len(p) + 1] = Len(k) + 1
  BY <1>2 DEF Readings
<1>4. ASSUME NEW h \in i .. Len(p) PROVE Takes(p[h], k, s[h], s[h + 1])
  <2>1. CASE h = i
    BY <1>1, <1>2, <2>1
  <2>2. CASE h # i
    <3>1. h \in i + 1 .. Len(p) /\ s[h] = r[h] /\ s[h + 1] = r[h + 1]
      BY <1>2, <2>2
    <3> QED
      BY <3>1 DEF Readings
  <2> QED
    BY <2>1, <2>2
<1> QED
  BY <1>2, <1>3, <1>4 DEF Readings, s

LEMMA AfterReads ==
    ASSUME NEW p, NEW k, Len(p) \in Nat, Len(k) \in Nat,
           NEW i \in 1 .. Len(p), NEW j, NEW s \in Readings(p, k, i, j)
    PROVE  /\ s[i + 1] \in 1 .. Len(k) + 1
           /\ Takes(p[i], k, j, s[i + 1])
           /\ After(p, i, s) \in Readings(p, k, i + 1, s[i + 1])
           /\ s = Ahead(p, i, j, After(p, i, s))
<1>1. s \in [i .. Len(p) + 1 -> 1 .. Len(k) + 1] /\ s[i] = j
  BY DEF Readings
<1>2. s[i + 1] \in 1 .. Len(k) + 1
  BY <1>1
<1>3. Takes(p[i], k, j, s[i + 1])
  BY <1>1 DEF Readings
<1>4. After(p, i, s) \in Readings(p, k, i + 1, s[i + 1])
  <2> DEFINE r == After(p, i, s)
  <2>1. /\ r \in [i + 1 .. Len(p) + 1 -> 1 .. Len(k) + 1]
        /\ \A h \in i + 1 .. Len(p) + 1 : r[h] = s[h]
    BY <1>1 DEF After
  <2> HIDE DEF r
  <2>2. r[i + 1] = s[i + 1] /\ r[Len(p) + 1] = Len(k) + 1
    BY <2>1 DEF Readings
  <2>3. \A h \in i + 1 .. Len(p) : Takes(p[h], k, r[h], r[h + 1])
    BY <2>1 DEF Readings
  <2> QED
    BY <2>1, <2>2, <2>3 DEF Readings, r
<1>5. s = Ahead(p, i, j, After(p, i, s))
  <2>1. \A h \in i .. Len(p) + 1 :
          s[h] = IF h = i THEN j ELSE After(p, i, s)[h]
    BY <1>1 DEF After
  <2> QED
    BY <1>1, <2>1 DEF Ahead
<1> QED
  BY <1>2, <1>3, <1>4, <1>5

\* A leftmost reading of the rest, begun as early as any reading begins it, makes
\* a leftmost reading.
LEMMA AheadLeftmost ==
    ASSUME NEW p, NEW k, Len(p) \in Nat, Len(k) \in Nat,
           NEW i \in 1 .. Len(p), NEW j \in 1 .. Len(k) + 1, NEW n \in 1 .. Len(k) + 1,
           NEW r, IsLeftmost(p, k, i + 1, n, r), Takes(p[i], k, j, n),
           \A t \in Readings(p, k, i, j) : n <= t[i + 1]
    PROVE  IsLeftmost(p, k, i, j, Ahead(p, i, j, r))
<1> DEFINE s == Ahead(p, i, j, r)
<1>1. r \in Readings(p, k, i + 1, n)
  BY DEF IsLeftmost
<1>2. s \in Readings(p, k, i, j)
  BY <1>1, AheadReads
<1>3. s[i] = j /\ \A h \in i + 1 .. Len(p) + 1 : s[h] = r[h]
  BY DEF Ahead
<1>4. r[i + 1] = n
  BY <1>1 DEF Readings
<1>5. ASSUME NEW t \in Readings(p, k, i, j) PROVE s = t \/ Earlier(p, i, s, t)
  <2>1. /\ t[i + 1] \in 1 .. Len(k) + 1
        /\ After(p, i, t) \in Readings(p, k, i + 1, t[i + 1])
        /\ t = Ahead(p, i, j, After(p, i, t))
    BY AfterReads
  <2>4. t[i] = j
    BY DEF Readings
  <2> HIDE DEF s
  <2>2. CASE n < t[i + 1]
    <3>1. s[i + 1] < t[i + 1] /\ \A g \in i .. i + 1 - 1 : s[g] = t[g]
      BY <1>3, <1>4, <2>1, <2>2, <2>4
    <3> QED
      BY <3>1 DEF Earlier
  <2>3. CASE n = t[i + 1]
    <3>1. r = After(p, i, t) \/ Earlier(p, i + 1, r, After(p, i, t))
      BY <2>1, <2>3 DEF IsLeftmost
    <3>2. CASE r = After(p, i, t)
      BY <2>1, <3>2 DEF s
    <3>3. CASE Earlier(p, i + 1, r, After(p, i, t))
      <4>1. PICK h \in i + 1 .. Len(p) + 1 :
              /\ r[h] < After(p, i, t)[h]
              /\ \A g \in i + 1 .. h - 1 : r[g] = After(p, i, t)[g]
        BY <3>3 DEF Earlier
      <4>2. \A g \in i + 1 .. Len(p) + 1 : After(p, i, t)[g] = t[g]
        BY DEF After
      <4>3. s[h] < t[h]
        BY <1>3, <4>1, <4>2
      <4>4. ASSUME NEW g \in i .. h - 1 PROVE s[g] = t[g]
        <5>1. CASE g = i
          BY <1>3, <2>4, <5>1
        <5>2. CASE g # i
          <6>1. g \in i + 1 .. h - 1 /\ g \in i + 1 .. Len(p) + 1
            BY <5>2
          <6> QED
            BY <1>3, <4>1, <4>2, <6>1
        <5> QED
          BY <5>1, <5>2
      <4> QED
        BY <4>3, <4>4 DEF Earlier
    <3> QED
      BY <3>1, <3>2, <3>3
  <2> QED
    BY <2>1, <2>2, <2>3
<1> QED
  BY <1>2, <1>5 DEF IsLeftmost

\* A token further left decides what its name is assigned.
LEMMA AssignedAhead ==
    ASSUME NEW p, NEW k, Len(p) \in Nat, NEW i \in 1 .. Len(p), NEW j, NEW r
    PROVE  Assigned(p, k, i, Ahead(p, i, j, r))
             = Over(Capture(p[i], Join(SubSeq(k, j, r[i + 1] - 1))), Assigned(p, k, i + 1, r))
<1> DEFINE s == Ahead(p, i, j, r)
           Names(g) == {p[h].name : h \in NamedFrom(p, g)}
           Bears(g, n) == {h \in NamedFrom(p, g) : p[h].name = n}
           Value(t, h) == Join(SubSeq(k, t[h], t[h + 1] - 1))
<1>1. s[i] = j /\ \A h \in i + 1 .. Len(p) + 1 : s[h] = r[h]
  BY DEF Ahead
<1>2. Assigned(p, k, i, s) = [n \in Names(i) |-> Value(s, First(Bears(i, n)))]
  BY DEF Assigned
<1>3. Assigned(p, k, i + 1, r) = [n \in Names(i + 1) |-> Value(r, First(Bears(i + 1, n)))]
  BY DEF Assigned
<1> HIDE DEF s
<1>4. ASSUME NEW n \in Names(i + 1)
      PROVE  Value(s, First(Bears(i + 1, n))) = Value(r, First(Bears(i + 1, n)))
  <2>1. Bears(i + 1, n) \subseteq i + 1 .. Len(p) /\ Bears(i + 1, n) # {}
    BY DEF NamedFrom
  <2>2. First(Bears(i + 1, n)) \in i + 1 .. Len(p)
    <3> HIDE DEF Bears
    <3> QED
      BY <2>1, FirstIsLeast
  <2> QED
    BY <1>1, <2>2
<1>5. CASE p[i].name = NoName
  <2>1. NamedFrom(p, i) = NamedFrom(p, i + 1)
    BY <1>5 DEF NamedFrom
  <2>2. Assigned(p, k, i, s) = Assigned(p, k, i + 1, r)
    <3>1. Names(i) = Names(i + 1) /\ \A n : Bears(i, n) = Bears(i + 1, n)
      BY <2>1
    <3> HIDE DEF Names, Bears, Value
    <3> QED
      BY <1>2, <1>3, <1>4, <3>1
  <2>3. Over(<<>>, Assigned(p, k, i + 1, r)) = Assigned(p, k, i + 1, r)
    <3>1. Assigned(p, k, i + 1, r)
            = [n \in DOMAIN Assigned(p, k, i + 1, r) |-> Assigned(p, k, i + 1, r)[n]]
      <4> HIDE DEF Names, Bears, Value
      <4> QED
        BY <1>3
    <3> QED
      BY <3>1, EmptyOver
  <2> QED
    BY <1>5, <2>2, <2>3 DEF Capture, s
<1>6. CASE p[i].name # NoName
  <2>1. NamedFrom(p, i) = {i} \cup NamedFrom(p, i + 1) /\ i \notin NamedFrom(p, i + 1)
    BY <1>6 DEF NamedFrom
  <2>2. Names(i) = {p[i].name} \cup Names(i + 1)
    BY <2>1
  <2>3. First(Bears(i, p[i].name)) = i
    <3>1. /\ Bears(i, p[i].name) \subseteq i .. Len(p) /\ i \in Bears(i, p[i].name)
      BY <2>1 DEF NamedFrom
    <3> HIDE DEF Bears
    <3>2. First(Bears(i, p[i].name)) \in i .. Len(p) /\ First(Bears(i, p[i].name)) <= i
      BY <3>1, FirstIsLeast
    <3> QED
      BY <3>2
  <2>4. Value(s, i) = Join(SubSeq(k, j, r[i + 1] - 1))
    BY <1>1
  <2>5. \A n : n # p[i].name => Bears(i, n) = Bears(i + 1, n)
    BY <2>1
  <2> DEFINE v == Join(SubSeq(k, j, r[i + 1] - 1))
  <2>6. Capture(p[i], v) = [n \in {p[i].name} |-> v]
    BY <1>6 DEF Capture
  <2> HIDE DEF Names, Bears, Value, v
  <2>7. Over(Capture(p[i], v), Assigned(p, k, i + 1, r))
          = [n \in {p[i].name} \cup Names(i + 1) |->
               IF n \in {p[i].name} THEN v ELSE Value(r, First(Bears(i + 1, n)))]
    BY <1>3, <2>6 DEF Over
  <2>8. \A n \in Names(i) : Value(s, First(Bears(i, n)))
          = IF n \in {p[i].name} THEN v ELSE Value(r, First(Bears(i + 1, n)))
    BY <1>4, <2>2, <2>3, <2>4, <2>5 DEF v
  <2> QED
    BY <1>2, <2>2, <2>7, <2>8 DEF s, v
<1> QED
  BY <1>5, <1>6

-----------------------------------------------------------------------------
(* The matcher *)

\* matchTokens finds nothing when there is no reading, and what the leftmost one
\* assigns when there is.
Exact(p, k, i, j) ==
    \/ matchTokens(p, k)[i][j] = {} /\ Readings(p, k, i, j) = {}
    \/ \E s : IsLeftmost(p, k, i, j, s) /\ matchTokens(p, k)[i][j] = {Assigned(p, k, i, s)}

LEMMA ExactEnd ==
    ASSUME NEW p, NEW k, Len(p) \in Nat, Len(k) \in Nat, NEW j \in 1 .. Len(k) + 1
    PROVE  Exact(p, k, Len(p) + 1, j)
<1> DEFINE N == Len(p)
           s == [h \in N + 1 .. N + 1 |-> Len(k) + 1]
<1>1. matchTokens(p, k)[N + 1][j] = IF j > Len(k) THEN {<<>>} ELSE {}
  <2>1. matchTokens(p, k)[N + 1] = Row(p, k, matchTokens(p, k), N + 1)
    BY MatchEquation
  <2> QED
    BY <2>1 DEF Row
<1>2. CASE j <= Len(k)
  <2>1. Readings(p, k, N + 1, j) = {}
    BY <1>2 DEF Readings
  <2>2. matchTokens(p, k)[N + 1][j] = {}
    BY <1>1, <1>2
  <2> QED
    BY <2>1, <2>2 DEF Exact
<1>3. CASE j > Len(k)
  <2>1. j = Len(k) + 1
    BY <1>3
  <2>2. s \in Readings(p, k, N + 1, j)
    BY <2>1 DEF Readings
  <2>3. \A t \in Readings(p, k, N + 1, j) : s = t
    BY <2>1 DEF Readings
  <2>4. Assigned(p, k, N + 1, s) = <<>>
    <3>1. {p[h].name : h \in NamedFrom(p, N + 1)} = {}
      BY DEF NamedFrom
    <3>2. DOMAIN Assigned(p, k, N + 1, s) = {}
      BY <3>1 DEF Assigned
    <3> QED
      BY <3>2, EmptyMap DEF Assigned
  <2>5. matchTokens(p, k)[N + 1][j] = {<<>>}
    BY <1>1, <1>3
  <2>6. IsLeftmost(p, k, N + 1, j, s)
    BY <2>2, <2>3 DEF IsLeftmost
  <2> HIDE DEF s
  <2> QED
    BY <2>4, <2>5, <2>6 DEF Exact
<1> QED
  BY <1>2, <1>3

\* Token i, put in front of what the rest found from word n on.
LEMMA ExactAhead ==
    ASSUME NEW p, NEW k, Len(p) \in Nat, Len(k) \in Nat,
           NEW i \in 1 .. Len(p), NEW j \in 1 .. Len(k) + 1, NEW n \in 1 .. Len(k) + 1,
           Exact(p, k, i + 1, n), matchTokens(p, k)[i + 1][n] # {},
           Takes(p[i], k, j, n), \A t \in Readings(p, k, i, j) : n <= t[i + 1],
           matchTokens(p, k)[i][j]
             = {Over(Capture(p[i], Join(SubSeq(k, j, n - 1))), f) :
                  f \in matchTokens(p, k)[i + 1][n]}
    PROVE  Exact(p, k, i, j)
<1>1. PICK r : /\ IsLeftmost(p, k, i + 1, n, r)
               /\ matchTokens(p, k)[i + 1][n] = {Assigned(p, k, i + 1, r)}
  BY DEF Exact
<1>2. r[i + 1] = n
  BY <1>1 DEF IsLeftmost, Readings
<1>3. matchTokens(p, k)[i][j]
        = {Over(Capture(p[i], Join(SubSeq(k, j, r[i + 1] - 1))), Assigned(p, k, i + 1, r))}
  BY <1>1, <1>2
<1>4. Assigned(p, k, i, Ahead(p, i, j, r))
        = Over(Capture(p[i], Join(SubSeq(k, j, r[i + 1] - 1))), Assigned(p, k, i + 1, r))
  BY AssignedAhead
<1>5. IsLeftmost(p, k, i, j, Ahead(p, i, j, r))
  BY <1>1, AheadLeftmost
<1> QED
  BY <1>3, <1>4, <1>5 DEF Exact

LEMMA ExactStep ==
    ASSUME NEW p, NEW k, IsPattern(p), IsSeq(k), NEW i \in 1 .. Len(p),
           \A n \in 1 .. Len(k) + 1 : Exact(p, k, i + 1, n),
           NEW j \in 1 .. Len(k) + 1
    PROVE  Exact(p, k, i, j)
<1> DEFINE rest == matchTokens(p, k)[i + 1]
           c == matchTokens(p, k)[i][j]
<1>1. /\ Len(p) \in Nat /\ DOMAIN p = 1 .. Len(p)
      /\ Len(k) \in Nat /\ DOMAIN k = 1 .. Len(k)
  BY SequenceLength DEF IsPattern
<1>2. c = matchToken(p, k, i, j, rest)
  <2>1. matchTokens(p, k)[i] = Row(p, k, matchTokens(p, k), i)
    BY <1>1, MatchEquation
  <2> QED
    BY <1>1, <2>1 DEF Row
<1>3. ASSUME NEW t \in Readings(p, k, i, j)
      PROVE  /\ t[i + 1] \in 1 .. Len(k) + 1
             /\ Takes(p[i], k, j, t[i + 1])
             /\ rest[t[i + 1]] # {}
  <2>1. /\ t[i + 1] \in 1 .. Len(k) + 1 /\ Takes(p[i], k, j, t[i + 1])
        /\ After(p, i, t) \in Readings(p, k, i + 1, t[i + 1])
    BY <1>1, AfterReads
  <2>2. Exact(p, k, i + 1, t[i + 1])
    BY <2>1
  <2>3. rest[t[i + 1]] # {}
    BY <2>1, <2>2 DEF Exact
  <2> QED
    BY <2>1, <2>3
<1>4. p[i].kind \in {"word", "star", "hash"}
  BY <1>1, PatternTokens
<1>5. CASE p[i].kind = "hash"
  <2> DEFINE ends == {n \in Tried(j, k) : rest[n] # {}}
             found(n) == {Over(Capture(p[i], Join(SubSeq(k, j, n - 1))), f) : f \in rest[n]}
  <2>1. c = UNION {found(n) : n \in Taken(ends)}
    BY <1>2, <1>5 DEF matchToken
  <2>2. ends \subseteq j .. Len(k) + 1
    BY DEF Tried
  <2>3. \A t \in Readings(p, k, i, j) : t[i + 1] \in ends
    <3> SUFFICES ASSUME NEW t \in Readings(p, k, i, j) PROVE t[i + 1] \in ends
      OBVIOUS
    <3>1. j <= t[i + 1]
      BY <1>3, <1>5 DEF Takes
    <3> QED
      BY <1>1, <1>3, <3>1 DEF Tried
  <2>4. CASE ends = {}
    <3>1. Taken(ends) = {}
      BY <2>4 DEF Taken
    <3>2. c = {}
      <4> HIDE DEF ends, found
      <4> QED
        BY <2>1, <3>1
    <3>3. Readings(p, k, i, j) = {}
      <4> HIDE DEF ends
      <4> QED
        BY <2>3, <2>4
    <3> QED
      BY <3>2, <3>3 DEF Exact
  <2>5. CASE ends # {}
    <3> DEFINE n == First(ends)
    <3>1. n \in ends /\ (\A e \in ends : n <= e) /\ Taken(ends) = {n}
      <4> HIDE DEF ends
      <4>1. ends \subseteq Nat
        BY <1>1, <2>2
      <4> QED
        BY <2>5, <4>1, FirstIsLeast
    <3>2. n \in 1 .. Len(k) + 1 /\ j <= n /\ rest[n] # {}
      <4>1. rest[n] # {}
        BY <3>1
      <4> HIDE DEF ends, n
      <4>2. n \in j .. Len(k) + 1
        BY <2>2, <3>1
      <4> QED
        BY <1>1, <4>1, <4>2
    <3>3. c = found(n)
      <4> HIDE DEF ends, found, n
      <4> QED
        BY <2>1, <3>1
    <3> HIDE DEF ends, n
    <3>4. \A t \in Readings(p, k, i, j) : n <= t[i + 1]
      BY <2>3, <3>1
    <3>5. Takes(p[i], k, j, n)
      BY <1>5, <3>2 DEF Takes
    <3> QED
      BY <1>1, <3>2, <3>3, <3>4, <3>5, ExactAhead
  <2> QED
    BY <2>4, <2>5
<1>6. CASE p[i].kind # "hash"
  <2>1. \A t \in Readings(p, k, i, j) :
           /\ t[i + 1] = j + 1 /\ j <= Len(k) /\ rest[j + 1] # {}
           /\ p[i].kind = "word" => p[i].text = k[j]
    <3> SUFFICES ASSUME NEW t \in Readings(p, k, i, j)
                 PROVE  /\ t[i + 1] = j + 1 /\ j <= Len(k) /\ rest[j + 1] # {}
                        /\ p[i].kind = "word" => p[i].text = k[j]
      OBVIOUS
    <3>1. t[i + 1] = j + 1 /\ (p[i].kind = "word" => p[i].text = k[j])
      BY <1>3, <1>6 DEF Takes
    <3> QED
      BY <1>1, <1>3, <3>1
  <2>2. CASE j > Len(k) \/ (p[i].kind = "word" /\ p[i].text # k[j])
    <3>1. c = {}
      BY <1>2, <1>6, <2>2 DEF matchToken
    <3>2. Readings(p, k, i, j) = {}
      BY <1>1, <2>1, <2>2
    <3> QED
      BY <3>1, <3>2 DEF Exact
  <2>3. CASE ~(j > Len(k) \/ (p[i].kind = "word" /\ p[i].text # k[j]))
    <3>1. c = {Over(Capture(p[i], k[j]), f) : f \in rest[j + 1]}
      BY <1>2, <1>6, <2>3 DEF matchToken
    <3>2. j \in 1 .. Len(k) /\ j + 1 \in 1 .. Len(k) + 1
      BY <1>1, <2>3
    <3>3. CASE rest[j + 1] = {}
      <4>1. c = {}
        BY <3>1, <3>3
      <4>2. Readings(p, k, i, j) = {}
        BY <2>1, <3>3
      <4> QED
        BY <4>1, <4>2 DEF Exact
    <3>4. CASE rest[j + 1] # {}
      <4>1. k[j] = Join(SubSeq(k, j, (j + 1) - 1))
        BY <3>2, JoinWord
      <4>2. c = {Over(Capture(p[i], Join(SubSeq(k, j, (j + 1) - 1))), f) : f \in rest[j + 1]}
        BY <3>1, <4>1
      <4>3. Takes(p[i], k, j, j + 1)
        BY <1>4, <1>6, <2>3 DEF Takes
      <4>4. \A t \in Readings(p, k, i, j) : j + 1 <= t[i + 1]
        BY <2>1, <3>2
      <4> QED
        BY <1>1, <3>2, <3>4, <4>2, <4>3, <4>4, ExactAhead
    <3> QED
      BY <3>3, <3>4
  <2> QED
    BY <2>2, <2>3
<1> QED
  BY <1>5, <1>6

LEMMA MatchExact ==
    ASSUME NEW p, NEW k, IsPattern(p), IsSeq(k)
    PROVE  Exact(p, k, 1, 1)
<1> DEFINE N == Len(p)
           Done == {d \in 0 .. N : \A j \in 1 .. Len(k) + 1 : Exact(p, k, N + 1 - d, j)}
<1>1. N \in Nat /\ Len(k) \in Nat
  BY SequenceLength DEF IsPattern
<1>2. 0 \in Done
  <2>1. N + 1 - 0 = N + 1
    BY <1>1
  <2>2. \A j \in 1 .. Len(k) + 1 : Exact(p, k, N + 1, j)
    BY <1>1, ExactEnd
  <2> QED
    BY <1>1, <2>1, <2>2
<1>3. ASSUME NEW d \in 0 .. N - 1, d \in Done PROVE d + 1 \in Done
  <2>1. N - d \in 1 .. N /\ N + 1 - d = (N - d) + 1 /\ N + 1 - (d + 1) = N - d
    BY <1>1
  <2>2. \A j \in 1 .. Len(k) + 1 : Exact(p, k, (N - d) + 1, j)
    BY <1>3, <2>1
  <2>3. \A j \in 1 .. Len(k) + 1 : Exact(p, k, N - d, j)
    BY <2>1, <2>2, ExactStep
  <2> QED
    BY <1>1, <2>1, <2>3
<1>4. \A d \in 0 .. N : d \in Done
  <2> HIDE DEF N, Done
  <2> QED
    BY <1>1, <1>2, <1>3, Induction
<1> QED
  BY <1>1, <1>4

LEMMA ReadingsAreSplits ==
    ASSUME NEW p, NEW k, IsPattern(p)
    PROVE  Splits(p, k) = Readings(p, k, 1, 1)
<1>1. DOMAIN p = 1 .. Len(p)
  BY SequenceLength DEF IsPattern
<1> QED
  BY <1>1 DEF Splits, Readings

\* A name changes nothing at the broker.
LEMMA StrippedSplits ==
    ASSUME NEW p, NEW k, IsPattern(p)
    PROVE  /\ Splits(stripFieldNames(p), k) = Splits(p, k)
           /\ \A i \in DOMAIN stripFieldNames(p) : stripFieldNames(p)[i].name = NoName
<1> DEFINE q == stripFieldNames(p)
<1>1. Len(p) \in Nat /\ DOMAIN p = 1 .. Len(p)
  BY SequenceLength DEF IsPattern
<1>2. q = [i \in 1 .. Len(p) |-> [p[i] EXCEPT !.name = NoName]]
  BY <1>1 DEF stripFieldNames
<1>3. DOMAIN q = DOMAIN p /\ Len(q) = Len(p)
  BY <1>1, <1>2
<1>4. ASSUME NEW i \in DOMAIN p
      PROVE  q[i].name = NoName /\ q[i].kind = p[i].kind /\ q[i].text = p[i].text
  <2>1. p[i] \in {Lit(p[i].text), Star(p[i].name), Hash(p[i].name)}
    BY DEF IsPattern
  <2>2. DOMAIN p[i] = {"kind", "name", "text"}
    BY <2>1 DEF Lit, Star, Hash
  <2>3. q[i] = [p[i] EXCEPT !.name = NoName]
    BY <1>1, <1>2
  <2> QED
    BY <2>2, <2>3
<1> HIDE DEF q
<1>5. \A i \in DOMAIN p : \A a, b : Takes(q[i], k, a, b) <=> Takes(p[i], k, a, b)
  BY <1>4 DEF Takes
<1>6. Splits(q, k) = Splits(p, k)
  BY <1>3, <1>5 DEF Splits
<1> QED
  BY <1>3, <1>4, <1>6 DEF q

\* For every pattern and every key, the receiver's matcher accepts what a queue
\* bound with the bare pattern would have received.
THEOREM MatcherIsBrokers ==
    ASSUME NEW p, NEW key, IsPattern(p), IsSeq(key)
    PROVE  match(p, key) # {} <=> TopicMatches(stripFieldNames(p), key)
<1> DEFINE k == splitDot(key)
<1>1. IsSeq(k)
  BY WordsSequence
<1> HIDE DEF k
<1>2. Exact(p, k, 1, 1)
  BY <1>1, MatchExact
<1>3. matchTokens(p, k)[1][1] # {} <=> Splits(p, k) # {}
  BY <1>2, ReadingsAreSplits DEF Exact, IsLeftmost
<1> QED
  BY <1>3, StrippedSplits DEF match, TopicMatches, k

\* There is one leftmost reading.
LEMMA LeftmostIs ==
    ASSUME NEW p, NEW k, IsPattern(p), IsSeq(k), NEW s, IsLeftmost(p, k, 1, 1, s)
    PROVE  Leftmost(p, k) = s
<1> DEFINE Least(r) ==
              \A t \in Splits(p, k) :
                 r = t \/ \E i \in DOMAIN r : r[i] < t[i] /\ \A j \in 1 .. i - 1 : r[j] = t[j]
<1>1. Len(p) \in Nat /\ Len(k) \in Nat
  BY SequenceLength DEF IsPattern
<1>2. \A t \in Splits(p, k) : t \in [1 .. Len(p) + 1 -> 1 .. Len(k) + 1]
  BY DEF Splits
<1>3. s \in Splits(p, k) /\ Least(s)
  <2>1. s \in Splits(p, k) /\ DOMAIN s = 1 .. Len(p) + 1
    BY <1>2, ReadingsAreSplits DEF IsLeftmost
  <2> QED
    BY <2>1, ReadingsAreSplits DEF IsLeftmost, Earlier
<1>4. ASSUME NEW r \in Splits(p, k), Least(r) PROVE r = s
  <2> SUFFICES ASSUME r # s PROVE FALSE
    OBVIOUS
  <2>1. PICK g \in 1 .. Len(p) + 1 : r[g] < s[g] /\ \A j \in 1 .. g - 1 : r[j] = s[j]
    BY <1>2, <1>3, <1>4
  <2>2. PICK h \in 1 .. Len(p) + 1 : s[h] < r[h] /\ \A j \in 1 .. h - 1 : s[j] = r[j]
    BY <1>2, <1>3
  <2>3. /\ r[g] \in Nat /\ s[g] \in Nat /\ r[h] \in Nat /\ s[h] \in Nat
    <3>1. \A i \in 1 .. Len(p) + 1 : r[i] \in 1 .. Len(k) + 1 /\ s[i] \in 1 .. Len(k) + 1
      BY <1>2, <1>3
    <3> QED
      BY <1>1, <3>1
  <2>4. CASE g < h
    BY <1>1, <2>1, <2>2, <2>3, <2>4
  <2>5. CASE h < g
    BY <1>1, <2>1, <2>2, <2>3, <2>5
  <2>6. CASE g = h
    BY <2>1, <2>2, <2>3, <2>6
  <2> QED
    BY <1>1, <2>4, <2>5, <2>6
<1>5. Leftmost(p, k) = CHOOSE r \in Splits(p, k) : Least(r)
  BY DEF Leftmost
<1> HIDE DEF Least
<1> QED
  BY <1>3, <1>4, <1>5

\* For every pattern and every key, a match captures what the leftmost-shortest
\* reading of the pattern assigns, each name decided by its leftmost wildcard.
THEOREM MatcherCapturesLeftmost ==
    ASSUME NEW p, NEW key, IsPattern(p), IsSeq(key), match(p, key) # {}
    PROVE  match(p, key) = {LeftmostCaptures(p, splitDot(key))}
<1> DEFINE k == splitDot(key)
<1>1. IsSeq(k)
  BY WordsSequence
<1>2. PICK s : IsLeftmost(p, k, 1, 1, s) /\ matchTokens(p, k)[1][1] = {Assigned(p, k, 1, s)}
  BY <1>1, MatchExact DEF Exact, match
<1>3. s = Leftmost(p, k)
  BY <1>1, <1>2, LeftmostIs
<1>4. NamedFrom(p, 1) = {j \in DOMAIN p : p[j].name # NoName}
  BY SequenceLength DEF IsPattern, NamedFrom
<1>5. match(p, key) = {Assigned(p, k, 1, Leftmost(p, k))}
  BY <1>2, <1>3 DEF match
<1> HIDE DEF k
<1> QED
  BY <1>4, <1>5 DEF Assigned, LeftmostCaptures, k

=============================================================================
